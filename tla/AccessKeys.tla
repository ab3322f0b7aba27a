----------------------------- MODULE AccessKeys -----------------------------
(***************************************************************************)
(* The quota server's operations on access keys.  A handler is a sequence   *)
(* of calls of the store, each of which may fail, with a copy of every      *)
(* record it has read; nothing locks a project between two calls.  Every    *)
(* update of the store is followed by the deletion of the key's cached      *)
(* quota (Purge), whose effect module AccessQuota adds.                     *)
(***************************************************************************)
EXTENDS KeyStore, Sequences

CONSTANTS
  Handlers,     \* goroutines of the server that manage keys
  Invalid,      \* settings with origins that do not parse
  Faults,       \* what goes wrong, see FaultKinds
  InitialKeys,  \* the stores a behaviour may start from
  MaxCalls      \* bound: calls in a behaviour

FaultKinds == {"store",     \* a call of the store fails, done or not
               "crash",     \* the server dies
               "disabled"}  \* callers make disabled keys the default

(* One handler at a time, and none asked to make a disabled key the default: *)
(* the server would do it, and the project would have no default to be seen. *)
Serial == \A g, h \in Handlers : g = h
Orderly == Serial /\ "disabled" \notin Faults

Call == [op : {"create"}, project : Projects, settings : Settings \cup {Invalid}]
        \cup [op : {"rotate", "disable"}, key : Keys]
        \cup [op : {"update"}, key : Keys, settings : Settings \cup {Invalid}]
        \cup [op : {"default"}, key : Keys, project : Projects]

VARIABLES
  pc,           \* the call of the store each handler is at
  call,         \* what it was asked
  copy,         \* the record it has read or built
  owed,         \* a rotation: the old key was the default
  second,       \* it has come to the update that makes a key the default
  todo,         \* the updates it has decided on, in order
  calls,        \* calls left, for the bound
  reply         \* the answer given in the last step of a handler, if any

local == <<copy, owed, second, todo>>
handlers == <<pc, call, local, calls, reply>>
keyVars == <<keys, handlers>>

NoCall == [op |-> "none"]
Update == [key : Keys, record : Record]
Labels == {"idle", "find", "count", "list", "insert", "write", "purge", "default", "promote"}
Errors == {"none", "not_found", "denied", "invalid", "at_least_one", "no_default", "panic", "store"}
NoReply == [to |-> {}]

HandlersTypeOK ==
  /\ pc \in [Handlers -> Labels]
  /\ call \in [Handlers -> Call \cup {NoCall}]
  /\ copy \in [Handlers -> Record \cup {Missing}]
  /\ owed \in [Handlers -> BOOLEAN] /\ second \in [Handlers -> BOOLEAN]
  /\ todo \in [Handlers -> Seq(Update)]
  /\ calls \in 0..MaxCalls
  /\ reply \in {NoReply} \cup [to : {{h} : h \in Handlers}, err : Errors]

ASSUME AccessKeysAssumption ==
  /\ InitialKeys \subseteq [Keys -> Record \cup {Missing}]
  /\ Invalid \notin Settings
  /\ Faults \subseteq FaultKinds
  /\ MaxCalls \in Nat

HandlersInit ==
  /\ pc = [h \in Handlers |-> "idle"]
  /\ call = [h \in Handlers |-> NoCall]
  /\ copy = [h \in Handlers |-> Missing]
  /\ owed = [h \in Handlers |-> FALSE]
  /\ second = [h \in Handlers |-> FALSE]
  /\ todo = [h \in Handlers |-> <<>>]
  /\ calls \in 0..MaxCalls
  /\ reply = NoReply

Init == keys \in InitialKeys /\ HandlersInit

-----------------------------------------------------------------------------
(* Control of one handler. *)

ProjectFor(h) == IF call[h].op \in {"create", "default"}
                   THEN call[h].project ELSE ProjectOf[call[h].key]

Goto(h, label) ==
  /\ pc' = [pc EXCEPT ![h] = label]
  /\ reply' = NoReply
  /\ UNCHANGED <<call, calls>>

Reset(h) ==
  /\ pc' = [pc EXCEPT ![h] = "idle"]
  /\ call' = [call EXCEPT ![h] = NoCall]
  /\ copy' = [copy EXCEPT ![h] = Missing]
  /\ owed' = [owed EXCEPT ![h] = FALSE]
  /\ second' = [second EXCEPT ![h] = FALSE]
  /\ todo' = [todo EXCEPT ![h] = <<>>]
  /\ UNCHANGED calls

Return(h, err) == Reset(h) /\ reply' = [to |-> {h}, err |-> err]

Remember(h, record) ==
  copy' = [copy EXCEPT ![h] = record] /\ UNCHANGED <<owed, second, todo>>

(* The handler will update the store: the records it writes are built here  *)
(* from the copies it holds.                                                *)
Plan(h, updates) ==
  /\ todo' = [todo EXCEPT ![h] = updates]
  /\ Goto(h, "write")

Start(h, c, label) ==
  /\ pc[h] = "idle" /\ calls > 0
  /\ pc' = [pc EXCEPT ![h] = label]
  /\ call' = [call EXCEPT ![h] = c]
  /\ calls' = calls - 1
  /\ reply' = NoReply
  /\ UNCHANGED <<keys, local>>

(* The model has names for a few keys; the code draws 128 random bits. *)
FreshKeys(p) == {k \in Keys : ~Found(k) /\ ProjectOf[k] = p}

CreateAccessKey(h) ==
  \E p \in Projects, s \in Settings \cup {Invalid} :
    /\ FreshKeys(p) # {}
    /\ Start(h, [op |-> "create", project |-> p, settings |-> s], "list")

RotateAccessKey(h) ==
  \E k \in Keys :
    /\ FreshKeys(ProjectOf[k]) # {}
    /\ Start(h, [op |-> "rotate", key |-> k], "find")

UpdateAccessKey(h) ==
  \E k \in Keys, s \in Settings \cup {Invalid} :
    Start(h, [op |-> "update", key |-> k, settings |-> s], "find")

DisableAccessKey(h) ==
  \E k \in Keys : Start(h, [op |-> "disable", key |-> k], "find")

SetDefaultAccessKey(h) ==
  \E k \in Keys, p \in Projects :
    /\ "disabled" \in Faults \/ k \in ActiveKeys(ProjectOf[k]) \/ ~Found(k)
    /\ Start(h, [op |-> "default", key |-> k, project |-> p], "find")

-----------------------------------------------------------------------------
(* The steps of the handlers. *)

UpdatedBy(record, s) == [record EXCEPT !.settings = s]

UncheckedOrigins(s) == TRUE                           \* mutant
ValidOrigins(s) == s # Invalid

NotCrowned(record) == record                          \* mutant: Default forgotten
Crowned(record) == [record EXCEPT !.default = TRUE]
Retired(record) == [record EXCEPT !.active = FALSE, !.default = FALSE]

FindKey(h) ==
  /\ pc[h] = "find"
  /\ UNCHANGED keys
  /\ LET c == call[h]
         record == keys[c.key]
     IN \/ record = Missing /\ Return(h, "not_found")
        \/ /\ record # Missing /\ c.op = "rotate"
           /\ copy' = [copy EXCEPT ![h] = record]
           /\ owed' = [owed EXCEPT ![h] = record.default]
           /\ Plan(h, <<[key |-> c.key, record |-> Retired(record)]>>)
           /\ UNCHANGED second
        \/ /\ record # Missing /\ c.op = "update"
           /\ \/ ~ValidOrigins(c.settings) /\ Return(h, "invalid")
              \/ /\ ValidOrigins(c.settings)
                 /\ Plan(h, <<[key |-> c.key, record |-> UpdatedBy(record, c.settings)]>>)
                 /\ UNCHANGED <<copy, owed, second>>
        \/ /\ record # Missing /\ c.op = "disable"
           /\ Remember(h, record) /\ Goto(h, "count")
        \/ /\ record # Missing /\ c.op = "default"
           /\ \/ ProjectOf[c.key] # c.project /\ Return(h, "denied")
              \/ /\ ProjectOf[c.key] = c.project
                 /\ Remember(h, record) /\ Goto(h, "default")

CountNothing(h) == FALSE                              \* mutant: the check dropped
LastActive(h) == Cardinality(ActiveKeys(ProjectFor(h))) = 1

(* DisableAccessKey counts the active keys, the one to disable or not. *)
CountActive(h) ==
  /\ pc[h] = "count"
  /\ UNCHANGED keys
  /\ \/ LastActive(h) /\ Return(h, "at_least_one")
     \/ /\ ~LastActive(h)
        /\ Plan(h, <<[key |-> call[h].key, record |-> Retired(copy[h])]>>)
        /\ UNCHANGED <<copy, owed, second>>

DefaultIfFirst(p) == ActiveKeys(p) = {}

(* CreateAccessKey, on its own or at the end of a rotation: the record. *)
ListActive(h) ==
  /\ pc[h] = "list"
  /\ UNCHANGED keys
  /\ LET settings == IF call[h].op = "create" THEN call[h].settings ELSE copy[h].settings
     IN \/ ~ValidOrigins(settings) /\ Return(h, "invalid")
        \/ /\ ValidOrigins(settings)
           /\ Remember(h, [active |-> TRUE,
                           default |-> DefaultIfFirst(ProjectFor(h)),
                           settings |-> settings])
           /\ Goto(h, "insert")

InsertKey(h) ==
  /\ pc[h] = "insert"
  /\ \E k \in FreshKeys(ProjectFor(h)) :
       /\ Put(k, copy[h])
       /\ \/ ~owed[h] /\ Return(h, "none")
          \/ /\ owed[h]
             /\ Plan(h, <<[key |-> k, record |-> Crowned(copy[h])]>>)
             /\ second' = [second EXCEPT ![h] = TRUE]
             /\ UNCHANGED <<copy, owed>>

(* updateAccessKey: the store, then the cache. *)
WriteKey(h) ==
  /\ pc[h] = "write"
  /\ Put(Head(todo[h]).key, Head(todo[h]).record)
  /\ Goto(h, "purge") /\ UNCHANGED local

Purge(h) ==
  /\ pc[h] = "purge"
  /\ UNCHANGED keys
  /\ LET rest == Tail(todo[h])
         more(label) == /\ todo' = [todo EXCEPT ![h] = rest]
                        /\ Goto(h, label) /\ UNCHANGED <<copy, owed, second>>
     IN \/ rest # <<>> /\ more("write")
        \/ rest = <<>> /\ ~second[h] /\ call[h].op = "rotate" /\ more("list")
        \/ rest = <<>> /\ ~second[h] /\ call[h].op = "disable" /\ more("default")
        \/ /\ rest = <<>>
           /\ second[h] \/ call[h].op \in {"update", "default"}
           /\ Return(h, "none")

CrownFirst(h, old) ==                                 \* mutant: two defaults meanwhile
  <<[key |-> call[h].key, record |-> Crowned(copy[h])],
    [key |-> old, record |-> [keys[old] EXCEPT !.default = FALSE]]>>
MoveDefault(h, old) ==
  <<[key |-> old, record |-> [keys[old] EXCEPT !.default = FALSE]],
    [key |-> call[h].key, record |-> Crowned(copy[h])]>>

(* GetDefaultAccessKey, in SetDefaultAccessKey and in DisableAccessKey. *)
GetDefault(h) ==
  /\ pc[h] = "default"
  /\ UNCHANGED keys
  /\ LET found == DefaultKeys(ProjectFor(h))
     IN \/ /\ call[h].op = "default"
           /\ \/ found = {} /\ Return(h, "no_default")
              \/ call[h].key \in found /\ Return(h, "none")
              \/ \E old \in found \ {call[h].key} :
                   Plan(h, MoveDefault(h, old)) /\ UNCHANGED <<copy, owed, second>>
        \/ /\ call[h].op = "disable"
           /\ \/ found # {} /\ Return(h, "none")
              \/ found = {} /\ Goto(h, "promote") /\ UNCHANGED local

(* DisableAccessKey makes the first active key it finds the default. *)
Promote(h) ==
  /\ pc[h] = "promote"
  /\ UNCHANGED keys
  /\ LET active == ActiveKeys(ProjectFor(h))
     IN \/ active = {} /\ Return(h, "panic")
        \/ \E k \in active :
             /\ Plan(h, <<[key |-> k, record |-> Crowned(keys[k])]>>)
             /\ second' = [second EXCEPT ![h] = TRUE]
             /\ UNCHANGED <<copy, owed>>

(* A call of the store fails; a write may have been done all the same.      *)
(* DisableAccessKey takes any error of GetDefaultAccessKey for a default.   *)
StoreFails(h) ==
  /\ "store" \in Faults
  /\ pc[h] \notin {"idle", "purge"}
  /\ Return(h, IF pc[h] = "default" /\ call[h].op = "disable" THEN "none" ELSE "store")
  /\ \/ UNCHANGED keys
     \/ pc[h] = "write" /\ Put(Head(todo[h]).key, Head(todo[h]).record)
     \/ pc[h] = "insert" /\ \E k \in FreshKeys(ProjectFor(h)) : Put(k, copy[h])

Crash(h) ==
  /\ "crash" \in Faults
  /\ pc[h] # "idle"
  /\ Reset(h) /\ reply' = NoReply
  /\ UNCHANGED keys

HandlerStep(h) ==
  \/ CreateAccessKey(h) \/ RotateAccessKey(h) \/ UpdateAccessKey(h)
  \/ DisableAccessKey(h) \/ SetDefaultAccessKey(h)
  \/ FindKey(h) \/ CountActive(h) \/ ListActive(h) \/ InsertKey(h) \/ WriteKey(h)
  \/ GetDefault(h) \/ Promote(h) \/ StoreFails(h) \/ Crash(h)

Next == \E h \in Handlers : HandlerStep(h) \/ Purge(h)
Spec == Init /\ [][Next]_keyVars

-----------------------------------------------------------------------------
(* Properties. *)

Answered(h, err) == pc[h] # "idle" /\ reply' = [to |-> {h}, err |-> err]

(* The operations keep the registry, whatever interrupts them: no key comes *)
(* back once disabled, no project has two default keys or an inactive one   *)
(* (server.go 342-554).                                                     *)
Registry == INSTANCE KeyRegistry
KeysAsRegistry == Registry!RegistrySpec

(* Only a rotation under way may leave a project without an active key:     *)
(* ErrAtLeastOneKey, server.go 499-501.  Two handlers that disable the last *)
(* two keys of a project at once each count two, and leave none.            *)
ActiveKeyKept ==
  [][\A p \in Projects :
       ActiveKeys(p) # {} /\ ActiveKeys(p)' = {} =>
         \E h \in Handlers : call[h].op = "rotate"]_keyVars

(* What a successful call leaves behind (server.go 388-525): a rotation a   *)
(* new active key and the old one disabled, with the default handed on; a   *)
(* disabled key is disabled, and some active key is the default, unless the *)
(* lookup of the default failed; and SetDefaultAccessKey makes its key the  *)
(* only default of the project, unless the key is disabled.                 *)
SuccessMeans ==
  [][\A h \in Handlers, p \in Projects :
       Answered(h, "none") /\ p = ProjectFor(h) =>
         LET op == call[h].op
         IN /\ op \in {"rotate", "disable"} => ~keys'[call[h].key].active
            /\ op \in {"rotate", "create"} => ActiveKeys(p)' # {}
            /\ op = "rotate" /\ owed[h] => DefaultKeys(p)' # {}
            /\ op = "disable" /\ pc[h] # "default" => DefaultKeys(p)' # {}
            /\ op = "default" => DefaultKeys(p)' = {call[h].key}]_keyVars
=============================================================================
