-------------------------- MODULE AccessKeysProofs --------------------------
(***************************************************************************)
(* The handlers of access keys, in any number and with any failures, change *)
(* the store only by replacing records by records.  One handler at a time   *)
(* also keeps the registry, and an active key of every project.             *)
(***************************************************************************)
EXTENDS AccessKeys, TLAPS, SequenceTheorems, FiniteSetTheorems

OnKey == {"rotate", "disable", "update", "default"}

(* What a handler is between two calls of the store: at a place of the      *)
(* operation it was called for, with the record it has read or built and    *)
(* the updates it has decided on.                                           *)
HandlerIs(label, c, record, updates) ==
  /\ label # "idle" => c \in Call
  /\ label = "find" => c.op \in OnKey
  /\ label = "count" => c.op = "disable" /\ record \in Record
  /\ label = "list" => c.op = "create" \/ (c.op = "rotate" /\ record \in Record)
  /\ label = "insert" => c.op \in {"create", "rotate"} /\ record \in Record
  /\ label \in {"write", "purge"} =>
       /\ updates # <<>>
       /\ c.op = "rotate" => record \in Record
  /\ label = "default" => c.op = "disable" \/ (c.op = "default" /\ record \in Record)
  /\ label = "promote" => c.op = "disable"

HandlersInv ==
  /\ KeysTypeOK /\ HandlersTypeOK
  /\ \A h \in Handlers : HandlerIs(pc[h], call[h], copy[h], todo[h])

LEMMA CallTypes ==
  ASSUME NEW c \in Call
  PROVE  /\ c.op \in {"create", "rotate", "disable", "update", "default"}
         /\ c.op = "create" => c.project \in Projects /\ c.settings \in Settings \cup {Invalid}
         /\ c.op \in OnKey => c.key \in Keys
         /\ c.op = "update" => c.settings \in Settings \cup {Invalid}
         /\ c.op = "default" => c.project \in Projects
  BY DEF Call, OnKey

LEMMA InitHandlers == Init => HandlersInv
  BY AccessKeysAssumption
  DEF Init, HandlersInit, HandlersInv, HandlersTypeOK, KeysTypeOK, HandlerIs, Labels, Call, NoCall

LocalTypes ==
  /\ pc \in [Handlers -> Labels] /\ call \in [Handlers -> Call \cup {NoCall}]
  /\ copy \in [Handlers -> Record \cup {Missing}]
  /\ owed \in [Handlers -> BOOLEAN] /\ second \in [Handlers -> BOOLEAN]
  /\ todo \in [Handlers -> Seq(Update)]

(* One handler moves, the others stay. *)
LEMMA HandlerMoves ==
  ASSUME HandlersInv, NEW h \in Handlers,
         NEW l \in Labels, NEW c \in Call \cup {NoCall}, NEW r \in Record \cup {Missing},
         NEW u \in Seq(Update), HandlerIs(l, c, r, u),
         pc' = [pc EXCEPT ![h] = l], call' = [call EXCEPT ![h] = c],
         copy' = [copy EXCEPT ![h] = r], todo' = [todo EXCEPT ![h] = u],
         KeysTypeOK', owed' \in [Handlers -> BOOLEAN], second' \in [Handlers -> BOOLEAN],
         calls' \in 0..MaxCalls,
         reply' \in {NoReply} \cup [to : {{g} : g \in Handlers}, err : Errors]
  PROVE  HandlersInv'
<1>1. HandlersTypeOK'
  BY DEF HandlersInv, HandlersTypeOK
<1>2. ASSUME NEW g \in Handlers PROVE HandlerIs(pc'[g], call'[g], copy'[g], todo'[g])
<2>1. HandlerIs(pc[g], call[g], copy[g], todo[g])
  BY DEF HandlersInv
<2>2. /\ pc'[g] = IF g = h THEN l ELSE pc[g]
      /\ call'[g] = IF g = h THEN c ELSE call[g]
      /\ copy'[g] = IF g = h THEN r ELSE copy[g]
      /\ todo'[g] = IF g = h THEN u ELSE todo[g]
  BY DEF HandlersInv, HandlersTypeOK
<2> QED
  BY <2>1, <2>2
<1> QED
  BY <1>1, <1>2 DEF HandlersInv, HandlerIs

(* The ends of a call, and a move to another place in it. *)
Replies == {NoReply} \cup [to : {{g} : g \in Handlers}, err : Errors]

LEMMA ReplyTypes ==
  NoReply \in Replies /\ \A h \in Handlers, e \in Errors : [to |-> {h}, err |-> e] \in Replies
  BY DEF Replies

LEMMA ResetKeeps ==
  ASSUME HandlersInv, NEW h \in Handlers, Reset(h), KeysTypeOK', reply' \in Replies
  PROVE  HandlersInv'
<1>1. HandlerIs("idle", NoCall, Missing, <<>>) /\ "idle" \in Labels
  BY DEF HandlerIs, Labels
<1>2. /\ owed' \in [Handlers -> BOOLEAN] /\ second' \in [Handlers -> BOOLEAN]
      /\ calls' \in 0..MaxCalls
  BY DEF Reset, HandlersInv, HandlersTypeOK
<1>3. /\ pc' = [pc EXCEPT ![h] = "idle"] /\ call' = [call EXCEPT ![h] = NoCall]
      /\ copy' = [copy EXCEPT ![h] = Missing] /\ todo' = [todo EXCEPT ![h] = <<>>]
  BY DEF Reset
<1>4. <<>> \in Seq(Update)
  OBVIOUS
<1> QED
  BY <1>1, <1>2, <1>3, <1>4, HandlerMoves DEF Replies

LEMMA ReturnKeeps ==
  ASSUME HandlersInv, NEW h \in Handlers, NEW e \in Errors, Return(h, e), KeysTypeOK'
  PROVE  HandlersInv'
  BY ReplyTypes, ResetKeeps DEF Return

LEMMA GotoKeeps ==
  ASSUME HandlersInv, NEW h \in Handlers, NEW l \in Labels,
         NEW r \in Record \cup {Missing}, NEW u \in Seq(Update),
         Goto(h, l), copy' = [copy EXCEPT ![h] = r], todo' = [todo EXCEPT ![h] = u],
         HandlerIs(l, call[h], r, u), KeysTypeOK',
         owed' \in [Handlers -> BOOLEAN], second' \in [Handlers -> BOOLEAN]
  PROVE  HandlersInv'
<1> DEFINE c == call[h]
<1>1. c \in Call \cup {NoCall} /\ call' = [call EXCEPT ![h] = c]
  BY DEF Goto, HandlersInv, HandlersTypeOK
<1>2. /\ pc' = [pc EXCEPT ![h] = l] /\ calls' \in 0..MaxCalls /\ reply' \in Replies
  BY ReplyTypes DEF Goto, HandlersInv, HandlersTypeOK
<1>3. HandlerIs(l, c, r, u)
  OBVIOUS
<1> HIDE DEF c
<1> QED
  BY <1>1, <1>2, <1>3, HandlerMoves DEF Replies

LEMMA HandlerFacts ==
  ASSUME HandlersInv, NEW h \in Handlers
  PROVE  /\ pc[h] \in Labels /\ call[h] \in Call \cup {NoCall}
         /\ copy[h] \in Record \cup {Missing} /\ todo[h] \in Seq(Update)
         /\ copy = [copy EXCEPT ![h] = copy[h]] /\ todo = [todo EXCEPT ![h] = todo[h]]
         /\ owed[h] \in BOOLEAN /\ second[h] \in BOOLEAN
         /\ HandlerIs(pc[h], call[h], copy[h], todo[h])
  BY DEF HandlersInv, HandlersTypeOK

LEMMA FlagsKept ==
  ASSUME HandlersInv, NEW h \in Handlers
  PROVE  /\ UNCHANGED owed => owed' \in [Handlers -> BOOLEAN]
         /\ UNCHANGED second => second' \in [Handlers -> BOOLEAN]
         /\ second' = [second EXCEPT ![h] = TRUE] => second' \in [Handlers -> BOOLEAN]
         /\ \A b \in BOOLEAN :
              owed' = [owed EXCEPT ![h] = b] => owed' \in [Handlers -> BOOLEAN]
         /\ UNCHANGED keys => KeysTypeOK'
  BY DEF HandlersInv, HandlersTypeOK, KeysTypeOK

(* The records that handlers build. *)
LEMMA RecordTypes ==
  ASSUME NEW r \in Record
  PROVE  /\ Crowned(r) \in Record /\ Retired(r) \in Record
         /\ [r EXCEPT !.default = FALSE] \in Record
         /\ \A s \in Settings : UpdatedBy(r, s) \in Record
         /\ r.settings \in Settings /\ r.default \in BOOLEAN /\ r # Missing
  BY KeyStoreAssumption DEF Record, Crowned, Retired, UpdatedBy

LEMMA UpdateTypes ==
  ASSUME NEW k \in Keys, NEW r \in Record
  PROVE  [key |-> k, record |-> r] \in Update
  BY DEF Update

LEMMA OneUpdate ==
  ASSUME NEW v \in Update
  PROVE  <<v>> \in Seq(Update) /\ <<v>> # <<>>
  OBVIOUS

LEMMA TwoUpdates ==
  ASSUME NEW v \in Update, NEW w \in Update
  PROVE  <<v, w>> \in Seq(Update) /\ <<v, w>> # <<>>
  OBVIOUS

(* A handler that goes on to write updates it has built. *)
LEMMA PlanKeeps ==
  ASSUME HandlersInv, NEW h \in Handlers, NEW u \in Seq(Update), u # <<>>, Plan(h, u),
         NEW r \in Record \cup {Missing}, copy' = [copy EXCEPT ![h] = r],
         call[h] \in Call, call[h].op = "rotate" => r \in Record,
         KeysTypeOK', owed' \in [Handlers -> BOOLEAN], second' \in [Handlers -> BOOLEAN]
  PROVE  HandlersInv'
<1>1. HandlerIs("write", call[h], r, u) /\ "write" \in Labels
  BY DEF HandlerIs, Labels
<1> QED
  BY <1>1, GotoKeeps DEF Plan

-----------------------------------------------------------------------------
(* The calls and the steps of the handlers. *)

LEMMA CallKeeps ==
  ASSUME HandlersInv, NEW h \in Handlers, NEW c \in Call, NEW l \in {"find", "list"},
         l = "find" => c.op \in OnKey, l = "list" => c.op = "create", Start(h, c, l)
  PROVE  HandlersInv'
<1>1. HandlerIs(l, c, copy[h], todo[h]) /\ l \in Labels
<2>1. CASE l = "find"
  BY <2>1 DEF HandlerIs, Labels
<2>2. CASE l = "list"
  BY <2>2 DEF HandlerIs, Labels
<2> QED
  BY <2>1, <2>2
<1>2. calls' \in 0..MaxCalls
  BY AccessKeysAssumption DEF Start, HandlersInv, HandlersTypeOK
<1>3. reply' \in Replies
  BY ReplyTypes DEF Start
<1>4. UNCHANGED <<keys, owed, second>> /\ copy' = copy /\ todo' = todo
  BY DEF Start, local
<1> DEFINE r == copy[h]
           u == todo[h]
<1>5. /\ r \in Record \cup {Missing} /\ u \in Seq(Update) /\ HandlerIs(l, c, r, u)
      /\ copy' = [copy EXCEPT ![h] = r] /\ todo' = [todo EXCEPT ![h] = u]
  BY <1>1, <1>4, HandlerFacts
<1>6. pc' = [pc EXCEPT ![h] = l] /\ call' = [call EXCEPT ![h] = c]
  BY DEF Start
<1> HIDE DEF r, u
<1> QED
  BY <1>1, <1>2, <1>3, <1>4, <1>5, <1>6, FlagsKept, HandlerMoves DEF Replies

LEMMA CallsKeep ==
  ASSUME HandlersInv, NEW h \in Handlers,
         \/ CreateAccessKey(h) \/ RotateAccessKey(h) \/ UpdateAccessKey(h)
         \/ DisableAccessKey(h) \/ SetDefaultAccessKey(h)
  PROVE  HandlersInv' /\ UNCHANGED keys
<1>1. CASE CreateAccessKey(h)
<2>1. PICK p \in Projects, s \in Settings \cup {Invalid} :
        Start(h, [op |-> "create", project |-> p, settings |-> s], "list")
  BY <1>1 DEF CreateAccessKey
<2>2. [op |-> "create", project |-> p, settings |-> s] \in Call
  BY DEF Call
<2> QED
  BY <2>1, <2>2, CallKeeps DEF Start
<1>2. CASE RotateAccessKey(h)
<2>1. PICK k \in Keys : Start(h, [op |-> "rotate", key |-> k], "find")
  BY <1>2 DEF RotateAccessKey
<2>2. [op |-> "rotate", key |-> k] \in Call
  BY DEF Call
<2> QED
  BY <2>1, <2>2, CallKeeps DEF Start, OnKey
<1>3. CASE UpdateAccessKey(h)
<2>1. PICK k \in Keys, s \in Settings \cup {Invalid} :
        Start(h, [op |-> "update", key |-> k, settings |-> s], "find")
  BY <1>3 DEF UpdateAccessKey
<2>2. [op |-> "update", key |-> k, settings |-> s] \in Call
  BY DEF Call
<2> QED
  BY <2>1, <2>2, CallKeeps DEF Start, OnKey
<1>4. CASE DisableAccessKey(h)
<2>1. PICK k \in Keys : Start(h, [op |-> "disable", key |-> k], "find")
  BY <1>4 DEF DisableAccessKey
<2>2. [op |-> "disable", key |-> k] \in Call
  BY DEF Call
<2> QED
  BY <2>1, <2>2, CallKeeps DEF Start, OnKey
<1>5. CASE SetDefaultAccessKey(h)
<2>1. PICK k \in Keys, p \in Projects :
        Start(h, [op |-> "default", key |-> k, project |-> p], "find")
  BY <1>5 DEF SetDefaultAccessKey
<2>2. [op |-> "default", key |-> k, project |-> p] \in Call
  BY DEF Call
<2> QED
  BY <2>1, <2>2, CallKeeps DEF Start, OnKey
<1> QED
  BY <1>1, <1>2, <1>3, <1>4, <1>5

LEMMA ErrorNames ==
  {"none", "not_found", "denied", "invalid", "at_least_one", "no_default", "panic", "store"} = Errors
  BY DEF Errors

LEMMA FindsKeep ==
  ASSUME HandlersInv, NEW h \in Handlers, FindKey(h)
  PROVE  HandlersInv'
<1> DEFINE c == call[h]
           k == c.key
           record == keys[k]
<1>1. /\ c \in Call /\ k \in Keys /\ c.op \in OnKey /\ KeysTypeOK'
      /\ c.op = "update" => c.settings \in Settings \cup {Invalid}
  BY HandlerFacts, CallTypes, FlagsKept DEF FindKey, HandlerIs
<1>2. record # Missing => record \in Record
  BY <1>1 DEF HandlersInv, KeysTypeOK
<1>3. ASSUME NEW e \in Errors, Return(h, e) PROVE HandlersInv'
  BY <1>1, <1>3, ReturnKeeps
<1>4. CASE /\ record # Missing /\ c.op = "rotate"
           /\ copy' = [copy EXCEPT ![h] = record]
           /\ owed' = [owed EXCEPT ![h] = record.default]
           /\ Plan(h, <<[key |-> k, record |-> Retired(record)]>>)
           /\ UNCHANGED second
<2> DEFINE u == <<[key |-> k, record |-> Retired(record)]>>
<2>1. u \in Seq(Update) /\ u # <<>>
  BY <1>1, <1>2, <1>4, RecordTypes, UpdateTypes, OneUpdate
<2>2. record.default \in BOOLEAN
  BY <1>2, <1>4, RecordTypes
<2>3. owed' \in [Handlers -> BOOLEAN] /\ second' \in [Handlers -> BOOLEAN]
  BY <1>4, <2>2, FlagsKept
<2>4. Plan(h, u)
  BY <1>4
<2> HIDE DEF u, record
<2> QED
  BY <1>1, <1>2, <1>4, <2>1, <2>3, <2>4, PlanKeeps
<1>5. CASE /\ record # Missing /\ c.op = "update" /\ ValidOrigins(c.settings)
           /\ Plan(h, <<[key |-> k, record |-> UpdatedBy(record, c.settings)]>>)
           /\ UNCHANGED <<copy, owed, second>>
<2> DEFINE u == <<[key |-> k, record |-> UpdatedBy(record, c.settings)]>>
<2>1. c.settings \in Settings
  BY <1>1, <1>5 DEF ValidOrigins
<2>2. u \in Seq(Update) /\ u # <<>>
  BY <1>1, <1>2, <1>5, <2>1, RecordTypes, UpdateTypes, OneUpdate
<2>3. Plan(h, u) /\ c.op # "rotate"
  BY <1>5
<2>4. copy[h] \in Record \cup {Missing} /\ copy' = [copy EXCEPT ![h] = copy[h]]
  BY <1>5, HandlerFacts
<2>5. owed' \in [Handlers -> BOOLEAN] /\ second' \in [Handlers -> BOOLEAN]
  BY <1>5, FlagsKept
<2> HIDE DEF u, record
<2> QED
  BY <1>1, <2>2, <2>3, <2>4, <2>5, PlanKeeps
<1>6. ASSUME NEW l \in {"count", "default"}, record # Missing,
             l = "count" => c.op = "disable", l = "default" => c.op = "default",
             Remember(h, record), Goto(h, l)
      PROVE  HandlersInv'
<2>1. HandlerIs(l, c, record, todo[h]) /\ l \in Labels
<3>1. l # "idle" /\ l \in Labels
  BY <1>6 DEF Labels
<3> QED
  BY <1>1, <1>2, <1>6, <3>1 DEF HandlerIs
<2>2. owed' \in [Handlers -> BOOLEAN] /\ second' \in [Handlers -> BOOLEAN]
  BY <1>6, FlagsKept DEF Remember
<2>3. /\ copy' = [copy EXCEPT ![h] = record] /\ todo' = [todo EXCEPT ![h] = todo[h]]
      /\ todo[h] \in Seq(Update)
  BY <1>6, HandlerFacts DEF Remember
<2> HIDE DEF record
<2> QED
  BY <1>1, <1>2, <1>6, <2>1, <2>2, <2>3, GotoKeeps
<1> QED
  BY <1>3, <1>4, <1>5, <1>6, ErrorNames DEF FindKey

(* A handler that goes on to another place with the copy and the updates it *)
(* has.                                                                     *)
LEMMA PlaceKeeps ==
  ASSUME HandlersInv, NEW h \in Handlers, NEW l \in Labels, Goto(h, l), KeysTypeOK',
         UNCHANGED local, HandlerIs(l, call[h], copy[h], todo[h])
  PROVE  HandlersInv'
<1> DEFINE r == copy[h]
           u == todo[h]
<1>1. /\ r \in Record \cup {Missing} /\ u \in Seq(Update) /\ HandlerIs(l, call[h], r, u)
      /\ copy' = [copy EXCEPT ![h] = r] /\ todo' = [todo EXCEPT ![h] = u]
  BY HandlerFacts DEF local
<1>2. owed' \in [Handlers -> BOOLEAN] /\ second' \in [Handlers -> BOOLEAN]
  BY FlagsKept DEF local
<1> HIDE DEF r, u
<1> QED
  BY <1>1, <1>2, GotoKeeps

LEMMA PlanWithCopyKeeps ==
  ASSUME HandlersInv, NEW h \in Handlers, NEW u \in Seq(Update), u # <<>>, Plan(h, u),
         UNCHANGED <<copy, owed>>,
         UNCHANGED second \/ second' = [second EXCEPT ![h] = TRUE],
         call[h] \in Call, call[h].op = "rotate" => copy[h] \in Record, KeysTypeOK'
  PROVE  HandlersInv'
<1> DEFINE r == copy[h]
<1>1. /\ r \in Record \cup {Missing} /\ copy' = [copy EXCEPT ![h] = r]
      /\ call[h].op = "rotate" => r \in Record
  BY HandlerFacts
<1>2. owed' \in [Handlers -> BOOLEAN] /\ second' \in [Handlers -> BOOLEAN]
  BY FlagsKept
<1> HIDE DEF r
<1> QED
  BY <1>1, <1>2, PlanKeeps

LEMMA CountKeeps ==
  ASSUME HandlersInv, NEW h \in Handlers, CountActive(h)
  PROVE  HandlersInv'
<1> DEFINE k == call[h].key
           u == <<[key |-> k, record |-> Retired(copy[h])]>>
<1>1. /\ call[h] \in Call /\ call[h].op = "disable" /\ k \in Keys /\ copy[h] \in Record
      /\ KeysTypeOK'
  BY HandlerFacts, CallTypes, FlagsKept DEF CountActive, HandlerIs, OnKey
<1>2. u \in Seq(Update) /\ u # <<>>
  BY <1>1, RecordTypes, UpdateTypes, OneUpdate
<1>3. CASE Return(h, "at_least_one")
  BY <1>1, <1>3, ReturnKeeps, ErrorNames
<1>4. CASE Plan(h, u) /\ UNCHANGED <<copy, owed, second>>
<2> HIDE DEF u
<2> QED
  BY <1>1, <1>2, <1>4, PlanWithCopyKeeps
<1> QED
  BY <1>3, <1>4 DEF CountActive

LEMMA ListKeeps ==
  ASSUME HandlersInv, NEW h \in Handlers, ListActive(h)
  PROVE  HandlersInv'
<1> DEFINE s == IF call[h].op = "create" THEN call[h].settings ELSE copy[h].settings
           r == [active |-> TRUE, default |-> DefaultIfFirst(ProjectFor(h)), settings |-> s]
<1>1. /\ call[h] \in Call /\ call[h].op \in {"create", "rotate"} /\ KeysTypeOK'
      /\ call[h].op = "rotate" => copy[h] \in Record
  BY HandlerFacts, FlagsKept DEF ListActive, HandlerIs
<1>2. s \in Settings \cup {Invalid}
  BY <1>1, CallTypes, RecordTypes
<1>3. CASE Return(h, "invalid")
  BY <1>1, <1>3, ReturnKeeps, ErrorNames
<1>4. CASE ValidOrigins(s) /\ Remember(h, r) /\ Goto(h, "insert")
<2>1. r \in Record
  BY <1>2, <1>4 DEF ValidOrigins, Record, DefaultIfFirst
<2> HIDE DEF r
<2>2. HandlerIs("insert", call[h], r, todo[h]) /\ "insert" \in Labels
  BY <1>1, <2>1 DEF HandlerIs, Labels
<2>3. owed' \in [Handlers -> BOOLEAN] /\ second' \in [Handlers -> BOOLEAN]
  BY <1>4, FlagsKept DEF Remember
<2>4. /\ copy' = [copy EXCEPT ![h] = r] /\ todo' = [todo EXCEPT ![h] = todo[h]]
      /\ todo[h] \in Seq(Update)
  BY <1>4, HandlerFacts DEF Remember
<2> QED
  BY <1>1, <1>4, <2>1, <2>2, <2>3, <2>4, GotoKeeps
<1> QED
  BY <1>3, <1>4 DEF ListActive

LEMMA PutKeepsTypes ==
  ASSUME HandlersInv, NEW k \in Keys, NEW r \in Record, Put(k, r)
  PROVE  KeysTypeOK'
  BY DEF HandlersInv, KeysTypeOK, Put

LEMMA InsertKeeps ==
  ASSUME HandlersInv, NEW h \in Handlers, InsertKey(h)
  PROVE  HandlersInv'
<1>1. call[h] \in Call /\ copy[h] \in Record
  BY HandlerFacts DEF InsertKey, HandlerIs
<1>2. PICK k \in FreshKeys(ProjectFor(h)) :
        /\ Put(k, copy[h])
        /\ \/ ~owed[h] /\ Return(h, "none")
           \/ /\ owed[h]
              /\ Plan(h, <<[key |-> k, record |-> Crowned(copy[h])]>>)
              /\ second' = [second EXCEPT ![h] = TRUE]
              /\ UNCHANGED <<copy, owed>>
  BY DEF InsertKey
<1>3. k \in Keys
  BY DEF FreshKeys
<1>4. KeysTypeOK'
  BY <1>1, <1>2, <1>3, PutKeepsTypes
<1>5. CASE Return(h, "none")
  BY <1>4, <1>5, ReturnKeeps, ErrorNames
<1>6. CASE /\ Plan(h, <<[key |-> k, record |-> Crowned(copy[h])]>>)
           /\ second' = [second EXCEPT ![h] = TRUE]
           /\ UNCHANGED <<copy, owed>>
<2> DEFINE u == <<[key |-> k, record |-> Crowned(copy[h])]>>
<2>1. u \in Seq(Update) /\ u # <<>> /\ Plan(h, u)
  BY <1>1, <1>3, <1>6, RecordTypes, UpdateTypes, OneUpdate
<2> HIDE DEF u
<2> QED
  BY <1>1, <1>4, <1>6, <2>1, PlanWithCopyKeeps
<1> QED
  BY <1>2, <1>5, <1>6

(* What a handler writes next, and has just written, is a record of a key. *)
LEMMA NextUpdate ==
  ASSUME HandlersInv, NEW h \in Handlers, pc[h] \in {"write", "purge"}
  PROVE  /\ Head(todo[h]) \in Update
         /\ Head(todo[h]).key \in Keys /\ Head(todo[h]).record \in Record
         /\ Tail(todo[h]) \in Seq(Update)
<1>1. todo[h] \in Seq(Update) /\ todo[h] # <<>>
  BY HandlerFacts DEF HandlerIs
<1>2. Head(todo[h]) \in Update /\ Tail(todo[h]) \in Seq(Update)
  BY <1>1, HeadTailProperties
<1> QED
  BY <1>2 DEF Update

LEMMA WriteKeeps ==
  ASSUME HandlersInv, NEW h \in Handlers, WriteKey(h)
  PROVE  HandlersInv'
<1>1. HandlerIs("purge", call[h], copy[h], todo[h]) /\ "purge" \in Labels
  BY HandlerFacts DEF WriteKey, HandlerIs, Labels
<1>2. KeysTypeOK'
  BY NextUpdate, PutKeepsTypes DEF WriteKey
<1> QED
  BY <1>1, <1>2, PlaceKeeps DEF WriteKey

LEMMA PurgeKeeps ==
  ASSUME HandlersInv, NEW h \in Handlers, Purge(h)
  PROVE  HandlersInv' /\ UNCHANGED keys
<1> DEFINE rest == Tail(todo[h])
<1>1. /\ call[h] \in Call /\ rest \in Seq(Update) /\ KeysTypeOK' /\ UNCHANGED keys
      /\ copy[h] \in Record \cup {Missing}
      /\ call[h].op = "rotate" => copy[h] \in Record
      /\ copy = [copy EXCEPT ![h] = copy[h]]
  BY HandlerFacts, NextUpdate, FlagsKept DEF Purge, HandlerIs
<1>2. CASE Return(h, "none")
  BY <1>1, <1>2, ReturnKeeps, ErrorNames
<1>3. ASSUME NEW l \in {"write", "list", "default"},
             l = "write" => rest # <<>>, l = "list" => call[h].op = "rotate",
             l = "default" => call[h].op = "disable",
             todo' = [todo EXCEPT ![h] = rest], Goto(h, l), UNCHANGED <<copy, owed, second>>
      PROVE  HandlersInv'
<2>1. HandlerIs(l, call[h], copy[h], rest) /\ l \in Labels
<3>1. l # "idle" /\ l \in Labels
  BY <1>3 DEF Labels
<3> HIDE DEF rest
<3> QED
  BY <1>1, <1>3, <3>1 DEF HandlerIs
<2>2. owed' \in [Handlers -> BOOLEAN] /\ second' \in [Handlers -> BOOLEAN]
  BY <1>3, FlagsKept
<2> DEFINE r == copy[h]
<2>3. /\ r \in Record \cup {Missing} /\ copy' = [copy EXCEPT ![h] = r]
      /\ HandlerIs(l, call[h], r, rest) /\ l \in Labels
  BY <1>1, <1>3, <2>1
<2> HIDE DEF rest, r
<2> QED
  BY <1>1, <1>3, <2>2, <2>3, GotoKeeps
<1> QED
  BY <1>1, <1>2, <1>3 DEF Purge

LEMMA ActiveRecords ==
  ASSUME HandlersInv, NEW p, NEW k \in ActiveKeys(p)
  PROVE  /\ k \in Keys /\ keys[k] \in Record /\ ProjectOf[k] = p /\ keys[k].active
  BY DEF HandlersInv, KeysTypeOK, ActiveKeys, KeysOf, Found

LEMMA DefaultKeeps ==
  ASSUME HandlersInv, NEW h \in Handlers, GetDefault(h)
  PROVE  HandlersInv'
<1> DEFINE found == DefaultKeys(ProjectFor(h))
<1>1. /\ call[h] \in Call /\ KeysTypeOK'
      /\ call[h].op = "default" => copy[h] \in Record
  BY HandlerFacts, FlagsKept DEF GetDefault, HandlerIs
<1>2. ASSUME NEW e \in Errors, Return(h, e) PROVE HandlersInv'
  BY <1>1, <1>2, ReturnKeeps
<1>3. ASSUME call[h].op = "default", NEW old \in found,
             Plan(h, MoveDefault(h, old)), UNCHANGED <<copy, owed, second>>
      PROVE  HandlersInv'
<2> DEFINE u == MoveDefault(h, old)
           v == [key |-> old, record |-> [keys[old] EXCEPT !.default = FALSE]]
           w == [key |-> call[h].key, record |-> Crowned(copy[h])]
<2>1. old \in Keys /\ keys[old] \in Record
  BY ActiveRecords DEF DefaultKeys
<2>2. v \in Update /\ w \in Update
  BY <1>1, <1>3, <2>1, CallTypes, RecordTypes, UpdateTypes DEF OnKey
<2>3. u = <<v, w>>
  BY DEF MoveDefault
<2> HIDE DEF v, w
<2>4. u \in Seq(Update) /\ u # <<>>
  BY <2>2, <2>3, TwoUpdates
<2> HIDE DEF u
<2> QED
  BY <1>1, <1>3, <2>4, PlanWithCopyKeeps DEF u
<1>4. CASE call[h].op = "disable" /\ Goto(h, "promote") /\ UNCHANGED local
<2>1. HandlerIs("promote", call[h], copy[h], todo[h]) /\ "promote" \in Labels
  BY <1>1, <1>4 DEF HandlerIs, Labels
<2> QED
  BY <1>1, <1>4, <2>1, PlaceKeeps
<1> QED
  BY <1>2, <1>3, <1>4, ErrorNames DEF GetDefault

LEMMA PromoteKeeps ==
  ASSUME HandlersInv, NEW h \in Handlers, Promote(h)
  PROVE  HandlersInv'
<1>1. call[h] \in Call /\ call[h].op = "disable" /\ KeysTypeOK'
  BY HandlerFacts, FlagsKept DEF Promote, HandlerIs
<1>2. CASE Return(h, "panic")
  BY <1>1, <1>2, ReturnKeeps, ErrorNames
<1>3. ASSUME NEW k \in ActiveKeys(ProjectFor(h)),
             Plan(h, <<[key |-> k, record |-> Crowned(keys[k])]>>),
             second' = [second EXCEPT ![h] = TRUE], UNCHANGED <<copy, owed>>
      PROVE  HandlersInv'
<2> DEFINE u == <<[key |-> k, record |-> Crowned(keys[k])]>>
<2>1. u \in Seq(Update) /\ u # <<>> /\ Plan(h, u)
  BY <1>3, ActiveRecords, RecordTypes, UpdateTypes, OneUpdate
<2> HIDE DEF u
<2> QED
  BY <1>1, <1>3, <2>1, PlanWithCopyKeeps
<1> QED
  BY <1>2, <1>3 DEF Promote

(* A step of a handler changes at most one record of the store, to a record. *)
Replaces == \E k \in Keys : \E r \in Record : Put(k, r)

LEMMA WriteReplaces ==
  ASSUME HandlersInv, NEW h \in Handlers,
         \/ pc[h] = "write" /\ Put(Head(todo[h]).key, Head(todo[h]).record)
         \/ pc[h] = "insert" /\ \E k \in FreshKeys(ProjectFor(h)) : Put(k, copy[h])
  PROVE  Replaces /\ KeysTypeOK'
<1>1. CASE pc[h] = "write" /\ Put(Head(todo[h]).key, Head(todo[h]).record)
  BY <1>1, NextUpdate, PutKeepsTypes DEF Replaces
<1>2. CASE pc[h] = "insert" /\ \E k \in FreshKeys(ProjectFor(h)) : Put(k, copy[h])
<2>1. copy[h] \in Record
  BY <1>2, HandlerFacts DEF HandlerIs
<2>2. PICK k \in FreshKeys(ProjectFor(h)) : Put(k, copy[h])
  BY <1>2
<2>3. k \in Keys
  BY DEF FreshKeys
<2> QED
  BY <2>1, <2>2, <2>3, PutKeepsTypes DEF Replaces
<1> QED
  BY <1>1, <1>2

LEMMA FailKeeps ==
  ASSUME HandlersInv, NEW h \in Handlers, StoreFails(h)
  PROVE  HandlersInv' /\ (UNCHANGED keys \/ Replaces)
<1>1. PICK e \in {"none", "store"} : Return(h, e)
<2>1. CASE pc[h] = "default" /\ call[h].op = "disable"
  BY <2>1 DEF StoreFails
<2>2. CASE ~(pc[h] = "default" /\ call[h].op = "disable")
  BY <2>2 DEF StoreFails
<2> QED
  BY <2>1, <2>2
<1>2. KeysTypeOK' /\ (UNCHANGED keys \/ Replaces)
  BY WriteReplaces, FlagsKept DEF StoreFails
<1>3. e \in Errors
  BY ErrorNames
<1> QED
  BY <1>1, <1>2, <1>3, ReturnKeeps

LEMMA CrashKeeps ==
  ASSUME HandlersInv, NEW h \in Handlers, Crash(h)
  PROVE  HandlersInv'
<1>1. KeysTypeOK' /\ reply' \in Replies
  BY FlagsKept, ReplyTypes DEF Crash
<1> QED
  BY <1>1, ResetKeeps DEF Crash

LEMMA HandlerStepKeeps ==
  ASSUME HandlersInv, NEW h \in Handlers, HandlerStep(h)
  PROVE  HandlersInv' /\ (UNCHANGED keys \/ Replaces)
<1>1. CASE FindKey(h) \/ CountActive(h) \/ ListActive(h) \/ GetDefault(h) \/ Promote(h)
<2>1. HandlersInv'
  BY <1>1, FindsKeep, CountKeeps, ListKeeps, DefaultKeeps, PromoteKeeps
<2>2. UNCHANGED keys
  BY <1>1 DEF FindKey, CountActive, ListActive, GetDefault, Promote
<2> QED
  BY <2>1, <2>2
<1>2. CASE InsertKey(h) \/ WriteKey(h)
<2>1. HandlersInv'
  BY <1>2, InsertKeeps, WriteKeeps
<2>2. Replaces
  BY <1>2, WriteReplaces DEF InsertKey, WriteKey
<2> QED
  BY <2>1, <2>2
<1>3. CASE Crash(h)
  BY <1>3, CrashKeeps DEF Crash
<1> QED
  BY <1>1, <1>2, <1>3, CallsKeep, FailKeeps DEF HandlerStep

LEMMA IdleHandlers ==
  ASSUME HandlersInv, UNCHANGED <<pc, call, local, calls>>, reply' \in Replies, KeysTypeOK'
  PROVE  HandlersInv'
  BY DEF HandlersInv, HandlersTypeOK, HandlerIs, local, Replies

-----------------------------------------------------------------------------
(* One handler at a time: what it has read is what the store still holds,   *)
(* so what it has decided to write is a step of the registry.               *)

ProjectIn(c) == IF c.op \in {"create", "default"} THEN c.project ELSE ProjectOf[c.key]
NoneDefault(p) == \A j \in KeysOf(p) : ~keys[j].default
OnlyDefault(k) == \A j \in KeysOf(ProjectOf[k]) : keys[j].default => j = k

RegistryKept ==
  \A k \in Keys : Found(k) /\ keys[k].default => keys[k].active /\ OnlyDefault(k)

(* The writes the registry allows. *)
Legal(k, r) ==
  /\ k \in Keys /\ r \in Record
  /\ \/ /\ Found(k)
        /\ \/ \E s \in Settings : r = UpdatedBy(keys[k], s)
           \/ r = Retired(keys[k])
           \/ r = [keys[k] EXCEPT !.default = FALSE]
           \/ keys[k].active /\ OnlyDefault(k) /\ r = Crowned(keys[k])
     \/ /\ ~Found(k) /\ r.active
        /\ r.default => NoneDefault(ProjectOf[k])

LEMMA SameRecord ==
  ASSUME KeysTypeOK, NEW k \in Keys, NEW r, r = keys[k], Put(k, r)
  PROVE  UNCHANGED keys
  BY DEF KeysTypeOK, Put

LEMMA RecordFields ==
  ASSUME NEW r \in Record
  PROVE  /\ r.active \in BOOLEAN /\ r.default \in BOOLEAN /\ r.settings \in Settings
         /\ ~r.default => r = [r EXCEPT !.default = FALSE]
         /\ r.default => r = Crowned(r)
         /\ ~r.active /\ ~r.default => r = Retired(r)
         /\ Crowned(r).default /\ Crowned(r).active = r.active
         /\ ~Retired(r).default /\ ~Retired(r).active
         /\ \A s \in Settings : UpdatedBy(r, s).default = r.default /\ UpdatedBy(r, s).active = r.active
         /\ ~[r EXCEPT !.default = FALSE].default
         /\ [r EXCEPT !.default = FALSE].active = r.active
  BY DEF Record, Crowned, Retired, UpdatedBy

LEMMA AfterPut ==
  ASSUME KeysTypeOK, NEW k \in Keys, NEW r \in Record, Put(k, r)
  PROVE  /\ \A j \in Keys : keys'[j] = IF j = k THEN r ELSE keys[j]
         /\ Found(k)' /\ \A j \in Keys : j # k => (Found(j)' <=> Found(j))
         /\ \A p : \A j \in KeysOf(p)' : j \in Keys /\ ProjectOf[j] = p /\ (j = k \/ j \in KeysOf(p))
  BY KeyStoreAssumption DEF KeysTypeOK, Put, Found, KeysOf

LEMMA LegalKeepsRegistry ==
  ASSUME KeysTypeOK, RegistryKept, NEW k, NEW r, Legal(k, r), Put(k, r)
  PROVE  RegistryKept'
<1>1. /\ k \in Keys /\ r \in Record
      /\ r.default => r.active
      /\ r.default => \A j \in KeysOf(ProjectOf[k]) : keys[j].default => j = k
<2>1. k \in Keys /\ r \in Record
  BY DEF Legal
<2>2. CASE Found(k)
<3>1. keys[k] \in Record
  BY <2>1, <2>2 DEF KeysTypeOK, Found
<3>2. keys[k].default => keys[k].active /\ OnlyDefault(k)
  BY <2>1, <2>2 DEF RegistryKept
<3>3. \/ r.default = keys[k].default /\ r.active = keys[k].active
      \/ ~r.default
      \/ r.active = keys[k].active /\ keys[k].active /\ OnlyDefault(k)
<4> DEFINE o == keys[k]
<4>1. \/ \E s \in Settings : r = UpdatedBy(o, s)
      \/ r = Retired(o)
      \/ r = [o EXCEPT !.default = FALSE]
      \/ o.active /\ OnlyDefault(k) /\ r = Crowned(o)
  BY <2>2 DEF Legal
<4>2. o \in Record
  BY <3>1
<4> HIDE DEF o
<4>3. CASE \E s \in Settings : r = UpdatedBy(o, s)
  BY <4>2, <4>3, RecordFields DEF o
<4>4. CASE r = Retired(o) \/ r = [o EXCEPT !.default = FALSE]
<5>1. ~Retired(o).default /\ ~[o EXCEPT !.default = FALSE].default
  BY <4>2, RecordFields
<5> QED
  BY <4>4, <5>1
<4>5. CASE o.active /\ OnlyDefault(k) /\ r = Crowned(o)
  BY <4>2, <4>5, RecordFields DEF o
<4> QED
  BY <4>1, <4>3, <4>4, <4>5
<3>4. r.default => r.active /\ OnlyDefault(k)
  BY <3>2, <3>3
<3> QED
  BY <2>1, <3>4 DEF OnlyDefault
<2>3. CASE ~Found(k)
  BY <2>1, <2>3 DEF Legal, NoneDefault
<2> QED
  BY <2>1, <2>2, <2>3
<1>2. ASSUME NEW j \in Keys, Found(j)', keys'[j].default PROVE keys'[j].active /\ OnlyDefault(j)'
<2>1. CASE j = k
<3>1. ASSUME NEW i \in KeysOf(ProjectOf[j])', keys'[i].default PROVE i = j
  BY <1>1, <1>2, <2>1, <3>1, AfterPut
<3> QED
  BY <1>1, <1>2, <2>1, <3>1, AfterPut DEF OnlyDefault
<2>2. CASE j # k
<3>1. keys[j].default /\ Found(j) /\ keys'[j] = keys[j]
  BY <1>1, <1>2, <2>2, AfterPut
<3>2. keys[j].active /\ OnlyDefault(j)
  BY <3>1 DEF RegistryKept
<3>3. ASSUME NEW i \in KeysOf(ProjectOf[j])', keys'[i].default PROVE i = j
<4>1. CASE i = k
<5>1. ProjectOf[k] = ProjectOf[j] /\ r.default
  BY <1>1, <3>3, <4>1, AfterPut
<5>2. j \in KeysOf(ProjectOf[k])
  BY <3>1, <5>1 DEF KeysOf
<5> QED
  BY <1>1, <2>2, <3>1, <5>1, <5>2
<4>2. CASE i # k
  BY <1>1, <3>2, <3>3, <4>2, AfterPut DEF OnlyDefault
<4> QED
  BY <4>1, <4>2
<3> QED
  BY <3>1, <3>2, <3>3 DEF OnlyDefault
<2> QED
  BY <2>1, <2>2
<1> QED
  BY <1>2 DEF RegistryKept

LEMMA LegalIsRegistry ==
  ASSUME KeysTypeOK, RegistryKept, NEW k, NEW r, Legal(k, r), Put(k, r)
  PROVE  [Registry!RegistryNext]_keys
<1> USE DEF Registry!RegistryNext
<1>1. k \in Keys /\ r \in Record
  BY DEF Legal
<1>2. CASE ~Found(k)
<2>1. Registry!Create(k)
  BY <1>1, <1>2 DEF Legal, NoneDefault, Registry!Create, Registry!NoDefault, Registry!KeysOf,
     KeysOf, Registry!Found, Found, Registry!Put, Put, Registry!Record, Record
<2> QED
  BY <1>1, <2>1
<1>3. CASE Found(k)
<2>1. keys[k] \in Record
  BY <1>1, <1>3 DEF KeysTypeOK, Found
<2>2. CASE \E s \in Settings : r = UpdatedBy(keys[k], s)
<3>1. \E s \in Settings : Registry!Configure(k, s)
  BY <1>3, <2>2 DEF UpdatedBy, Registry!Configure, Registry!Found, Found, Registry!Put, Put
<3> QED
  BY <1>1, <3>1
<2>3. CASE r = Retired(keys[k])
<3>1. CASE keys[k].active
<4>1. Registry!Retire(k)
  BY <1>3, <2>3, <3>1 DEF Retired, Registry!Retire, Registry!Found, Found, Registry!Put, Put
<4> QED
  BY <1>1, <4>1
<3>2. CASE ~keys[k].active
<4>1. r = keys[k]
  BY <1>1, <1>3, <2>1, <2>3, <3>2, RecordFields DEF RegistryKept
<4> QED
  BY <1>1, <4>1, SameRecord
<3> QED
  BY <3>1, <3>2
<2>4. CASE r = [keys[k] EXCEPT !.default = FALSE]
<3>1. CASE keys[k].default
<4>1. Registry!Uncrown(k)
  BY <1>3, <2>4, <3>1 DEF Registry!Uncrown, Registry!Found, Found, Registry!Put, Put
<4> QED
  BY <1>1, <4>1
<3>2. CASE ~keys[k].default
<4>1. r = keys[k]
  BY <2>1, <2>4, <3>2, RecordFields
<4> QED
  BY <1>1, <4>1, SameRecord
<3> QED
  BY <3>1, <3>2
<2>5. CASE keys[k].active /\ OnlyDefault(k) /\ r = Crowned(keys[k])
<3>1. CASE keys[k].default
<4>1. r = keys[k]
  BY <2>1, <2>5, <3>1, RecordFields
<4> QED
  BY <1>1, <4>1, SameRecord
<3>2. CASE ~keys[k].default
<4>1. Registry!NoDefault(ProjectOf[k])
  BY <2>5, <3>2 DEF OnlyDefault, Registry!NoDefault, Registry!KeysOf, KeysOf, Registry!Found, Found
<4>2. Registry!Crown(k)
  BY <1>3, <2>5, <4>1 DEF Crowned, Registry!Crown, Registry!Found, Found, Registry!Put, Put
<4> QED
  BY <1>1, <4>2
<3> QED
  BY <3>1, <3>2
<2> QED
  BY <1>3, <2>2, <2>3, <2>4, <2>5 DEF Legal
<1> QED
  BY <1>2, <1>3

(* A write that leaves a project without an active key it had is a rotation's. *)
Harmless(k, r) == r.active \/ ActiveKeys(ProjectOf[k]) # {k}

LEMMA HarmlessKeepsActive ==
  ASSUME KeysTypeOK, NEW k \in Keys, NEW r \in Record, Put(k, r), Harmless(k, r),
         NEW p, ActiveKeys(p) # {}
  PROVE  ActiveKeys(p)' # {}
<1>1. CASE ProjectOf[k] = p /\ r.active
<2>1. k \in ActiveKeys(p)'
  BY <1>1, KeyStoreAssumption DEF KeysTypeOK, Put, ActiveKeys, KeysOf, Found
<2> QED
  BY <2>1
<1>2. CASE ProjectOf[k] # p \/ ~r.active
<2>1. PICK j \in ActiveKeys(p) : j # k
  BY <1>2 DEF Harmless, ActiveKeys, KeysOf
<2>2. j \in ActiveKeys(p)'
  BY <2>1 DEF KeysTypeOK, Put, ActiveKeys, KeysOf, Found
<2> QED
  BY <2>2
<1> QED
  BY <1>1, <1>2

(* The second update of SetDefaultAccessKey. *)
CrownsIn(p, u) ==
  \E k \in Keys :
    /\ u = <<[key |-> k, record |-> Crowned(keys[k])]>>
    /\ Found(k) /\ keys[k].active /\ ProjectOf[k] = p

(* The updates after which their project has no default key: a rotation's   *)
(* of the default key, and the first of SetDefaultAccessKey.                *)
Uncrowns(c, ow, sec, u) == (c.op = "rotate" /\ ow /\ ~sec) \/ Tail(u) # <<>>

Writes(c, ow, sec, u) ==
  /\ Legal(Head(u).key, Head(u).record)
  /\ c.op # "rotate" => Harmless(Head(u).key, Head(u).record)
  /\ Uncrowns(c, ow, sec, u) =>
       /\ Found(Head(u).key) /\ keys[Head(u).key].default /\ ~Head(u).record.default
       /\ ProjectOf[Head(u).key] = ProjectIn(c)
  /\ Tail(u) # <<>> => c.op = "default" /\ CrownsIn(ProjectIn(c), Tail(u))
  /\ \A k \in Keys : Tail(u) = <<[key |-> k, record |-> Crowned(keys[k])]>> => k # Head(u).key

Written(c, ow, sec, u) ==
  /\ Uncrowns(c, ow, sec, u) => NoneDefault(ProjectIn(c))
  /\ Tail(u) # <<>> => c.op = "default" /\ CrownsIn(ProjectIn(c), Tail(u))

(* What the only handler may rely on, place by place. *)
Ready(label, c, record, ow, sec, u) ==
  /\ label = "idle" => ~ow
  /\ label = "find" /\ c.op = "default" => (Found(c.key) => keys[c.key].active)
  /\ label = "count" => record = keys[c.key] /\ Found(c.key)
  /\ label = "default" /\ c.op = "default" =>
       /\ Found(c.key) /\ record = keys[c.key] /\ record.active
       /\ ProjectOf[c.key] = c.project
  /\ label = "list" /\ ow => NoneDefault(ProjectIn(c))
  /\ label = "insert" => record.active /\ (record.default \/ ow => NoneDefault(ProjectIn(c)))
  /\ label = "promote" => NoneDefault(ProjectIn(c))
  /\ label = "write" => Writes(c, ow, sec, u)
  /\ label = "purge" => Written(c, ow, sec, u)

AllReady ==
  \A h \in Handlers : Ready(pc[h], call[h], copy[h], owed[h], second[h], todo[h])

SerialInv == HandlersInv /\ RegistryKept /\ AllReady

LEMMA InitSerial ==
  ASSUME Init, Registry!RegistryInit
  PROVE  SerialInv
<1>1. HandlersInv
  BY InitHandlers
<1>2. RegistryKept
  BY DEF Registry!RegistryInit, RegistryKept, OnlyDefault, Registry!Found, Found,
     Registry!KeysOf, KeysOf
<1>3. AllReady
  BY DEF Init, HandlersInit, AllReady, Ready
<1> QED
  BY <1>1, <1>2, <1>3 DEF SerialInv

(* Nothing else changes the store: what was to be relied on still is. *)
LEMMA ReadyStays ==
  ASSUME UNCHANGED keys, NEW l, NEW c, NEW r, NEW ow, NEW sec, NEW u, Ready(l, c, r, ow, sec, u)
  PROVE  Ready(l, c, r, ow, sec, u)'
  BY DEF Ready, Writes, Written, Uncrowns, CrownsIn, Legal, Harmless, NoneDefault, OnlyDefault,
     ActiveKeys, KeysOf, Found

LEMMA RegistryStays ==
  ASSUME RegistryKept, UNCHANGED keys
  PROVE  RegistryKept'
  BY DEF RegistryKept, OnlyDefault, KeysOf, Found

(* The only handler moves. *)
LEMMA OnlyMoves ==
  ASSUME Serial, HandlersInv', RegistryKept', NEW h \in Handlers,
         NEW l, NEW c, NEW r, NEW ow, NEW sec, NEW u, Ready(l, c, r, ow, sec, u)',
         pc'[h] = l, call'[h] = c, copy'[h] = r, owed'[h] = ow, second'[h] = sec, todo'[h] = u
  PROVE  SerialInv'
<1>1. ASSUME NEW g \in Handlers
      PROVE  Ready(pc[g], call[g], copy[g], owed[g], second[g], todo[g])'
<2>1. /\ pc'[g] = l /\ call'[g] = c /\ copy'[g] = r /\ owed'[g] = ow
      /\ second'[g] = sec /\ todo'[g] = u
  BY DEF Serial
<2> QED
  BY <2>1 DEF Ready, Writes, Written, Uncrowns, CrownsIn, Legal, Harmless, NoneDefault,
     OnlyDefault, ActiveKeys, KeysOf, Found
<1> QED
  BY <1>1 DEF SerialInv, AllReady

LEMMA OnlyReads ==
  ASSUME Serial, SerialInv, HandlersInv', NEW h \in Handlers, UNCHANGED keys,
         NEW l, NEW c, NEW r, NEW ow, NEW sec, NEW u, Ready(l, c, r, ow, sec, u),
         pc'[h] = l, call'[h] = c, copy'[h] = r, owed'[h] = ow, second'[h] = sec, todo'[h] = u
  PROVE  SerialInv'
  BY ReadyStays, RegistryStays, OnlyMoves DEF SerialInv

(* What is claimed of a step. *)
StepFine ==
  /\ [Registry!RegistryNext]_keys
  /\ \A p \in Projects :
       ActiveKeys(p) # {} /\ ActiveKeys(p)' = {} => \E h \in Handlers : call[h].op = "rotate"

LEMMA ReadingIsFine == UNCHANGED keys => StepFine
  BY DEF StepFine, ActiveKeys, KeysOf, Found

LEMMA LegalIsFine ==
  ASSUME SerialInv, NEW h \in Handlers, NEW k, NEW r, Legal(k, r), Put(k, r),
         call[h].op = "rotate" \/ Harmless(k, r)
  PROVE  StepFine /\ RegistryKept'
<1>1. KeysTypeOK /\ RegistryKept /\ k \in Keys /\ r \in Record
  BY DEF SerialInv, HandlersInv, Legal
<1>2. RegistryKept' /\ [Registry!RegistryNext]_keys
  BY <1>1, LegalKeepsRegistry, LegalIsRegistry
<1>3. Harmless(k, r) => \A p \in Projects : ActiveKeys(p) # {} => ActiveKeys(p)' # {}
  BY <1>1, HarmlessKeepsActive
<1> QED
  BY <1>2, <1>3 DEF StepFine

LEMMA SerialFacts ==
  ASSUME SerialInv, NEW h \in Handlers
  PROVE  /\ HandlersInv /\ RegistryKept /\ KeysTypeOK
         /\ Ready(pc[h], call[h], copy[h], owed[h], second[h], todo[h])
         /\ HandlerIs(pc[h], call[h], copy[h], todo[h])
  BY DEF SerialInv, AllReady, HandlersInv

LEMMA EndsReady ==
  ASSUME Serial, SerialInv, NEW h \in Handlers, Reset(h), HandlersInv', RegistryKept'
  PROVE  SerialInv'
<1>1. /\ pc'[h] = "idle" /\ call'[h] = NoCall /\ copy'[h] = Missing
      /\ owed'[h] = FALSE /\ second'[h] = FALSE /\ todo'[h] = <<>>
  BY SerialFacts DEF Reset, HandlersInv, HandlersTypeOK
<1>2. Ready("idle", NoCall, Missing, FALSE, FALSE, <<>>)'
  BY DEF Ready
<1> QED
  BY <1>1, <1>2, OnlyMoves

LEMMA AnswersReady ==
  ASSUME Serial, SerialInv, NEW h \in Handlers, NEW e, Return(h, e), HandlersInv', UNCHANGED keys
  PROVE  SerialInv'
  BY SerialFacts, RegistryStays, EndsReady DEF Return

LEMMA CallsReady ==
  ASSUME Orderly, SerialInv, NEW h \in Handlers,
         \/ CreateAccessKey(h) \/ RotateAccessKey(h) \/ UpdateAccessKey(h)
         \/ DisableAccessKey(h) \/ SetDefaultAccessKey(h)
  PROVE  SerialInv'
<1>1. HandlersInv' /\ UNCHANGED keys /\ Serial
  BY CallsKeep, SerialFacts DEF Orderly
<1>2. ASSUME NEW c, NEW l \in {"find", "list"}, Start(h, c, l),
             l = "find" /\ c.op = "default" => (Found(c.key) => keys[c.key].active)
      PROVE  SerialInv'
<2>1. /\ pc'[h] = l /\ call'[h] = c /\ copy'[h] = copy[h] /\ owed'[h] = owed[h]
      /\ second'[h] = second[h] /\ todo'[h] = todo[h]
  BY <1>2, SerialFacts DEF Start, local, HandlersInv, HandlersTypeOK
<2>2. ~owed[h]
  BY <1>2, SerialFacts DEF Start, Ready
<2>3. Ready(l, c, copy[h], owed[h], second[h], todo[h])
<3>1. l \notin {"idle", "count", "default", "insert", "promote", "write", "purge"}
  BY <1>2
<3> QED
  BY <1>2, <2>2, <3>1 DEF Ready
<2> DEFINE r == copy[h]  ow == owed[h]  sec == second[h]  u == todo[h]
<2>4. /\ copy'[h] = r /\ owed'[h] = ow /\ second'[h] = sec /\ todo'[h] = u
      /\ Ready(l, c, r, ow, sec, u)
  BY <2>1, <2>3
<2> HIDE DEF r, ow, sec, u
<2> QED
  BY <1>1, <2>1, <2>4, OnlyReads
<1>3. CASE CreateAccessKey(h)
<2>1. PICK p \in Projects, s \in Settings \cup {Invalid} :
        Start(h, [op |-> "create", project |-> p, settings |-> s], "list")
  BY <1>3 DEF CreateAccessKey
<2> QED
  BY <1>2, <2>1
<1>4. CASE RotateAccessKey(h)
<2>1. PICK k \in Keys : Start(h, [op |-> "rotate", key |-> k], "find")
  BY <1>4 DEF RotateAccessKey
<2> QED
  BY <1>2, <2>1
<1>5. CASE UpdateAccessKey(h)
<2>1. PICK k \in Keys, s \in Settings \cup {Invalid} :
        Start(h, [op |-> "update", key |-> k, settings |-> s], "find")
  BY <1>5 DEF UpdateAccessKey
<2> QED
  BY <1>2, <2>1
<1>6. CASE DisableAccessKey(h)
<2>1. PICK k \in Keys : Start(h, [op |-> "disable", key |-> k], "find")
  BY <1>6 DEF DisableAccessKey
<2> QED
  BY <1>2, <2>1
<1>7. CASE SetDefaultAccessKey(h)
<2>1. PICK k \in Keys, p \in Projects :
        /\ "disabled" \in Faults \/ k \in ActiveKeys(ProjectOf[k]) \/ ~Found(k)
        /\ Start(h, [op |-> "default", key |-> k, project |-> p], "find")
  BY <1>7 DEF SetDefaultAccessKey
<2>2. Found(k) => keys[k].active
  BY <2>1 DEF Orderly, ActiveKeys
<2> QED
  BY <1>2, <2>1, <2>2
<1> QED
  BY <1>3, <1>4, <1>5, <1>6, <1>7

(* A handler goes on to another place. *)
LEMMA GoesReady ==
  ASSUME Serial, SerialInv, NEW h \in Handlers, HandlersInv', UNCHANGED keys,
         NEW l, Goto(h, l), NEW r, copy' = [copy EXCEPT ![h] = r],
         NEW u, todo' = [todo EXCEPT ![h] = u], NEW ow, owed'[h] = ow, NEW sec, second'[h] = sec,
         Ready(l, call[h], r, ow, sec, u)
  PROVE  SerialInv'
<1> DEFINE c == call[h]
<1>1. /\ pc'[h] = l /\ call'[h] = c /\ copy'[h] = r /\ todo'[h] = u
      /\ Ready(l, c, r, ow, sec, u)
  BY SerialFacts DEF Goto, HandlersInv, HandlersTypeOK
<1> HIDE DEF c
<1> QED
  BY <1>1, OnlyReads

(* A handler has decided on a single update. *)
LEMMA PlansOne ==
  ASSUME SerialInv, NEW h \in Handlers, NEW k, NEW r, Legal(k, r), NEW ow, NEW sec,
         call[h].op # "rotate" => Harmless(k, r),
         call[h].op = "rotate" /\ ow /\ ~sec =>
           /\ Found(k) /\ keys[k].default /\ ~r.default
           /\ ProjectOf[k] = ProjectIn(call[h])
  PROVE  \A any : Ready("write", call[h], any, ow, sec, <<[key |-> k, record |-> r]>>)
<1> DEFINE v == [key |-> k, record |-> r]
<1>1. Head(<<v>>) = v /\ Tail(<<v>>) = <<>> /\ v.key = k /\ v.record = r
  OBVIOUS
<1>2. \A x : <<>> # <<x>>
  OBVIOUS
<1> HIDE DEF v
<1>3. Writes(call[h], ow, sec, <<v>>)
  BY <1>1, <1>2 DEF Writes, Uncrowns
<1> QED
  BY <1>3 DEF Ready, v

(* The handler goes on to write what it has decided on. *)
LEMMA WritesNext ==
  ASSUME Serial, SerialInv, NEW h \in Handlers, HandlersInv', UNCHANGED keys,
         NEW u, Plan(h, u), NEW r, copy' = [copy EXCEPT ![h] = r],
         NEW ow, owed'[h] = ow, NEW sec, second'[h] = sec,
         Ready("write", call[h], r, ow, sec, u)
  PROVE  SerialInv'
  BY GoesReady DEF Plan

LEMMA Unchanged ==
  ASSUME HandlersInv, NEW h \in Handlers
  PROVE  /\ UNCHANGED copy => copy' = [copy EXCEPT ![h] = copy[h]] /\ copy'[h] = copy[h]
         /\ UNCHANGED todo => todo' = [todo EXCEPT ![h] = todo[h]]
         /\ UNCHANGED owed => owed'[h] = owed[h]
         /\ UNCHANGED second => second'[h] = second[h]
         /\ second' = [second EXCEPT ![h] = TRUE] => second'[h] = TRUE
         /\ \A b : owed' = [owed EXCEPT ![h] = b] => owed'[h] = b
         /\ \A r : copy' = [copy EXCEPT ![h] = r] => copy'[h] = r
         /\ \A u : todo' = [todo EXCEPT ![h] = u] => todo'[h] = u
  BY DEF HandlersInv, HandlersTypeOK

LEMMA FindsReady ==
  ASSUME Serial, SerialInv, NEW h \in Handlers, FindKey(h)
  PROVE  SerialInv'
<1> DEFINE c == call[h]
           k == c.key
           o == keys[k]
           ow == owed[h]
           sec == second[h]
<1>1. HandlersInv' /\ UNCHANGED keys /\ HandlersInv
  BY FindsKeep, SerialFacts DEF FindKey
<1>2. c \in Call /\ k \in Keys /\ c.op \in OnKey
  BY SerialFacts, CallTypes DEF HandlerIs, FindKey
<1>3. o # Missing => o \in Record /\ Found(k)
  BY <1>1, <1>2 DEF HandlersInv, KeysTypeOK, Found
<1>4. c.op # "create" /\ (c.op # "default" => ProjectIn(c) = ProjectOf[k])
  BY <1>2 DEF OnKey, ProjectIn
<1>5. ASSUME NEW e, Return(h, e) PROVE SerialInv'
  BY <1>1, <1>5, AnswersReady
<1>6. CASE /\ o # Missing /\ c.op = "rotate"
           /\ copy' = [copy EXCEPT ![h] = o]
           /\ owed' = [owed EXCEPT ![h] = o.default]
           /\ Plan(h, <<[key |-> k, record |-> Retired(o)]>>)
           /\ UNCHANGED second
<2> DEFINE d == o.default
<2>1. Legal(k, Retired(o)) /\ ~Retired(o).default
  BY <1>2, <1>3, <1>6, RecordTypes, RecordFields DEF Legal
<2>2. Ready("write", c, o, d, sec, <<[key |-> k, record |-> Retired(o)]>>)
  BY <1>3, <1>4, <1>6, <2>1, PlansOne
<2>3. owed'[h] = d /\ second'[h] = sec
  BY <1>1, <1>6, Unchanged
<2> DEFINE u == <<[key |-> k, record |-> Retired(o)]>>
<2>4. Plan(h, u) /\ copy' = [copy EXCEPT ![h] = o] /\ Ready("write", call[h], o, d, sec, u)
  BY <1>6, <2>2
<2> HIDE DEF u, d, sec, o
<2> QED
  BY <1>1, <2>3, <2>4, WritesNext
<1>7. CASE /\ o # Missing /\ c.op = "update" /\ ValidOrigins(c.settings)
           /\ Plan(h, <<[key |-> k, record |-> UpdatedBy(o, c.settings)]>>)
           /\ UNCHANGED <<copy, owed, second>>
<2> DEFINE w == UpdatedBy(o, c.settings)
           r == copy[h]
<2>1. c.settings \in Settings
  BY <1>2, <1>7, CallTypes DEF ValidOrigins
<2>2. w \in Record /\ w.active = o.active
  BY <1>3, <1>7, <2>1, RecordTypes, RecordFields
<2>3. Legal(k, w)
  BY <1>2, <1>3, <1>7, <2>1, <2>2 DEF Legal
<2>4. Harmless(k, w)
<3>1. ~o.active => k \notin ActiveKeys(ProjectOf[k])
  BY DEF ActiveKeys
<3> QED
  BY <2>2, <3>1 DEF Harmless
<2> DEFINE u == <<[key |-> k, record |-> w]>>
<2>5. \A any : Ready("write", c, any, ow, sec, <<[key |-> k, record |-> w]>>)
<3> HIDE DEF w
<3> QED
  BY <1>7, <2>3, <2>4, PlansOne
<2>6. owed'[h] = ow /\ second'[h] = sec /\ copy' = [copy EXCEPT ![h] = r]
  BY <1>1, <1>7, Unchanged
<2>7. Plan(h, u) /\ Ready("write", call[h], r, ow, sec, u)
  BY <1>7, <2>5
<2> HIDE DEF u, r, sec, ow, w
<2> QED
  BY <1>1, <2>6, <2>7, WritesNext
<1>8. CASE /\ o # Missing /\ c.op = "disable" /\ Remember(h, o) /\ Goto(h, "count")
<2> DEFINE u == todo[h]
<2>1. Ready("count", c, o, ow, sec, u)
  BY <1>3, <1>8 DEF Ready
<2>2. /\ copy' = [copy EXCEPT ![h] = o] /\ todo' = [todo EXCEPT ![h] = u]
      /\ owed'[h] = ow /\ second'[h] = sec /\ Goto(h, "count")
  BY <1>1, <1>8, Unchanged DEF Remember
<2>3. Ready("count", call[h], o, ow, sec, u)
  BY <2>1
<2> HIDE DEF u, o, sec, ow, c
<2> QED
  BY <1>1, <2>2, <2>3, GoesReady
<1>9. CASE /\ o # Missing /\ c.op = "default" /\ ProjectOf[k] = c.project
           /\ Remember(h, o) /\ Goto(h, "default")
<2> DEFINE u == todo[h]
<2>1. Found(k) /\ o.active
  BY <1>3, <1>9, SerialFacts DEF Ready, FindKey
<2>2. Ready("default", call[h], o, ow, sec, u)
  BY <1>9, <2>1 DEF Ready
<2>3. /\ copy' = [copy EXCEPT ![h] = o] /\ todo' = [todo EXCEPT ![h] = u]
      /\ owed'[h] = ow /\ second'[h] = sec /\ Goto(h, "default")
  BY <1>1, <1>9, Unchanged DEF Remember
<2> HIDE DEF u, o, sec, ow, c
<2> QED
  BY <1>1, <2>2, <2>3, GoesReady
<1> QED
  BY <1>5, <1>6, <1>7, <1>8, <1>9 DEF FindKey

(* The count of active keys is of use as long as nobody else disables one. *)
LEMMA CountReady ==
  ASSUME Serial, SerialInv, NEW h \in Handlers, CountActive(h)
  PROVE  SerialInv'
<1> DEFINE c == call[h]
           k == c.key
           o == copy[h]
           ow == owed[h]
           sec == second[h]
<1>1. HandlersInv' /\ UNCHANGED keys /\ HandlersInv
  BY CountKeeps, SerialFacts DEF CountActive
<1>2. c \in Call /\ c.op = "disable" /\ o \in Record
  BY SerialFacts DEF HandlerIs, CountActive
<1>3. k \in Keys /\ o = keys[k] /\ Found(k)
  BY <1>2, SerialFacts, CallTypes DEF Ready, CountActive, OnKey
<1>4. ProjectFor(h) = ProjectOf[k]
  BY <1>2 DEF ProjectFor
<1>5. CASE LastActive(h) /\ Return(h, "at_least_one")
  BY <1>1, <1>5, AnswersReady
<1>6. CASE /\ ~LastActive(h) /\ UNCHANGED <<copy, owed, second>>
           /\ Plan(h, <<[key |-> k, record |-> Retired(o)]>>)
<2> DEFINE w == Retired(o)
           u == <<[key |-> k, record |-> w]>>
<2>1. Legal(k, w)
  BY <1>2, <1>3, RecordTypes DEF Legal
<2>2. ActiveKeys(ProjectOf[k]) # {k}
  BY <1>4, <1>6, FS_Singleton DEF LastActive
<2>3. \A any : Ready("write", call[h], any, ow, sec, <<[key |-> k, record |-> w]>>)
<3> HIDE DEF w
<3> QED
  BY <1>2, <2>1, <2>2, PlansOne DEF Harmless
<2>4. owed'[h] = ow /\ second'[h] = sec /\ copy' = [copy EXCEPT ![h] = o]
  BY <1>1, <1>6, Unchanged
<2>5. Plan(h, u) /\ Ready("write", call[h], o, ow, sec, u)
  BY <1>6, <2>3
<2> HIDE DEF u, o, sec, ow, w
<2> QED
  BY <1>1, <2>4, <2>5, WritesNext
<1> QED
  BY <1>5, <1>6 DEF CountActive

LEMMA ProjectsAgree ==
  ASSUME NEW h \in Handlers
  PROVE  ProjectFor(h) = ProjectIn(call[h])
  BY DEF ProjectFor, ProjectIn

LEMMA NoneActive ==
  ASSUME RegistryKept, NEW p, ActiveKeys(p) = {}
  PROVE  NoneDefault(p)
  BY DEF RegistryKept, NoneDefault, ActiveKeys, KeysOf

LEMMA ListReady ==
  ASSUME Serial, SerialInv, NEW h \in Handlers, ListActive(h)
  PROVE  SerialInv'
<1> DEFINE c == call[h]
           ow == owed[h]
           sec == second[h]
           u == todo[h]
           p == ProjectFor(h)
           s == IF call[h].op = "create" THEN call[h].settings ELSE copy[h].settings
           r == [active |-> TRUE, default |-> DefaultIfFirst(p), settings |-> s]
<1>1. HandlersInv' /\ UNCHANGED keys /\ HandlersInv /\ RegistryKept
  BY ListKeeps, SerialFacts DEF ListActive
<1>2. CASE ~ValidOrigins(s) /\ Return(h, "invalid")
  BY <1>1, <1>2, AnswersReady
<1>3. CASE Remember(h, r) /\ Goto(h, "insert")
<2>1. r.active /\ r.default = DefaultIfFirst(p)
  OBVIOUS
<2>2. r.default => NoneDefault(p)
  BY <1>1, <2>1, NoneActive DEF DefaultIfFirst
<2>3. ow => NoneDefault(p)
  BY SerialFacts, ProjectsAgree DEF Ready, ListActive
<2>4. p = ProjectIn(call[h])
  BY ProjectsAgree
<2>5. Ready("insert", call[h], r, ow, sec, u)
<3> HIDE DEF r, p, ow, sec, u
<3> QED
  BY <2>1, <2>2, <2>3, <2>4 DEF Ready
<2>6. /\ copy' = [copy EXCEPT ![h] = r] /\ todo' = [todo EXCEPT ![h] = u]
      /\ owed'[h] = ow /\ second'[h] = sec /\ Goto(h, "insert")
  BY <1>1, <1>3, Unchanged DEF Remember
<2> HIDE DEF u, r, sec, ow
<2> QED
  BY <1>1, <2>5, <2>6, GoesReady
<1> QED
  BY <1>2, <1>3 DEF ListActive

(* The second update of SetDefaultAccessKey comes when no key is default. *)
LEMMA PurgeReady ==
  ASSUME Serial, SerialInv, NEW h \in Handlers, Purge(h)
  PROVE  SerialInv'
<1> DEFINE c == call[h]
           r == copy[h]
           ow == owed[h]
           sec == second[h]
           rest == Tail(todo[h])
<1>1. HandlersInv' /\ UNCHANGED keys /\ HandlersInv
  BY PurgeKeeps, SerialFacts DEF Purge
<1>2. /\ Uncrowns(c, ow, sec, todo[h]) => NoneDefault(ProjectIn(c))
      /\ rest # <<>> => c.op = "default" /\ CrownsIn(ProjectIn(c), rest)
  BY SerialFacts DEF Ready, Written, Purge
<1>3. ASSUME NEW l, Goto(h, l), todo' = [todo EXCEPT ![h] = rest], UNCHANGED <<copy, owed, second>>,
             Ready(l, call[h], copy[h], owed[h], second[h], rest)
      PROVE  SerialInv'
<2>1. /\ copy' = [copy EXCEPT ![h] = r] /\ owed'[h] = ow /\ second'[h] = sec
      /\ Ready(l, call[h], r, ow, sec, rest)
  BY <1>1, <1>3, Unchanged
<2>2. Goto(h, l) /\ todo' = [todo EXCEPT ![h] = rest]
  BY <1>3
<2> HIDE DEF rest, r, sec, ow
<2> QED
  BY <1>1, <2>1, <2>2, GoesReady
<1>4. CASE /\ rest # <<>> /\ todo' = [todo EXCEPT ![h] = rest]
           /\ Goto(h, "write") /\ UNCHANGED <<copy, owed, second>>
<2> DEFINE p == ProjectIn(c)
<2>1. NoneDefault(p) /\ c.op = "default" /\ CrownsIn(p, rest)
  BY <1>2, <1>4 DEF Uncrowns
<2>2. PICK k \in Keys : /\ rest = <<[key |-> k, record |-> Crowned(keys[k])]>>
                        /\ Found(k) /\ keys[k].active /\ ProjectOf[k] = p
  BY <2>1 DEF CrownsIn
<2> DEFINE w == Crowned(keys[k])
<2>3. keys[k] \in Record
  BY <1>1, <2>2 DEF HandlersInv, KeysTypeOK, Found
<2>4. w \in Record /\ w.active
  BY <2>2, <2>3, RecordTypes, RecordFields
<2>5. Legal(k, w) /\ Harmless(k, w)
  BY <2>1, <2>2, <2>4 DEF Legal, Harmless, OnlyDefault, NoneDefault
<2>6. \A any : Ready("write", c, any, ow, sec, rest)
<3> HIDE DEF w
<3> QED
  BY <2>1, <2>2, <2>5, PlansOne DEF w
<2> QED
  BY <1>3, <1>4, <2>6
<1>5. CASE /\ rest = <<>> /\ ~sec /\ c.op = "rotate" /\ todo' = [todo EXCEPT ![h] = rest]
           /\ Goto(h, "list") /\ UNCHANGED <<copy, owed, second>>
<2>1. Ready("list", call[h], copy[h], owed[h], second[h], rest)
  BY <1>2, <1>5 DEF Ready, Uncrowns
<2> QED
  BY <1>3, <1>5, <2>1
<1>6. CASE /\ rest = <<>> /\ ~sec /\ c.op = "disable" /\ todo' = [todo EXCEPT ![h] = rest]
           /\ Goto(h, "default") /\ UNCHANGED <<copy, owed, second>>
<2>1. Ready("default", call[h], copy[h], owed[h], second[h], rest)
  BY <1>6 DEF Ready
<2> QED
  BY <1>3, <1>6, <2>1
<1>7. CASE Return(h, "none")
  BY <1>1, <1>7, AnswersReady
<1> QED
  BY <1>4, <1>5, <1>6, <1>7 DEF Purge

LEMMA DefaultReady ==
  ASSUME Serial, SerialInv, NEW h \in Handlers, GetDefault(h)
  PROVE  SerialInv'
<1> DEFINE c == call[h]
           k == c.key
           o == copy[h]
           ow == owed[h]
           sec == second[h]
           p == ProjectFor(h)
<1>1. HandlersInv' /\ UNCHANGED keys /\ HandlersInv /\ RegistryKept /\ KeysTypeOK
  BY DefaultKeeps, SerialFacts DEF GetDefault
<1>2. p = ProjectIn(c)
  BY ProjectsAgree
<1>3. ASSUME NEW e, Return(h, e) PROVE SerialInv'
  BY <1>1, <1>3, AnswersReady
<1>4. ASSUME c.op = "default", NEW old \in DefaultKeys(p), old # k, Plan(h, MoveDefault(h, old)),
             UNCHANGED <<copy, owed, second>>
      PROVE  SerialInv'
<2> DEFINE w == [keys[old] EXCEPT !.default = FALSE]
           v1 == [key |-> old, record |-> w]
           v2 == [key |-> k, record |-> Crowned(keys[k])]
<2>1. Found(k) /\ o = keys[k] /\ o.active /\ ProjectOf[k] = p /\ k \in Keys
<3>1. Found(k) /\ o = keys[k] /\ o.active /\ ProjectOf[k] = c.project
  BY <1>4, SerialFacts DEF Ready, GetDefault
<3>2. c \in Call
  BY SerialFacts DEF HandlerIs, GetDefault
<3> QED
  BY <1>4, <3>1, <3>2, CallTypes DEF ProjectFor, OnKey
<2>2. old \in Keys /\ Found(old) /\ keys[old].active /\ keys[old].default /\ ProjectOf[old] = p
  BY DEF DefaultKeys, ActiveKeys, KeysOf
<2>3. keys[old] \in Record
  BY <1>1, <2>2 DEF KeysTypeOK, Found
<2>4. w \in Record /\ w.active /\ ~w.default
  BY <2>2, <2>3, RecordTypes, RecordFields
<2>5. Legal(old, w) /\ Harmless(old, w)
  BY <2>2, <2>4 DEF Legal, Harmless
<2>6. MoveDefault(h, old) = <<v1, v2>>
  BY <2>1 DEF MoveDefault
<2> DEFINE u == <<v1, v2>>
<2>7. /\ Head(u) = v1 /\ Tail(u) = <<v2>> /\ v1.key = old /\ v1.record = w
      /\ v2.key = k /\ \A x : <<x>> # <<>>
<3> HIDE DEF w
<3>1. v1.key = old /\ v1.record = w /\ v2.key = k
  OBVIOUS
<3> HIDE DEF v1, v2
<3> QED
  BY <3>1
<2>8. CrownsIn(p, Tail(u))
<3>1. <<v2>> = <<[key |-> k, record |-> Crowned(keys[k])]>>
  OBVIOUS
<3> HIDE DEF v2, w, u
<3> QED
  BY <2>1, <2>7, <3>1 DEF CrownsIn
<2>9. \A j \in Keys : Tail(u) = <<[key |-> j, record |-> Crowned(keys[j])]>> => j # Head(u).key
<3> SUFFICES ASSUME NEW j \in Keys, <<v2>> = <<[key |-> j, record |-> Crowned(keys[j])]>>
             PROVE  j # old
  BY <2>7
<3>1. v2 = [key |-> j, record |-> Crowned(keys[j])]
<4> DEFINE vj == [key |-> j, record |-> Crowned(keys[j])]
<4>1. <<v2>> = <<vj>>
  OBVIOUS
<4> HIDE DEF v2, vj
<4>2. v2 = vj
  BY <4>1
<4> QED
  BY <4>2 DEF vj
<3>2. j = v2.key
  BY <3>1
<3> QED
  BY <1>4, <2>7, <3>2
<2>10. Writes(c, ow, sec, u)
<3> HIDE DEF v1, v2, w, u, p
<3> QED
  BY <1>2, <1>4, <2>2, <2>4, <2>5, <2>7, <2>8, <2>9 DEF Writes
<2>11. Ready("write", call[h], o, ow, sec, u)
<3> HIDE DEF u
<3> QED
  BY <2>10 DEF Ready
<2>12. owed'[h] = ow /\ second'[h] = sec /\ copy' = [copy EXCEPT ![h] = o] /\ Plan(h, u)
  BY <1>1, <1>4, <2>6, Unchanged
<2> HIDE DEF u, o, sec, ow
<2> QED
  BY <1>1, <2>11, <2>12, WritesNext
<1>5. CASE DefaultKeys(p) = {} /\ Goto(h, "promote") /\ UNCHANGED local
<2> DEFINE u == todo[h]
<2>1. NoneDefault(p)
  BY <1>1, <1>5 DEF RegistryKept, NoneDefault, DefaultKeys, ActiveKeys, KeysOf
<2>2. Ready("promote", call[h], o, ow, sec, u)
  BY <1>2, <2>1 DEF Ready
<2>3. /\ copy' = [copy EXCEPT ![h] = o] /\ todo' = [todo EXCEPT ![h] = u]
      /\ owed'[h] = ow /\ second'[h] = sec /\ Goto(h, "promote")
  BY <1>1, <1>5, Unchanged DEF local
<2> HIDE DEF u, o, sec, ow
<2> QED
  BY <1>1, <2>2, <2>3, GoesReady
<1> QED
  BY <1>3, <1>4, <1>5 DEF GetDefault

LEMMA PromoteReady ==
  ASSUME Serial, SerialInv, NEW h \in Handlers, Promote(h)
  PROVE  SerialInv'
<1> DEFINE o == copy[h]
           ow == owed[h]
           p == ProjectFor(h)
<1>1. HandlersInv' /\ UNCHANGED keys /\ HandlersInv /\ KeysTypeOK
  BY PromoteKeeps, SerialFacts DEF Promote
<1>2. NoneDefault(p)
  BY SerialFacts, ProjectsAgree DEF Ready, Promote
<1>3. CASE Return(h, "panic")
  BY <1>1, <1>3, AnswersReady
<1>4. ASSUME NEW k \in ActiveKeys(p), UNCHANGED <<copy, owed>>,
             Plan(h, <<[key |-> k, record |-> Crowned(keys[k])]>>),
             second' = [second EXCEPT ![h] = TRUE]
      PROVE  SerialInv'
<2> DEFINE w == Crowned(keys[k])
           u == <<[key |-> k, record |-> w]>>
<2>1. k \in Keys /\ Found(k) /\ keys[k].active /\ ProjectOf[k] = p
  BY DEF ActiveKeys, KeysOf
<2>2. keys[k] \in Record
  BY <1>1, <2>1 DEF KeysTypeOK, Found
<2>3. w \in Record /\ w.active
  BY <2>1, <2>2, RecordTypes, RecordFields
<2>4. Legal(k, w) /\ Harmless(k, w)
  BY <1>2, <2>1, <2>3 DEF Legal, Harmless, OnlyDefault, NoneDefault
<2>5. \A any : Ready("write", call[h], any, ow, TRUE, <<[key |-> k, record |-> w]>>)
<3> HIDE DEF w
<3> QED
  BY <2>4, PlansOne
<2>6. /\ owed'[h] = ow /\ second'[h] = TRUE /\ copy' = [copy EXCEPT ![h] = o]
      /\ Plan(h, u) /\ Ready("write", call[h], o, ow, TRUE, u)
  BY <1>1, <1>4, <2>5, Unchanged
<2> HIDE DEF u, o, ow, w
<2> QED
  BY <1>1, <2>6, WritesNext
<1> QED
  BY <1>3, <1>4 DEF Promote

-----------------------------------------------------------------------------
(* The calls that write. *)

LEMMA WriteIsFine ==
  ASSUME SerialInv, NEW h \in Handlers, pc[h] = "write",
         Put(Head(todo[h]).key, Head(todo[h]).record)
  PROVE  StepFine /\ RegistryKept'
<1>1. PICK k, r : k = Head(todo[h]).key /\ r = Head(todo[h]).record
  OBVIOUS
<1>2. Legal(k, r) /\ Put(k, r) /\ (call[h].op = "rotate" \/ Harmless(k, r))
  BY <1>1, SerialFacts DEF Ready, Writes
<1> QED
  BY <1>2, LegalIsFine

LEMMA InsertIsFine ==
  ASSUME SerialInv, NEW h \in Handlers, pc[h] = "insert",
         NEW k \in FreshKeys(ProjectFor(h)), Put(k, copy[h])
  PROVE  /\ StepFine /\ RegistryKept'
         /\ k \in Keys /\ ~Found(k) /\ ProjectOf[k] = ProjectIn(call[h])
         /\ copy[h] \in Record /\ copy[h].active
         /\ copy[h].default \/ owed[h] => NoneDefault(ProjectOf[k])
<1>1. k \in Keys /\ ~Found(k) /\ ProjectOf[k] = ProjectIn(call[h])
  BY ProjectsAgree DEF FreshKeys
<1>2. copy[h] \in Record
  BY SerialFacts DEF HandlerIs
<1>3. copy[h].active /\ (copy[h].default \/ owed[h] => NoneDefault(ProjectOf[k]))
  BY <1>1, SerialFacts DEF Ready
<1>4. PICK r : r = copy[h]
  OBVIOUS
<1>5. Legal(k, r) /\ Harmless(k, r) /\ Put(k, r)
  BY <1>1, <1>2, <1>3, <1>4 DEF Legal, Harmless
<1> QED
  BY <1>1, <1>2, <1>3, <1>5, LegalIsFine

(* The key a rotation has inserted may be made the default. *)
LEMMA CrownInserted ==
  ASSUME KeysTypeOK, NEW k \in Keys, ~Found(k), NEW r \in Record, r.active, Put(k, r),
         NoneDefault(ProjectOf[k]), NEW c, NEW ow
  PROVE  Ready("write", c, r, ow, TRUE, <<[key |-> k, record |-> Crowned(r)]>>)'
<1> DEFINE w == Crowned(r)
           v == [key |-> k, record |-> w]
           u == <<v>>
<1>1. w \in Record /\ w.active
  BY RecordTypes, RecordFields
<1>2. /\ \A j \in Keys : keys'[j] = IF j = k THEN r ELSE keys[j]
      /\ Found(k)'
      /\ \A p : \A j \in KeysOf(p)' : j \in Keys /\ ProjectOf[j] = p /\ (j = k \/ j \in KeysOf(p))
  BY AfterPut
<1>3. OnlyDefault(k)'
  BY <1>2 DEF OnlyDefault, NoneDefault
<1>4. Legal(k, w)' /\ Harmless(k, w)'
  BY <1>1, <1>2, <1>3 DEF Legal, Harmless
<1>5. v.key = k /\ v.record = w
  OBVIOUS
<1> HIDE DEF w, v
<1>6. Head(u) = v /\ Tail(u) = <<>> /\ \A x : <<x>> # <<>>
  OBVIOUS
<1> HIDE DEF u
<1>7. Writes(c, ow, TRUE, u)'
  BY <1>4, <1>5, <1>6 DEF Writes, Uncrowns
<1>8. Ready("write", c, r, ow, TRUE, u)'
  BY <1>7 DEF Ready
<1> QED
  BY <1>8 DEF u, v, w

LEMMA InsertReady ==
  ASSUME Serial, SerialInv, NEW h \in Handlers, InsertKey(h)
  PROVE  SerialInv' /\ StepFine
<1>1. HandlersInv' /\ HandlersInv /\ KeysTypeOK
  BY InsertKeeps, SerialFacts
<1>2. PICK k \in FreshKeys(ProjectFor(h)) :
        /\ Put(k, copy[h])
        /\ \/ ~owed[h] /\ Return(h, "none")
           \/ /\ owed[h] /\ second' = [second EXCEPT ![h] = TRUE] /\ UNCHANGED <<copy, owed>>
              /\ Plan(h, <<[key |-> k, record |-> Crowned(copy[h])]>>)
  BY DEF InsertKey
<1>3. /\ StepFine /\ RegistryKept'
      /\ k \in Keys /\ ~Found(k) /\ ProjectOf[k] = ProjectIn(call[h])
      /\ copy[h] \in Record /\ copy[h].active
      /\ copy[h].default \/ owed[h] => NoneDefault(ProjectOf[k])
  BY <1>2, InsertIsFine DEF InsertKey
<1>4. CASE ~owed[h] /\ Return(h, "none")
  BY <1>1, <1>3, <1>4, EndsReady DEF Return
<1>5. CASE /\ owed[h] /\ second' = [second EXCEPT ![h] = TRUE] /\ UNCHANGED <<copy, owed>>
           /\ Plan(h, <<[key |-> k, record |-> Crowned(copy[h])]>>)
<2>1. PICK c, r : c = call[h] /\ r = copy[h]
  OBVIOUS
<2>2. Ready("write", c, r, TRUE, TRUE, <<[key |-> k, record |-> Crowned(r)]>>)'
  BY <1>1, <1>2, <1>3, <1>5, <2>1, CrownInserted
<2>3. /\ pc'[h] = "write" /\ call'[h] = c /\ copy'[h] = r /\ owed'[h] = TRUE
      /\ second'[h] = TRUE /\ todo'[h] = <<[key |-> k, record |-> Crowned(r)]>>
<3>1. /\ pc' = [pc EXCEPT ![h] = "write"] /\ call' = call
      /\ todo' = [todo EXCEPT ![h] = <<[key |-> k, record |-> Crowned(r)]>>]
  BY <1>5, <2>1 DEF Plan, Goto
<3>2. owed[h] = TRUE
  BY <1>1, <1>5, HandlerFacts
<3> DEFINE u == <<[key |-> k, record |-> Crowned(r)]>>
<3>3. todo' = [todo EXCEPT ![h] = u]
  BY <3>1
<3> HIDE DEF u
<3>4. todo'[h] = u
  BY <1>1, <3>3, Unchanged
<3> QED
  BY <1>1, <1>5, <2>1, <3>1, <3>2, <3>4 DEF HandlersInv, HandlersTypeOK, u
<2> DEFINE u == <<[key |-> k, record |-> Crowned(r)]>>
<2>4. Ready("write", c, r, TRUE, TRUE, u)' /\ todo'[h] = u
  BY <2>2, <2>3
<2> HIDE DEF u
<2> QED
  BY <1>1, <1>3, <2>3, <2>4, OnlyMoves
<1> QED
  BY <1>2, <1>4, <1>5

LEMMA WriteThenPurge ==
  ASSUME KeysTypeOK, RegistryKept, NEW c, NEW r, NEW ow, NEW sec, NEW u,
         Writes(c, ow, sec, u), Put(Head(u).key, Head(u).record)
  PROVE  Ready("purge", c, r, ow, sec, u)'
<1> DEFINE k == Head(u).key
           w == Head(u).record
           p == ProjectIn(c)
<1>1. k \in Keys /\ w \in Record
  BY DEF Writes, Legal
<1>2. /\ \A j \in Keys : keys'[j] = IF j = k THEN w ELSE keys[j]
      /\ \A j \in Keys : j # k => (Found(j)' <=> Found(j))
      /\ \A q : \A j \in KeysOf(q)' : j \in Keys /\ ProjectOf[j] = q /\ (j = k \/ j \in KeysOf(q))
<2> HIDE DEF k, w
<2> QED
  BY <1>1, AfterPut DEF k, w
<1>3. ASSUME Uncrowns(c, ow, sec, u) PROVE NoneDefault(p)'
<2>1. Found(k) /\ keys[k].default /\ ~w.default /\ ProjectOf[k] = p
  BY <1>3 DEF Writes
<2>2. OnlyDefault(k)
  BY <1>1, <2>1 DEF RegistryKept
<2>3. \A j \in KeysOf(p)' : ~keys'[j].default
<3> HIDE DEF k, w, p
<3> QED
  BY <1>1, <1>2, <2>1, <2>2 DEF OnlyDefault
<2> QED
  BY <2>3 DEF NoneDefault, ProjectIn
<1>4. ASSUME Tail(u) # <<>> PROVE c.op = "default" /\ CrownsIn(p, Tail(u))'
<2>1. PICK j \in Keys : /\ Tail(u) = <<[key |-> j, record |-> Crowned(keys[j])]>>
                        /\ Found(j) /\ keys[j].active /\ ProjectOf[j] = p
  BY <1>4 DEF Writes, CrownsIn
<2>2. j # k /\ c.op = "default"
  BY <1>4, <2>1 DEF Writes
<2>3. keys'[j] = keys[j] /\ Found(j)'
  BY <1>2, <2>1, <2>2
<2> QED
  BY <2>1, <2>2, <2>3 DEF CrownsIn, ProjectIn
<1>5. Written(c, ow, sec, u)'
  BY <1>3, <1>4 DEF Written, Uncrowns, ProjectIn
<1> QED
  BY <1>5 DEF Ready

LEMMA WriteReady ==
  ASSUME Serial, SerialInv, NEW h \in Handlers, WriteKey(h)
  PROVE  SerialInv' /\ StepFine
<1>1. HandlersInv' /\ HandlersInv /\ KeysTypeOK /\ RegistryKept
  BY WriteKeeps, SerialFacts
<1>2. StepFine /\ RegistryKept'
  BY WriteIsFine DEF WriteKey
<1>3. PICK c, r : c = call[h] /\ r = copy[h]
  OBVIOUS
<1>4. PICK ow, sec : ow = owed[h] /\ sec = second[h]
  OBVIOUS
<1>5. PICK u : u = todo[h]
  OBVIOUS
<1>6. Writes(c, ow, sec, u) /\ Put(Head(u).key, Head(u).record)
  BY <1>3, <1>4, <1>5, SerialFacts DEF Ready, WriteKey
<1>7. Ready("purge", c, r, ow, sec, u)'
  BY <1>1, <1>6, WriteThenPurge
<1>8. /\ pc'[h] = "purge" /\ call'[h] = c /\ copy'[h] = r /\ owed'[h] = ow
      /\ second'[h] = sec /\ todo'[h] = u
  BY <1>1, <1>3, <1>4, <1>5 DEF WriteKey, Goto, local, HandlersInv, HandlersTypeOK
<1> QED
  BY <1>1, <1>2, <1>7, <1>8, OnlyMoves

LEMMA FailReady ==
  ASSUME Serial, SerialInv, NEW h \in Handlers, StoreFails(h)
  PROVE  SerialInv' /\ StepFine
<1>1. HandlersInv' /\ Reset(h)
  BY FailKeeps, SerialFacts DEF StoreFails, Return
<1>2. StepFine /\ RegistryKept'
<2>1. CASE UNCHANGED keys
  BY <2>1, ReadingIsFine, RegistryStays, SerialFacts
<2>2. CASE pc[h] = "write" /\ Put(Head(todo[h]).key, Head(todo[h]).record)
  BY <2>2, WriteIsFine
<2>3. CASE pc[h] = "insert" /\ \E k \in FreshKeys(ProjectFor(h)) : Put(k, copy[h])
  BY <2>3, InsertIsFine
<2> QED
  BY <2>1, <2>2, <2>3 DEF StoreFails
<1> QED
  BY <1>1, <1>2, EndsReady

LEMMA CrashReady ==
  ASSUME Serial, SerialInv, NEW h \in Handlers, Crash(h)
  PROVE  SerialInv'
  BY SerialFacts, CrashKeeps, RegistryStays, EndsReady DEF Crash

(* A step of the one handler: the registry's, or none of its business. *)
LEMMA SerialStep ==
  ASSUME Orderly, SerialInv, NEW h \in Handlers, HandlerStep(h) \/ Purge(h)
  PROVE  SerialInv' /\ StepFine
<1>1. CASE FindKey(h) \/ CountActive(h) \/ ListActive(h) \/ GetDefault(h) \/ Promote(h) \/ Purge(h)
<2>1. SerialInv'
  BY <1>1, FindsReady, CountReady, ListReady, DefaultReady, PromoteReady, PurgeReady DEF Orderly
<2>2. UNCHANGED keys
  BY <1>1 DEF FindKey, CountActive, ListActive, GetDefault, Promote, Purge
<2> QED
  BY <2>1, <2>2, ReadingIsFine
<1>2. CASE InsertKey(h) \/ WriteKey(h) \/ StoreFails(h)
  BY <1>2, InsertReady, WriteReady, FailReady DEF Orderly
<1>3. CASE Crash(h)
  BY <1>3, CrashReady, ReadingIsFine DEF Crash, Orderly
<1>4. CASE \/ CreateAccessKey(h) \/ RotateAccessKey(h) \/ UpdateAccessKey(h)
           \/ DisableAccessKey(h) \/ SetDefaultAccessKey(h)
  BY <1>4, CallsReady, CallsKeep, SerialFacts, ReadingIsFine
<1> QED
  BY <1>1, <1>2, <1>3, <1>4 DEF HandlerStep

LEMMA SerialIdles ==
  ASSUME SerialInv, UNCHANGED <<keys, pc, call, local>>, HandlersInv'
  PROVE  SerialInv'
  BY RegistryStays
  DEF SerialInv, AllReady, local, Ready, Writes, Written, Uncrowns, CrownsIn, Legal, Harmless,
      NoneDefault, OnlyDefault, ActiveKeys, KeysOf, Found

LEMMA SerialNext ==
  ASSUME Orderly, SerialInv, [Next]_keyVars
  PROVE  SerialInv' /\ StepFine
<1>1. ASSUME NEW h \in Handlers, HandlerStep(h) \/ Purge(h) PROVE SerialInv' /\ StepFine
  BY <1>1, SerialStep
<1>2. CASE UNCHANGED keyVars
<2>1. UNCHANGED <<keys, pc, call, local, calls, reply>>
  BY <1>2 DEF keyVars, handlers
<2>2. HandlersInv
  BY DEF SerialInv
<2>3. KeysTypeOK' /\ reply' \in Replies
  BY <2>1, <2>2 DEF HandlersInv, HandlersTypeOK, KeysTypeOK, Replies
<2>4. HandlersInv'
  BY <2>1, <2>2, <2>3, IdleHandlers
<2> QED
  BY <2>1, <2>4, SerialIdles, ReadingIsFine
<1> QED
  BY <1>1, <1>2 DEF Next

(* Started on a registry that is in order, the operations of one handler at *)
(* a time keep it in order, whatever fails or crashes between two of their   *)
(* calls of the store (server.go 342-554).                                  *)
THEOREM KeysKeepRegistry ==
  ASSUME Orderly
  PROVE  Registry!RegistryInit /\ Spec => KeysAsRegistry
<1>1. Registry!RegistryInit /\ Init => SerialInv
  BY InitSerial
<1>2. SerialInv /\ [Next]_keyVars => SerialInv' /\ [Registry!RegistryNext]_keys
  BY SerialNext DEF StepFine
<1> QED
  BY <1>1, <1>2, PTL DEF Spec, KeysAsRegistry, Registry!RegistrySpec

(* And only a rotation leaves a project without the active key it had: the  *)
(* count of DisableAccessKey is enough when no other handler is at work     *)
(* (server.go 488-501).                                                     *)
THEOREM KeysKeepActive ==
  ASSUME Orderly
  PROVE  Registry!RegistryInit /\ Spec => ActiveKeyKept
<1> DEFINE Kept ==
      \A p \in Projects :
        ActiveKeys(p) # {} /\ ActiveKeys(p)' = {} => \E h \in Handlers : call[h].op = "rotate"
<1>1. Registry!RegistryInit /\ Init => SerialInv
  BY InitSerial
<1>2. SerialInv /\ [Next]_keyVars => SerialInv' /\ [Kept]_keyVars
  BY SerialNext DEF StepFine
<1>3. ActiveKeyKept <=> [][Kept]_keyVars
  BY PTL DEF ActiveKeyKept
<1> QED
  BY <1>1, <1>2, <1>3, PTL DEF Spec
-----------------------------------------------------------------------------
(* What a handler has already done when it comes to a place. *)

(* A rotation or a disabling has retired its key before it goes on.         *)
KeyRetired(h) ==
  call[h].op \in {"rotate", "disable"} =>
    /\ pc[h] \in {"list", "insert", "default", "promote", "purge"} \/ (pc[h] = "write" /\ second[h])
         => Found(call[h].key) /\ ~keys[call[h].key].active
    /\ pc[h] = "write" /\ second[h] => Head(todo[h]).key # call[h].key
    /\ pc[h] = "write" /\ ~second[h]
         => Head(todo[h]).key = call[h].key /\ ~Head(todo[h]).record.active

(* The update that makes a key the default comes last.                      *)
Crowning(h) == second[h] \/ (call[h].op = "default" /\ Tail(todo[h]) = <<>>)
KeyCrowned(h) ==
  /\ second[h] => pc[h] \in {"write", "purge"}
  /\ pc[h] = "write" /\ Crowning(h) =>
       /\ Head(todo[h]).record.default /\ ProjectOf[Head(todo[h]).key] = ProjectFor(h)
       /\ call[h].op = "default" => Head(todo[h]).key = call[h].key
  /\ pc[h] = "purge" /\ Crowning(h) =>
       /\ DefaultKeys(ProjectFor(h)) # {}
       /\ call[h].op = "default" => DefaultKeys(ProjectFor(h)) = {call[h].key}
  /\ pc[h] \in {"write", "purge"} /\ call[h].op = "default" /\ Tail(todo[h]) # <<>> =>
       \E r \in Record : /\ Tail(todo[h]) = <<[key |-> call[h].key, record |-> r]>>
                         /\ r.default /\ ProjectOf[call[h].key] = call[h].project

Done(h) == KeyRetired(h) /\ KeyCrowned(h)

LEMMA FoundStays ==
  UNCHANGED keys => \A k : /\ Found(k)' <=> Found(k)
                           /\ keys'[k] = keys[k]
  BY DEF Found

LEMMA DefaultsStay == UNCHANGED keys => \A p : DefaultKeys(p)' = DefaultKeys(p)
  BY DEF DefaultKeys, ActiveKeys, KeysOf, Found

LEMMA ResetDone ==
  ASSUME HandlersInv, NEW h \in Handlers, Reset(h)
  PROVE  Done(h)'
<1>1. pc'[h] = "idle" /\ call'[h] = NoCall /\ second'[h] = FALSE
  BY DEF Reset, HandlersInv, HandlersTypeOK
<1> QED
  BY <1>1 DEF Done, KeyRetired, KeyCrowned, NoCall

(* To any place but a write, without an update of the store. *)
LEMMA GoesDone ==
  ASSUME HandlersInv, NEW h \in Handlers, NEW l, l \notin {"write", "purge"},
         pc' = [pc EXCEPT ![h] = l], call' = call, second' = second, ~second[h], UNCHANGED keys,
         call[h].op \in {"rotate", "disable"} /\ l \in {"list", "insert", "default", "promote"}
           => Found(call[h].key) /\ ~keys[call[h].key].active
  PROVE  Done(h)'
<1>1. pc'[h] = l
  BY DEF HandlersInv, HandlersTypeOK
<1> QED
  BY <1>1, FoundStays DEF Done, KeyRetired, KeyCrowned

(* A single update that retires or configures a key. *)
LEMMA RetiresDone ==
  ASSUME HandlersInv, NEW h \in Handlers, ~second[h], second' = second, call[h].op # "default",
         NEW r, Plan(h, <<[key |-> call[h].key, record |-> r]>>),
         call[h].op \in {"rotate", "disable"} => ~r.active
  PROVE  Done(h)'
<1>1. pc'[h] = "write" /\ call'[h] = call[h] /\ ~second'[h]
  BY DEF Plan, Goto, HandlersInv, HandlersTypeOK
<1>2. PICK v : v = [key |-> call[h].key, record |-> r]
  OBVIOUS
<1>3. todo' = [todo EXCEPT ![h] = <<v>>]
  BY <1>2 DEF Plan
<1>4. todo'[h] = <<v>>
  BY <1>3, Unchanged
<1>5. Head(todo'[h]) = v
  BY <1>4
<1>6. v.key = call[h].key /\ v.record = r
  BY <1>2
<1> QED
  BY <1>1, <1>5, <1>6 DEF Done, KeyRetired, KeyCrowned, Crowning

(* A single update that makes another key than the retired one the default. *)
LEMMA CrownsDone ==
  ASSUME HandlersInv, NEW h \in Handlers, second' = [second EXCEPT ![h] = TRUE],
         call[h].op \in {"rotate", "disable", "create"},
         NEW k, NEW r, Plan(h, <<[key |-> k, record |-> r]>>), r.default, ProjectOf[k] = ProjectFor(h),
         call[h].op \in {"rotate", "disable"} =>
           k # call[h].key /\ keys'[call[h].key] # Missing /\ ~keys'[call[h].key].active
  PROVE  Done(h)'
<1>1. pc'[h] = "write" /\ call' = call /\ second'[h]
  BY DEF Plan, Goto, HandlersInv, HandlersTypeOK
<1>2. PICK v : v = [key |-> k, record |-> r]
  OBVIOUS
<1>3. todo' = [todo EXCEPT ![h] = <<v>>]
  BY <1>2 DEF Plan
<1>4. todo'[h] = <<v>>
  BY <1>3, Unchanged
<1>5. Head(todo'[h]) = v
  BY <1>4
<1>6. v.key = k /\ v.record = r
  BY <1>2
<1>7. ProjectFor(h)' = ProjectFor(h)
  BY <1>1 DEF ProjectFor
<1>8. KeyRetired(h)'
  BY <1>1, <1>5, <1>6 DEF KeyRetired, Found
<1>9. KeyCrowned(h)'
  BY <1>1, <1>5, <1>6, <1>7 DEF KeyCrowned, Crowning
<1> QED
  BY <1>8, <1>9 DEF Done

LEMMA InitDone == Init => \A h \in Handlers : Done(h)
  BY DEF Init, HandlersInit, Done, KeyRetired, KeyCrowned, NoCall

LEMMA FindsDone ==
  ASSUME SerialInv, NEW h \in Handlers, Done(h), FindKey(h)
  PROVE  Done(h)'
<1> DEFINE c == call[h]
           o == keys[c.key]
<1>1. HandlersInv /\ UNCHANGED keys /\ ~second[h] /\ c.op \in OnKey /\ c \in Call
  BY SerialFacts DEF FindKey, Done, KeyCrowned, HandlerIs
<1>2. o # Missing => o \in Record /\ ~Retired(o).active
<2>1. o # Missing => o \in Record
  BY <1>1, CallTypes DEF HandlersInv, KeysTypeOK
<2> HIDE DEF o
<2> QED
  BY <2>1, RecordFields
<1>3. ASSUME NEW e, Return(h, e) PROVE Done(h)'
  BY <1>1, <1>3, ResetDone DEF Return
<1>4. CASE /\ o # Missing /\ c.op = "rotate" /\ UNCHANGED second
           /\ Plan(h, <<[key |-> c.key, record |-> Retired(o)]>>)
  BY <1>1, <1>2, <1>4, RetiresDone
<1>5. CASE /\ c.op = "update" /\ UNCHANGED second
           /\ Plan(h, <<[key |-> c.key, record |-> UpdatedBy(o, c.settings)]>>)
  BY <1>1, <1>5, RetiresDone
<1>6. CASE c.op = "disable" /\ Remember(h, o) /\ Goto(h, "count")
  BY <1>1, <1>6, GoesDone DEF Remember, Goto
<1>7. CASE c.op = "default" /\ Remember(h, o) /\ Goto(h, "default")
  BY <1>1, <1>7, GoesDone DEF Remember, Goto
<1> QED
  BY <1>3, <1>4, <1>5, <1>6, <1>7 DEF FindKey

LEMMA CountDone ==
  ASSUME SerialInv, NEW h \in Handlers, Done(h), CountActive(h)
  PROVE  Done(h)'
<1>1. HandlersInv /\ UNCHANGED keys /\ ~second[h] /\ call[h].op = "disable" /\ copy[h] \in Record
  BY SerialFacts DEF CountActive, Done, KeyCrowned, HandlerIs
<1>2. ~Retired(copy[h]).active
  BY <1>1, RecordFields
<1>3. CASE Return(h, "at_least_one")
  BY <1>1, <1>3, ResetDone DEF Return
<1>4. CASE /\ UNCHANGED <<copy, owed, second>>
           /\ Plan(h, <<[key |-> call[h].key, record |-> Retired(copy[h])]>>)
  BY <1>1, <1>2, <1>4, RetiresDone
<1> QED
  BY <1>3, <1>4 DEF CountActive

LEMMA ListDone ==
  ASSUME SerialInv, NEW h \in Handlers, Done(h), ListActive(h)
  PROVE  Done(h)'
<1>1. /\ HandlersInv /\ UNCHANGED keys /\ ~second[h]
      /\ call[h].op \in {"rotate", "disable"} => Found(call[h].key) /\ ~keys[call[h].key].active
  BY SerialFacts DEF ListActive, Done, KeyCrowned, KeyRetired
<1>2. CASE Return(h, "invalid")
  BY <1>1, <1>2, ResetDone DEF Return
<1>3. CASE Goto(h, "insert") /\ second' = second
  BY <1>1, <1>3, GoesDone DEF Goto
<1> QED
  BY <1>2, <1>3 DEF ListActive, Remember

LEMMA InsertDone ==
  ASSUME SerialInv, NEW h \in Handlers, Done(h), InsertKey(h)
  PROVE  Done(h)'
<1>1. /\ HandlersInv /\ KeysTypeOK /\ call[h].op \in {"create", "rotate"} /\ copy[h] \in Record
      /\ call[h] \in Call
      /\ call[h].op = "rotate" => Found(call[h].key) /\ ~keys[call[h].key].active
  BY SerialFacts DEF InsertKey, Done, KeyRetired, HandlerIs
<1>2. PICK k \in FreshKeys(ProjectFor(h)) :
        /\ Put(k, copy[h])
        /\ \/ ~owed[h] /\ Return(h, "none")
           \/ /\ owed[h] /\ second' = [second EXCEPT ![h] = TRUE]
              /\ Plan(h, <<[key |-> k, record |-> Crowned(copy[h])]>>)
  BY DEF InsertKey
<1>3. k \in Keys /\ ~Found(k) /\ ProjectOf[k] = ProjectFor(h) /\ Crowned(copy[h]).default
  BY <1>1, RecordFields DEF FreshKeys
<1>4. call[h].op = "rotate" => k # call[h].key /\ keys'[call[h].key] # Missing /\ ~keys'[call[h].key].active
<2>1. /\ \A j \in Keys : keys'[j] = IF j = k THEN copy[h] ELSE keys[j]
      /\ \A j \in Keys : j # k => (Found(j)' <=> Found(j))
  BY <1>1, <1>2, <1>3, AfterPut
<2>2. call[h].op = "rotate" => call[h].key \in Keys
  BY <1>1, CallTypes DEF OnKey
<2> QED
  BY <1>1, <1>3, <2>1, <2>2 DEF Found
<1>5. CASE Return(h, "none")
  BY <1>1, <1>5, ResetDone DEF Return
<1>6. CASE /\ second' = [second EXCEPT ![h] = TRUE]
           /\ Plan(h, <<[key |-> k, record |-> Crowned(copy[h])]>>)
  BY <1>1, <1>3, <1>4, <1>6, CrownsDone
<1> QED
  BY <1>2, <1>5, <1>6

LEMMA WriteDone ==
  ASSUME SerialInv, SerialInv', NEW h \in Handlers, Done(h), WriteKey(h)
  PROVE  Done(h)'
<1>1. /\ HandlersInv /\ KeysTypeOK /\ pc[h] = "write" /\ RegistryKept' /\ call[h] \in Call
      /\ Put(Head(todo[h]).key, Head(todo[h]).record)
      /\ Legal(Head(todo[h]).key, Head(todo[h]).record)
  BY SerialFacts DEF WriteKey, Ready, Writes, SerialInv, HandlerIs
<1>2. pc'[h] = "purge" /\ call' = call /\ second' = second /\ todo' = todo
  BY <1>1 DEF WriteKey, Goto, local, HandlersInv, HandlersTypeOK
<1>3. PICK k, r : k = Head(todo[h]).key /\ r = Head(todo[h]).record
  OBVIOUS
<1>4. k \in Keys /\ r \in Record /\ Put(k, r)
  BY <1>1, <1>3 DEF Legal
<1>5. /\ \A j \in Keys : keys'[j] = IF j = k THEN r ELSE keys[j]
      /\ Found(k)' /\ \A j \in Keys : j # k => (Found(j)' <=> Found(j))
  BY <1>1, <1>4, AfterPut
<1>6. ProjectFor(h)' = ProjectFor(h) /\ (Crowning(h)' <=> Crowning(h))
  BY <1>2 DEF ProjectFor, Crowning
<1>7. KeyRetired(h)'
<2>1. ASSUME call[h].op \in {"rotate", "disable"}
      PROVE  keys'[call[h].key] # Missing /\ ~keys'[call[h].key].active
<3>1. call[h].key \in Keys
  BY <1>1, <2>1, CallTypes DEF OnKey
<3>2. CASE second[h]
  BY <1>1, <1>3, <1>5, <2>1, <3>1, <3>2 DEF Done, KeyRetired, Found
<3>3. CASE ~second[h]
  BY <1>1, <1>3, <1>5, <2>1, <3>1, <3>3 DEF Done, KeyRetired, Found
<3> QED
  BY <3>2, <3>3
<2> QED
  BY <1>2, <2>1 DEF KeyRetired, Found
<1>8. ASSUME Crowning(h)
      PROVE  /\ DefaultKeys(ProjectFor(h))' # {}
             /\ call[h].op = "default" => DefaultKeys(ProjectFor(h))' = {call[h].key}
<2>1. /\ r.default /\ ProjectOf[k] = ProjectFor(h)
      /\ call[h].op = "default" => k = call[h].key
  BY <1>1, <1>3, <1>8 DEF Done, KeyCrowned
<2>2. keys'[k].default /\ Found(k)'
  BY <1>4, <1>5, <2>1
<2>3. keys'[k].active /\ OnlyDefault(k)'
  BY <1>1, <1>4, <2>2 DEF RegistryKept
<2>4. DefaultKeys(ProjectOf[k])' = {k}
  BY <1>4, <2>2, <2>3 DEF DefaultKeys, ActiveKeys, KeysOf, OnlyDefault
<2>5. DefaultKeys(ProjectFor(h))' = {k}
  BY <1>6, <2>1, <2>4
<2> QED
  BY <2>1, <2>5
<1>9. KeyCrowned(h)'
<2>1. pc'[h] = "purge" /\ Crowning(h)' =>
       /\ DefaultKeys(ProjectFor(h))' # {}
       /\ call'[h].op = "default" => DefaultKeys(ProjectFor(h))' = {call'[h].key}
  BY <1>2, <1>6, <1>8
<2>2. KeyCrowned(h) /\ pc[h] = "write"
  BY <1>1 DEF Done
<2> QED
  BY <1>2, <2>1, <2>2 DEF KeyCrowned
<1> QED
  BY <1>7, <1>9 DEF Done

LEMMA PurgeDone ==
  ASSUME SerialInv, NEW h \in Handlers, Done(h), Purge(h)
  PROVE  Done(h)'
<1> DEFINE rest == Tail(todo[h])
<1>1. /\ HandlersInv /\ UNCHANGED keys /\ pc[h] = "purge" /\ KeyRetired(h) /\ KeyCrowned(h)
      /\ rest # <<>> => call[h].op = "default"
  BY SerialFacts DEF Purge, Done, Ready, Written
<1>2. CASE /\ rest # <<>> /\ todo' = [todo EXCEPT ![h] = rest]
           /\ Goto(h, "write") /\ UNCHANGED <<copy, owed, second>>
<2>1. call[h].op = "default"
  BY <1>1, <1>2
<2>2. PICK r \in Record : /\ rest = <<[key |-> call[h].key, record |-> r]>>
                          /\ r.default /\ ProjectOf[call[h].key] = call[h].project
  BY <1>1, <1>2, <2>1 DEF KeyCrowned
<2>3. PICK v : v = [key |-> call[h].key, record |-> r]
  OBVIOUS
<2>4. v.key = call[h].key /\ v.record = r /\ rest = <<v>>
  BY <2>2, <2>3
<2>5. todo'[h] = <<v>> /\ pc'[h] = "write" /\ call' = call /\ second' = second
<3> HIDE DEF rest
<3> QED
  BY <1>1, <1>2, <2>4, Unchanged DEF Goto, HandlersInv, HandlersTypeOK
<2>6. Head(todo'[h]) = v /\ Tail(todo'[h]) = <<>>
  BY <2>5
<2>7. ProjectFor(h)' = call[h].project
  BY <2>1, <2>5 DEF ProjectFor
<2>8. KeyCrowned(h)'
  BY <2>1, <2>2, <2>4, <2>5, <2>6, <2>7 DEF KeyCrowned
<2> QED
  BY <2>1, <2>5, <2>8 DEF Done, KeyRetired
<1>3. CASE \/ ~second[h] /\ call[h].op = "rotate" /\ Goto(h, "list") /\ UNCHANGED second
           \/ ~second[h] /\ call[h].op = "disable" /\ Goto(h, "default") /\ UNCHANGED second
<2>1. Found(call[h].key) /\ ~keys[call[h].key].active
  BY <1>1, <1>3 DEF KeyRetired
<2> QED
  BY <1>1, <1>3, <2>1, GoesDone DEF Goto
<1>4. CASE Return(h, "none")
  BY <1>1, <1>4, ResetDone DEF Return
<1> QED
  BY <1>2, <1>3, <1>4 DEF Purge

LEMMA DefaultDone ==
  ASSUME SerialInv, NEW h \in Handlers, Done(h), GetDefault(h)
  PROVE  Done(h)'
<1>1. /\ HandlersInv /\ UNCHANGED keys /\ pc[h] = "default" /\ KeyRetired(h) /\ ~second[h]
  BY SerialFacts DEF GetDefault, Done, KeyCrowned
<1>2. ASSUME NEW e, Return(h, e) PROVE Done(h)'
  BY <1>1, <1>2, ResetDone DEF Return
<1>3. CASE call[h].op = "disable" /\ Goto(h, "promote") /\ UNCHANGED local
  BY <1>1, <1>3, GoesDone DEF Goto, local, KeyRetired
<1>4. ASSUME call[h].op = "default", NEW old, Plan(h, MoveDefault(h, old)), UNCHANGED second
      PROVE  Done(h)'
<2>1. copy[h] \in Record /\ ProjectOf[call[h].key] = call[h].project
  BY <1>1, <1>4, SerialFacts DEF HandlerIs, Ready
<2>2. Crowned(copy[h]) \in Record /\ Crowned(copy[h]).default
  BY <2>1, RecordTypes, RecordFields
<2>3. PICK v, w : /\ v = [key |-> old, record |-> [keys[old] EXCEPT !.default = FALSE]]
                  /\ w = [key |-> call[h].key, record |-> Crowned(copy[h])]
  OBVIOUS
<2>4. todo' = [todo EXCEPT ![h] = <<v, w>>]
  BY <1>4, <2>3 DEF Plan, MoveDefault
<2>5. todo'[h] = <<v, w>> /\ pc'[h] = "write" /\ call' = call /\ ~second'[h]
  BY <1>1, <1>4, <2>4, Unchanged DEF Plan, Goto, HandlersInv, HandlersTypeOK
<2>6. Tail(todo'[h]) = <<w>> /\ <<w>> # <<>>
  BY <2>5
<2>7. \E r \in Record : /\ Tail(todo'[h]) = <<[key |-> call'[h].key, record |-> r]>>
                        /\ r.default /\ ProjectOf[call'[h].key] = call'[h].project
  BY <2>1, <2>2, <2>3, <2>5, <2>6
<2>8. ~Crowning(h)'
  BY <2>5, <2>6 DEF Crowning
<2> QED
  BY <1>4, <2>5, <2>7, <2>8 DEF Done, KeyRetired, KeyCrowned
<1> QED
  BY <1>2, <1>3, <1>4 DEF GetDefault

LEMMA PromoteDone ==
  ASSUME SerialInv, NEW h \in Handlers, Done(h), Promote(h)
  PROVE  Done(h)'
<1>1. /\ HandlersInv /\ KeysTypeOK /\ UNCHANGED keys /\ call[h].op = "disable"
      /\ Found(call[h].key) /\ ~keys[call[h].key].active
  BY SerialFacts DEF Promote, Done, KeyRetired, HandlerIs
<1>2. CASE Return(h, "panic")
  BY <1>1, <1>2, ResetDone DEF Return
<1>3. ASSUME NEW k \in ActiveKeys(ProjectFor(h)), second' = [second EXCEPT ![h] = TRUE],
             Plan(h, <<[key |-> k, record |-> Crowned(keys[k])]>>)
      PROVE  Done(h)'
<2>1. k \in Keys /\ Found(k) /\ keys[k].active /\ ProjectOf[k] = ProjectFor(h)
  BY DEF ActiveKeys, KeysOf
<2>2. Crowned(keys[k]).default
  BY <1>1, <2>1, RecordFields DEF KeysTypeOK, Found
<2>3. k # call[h].key
  BY <1>1, <2>1
<2> QED
  BY <1>1, <1>3, <2>1, <2>2, <2>3, CrownsDone DEF Found
<1> QED
  BY <1>2, <1>3 DEF Promote

LEMMA StartDone ==
  ASSUME SerialInv, NEW h \in Handlers, Done(h),
         \/ CreateAccessKey(h) \/ RotateAccessKey(h) \/ UpdateAccessKey(h)
         \/ DisableAccessKey(h) \/ SetDefaultAccessKey(h)
  PROVE  Done(h)'
<1>1. PICK c, l : Start(h, c, l) /\ (l = "find" \/ (l = "list" /\ c.op = "create"))
<2>1. ASSUME CreateAccessKey(h) PROVE \E c : Start(h, c, "list") /\ c.op = "create"
<3>1. PICK p \in Projects, s \in Settings \cup {Invalid} :
        Start(h, [op |-> "create", project |-> p, settings |-> s], "list")
  BY <2>1 DEF CreateAccessKey
<3> QED
  BY <3>1
<2>2. ASSUME ~CreateAccessKey(h) PROVE \E c : Start(h, c, "find")
  BY <2>2 DEF RotateAccessKey, UpdateAccessKey, DisableAccessKey, SetDefaultAccessKey
<2> QED
  BY <2>1, <2>2
<1>2. pc'[h] = l /\ call'[h] = c /\ second' = second /\ ~second[h]
  BY <1>1, SerialFacts DEF Start, local, HandlersInv, HandlersTypeOK, Done, KeyCrowned
<1> QED
  BY <1>1, <1>2 DEF Done, KeyRetired, KeyCrowned

LEMMA DoneStep ==
  ASSUME SerialInv, SerialInv', NEW h \in Handlers, Done(h), HandlerStep(h) \/ Purge(h)
  PROVE  Done(h)'
<1>1. HandlersInv
  BY DEF SerialInv
<1>2. CASE StoreFails(h) \/ Crash(h)
  BY <1>1, <1>2, ResetDone DEF StoreFails, Crash, Return
<1> QED
  BY <1>2, StartDone, FindsDone, CountDone, ListDone, InsertDone, WriteDone, DefaultDone, PromoteDone,
     PurgeDone DEF HandlerStep

LEMMA DoneStays ==
  ASSUME NEW h \in Handlers, Done(h), UNCHANGED <<keys, pc, call, local>>
  PROVE  Done(h)'
  BY FoundStays, DefaultsStay DEF local, Done, KeyRetired, KeyCrowned, Crowning, ProjectFor

LEMMA DoneNext ==
  ASSUME Orderly, SerialInv, SerialInv', [Next]_keyVars, \A h \in Handlers : Done(h)
  PROVE  \A h \in Handlers : Done(h)'
<1> SUFFICES ASSUME NEW h \in Handlers PROVE Done(h)'
  OBVIOUS
<1>1. CASE UNCHANGED keyVars
  BY <1>1, DoneStays DEF keyVars, handlers
<1>2. CASE Next
<2>1. HandlerStep(h) \/ Purge(h)
  BY <1>2 DEF Next, Orderly, Serial
<2> QED
  BY <2>1, DoneStep
<1> QED
  BY <1>1, <1>2

-----------------------------------------------------------------------------
(* What is true when success is answered. *)

Success(h, p) ==
  /\ call[h].op \in {"rotate", "disable"} => ~keys'[call[h].key].active
  /\ call[h].op \in {"rotate", "create"} => ActiveKeys(p)' # {}
  /\ call[h].op = "rotate" /\ owed[h] => DefaultKeys(p)' # {}
  /\ call[h].op = "disable" /\ pc[h] # "default" => DefaultKeys(p)' # {}
  /\ call[h].op = "default" => DefaultKeys(p)' = {call[h].key}

SuccessAll ==
  \A h \in Handlers, p \in Projects :
    Answered(h, "none") /\ p = ProjectFor(h) => Success(h, p)

LEMMA SuccessMeansAll == SuccessMeans <=> [][SuccessAll]_keyVars
<1>1. SuccessAll <=> \A h \in Handlers, p \in Projects :
       Answered(h, "none") /\ p = ProjectFor(h) =>
         LET op == call[h].op
         IN /\ op \in {"rotate", "disable"} => ~keys'[call[h].key].active
            /\ op \in {"rotate", "create"} => ActiveKeys(p)' # {}
            /\ op = "rotate" /\ owed[h] => DefaultKeys(p)' # {}
            /\ op = "disable" /\ pc[h] # "default" => DefaultKeys(p)' # {}
            /\ op = "default" => DefaultKeys(p)' = {call[h].key}
  BY DEF SuccessAll, Success
<1> QED
  BY <1>1, PTL DEF SuccessMeans

(* Only four places answer "none". *)
LEMMA SuccessFrom ==
  ASSUME NEW h \in Handlers, HandlerStep(h) \/ Purge(h), Answered(h, "none")
  PROVE  \/ InsertKey(h) /\ ~owed[h]
         \/ Purge(h) /\ Tail(todo[h]) = <<>> /\ (second[h] \/ call[h].op \in {"update", "default"})
         \/ GetDefault(h)
         \/ StoreFails(h) /\ pc[h] = "default" /\ call[h].op = "disable"
<1>1. reply' # NoReply
<2>1. reply'.to = {h}
  BY DEF Answered
<2> QED
  BY <2>1 DEF NoReply
<1>2. reply'.err = "none"
  BY DEF Answered
<1>3. ASSUME NEW e, e # "none" PROVE ~Return(h, e)
  BY <1>2, <1>3 DEF Return
<1>4. \A l : ~Goto(h, l)
  BY <1>1 DEF Goto
<1>5. \A c, l : ~Start(h, c, l)
  BY <1>1 DEF Start
<1>6. \A u : ~Plan(h, u)
  BY <1>4 DEF Plan
<1>7. ~CreateAccessKey(h) /\ ~RotateAccessKey(h) /\ ~UpdateAccessKey(h) /\ ~DisableAccessKey(h)
      /\ ~SetDefaultAccessKey(h)
  BY <1>5 DEF CreateAccessKey, RotateAccessKey, UpdateAccessKey, DisableAccessKey, SetDefaultAccessKey
<1>8. ~FindKey(h) /\ ~CountActive(h) /\ ~ListActive(h) /\ ~WriteKey(h) /\ ~Promote(h)
  BY <1>3, <1>4, <1>6 DEF FindKey, CountActive, ListActive, WriteKey, Promote
<1>9. ~Crash(h)
  BY <1>1 DEF Crash
<1>10. InsertKey(h) => ~owed[h]
  BY <1>6 DEF InsertKey
<1>11. Purge(h) => Tail(todo[h]) = <<>> /\ (second[h] \/ call[h].op \in {"update", "default"})
  BY <1>4 DEF Purge
<1>12. StoreFails(h) => pc[h] = "default" /\ call[h].op = "disable"
  BY <1>3 DEF StoreFails
<1> QED
  BY <1>7, <1>8, <1>9, <1>10, <1>11, <1>12 DEF HandlerStep

LEMMA SuccessIs ==
  ASSUME SerialInv, SerialInv', NEW h \in Handlers, Done(h), HandlerStep(h) \/ Purge(h),
         Answered(h, "none"), NEW p, p = ProjectFor(h)
  PROVE  Success(h, p)
<1>0. HandlersInv /\ KeysTypeOK /\ RegistryKept
  BY SerialFacts
<1>1. CASE InsertKey(h) /\ ~owed[h]
<2>1. /\ call[h].op \in {"create", "rotate"} /\ copy[h] \in Record /\ call[h] \in Call
      /\ call[h].op = "rotate" => Found(call[h].key) /\ ~keys[call[h].key].active
  BY <1>1, SerialFacts DEF InsertKey, Done, KeyRetired, HandlerIs
<2>2. PICK k \in FreshKeys(p) : Put(k, copy[h])
  BY <1>1 DEF InsertKey
<2>3. k \in Keys /\ ~Found(k) /\ ProjectOf[k] = p /\ copy[h].active
  BY <1>1, SerialFacts DEF FreshKeys, Ready, InsertKey
<2>4. /\ \A j \in Keys : keys'[j] = IF j = k THEN copy[h] ELSE keys[j]
      /\ Found(k)'
  BY <1>0, <2>1, <2>2, <2>3, AfterPut
<2>5. call[h].op = "rotate" => call[h].key \in Keys
  BY <2>1, CallTypes DEF OnKey
<2>6. call[h].op = "rotate" => ~keys'[call[h].key].active
  BY <2>1, <2>3, <2>4, <2>5
<2>7. k \in ActiveKeys(p)'
  BY <2>3, <2>4 DEF ActiveKeys, KeysOf
<2> QED
  BY <1>1, <2>1, <2>6, <2>7 DEF Success
<1>2. CASE Purge(h) /\ Tail(todo[h]) = <<>> /\ (second[h] \/ call[h].op \in {"update", "default"})
<2>1. UNCHANGED keys /\ pc[h] = "purge" /\ KeyRetired(h) /\ KeyCrowned(h)
  BY <1>2 DEF Purge, Done
<2>2. call[h].op # "update" =>
        /\ DefaultKeys(p)' # {}
        /\ call[h].op = "default" => DefaultKeys(p)' = {call[h].key}
<3>1. second[h] \/ call[h].op = "default" => Crowning(h)
  BY <1>2 DEF Crowning
<3>2. \A q : DefaultKeys(q)' = DefaultKeys(q)
  BY <2>1, DefaultsStay
<3>3. Crowning(h) =>
        /\ DefaultKeys(p) # {}
        /\ call[h].op = "default" => DefaultKeys(p) = {call[h].key}
  BY <2>1 DEF KeyCrowned
<3> QED
  BY <1>2, <3>1, <3>2, <3>3
<2>3. call[h].op \in {"rotate", "disable"} => ~keys'[call[h].key].active
  BY <2>1 DEF KeyRetired
<2>4. \A q : DefaultKeys(q)' # {} => ActiveKeys(q)' # {}
  BY DEF DefaultKeys
<2> QED
  BY <2>2, <2>3, <2>4 DEF Success
<1>3. CASE GetDefault(h) \/ (StoreFails(h) /\ pc[h] = "default" /\ call[h].op = "disable")
<2>1. pc[h] = "default" /\ UNCHANGED keys
  BY <1>3 DEF GetDefault, StoreFails
<2>2. call[h].op \in {"disable", "default"}
  BY <1>3, <2>1, SerialFacts DEF HandlerIs
<2>3. call[h].op = "disable" => ~keys'[call[h].key].active
  BY <2>1 DEF Done, KeyRetired
<2>4. ASSUME call[h].op = "default" PROVE DefaultKeys(p)' = {call[h].key}
<3>1. call[h].key \in DefaultKeys(p)
<4>1. reply'.to = {h} /\ reply'.err = "none"
  BY DEF Answered
<4>2. ~Return(h, "no_default") /\ \A u : ~Plan(h, u)
  BY <4>1 DEF Return, Plan, Goto, NoReply
<4> QED
  BY <1>3, <2>4, <4>2 DEF GetDefault
<3>2. DefaultKeys(p) = {call[h].key}
  BY <1>0, <3>1 DEF DefaultKeys, ActiveKeys, KeysOf, RegistryKept, OnlyDefault
<3> QED
  BY <2>1, <3>2, DefaultsStay
<2> QED
  BY <2>1, <2>2, <2>3, <2>4 DEF Success
<1> QED
  BY <1>1, <1>2, <1>3, SuccessFrom

(* A successful answer can be trusted when handlers run one at a time: the   *)
(* rotated or disabled key is disabled, the default has been handed on, and  *)
(* SetDefaultAccessKey left one default key, whatever failed or crashed in   *)
(* calls before (server.go 388-525).                                        *)
THEOREM SuccessIsTrue ==
  ASSUME Orderly
  PROVE  Registry!RegistryInit /\ Spec => SuccessMeans
<1> DEFINE AllDone == \A h \in Handlers : Done(h)
<1>1. Registry!RegistryInit /\ Init => SerialInv /\ AllDone
  BY InitSerial, InitDone
<1>2. SerialInv /\ [Next]_keyVars => SerialInv'
  BY SerialNext
<1>3. SerialInv /\ SerialInv' /\ AllDone /\ [Next]_keyVars => AllDone'
  BY DoneNext
<1>4. SerialInv /\ SerialInv' /\ AllDone /\ [Next]_keyVars => [SuccessAll]_keyVars
<2> SUFFICES ASSUME SerialInv, SerialInv', AllDone, Next, NEW h \in Handlers, Answered(h, "none"),
                    NEW p \in Projects, p = ProjectFor(h)
             PROVE  Success(h, p)
  BY DEF SuccessAll
<2>1. HandlerStep(h) \/ Purge(h)
  BY DEF Next, Orderly, Serial
<2> QED
  BY <2>1, SuccessIs
<1> HIDE DEF AllDone
<1> QED
  BY <1>1, <1>2, <1>3, <1>4, SuccessMeansAll, PTL DEF Spec
=============================================================================
