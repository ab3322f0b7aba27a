------------------------------ MODULE KeyStore ------------------------------
(***************************************************************************)
(* The permanent store of access keys, as mock/mem.go keeps it: a record    *)
(* per key, read and written as a whole under one mutex, so every call is   *)
(* a single step.  A key names its project.                                 *)
(***************************************************************************)
EXTENDS Integers, FiniteSets

CONSTANTS
  Keys,         \* the access keys that may be generated
  Projects,
  ProjectOf,    \* the project each key is generated for
  Settings,     \* display name, origins and services of a key
  Missing       \* no such record

Record == [active : BOOLEAN, default : BOOLEAN, settings : Settings]

ASSUME KeyStoreAssumption ==
  /\ ProjectOf \in [Keys -> Projects]
  /\ Missing \notin Record

VARIABLE keys

KeysTypeOK == keys \in [Keys -> Record \cup {Missing}]

(* FindAccessKey, ListAccessKeys of the active keys, GetDefaultAccessKey. *)
Found(k) == keys[k] # Missing
KeysOf(p) == {k \in Keys : Found(k) /\ ProjectOf[k] = p}
ActiveKeys(p) == {k \in KeysOf(p) : keys[k].active}
DefaultKeys(p) == {k \in ActiveKeys(p) : keys[k].default}

(* InsertAccessKey and UpdateAccessKey replace the whole record. *)
Put(k, r) == keys' = [keys EXCEPT ![k] = r]
=============================================================================
