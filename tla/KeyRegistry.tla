---------------------------- MODULE KeyRegistry ----------------------------
(***************************************************************************)
(* What the server's access key operations promise, whatever stops them in  *)
(* the middle: keys are never removed or reactivated, the default key of a  *)
(* project is active, and there is at most one.                             *)
(***************************************************************************)
EXTENDS KeyStore

NoDefault(p) == \A k \in KeysOf(p) : ~keys[k].default

Create(k) ==
  /\ ~Found(k)
  /\ \E r \in Record :
       /\ r.active
       /\ r.default => NoDefault(ProjectOf[k])
       /\ Put(k, r)

Configure(k, s) == Found(k) /\ Put(k, [keys[k] EXCEPT !.settings = s])

Retire(k) ==
  /\ Found(k) /\ keys[k].active
  /\ Put(k, [keys[k] EXCEPT !.active = FALSE, !.default = FALSE])

Uncrown(k) ==
  /\ Found(k) /\ keys[k].default
  /\ Put(k, [keys[k] EXCEPT !.default = FALSE])

Crown(k) ==
  /\ Found(k) /\ keys[k].active /\ NoDefault(ProjectOf[k])
  /\ Put(k, [keys[k] EXCEPT !.default = TRUE])

RegistryInit ==
  /\ KeysTypeOK
  /\ \A k \in Keys : Found(k) /\ keys[k].default =>
       /\ keys[k].active
       /\ \A j \in KeysOf(ProjectOf[k]) : keys[j].default => j = k

RegistryNext ==
  \E k \in Keys :
    \/ Create(k) \/ Retire(k) \/ Uncrown(k) \/ Crown(k)
    \/ \E s \in Settings : Configure(k, s)

RegistrySpec == RegistryInit /\ [][RegistryNext]_keys
=============================================================================
