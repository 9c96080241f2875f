-------------------------- MODULE VersionRegister --------------------------
(***************************************************************************)
(* What the version lifecycle promises: a secret is a register holding at  *)
(* most one current version.  Versions are issued in order, each becoming  *)
(* current as it is issued; an operator may go back to an earlier version  *)
(* unless it was revoked, and a revoked version never comes back.          *)
(***************************************************************************)
EXTENDS Naturals

CONSTANT MaxVersion

Versions == 1 .. MaxVersion

VARIABLES
  issued,   \* versions that have ever existed
  current,  \* the version callers are given, 0 when there is none
  revoked   \* versions withdrawn for good

registerVars == <<issued, current, revoked>>

Init == issued = {} /\ current = 0 /\ revoked = {}

\* Create and Rotate: the next version, current from the moment it exists.
Issue(v) ==
  /\ v \notin issued
  /\ \A w \in issued : w < v
  /\ v = 1 \/ v - 1 \in issued
  /\ issued' = issued \cup {v}
  /\ current' = v
  /\ UNCHANGED revoked

\* Roll back.
Restore(v) ==
  /\ v \in issued \ revoked
  /\ current' = v
  /\ UNCHANGED <<issued, revoked>>

\* Revoke: for good, and the secret is left without a version if it was current.
Withdraw(v) ==
  /\ v \in issued \ revoked
  /\ revoked' = revoked \cup {v}
  /\ current' = IF current = v THEN 0 ELSE current
  /\ UNCHANGED issued

Next == \E v \in Versions : Issue(v) \/ Restore(v) \/ Withdraw(v)

Spec == Init /\ [][Next]_registerVars
=============================================================================
