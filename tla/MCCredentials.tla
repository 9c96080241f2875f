----------------------------- MODULE MCCredentials -----------------------------
(***************************************************************************)
(* What one can prove who one is with, for TLC: the credentials of the     *)
(* runtime API and the account of a person.  The two share no variable, so *)
(* one run explores each in turn, `part' saying which.                     *)
(***************************************************************************)
EXTENDS MCRuntimeAccess, Accounts

VARIABLE part

CredentialsInit ==
  /\ part \in {"runtime", "account"}
  /\ Init
  /\ AccountInit /\ (part = "account" \/ (~stored.old /\ keys = {}))

CredentialsNext ==
  \/ part = "runtime" /\ Next /\ UNCHANGED <<accountVars, part>>
  \/ part = "account" /\ AccountNext /\ UNCHANGED <<vars, part>>

CredentialsSpec == CredentialsInit /\ [][CredentialsNext]_<<vars, accountVars, part>>

=============================================================================
