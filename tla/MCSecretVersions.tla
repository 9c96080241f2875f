-------------------------- MODULE MCSecretVersions --------------------------
(* TLC instances of SecretVersions. *)
EXTENDS SecretVersions, TLC

RequestSymmetry == Permutations(Requests)

\* Every operation; and those that decide which version is active.
AllOps == Ops
Editing == {"create", "rotate", "rollback", "revoke"}

Under(o) == {t \in Requests : pc[t] # "idle" /\ op[t] = o}

\* Bound: the last version is there, or asked for, only where nothing is read or
\* expires.
ReadsOfFewer ==
  \/ Issued + Cardinality(Under("rotate")) < MaxVersion /\ \A t \in Requests : target[t] < MaxVersion
  \/ /\ \A o \in Ops \ Editing : Under(o) = {}
     /\ now = 0 /\ \A v \in Versions : Exists(rows[v]) => rows[v].expires = Never
=============================================================================
