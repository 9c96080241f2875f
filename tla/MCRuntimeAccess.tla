-------------------------- MODULE MCRuntimeAccess --------------------------
(* Instances of RuntimeAccess: the tokens name the environment prod. *)
EXTENDS RuntimeAccess, TLC

CONSTANTS prod, stag

EnvironmentMap == [t \in Tokens |-> prod]
EveryGrant == Subjects \X Environments
TwoGrants == {<<Machine, prod>>, <<Person, stag>>}

Symmetry == Permutations(Slots)
=============================================================================
