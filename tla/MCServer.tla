------------------------------- MODULE MCServer -------------------------------
(***************************************************************************)
(* Three parts of the server, for TLC: the grants of an organization as    *)
(* the core and the access page read them, the rate limiter before every   *)
(* handler, and the migrations before every start.  They share no          *)
(* variable, so one run explores each in turn, `part' saying which.        *)
(***************************************************************************)
EXTENDS MCAccessControl, AccessView, RateLimiter, Migrations

CONSTANTS released, ahead, edited, branch, first, second, third, reworked

Named(n, b) == [filename |-> n, body |-> b]

\* A release; the next one, with a file more; a build that rewrote the first file
\* after it was released and goes on with the same next one; and a branch with a
\* file of its own, whose name sorts before what others may have applied.
FilesMap ==
     released :> <<Named(1, first)>>
  @@ ahead    :> <<Named(1, first), Named(3, second)>>
  @@ edited   :> <<Named(1, reworked), Named(3, second), Named(4, third)>>
  @@ branch   :> <<Named(1, first), Named(2, third)>>

IdleMap == {0, 1, 5}

ServerSymmetry == Permutations(Callers) \cup Permutations(Processes)

VARIABLE part

ServerInit ==
  /\ part \in {"access", "limiter", "schema"}
  /\ Init
  /\ LimiterInit
  /\ MigrateInit /\ \A p1 \in Processes : build[p1] = released

ServerNext ==
  \/ part = "access"  /\ Next        /\ UNCHANGED <<limiterVars, migrateVars, part>>
  \/ part = "limiter" /\ LimiterNext /\ UNCHANGED <<vars, migrateVars, part>>
  \/ part = "schema"  /\ MigrateNext /\ UNCHANGED <<vars, limiterVars, part>>

ServerSpec == ServerInit /\ [][ServerNext]_<<vars, limiterVars, migrateVars, part>>
=============================================================================
