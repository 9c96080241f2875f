------------------------------ MODULE Allowance ------------------------------
(***************************************************************************)
(* What a rate limit promises.  Every key has an allowance of at most Full *)
(* units; one unit comes back at every tick, for every key, whether or not *)
(* anybody asks; an action takes Cost units and is allowed when they are   *)
(* there.  A refusal takes nothing, and names a moment by which the action *)
(* will be possible: not before it is, and at most Slack ticks after.      *)
(***************************************************************************)
EXTENDS Integers

CONSTANTS Keys, Full, Cost, Slack

VARIABLES
  level,  \* [Keys -> 0..Full]: what is left of each allowance
  clock,
  reply   \* to the last request: its key, whether it was allowed, and if not the moment named

allowanceVars == <<level, clock, reply>>

Init ==
  /\ level = [k \in Keys |-> Full]
  /\ clock = 0

Tick ==
  /\ clock' = clock + 1
  /\ level' = [k \in Keys |-> IF level[k] < Full THEN level[k] + 1 ELSE Full]
  /\ UNCHANGED reply

Permit(k) ==
  /\ level[k] >= Cost
  /\ level' = [level EXCEPT ![k] = @ - Cost]
  /\ reply'.key = k /\ reply'.allowed
  /\ UNCHANGED clock

Refuse(k) ==
  /\ level[k] < Cost
  /\ reply'.key = k /\ ~reply'.allowed
  /\ reply'.at >= clock + (Cost - level[k])
  /\ reply'.at <= clock + (Cost - level[k]) + Slack
  /\ UNCHANGED <<level, clock>>

Next == Tick \/ \E k \in Keys : Permit(k) \/ Refuse(k)

Spec == Init /\ [][Next]_allowanceVars
=============================================================================
