------------------------------ MODULE SingleUse ------------------------------
(***************************************************************************)
(* What a recovery code, a recovery link and a challenge promise.  Each is *)
(* spent at most once, by one attempt; the attempt brings one thing that   *)
(* such a proof is good for, or nothing; and what was spent is not spent   *)
(* again, whatever became of the attempt.                                  *)
(***************************************************************************)

CONSTANTS
  Proofs,    \* <<"code", ...>>, <<"link", ...>>, <<"challenge", ...>>
  Attempts   \* names of attempts

VARIABLES
  spent,     \* the proofs that were spent
  held,      \* of them, those whose attempt is still under way
  brought,   \* what they brought: <<proof, attempt, thing>>
  lost       \* those that brought nothing

singleUseVars == <<spent, held, brought, lost>>

GoodFor(p) ==
  [code |-> {"session", "password"}, link |-> {"password"}, challenge |-> {"session", "key"}][p[1]]

Init == spent = {} /\ held = {} /\ brought = {} /\ lost = {}

Spend(p) ==
  /\ p \notin spent
  /\ spent' = spent \cup {p} /\ held' = held \cup {p}
  /\ UNCHANGED <<brought, lost>>

Bring(p, attempt, thing) ==
  /\ p \in held
  /\ held' = held \ {p} /\ brought' = brought \cup {<<p, attempt, thing>>}
  /\ UNCHANGED <<spent, lost>>

Lose(p) ==
  /\ p \in held
  /\ held' = held \ {p} /\ lost' = lost \cup {p}
  /\ UNCHANGED <<spent, brought>>

Next ==
  \E p \in Proofs :
    Spend(p) \/ Lose(p) \/ (\E attempt \in Attempts, thing \in GoodFor(p) : Bring(p, attempt, thing))

Spec == Init /\ [][Next]_singleUseVars
=============================================================================
