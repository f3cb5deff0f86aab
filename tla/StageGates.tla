----------------------------- MODULE StageGates -----------------------------
(***************************************************************************)
(* What the two stage machines of the planning package promise: the stages *)
(* of a run pass strictly in order, each exactly once, and a stage that    *)
(* loses its gate takes every later stage with it.  PlanningKanban         *)
(* implements it with revocation, PlanningRunner without.                  *)
(***************************************************************************)
EXTENDS Integers

CONSTANTS NStages,     \* the number of stages of a run
          MayRevoke    \* whether a passed stage can lose its gate

VARIABLE passed        \* the stages whose gate stands

Stages == 1..NStages

Init == passed = {}

\* The next stage passes: every earlier one stands.
Pass(k) ==
  /\ k \notin passed
  /\ 1..(k - 1) \subseteq passed
  /\ passed' = passed \cup {k}

\* The gate of a passed stage is revoked, and with it every later stage.
Revoke(k) ==
  /\ MayRevoke
  /\ k \in passed
  /\ passed' = passed \cap 1..(k - 1)

Next == \E k \in Stages : Pass(k) \/ Revoke(k)

Spec == Init /\ [][Next]_passed
=============================================================================
