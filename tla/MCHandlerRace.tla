---------------------------- MODULE MCHandlerRace ----------------------------
(***************************************************************************)
(* Instances of HandlerRace for TLC.                                       *)
(***************************************************************************)
EXTENDS HandlerRace, TLC

CONSTANTS j1, j2, a1, a2

TwoSteps == {j1, j2}

\* The first step may be retried once.
OneRetry == [j \in TwoSteps |-> IF j = j1 THEN 1 ELSE 0]
NoRetries == [j \in TwoSteps |-> 0]

Symmetry == Permutations(Agent)
=============================================================================
