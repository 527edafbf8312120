--------------------------- MODULE MCParallelAgent ---------------------------
(***************************************************************************)
(* An instance of ParallelAgent for TLC.                                   *)
(***************************************************************************)
EXTENDS ParallelAgent, TLC

CONSTANTS j1, j2, j3, a1, a2

TwoJobs == {j1, j2}
ThreeJobs == {j1, j2, j3}
TwoBuilds == {1, 2}

\* Each job is the only step of its build, but the third is a second step of the
\* second build: an agent is shown several jobs only while their builds are PENDING.
OwnBuild == [j \in TwoJobs |-> IF j = j1 THEN 1 ELSE 2]
ThirdShares == [j \in ThreeJobs |-> IF j = j1 THEN 1 ELSE 2]

\* The first job may be retried once.
TwoRetries == [j \in TwoJobs |-> IF j = j1 THEN 1 ELSE 0]
ThreeRetries == [j \in ThreeJobs |-> IF j = j1 THEN 1 ELSE 0]

\* One machine for each agent, or one for all.
OwnHost == [a \in Agent |-> a]
OneHost == [a \in Agent |-> "host"]
=============================================================================
