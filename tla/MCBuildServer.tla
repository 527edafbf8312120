---------------------------- MODULE MCBuildServer ----------------------------
(***************************************************************************)
(* Instances of BuildServer for TLC.                                       *)
(***************************************************************************)
EXTENDS BuildServer, TLC

CONSTANTS j1, j2, j3, j4, a1, a2

TwoSteps == {j1, j2}
OneBuild == {1}
TwoBuilds == {1, 2}

\* One pipeline of two steps, the first of which may be retried once.
TwoStepsBuild == [j \in TwoSteps |-> 1]
TwoStepsRetries == [j \in TwoSteps |-> IF j = j1 THEN 1 ELSE 0]

\* The second step is skipped, and the pipeline of a second build does not parse.
SkippedSecond == {j2}
SecondBuild == {2}

\* Four builds: two plain steps, as a webhook makes them; one step that may be
\* retried once; one step with env; one that does not parse.  The list has room
\* for two of them.
FourSteps == {j1, j2, j3, j4}
FourBuilds == 1 .. 4
FourStepsBuild == [j \in FourSteps |-> CASE j = j3 -> 2 [] j = j4 -> 3 [] OTHER -> 1]
FourStepsRetries == [j \in FourSteps |-> IF j = j3 THEN 1 ELSE 0]
StepWithEnv == {j4}
FourthBuild == {4}

Symmetry == Permutations(Agent)
=============================================================================
