------------------------ MODULE ParallelAgent_proofs ------------------------
(***************************************************************************)
(* Theorems about ParallelAgent, for every set of builds, jobs and agents, *)
(* every number of slots and every choice of faults and operator calls.    *)
(* What concerns the tables alone is cited from BuildServer_proofs.        *)
(***************************************************************************)
EXTENDS ParallelAgent, BuildServer_proofs, FiniteSetTheorems

(***************************************************************************)
(* The slots of one agent                                                  *)
(***************************************************************************)

\* What the main thread of agent a knows at each place of its loop: the job it
\* is calling about, that a slot is free for a job it claims, which futures are
\* done, and that available_slots leaves room for all of _running_jobs.
PoolOK(a) ==
    /\ phase[a] \in {"claiming", "starting", "reporting"} => held[a] \in Job
    /\ phase[a] \in {"claiming", "starting"} => slots[a] > 0
    /\ phase[a] \in {"down", "polling", "claiming", "starting"} => completed[a] = {}
    /\ completed[a] \subseteq visited[a]
    /\ \A j \in completed[a] : future[a][j] \in {"passed", "failed"}
    /\ phase[a] = "reporting" =>
        /\ future[a][held[a]] \in {"passed", "failed"}
        /\ held[a] \in visited[a] \ completed[a]
    /\ slots[a] + Cardinality(Running(a)) <= MaxParallel

PoolInv == ParallelTypeOK /\ \A a \in Agent : PoolOK(a)

LEMMA RunningIsFinite ==
    ASSUME NEW S \in SUBSET Job
    PROVE  IsFiniteSet(S) /\ Cardinality(S) \in Nat
  BY JobsAssumption, FS_Subset, FS_CardinalityType

\* Nothing that one agent does touches the pool of another.
LEMMA OthersKeepPool ==
    ASSUME NEW b \in Agent, PoolOK(b), phase'[b] = phase[b], held'[b] = held[b],
           future'[b] = future[b], visited'[b] = visited[b], completed'[b] = completed[b],
           slots'[b] = slots[b]
    PROVE  PoolOK(b)'
<1>1. Running(b)' = Running(b)
  BY DEF Running
<1> QED BY <1>1 DEF PoolOK

\* A step of an agent that leaves its futures and its slots alone.
LEMMA SamePool ==
    ASSUME NEW a \in Agent, UNCHANGED <<future, visited, slots>>
    PROVE  Running(a)' = Running(a)
  BY DEF Running

-----------------------------------------------------------------------------
(* Filling the slots. *)

LEMMA FillKeepsPool ==
    ASSUME PoolInv, NEW a \in Agent,
           StartUp(a) \/ PollForSlot(a) \/ StopFilling(a) \/ ClaimForSlot(a)
               \/ ClaimForSlotRefused(a) \/ (Heartbeat(a) /\ UNCHANGED poolVars)
    PROVE  PoolInv'
<1> USE DEF PoolInv, ParallelTypeOK
<1>1. UNCHANGED poolVars
  BY DEF StartUp, PollForSlot, StopFilling, ClaimForSlot, ClaimForSlotRefused, Refused
<1>2. TablesOK'
  <2>1. CASE ClaimForSlot(a)
    <3>1. held[a] \in Job /\ GrantClaim(held[a], a) /\ exitCode[a] \in ExitCode
      BY <2>1 DEF ClaimForSlot, ClaimGranted, PoolOK
    <3> QED BY <3>1, HandlerTypes
  <2>2. CASE ~ ClaimForSlot(a)
    BY <2>2 DEF StartUp, AgentStart, RegisterAgent, PollForSlot, Poll, StopFilling,
                ClaimForSlotRefused, RefuseClaim, Heartbeat, TablesOK, AgentStatus, serverVars,
                jobVars, agentRowVars
  <2> QED BY <2>1, <2>2
<1>3. /\ phase' \in [Agent -> Place] /\ held' \in [Agent -> Job \cup {NoJob}]
      /\ UNCHANGED <<exitCode, late>>
  <2>1. CASE PollForSlot(a)
    BY <2>1 DEF PollForSlot, Poll, Offered, Place
  <2>2. CASE StartUp(a) \/ StopFilling(a) \/ ClaimForSlot(a)
    BY <2>2 DEF StartUp, AgentStart, StopFilling, ClaimForSlot, ClaimGranted, Place
  <2>3. CASE ClaimForSlotRefused(a) \/ (Heartbeat(a) /\ UNCHANGED poolVars)
    BY <2>3 DEF ClaimForSlotRefused, Refused, Heartbeat, processVars, Place
  <2> QED BY <2>1, <2>2, <2>3
<1>4. ParallelTypeOK'
  BY <1>1, <1>2, <1>3 DEF poolVars
<1>5. ASSUME NEW b \in Agent, b # a PROVE PoolOK(b)'
  <2>1. phase'[b] = phase[b] /\ held'[b] = held[b]
    BY <1>5 DEF StartUp, AgentStart, PollForSlot, Poll, StopFilling, ClaimForSlot, ClaimGranted,
                ClaimForSlotRefused, Refused, Heartbeat, processVars
  <2> QED BY <1>1, <1>5, <2>1, OthersKeepPool DEF poolVars
<1>6. PoolOK(a)'
  <2>1. Running(a)' = Running(a)
    BY <1>1, SamePool DEF poolVars
  <2>2. /\ phase'[a] \in {"claiming", "starting", "reporting"} => held'[a] \in Job
        /\ phase'[a] \in {"claiming", "starting"} => slots[a] > 0
        /\ phase'[a] \in {"down", "polling", "claiming", "starting"} => completed[a] = {}
        /\ phase'[a] = "reporting" => phase[a] = "reporting" /\ held'[a] = held[a]
    BY DEF StartUp, AgentStart, PollForSlot, Poll, Offered, StopFilling, ClaimForSlot, ClaimGranted,
           ClaimForSlotRefused, Refused, Heartbeat, processVars, PoolOK
  <2> QED BY <1>1, <2>1, <2>2 DEF PoolOK, poolVars
<1> QED BY <1>4, <1>5, <1>6

\* A job is submitted: one slot less, and at most one running job more.
LEMMA SubmitKeepsPool ==
    ASSUME PoolInv, NEW a \in Agent, phase[a] = "starting", Submit(a), TablesOK',
           late' \subseteq Request
    PROVE  PoolInv'
<1> USE DEF PoolInv, ParallelTypeOK
<1>1. held[a] \in Job /\ slots[a] \in 1 .. MaxParallel /\ completed[a] = {}
  BY DEF PoolOK
<1>2. /\ slots' = [slots EXCEPT ![a] = slots[a] - 1]
      /\ future' \in [Agent -> [Job -> Future]]
      /\ phase' \in [Agent -> Place]
  BY <1>1 DEF Submit, SlotTaken, Future, Place
<1>3. ParallelTypeOK'
  <2>1. slots' \in [Agent -> 0 .. MaxParallel]
    BY <1>1, <1>2, MaxParallelAssumption
  <2>2. workspaces' \subseteq {HostOf[b] : b \in Agent} \X Job
    BY <1>1 DEF Submit
  <2> QED BY <1>2, <2>1, <2>2 DEF Submit
<1>4. ASSUME NEW b \in Agent, b # a PROVE PoolOK(b)'
  BY <1>2, <1>4, OthersKeepPool DEF Submit
<1>5. PoolOK(a)'
  <2>1. Running(a)' = Running(a) \cup {held[a]}
    BY <1>1 DEF Submit, Running
  <2>2. Cardinality(Running(a)') <= Cardinality(Running(a)) + 1
    <3>1. PICK S \in SUBSET Job : S = Running(a)
      BY DEF Running
    <3>2. IsFiniteSet(S) /\ Cardinality(S) \in Nat
      BY RunningIsFinite
    <3>3. Cardinality(S \cup {held[a]}) \in {Cardinality(S), Cardinality(S) + 1}
      BY <3>2, FS_AddElement
    <3>4. Cardinality(S \cup {held[a]}) <= Cardinality(S) + 1
      BY <3>2, <3>3
    <3> QED BY <2>1, <3>1, <3>4
  <2>3. /\ Cardinality(Running(a)) \in Nat /\ Cardinality(Running(a)') \in Nat
    <3>1. Running(a) \in SUBSET Job /\ Running(a)' \in SUBSET Job
      BY <1>1, <2>1 DEF Running
    <3> QED BY <3>1, RunningIsFinite
  <2>4. slots'[a] + Cardinality(Running(a)') <= MaxParallel
    BY <1>1, <1>2, <2>2, <2>3, MaxParallelAssumption DEF PoolOK
  <2> QED BY <1>1, <2>4 DEF PoolOK, Submit, Place
<1> QED BY <1>3, <1>4, <1>5

LEMMA StartKeepsPool ==
    ASSUME PoolInv, NEW a \in Agent, StartAndSubmit(a)
    PROVE  PoolInv'
<1>1. held[a] \in Job /\ StartJob(held[a]) /\ exitCode[a] \in ExitCode
  BY DEF StartAndSubmit, PoolInv, ParallelTypeOK, PoolOK
<1>2. TablesOK'
  BY <1>1, HandlerTypes DEF PoolInv, ParallelTypeOK
<1> QED BY <1>2, SubmitKeepsPool DEF StartAndSubmit, PoolInv, ParallelTypeOK

-----------------------------------------------------------------------------
(* The pass over the running jobs. *)

\* A thread that ends leaves its job among the running ones.
LEMMA RunKeepsPool ==
    ASSUME PoolInv, NEW a \in Agent, NEW j \in Job, RunJob(a, j)
    PROVE  PoolInv'
<1> USE DEF PoolInv, ParallelTypeOK
<1>1. PICK end \in {"passed", "failed"} : future' = [future EXCEPT ![a][j] = end]
  BY DEF RunJob
<1>2. UNCHANGED <<vars, visited, completed, slots, workspaces>> /\ future[a][j] = "working"
  BY DEF RunJob
<1>3. ParallelTypeOK'
  <2>1. future' \in [Agent -> [Job -> Future]]
    BY <1>1 DEF Future
  <2> QED BY <1>2, <2>1 DEF vars, serverVars, jobVars, agentRowVars, processVars, TablesOK
<1>4. ASSUME NEW b \in Agent PROVE PoolOK(b)'
  <2>1. Running(b)' = Running(b)
    BY <1>1, <1>2 DEF Running
  <2> QED BY <1>1, <1>2, <2>1 DEF vars, processVars, PoolOK
<1> QED BY <1>3, <1>4

LEMMA VisitKeepsPool ==
    ASSUME PoolInv, NEW a \in Agent, NEW j \in Job, Visit(a, j)
    PROVE  PoolInv'
<1> USE DEF PoolInv, ParallelTypeOK
<1>1. UNCHANGED <<serverVars, late, future, completed, slots, workspaces>>
  BY DEF Visit
<1>2. ParallelTypeOK'
  <2>1. TablesOK'
    BY <1>1 DEF serverVars, jobVars, agentRowVars, TablesOK
  <2>2. /\ phase' \in [Agent -> Place] /\ held' \in [Agent -> Job \cup {NoJob}]
        /\ exitCode' \in [Agent -> ExitCode] /\ visited' \in [Agent -> SUBSET Job]
    <3>1. visited' \in [Agent -> SUBSET Job]
      BY DEF Visit
    <3>2. CASE UNCHANGED processVars
      BY <3>1, <3>2 DEF processVars
    <3>3. CASE /\ phase' = [phase EXCEPT ![a] = "reporting"]
               /\ held' = [held EXCEPT ![a] = j]
               /\ exitCode' = [exitCode EXCEPT ![a] = IF future[a][j] = "passed" THEN 0 ELSE 1]
      BY <3>1, <3>3 DEF Place, ExitCode
    <3> QED BY <3>2, <3>3 DEF Visit
  <2>3. UNCHANGED <<late, future, completed, slots, workspaces>>
    BY <1>1
  <2> QED BY <2>1, <2>2, <2>3
<1>3. ASSUME NEW b \in Agent, b # a PROVE PoolOK(b)'
  BY <1>1, <1>3, OthersKeepPool DEF Visit, processVars
<1>4. PoolOK(a)'
  <2>1. Running(a)' = Running(a)
    BY <1>1 DEF Running
  <2>2. j \notin visited[a] /\ visited'[a] = visited[a] \cup {j} /\ phase[a] = "collecting"
    BY DEF Visit
  <2>3. CASE UNCHANGED processVars
    BY <1>1, <2>1, <2>2, <2>3 DEF PoolOK, processVars
  <2>4. CASE IsDone(a, j) /\ phase'[a] = "reporting" /\ held'[a] = j
    <3>1. future[a][j] \in {"passed", "failed"}
      BY <2>4 DEF Visit, Running, IsDone, Future
    <3> QED BY <1>1, <2>1, <2>2, <2>4, <3>1 DEF PoolOK
  <2> QED BY <2>3, <2>4 DEF Visit
<1> QED BY <1>2, <1>3, <1>4

\* The main thread has its answer, or has given up on it.
LEMMA ReportedKeepsPool ==
    ASSUME PoolInv, NEW a \in Agent, phase[a] = "reporting", Reported(a), TablesOK',
           late' \subseteq Request
    PROVE  PoolInv'
<1> USE DEF PoolInv, ParallelTypeOK
<1>1. ParallelTypeOK'
  <2>1. held[a] \in Job
    BY DEF PoolOK
  <2> QED BY <2>1 DEF Reported, ReportNoted, Place, ExitCode
<1>2. ASSUME NEW b \in Agent, b # a PROVE PoolOK(b)'
  BY <1>2, OthersKeepPool DEF Reported
<1>3. PoolOK(a)'
  <2>1. Running(a)' = Running(a)
    BY DEF Reported, Running
  <2>2. /\ phase'[a] = "collecting" /\ completed'[a] = completed[a] \cup {held[a]}
        /\ UNCHANGED <<future, visited, slots>>
    BY DEF Reported, ReportNoted
  <2> QED BY <2>1, <2>2 DEF PoolOK
<1> QED BY <1>1, <1>2, <1>3

LEMMA ReportKeepsPool ==
    ASSUME PoolInv, NEW a \in Agent, Report(a)
    PROVE  PoolInv'
<1>1. held[a] \in Job /\ CompleteJob(held[a], exitCode[a]) /\ exitCode[a] \in ExitCode
  BY DEF Report, PoolInv, ParallelTypeOK, PoolOK
<1>2. TablesOK'
  BY <1>1, HandlerTypes DEF PoolInv, ParallelTypeOK
<1> QED BY <1>2, ReportedKeepsPool DEF Report, PoolInv, ParallelTypeOK

\* The reported jobs go, and the slots are counted anew.
LEMMA EndPassKeepsPool ==
    ASSUME PoolInv, NEW a \in Agent, EndPass(a)
    PROVE  PoolInv'
<1> USE DEF PoolInv, ParallelTypeOK
<1>1. /\ UNCHANGED <<serverVars, held, exitCode, late>>
      /\ slots' = [slots EXCEPT ![a] = SlotsLeft(a)]
      /\ future' = [future EXCEPT ![a] =
                      [j \in Job |-> IF j \in completed[a] THEN "none" ELSE future[a][j]]]
      /\ phase' = [phase EXCEPT ![a] = "polling"]
      /\ visited' = [visited EXCEPT ![a] = {}] /\ completed' = [completed EXCEPT ![a] = {}]
      /\ workspaces' \subseteq workspaces
  BY DEF EndPass
<1>2. PICK S \in SUBSET Job, T \in SUBSET Job :
          /\ S = Running(a) /\ T = Running(a) \ completed[a]
          /\ Cardinality(S) \in Nat /\ Cardinality(T) \in Nat /\ Cardinality(T) <= Cardinality(S)
  <2>1. PICK S \in SUBSET Job : S = Running(a)
    BY DEF Running
  <2>2. PICK T \in SUBSET S : T = Running(a) \ completed[a]
    BY <2>1
  <2>3. IsFiniteSet(S) /\ Cardinality(S) \in Nat /\ Cardinality(T) \in Nat
    BY <2>1, <2>2, RunningIsFinite
  <2>4. Cardinality(T) <= Cardinality(S)
    BY <2>3, FS_Subset
  <2> QED BY <2>1, <2>2, <2>3, <2>4
<1>3. SlotsLeft(a) = MaxParallel - Cardinality(T) /\ SlotsLeft(a) \in 0 .. MaxParallel
  BY <1>2, MaxParallelAssumption DEF SlotsLeft, PoolOK
<1>4. ParallelTypeOK'
  <2>1. TablesOK'
    BY <1>1 DEF serverVars, jobVars, agentRowVars, TablesOK
  <2>2. future' \in [Agent -> [Job -> Future]]
    BY <1>1 DEF Future
  <2> QED BY <1>1, <1>3, <2>1, <2>2 DEF Place
<1>5. ASSUME NEW b \in Agent, b # a PROVE PoolOK(b)'
  BY <1>1, <1>5, OthersKeepPool
<1>6. PoolOK(a)'
  <2>1. Running(a)' = T
    BY <1>1, <1>2 DEF Running
  <2>2. slots'[a] + Cardinality(Running(a)') <= MaxParallel
    BY <1>1, <1>2, <1>3, <2>1, MaxParallelAssumption
  <2> QED BY <1>1, <2>2 DEF PoolOK
<1> QED BY <1>4, <1>5, <1>6

-----------------------------------------------------------------------------
(* Failures, and the steps of others. *)

LEMMA CallIsRequest ==
    ASSUME PoolInv, NEW a \in Agent, Calling(a)
    PROVE  CurrentRequest(a) \in Request /\ held[a] \in Job
  BY DEF PoolInv, ParallelTypeOK, PoolOK, Calling, CurrentRequest, CallOf, Request, ExitCode

LEMMA GivenUpKeepsPool ==
    ASSUME PoolInv, NEW a \in Agent, CallGivenUp(a)
    PROVE  PoolInv'
<1>1. late' \subseteq Request /\ TablesOK'
  BY CallIsRequest DEF CallGivenUp, LoseOrDelay, PoolInv, ParallelTypeOK, serverVars, jobVars,
                       agentRowVars, TablesOK
<1>2. CASE phase[a] = "claiming" /\ Refused(a)
  <2>1. UNCHANGED <<exitCode, poolVars>> /\ phase' = [phase EXCEPT ![a] = "collecting"]
        /\ held' = [held EXCEPT ![a] = NoJob]
    BY <1>2 DEF Refused
  <2>2. ParallelTypeOK'
    BY <1>1, <2>1 DEF PoolInv, ParallelTypeOK, poolVars, Place
  <2>3. ASSUME NEW b \in Agent, b # a PROVE PoolOK(b)'
    BY <2>1, <2>3, OthersKeepPool DEF PoolInv, ParallelTypeOK, poolVars
  <2>4. PoolOK(a)'
    <3>1. Running(a)' = Running(a) /\ phase'[a] = "collecting"
      BY <2>1 DEF Running, poolVars, PoolInv, ParallelTypeOK
    <3> QED BY <2>1, <3>1 DEF PoolInv, PoolOK, poolVars
  <2> QED BY <2>2, <2>3, <2>4 DEF PoolInv
<1> QED BY <1>1, <1>2, SubmitKeepsPool, ReportedKeepsPool DEF CallGivenUp

LEMMA DeathKeepsPool ==
    ASSUME PoolInv, NEW a \in Agent, ProcessDies(a)
    PROVE  PoolInv'
<1> USE DEF PoolInv, ParallelTypeOK
<1>1. late' \subseteq Request /\ TablesOK'
  BY CallIsRequest DEF ProcessDies, AgentCrash, LoseOrDelay, serverVars, jobVars, agentRowVars,
                       TablesOK
<1>2. /\ phase' = [phase EXCEPT ![a] = "down"] /\ held' = [held EXCEPT ![a] = NoJob]
      /\ exitCode' = [exitCode EXCEPT ![a] = 0]
      /\ future' = [future EXCEPT ![a] = NoFutures]
      /\ visited' = [visited EXCEPT ![a] = {}] /\ completed' = [completed EXCEPT ![a] = {}]
      /\ slots' = [slots EXCEPT ![a] = MaxParallel] /\ UNCHANGED workspaces
  BY DEF ProcessDies, AgentCrash
<1>3. ParallelTypeOK'
  BY <1>1, <1>2, MaxParallelAssumption DEF Place, ExitCode, NoFutures, Future
<1>4. ASSUME NEW b \in Agent, b # a PROVE PoolOK(b)'
  BY <1>2, <1>4, OthersKeepPool
<1>5. PoolOK(a)'
  <2>1. Running(a)' = {}
    BY <1>2 DEF Running, NoFutures
  <2>2. Cardinality(Running(a)') = 0
    BY <2>1, FS_EmptySet
  <2> QED BY <1>2, <2>2, MaxParallelAssumption DEF PoolOK
<1> QED BY <1>3, <1>4, <1>5

LEMMA OutsideKeepsPool ==
    ASSUME PoolInv, ServerNext \/ OperatorNext, UNCHANGED poolVars
    PROVE  PoolInv'
<1>1. TablesOK' /\ late' \subseteq Request /\ UNCHANGED processVars
  BY ServerTables, OperatorTables DEF PoolInv, ParallelTypeOK
<1>2. ParallelTypeOK'
  BY <1>1 DEF PoolInv, ParallelTypeOK, processVars, poolVars
<1>3. ASSUME NEW b \in Agent PROVE PoolOK(b)'
  BY <1>1, OthersKeepPool DEF PoolInv, processVars, poolVars
<1> QED BY <1>2, <1>3 DEF PoolInv

LEMMA InitPool == ParallelInit => PoolInv
<1> SUFFICES ASSUME ParallelInit PROVE PoolInv
  OBVIOUS
<1>1. ParallelTypeOK
  BY InitTypes, MaxParallelAssumption
     DEF ParallelInit, Init, ParallelTypeOK, TypeOK, NoFutures, Future, Place, ExitCode
<1>2. ASSUME NEW a \in Agent PROVE PoolOK(a)
  <2>1. Running(a) = {}
    BY DEF ParallelInit, Running, NoFutures
  <2>2. Cardinality(Running(a)) = 0
    BY <2>1, FS_EmptySet
  <2> QED BY <2>2, MaxParallelAssumption DEF ParallelInit, Init, PoolOK
<1> QED BY <1>1, <1>2 DEF PoolInv

LEMMA NextPool == PoolInv /\ [ParallelNext]_allVars => PoolInv'
<1> SUFFICES ASSUME PoolInv, [ParallelNext]_allVars PROVE PoolInv'
  OBVIOUS
<1>1. CASE ParallelNext
  BY <1>1, FillKeepsPool, StartKeepsPool, RunKeepsPool, VisitKeepsPool, ReportKeepsPool,
     EndPassKeepsPool, GivenUpKeepsPool, DeathKeepsPool, OutsideKeepsPool
     DEF ParallelNext, MainThread
<1>2. CASE UNCHANGED allVars
  <2>1. ParallelTypeOK'
    BY <1>2 DEF allVars, vars, serverVars, jobVars, agentRowVars, processVars, poolVars, PoolInv,
                ParallelTypeOK, TablesOK
  <2>2. ASSUME NEW b \in Agent PROVE PoolOK(b)'
    BY <1>2, OthersKeepPool DEF allVars, vars, processVars, poolVars, PoolInv
  <2> QED BY <2>1, <2>2 DEF PoolInv
<1> QED BY <1>1, <1>2

\* The pools of all agents are in order in every reachable state.
THEOREM PoolsHold == ParallelSpec => []PoolInv
  BY InitPool, NextPool, PTL DEF ParallelSpec

THEOREM ParallelTypeCorrect == ParallelSpec => []ParallelTypeOK
<1>1. PoolInv => ParallelTypeOK
  BY DEF PoolInv
<1> QED BY <1>1, PoolsHold, PTL

\* An agent never works on more jobs than it has slots, the one it claims included.
THEOREM SlotsRespected == ParallelSpec => []SlotsAreRespected
<1>1. PoolInv => SlotsAreRespected
  <2> SUFFICES ASSUME PoolInv, NEW a \in Agent
               PROVE  Cardinality(Running(a) \cup {j \in Job : phase[a] = "starting" /\ held[a] = j})
                          <= MaxParallel
    BY DEF SlotsAreRespected
  <2>1. PICK S \in SUBSET Job : S = Running(a)
    BY DEF Running
  <2>2. IsFiniteSet(S) /\ Cardinality(S) \in Nat
    BY RunningIsFinite
  <2>3. slots[a] + Cardinality(S) <= MaxParallel /\ slots[a] \in Nat
    BY <2>1 DEF PoolInv, PoolOK, ParallelTypeOK
  <2>4. CASE phase[a] = "starting"
    <3>1. slots[a] > 0 /\ {j \in Job : phase[a] = "starting" /\ held[a] = j} = {held[a]}
      BY <2>4 DEF PoolInv, PoolOK
    <3>2. Cardinality(S \cup {held[a]}) \in {Cardinality(S), Cardinality(S) + 1}
      BY <2>2, FS_AddElement
    <3>3. Cardinality(S \cup {held[a]}) <= MaxParallel
      BY <2>2, <2>3, <3>1, <3>2, MaxParallelAssumption
    <3> QED BY <2>1, <3>1, <3>3
  <2>5. CASE phase[a] # "starting"
    <3>1. S \cup {j \in Job : phase[a] = "starting" /\ held[a] = j} = S
      BY <2>5
    <3>2. Cardinality(S) <= MaxParallel
      BY <2>2, <2>3, MaxParallelAssumption
    <3> QED BY <2>1, <3>1, <3>2
  <2> QED BY <2>4, <2>5
<1> QED BY <1>1, PoolsHold, PTL

(***************************************************************************)
(* Custody of jobs across all slots                                        *)
(***************************************************************************)

\* What OneSlotPerJob needs to be inductive: a job has one worker, whom the row
\* names; a job on offer has none; and only granted jobs have one.
SlotCore ==
    /\ \A j \in Job : \A a, b \in Agent : j \in InCustody(a) /\ j \in InCustody(b) => a = b
    /\ \A j \in Job : \A a \in Agent :
          j \in InCustody(a) => LateReports(j) = {} /\ jobAgent[j] = a
    /\ \A j \in Job : \A r, s \in LateReports(j) : r = s /\ jobAgent[j] = r.agent
    /\ \A j \in Job : jobStatus[j] = "pending" =>
          LateReports(j) = {} /\ \A a \in Agent : j \notin InCustody(a)
    /\ \A j \in Job : InSlot(j) => claims[j] > 0

\* A job that is about to be submitted is not running in the same pool.
NotStartedTwice == \A a \in Agent : phase[a] = "starting" => held[a] \notin Running(a)

SlotInv == SlotCore /\ NotStartedTwice /\ UntouchedUntilAdded

\* The jobs in the custody of an agent, now and after a step.
LEMMA CustodyIs ==
    ASSUME PoolInv, NEW a \in Agent
    PROVE  InCustody(a) = (Running(a) \ completed[a])
                              \cup {j \in Job : phase[a] = "starting" /\ held[a] = j}
  BY DEF PoolInv, PoolOK, InCustody, Running

LEMMA CustodyWillBe ==
    ASSUME PoolInv', NEW a \in Agent
    PROVE  InCustody(a)' = (Running(a)' \ completed'[a])
                              \cup {j \in Job : phase'[a] = "starting" /\ held'[a] = j}
  BY DEF PoolInv, PoolOK, InCustody, Running

LEMMA OthersKeepJobs ==
    ASSUME NEW b \in Agent, phase'[b] = phase[b], held'[b] = held[b],
           future'[b] = future[b], completed'[b] = completed[b]
    PROVE  InCustody(b)' = InCustody(b)
  BY DEF InCustody, Running

-----------------------------------------------------------------------------
(* What steps of each kind do to custody. *)

\* Custody may end at any time, for nothing is offered again on that account.
LEMMA SlotsShrink ==
    ASSUME SlotCore,
           \A a \in Agent : InCustody(a)' \subseteq InCustody(a),
           \A j \in Job : LateReports(j)' \subseteq LateReports(j),
           \A j \in Job : jobStatus'[j] = "pending" => jobStatus[j] = "pending",
           UNCHANGED <<jobAgent, claims>>
    PROVE  SlotCore'
  BY DEF SlotCore, InSlot

\* claim_job: nobody had the job, and at most its agent has it now.
LEMMA GrantKeepsSlots ==
    ASSUME SlotCore, TablesOK, NEW j \in Job, NEW a \in Agent, GrantClaim(j, a),
           \A b \in Agent : InCustody(b)' \subseteq InCustody(b) \cup (IF b = a THEN {j} ELSE {}),
           \A k \in Job : LateReports(k)' \subseteq LateReports(k)
    PROVE  SlotCore'
<1>1. /\ jobStatus[j] = "pending"
      /\ \A k \in Job : jobStatus'[k] = "pending" => jobStatus[k] = "pending" /\ k # j
      /\ \A k \in Job : jobAgent'[k] = IF k = j THEN a ELSE jobAgent[k]
      /\ \A k \in Job : claims'[k] = IF k = j THEN claims[j] + 1 ELSE claims[k]
      /\ claims \in [Job -> Nat]
  BY DEF GrantClaim, TablesOK
<1>2. (\A b \in Agent : j \notin InCustody(b)) /\ LateReports(j) = {} /\ LateReports(j)' = {}
  BY <1>1 DEF SlotCore
<1>3. \A k \in Job, b \in Agent : k \in InCustody(b)' => k \in InCustody(b) \/ (k = j /\ b = a)
  OBVIOUS
<1>4. \A k \in Job : \A b, c \in Agent : k \in InCustody(b)' /\ k \in InCustody(c)' => b = c
  BY <1>2, <1>3 DEF SlotCore
<1>5. \A k \in Job : \A b \in Agent :
          k \in InCustody(b)' => LateReports(k)' = {} /\ jobAgent'[k] = b
  BY <1>1, <1>2, <1>3 DEF SlotCore
<1>6. \A k \in Job : \A r, s \in LateReports(k)' : r = s /\ jobAgent'[k] = r.agent
  BY <1>1, <1>2 DEF SlotCore
<1>7. \A k \in Job : jobStatus'[k] = "pending" =>
          LateReports(k)' = {} /\ \A b \in Agent : k \notin InCustody(b)'
  BY <1>1, <1>3 DEF SlotCore
<1>8. \A k \in Job : InSlot(k)' => claims'[k] > 0
  BY <1>1, <1>3 DEF SlotCore, InSlot
<1> QED BY <1>4, <1>5, <1>6, <1>7, <1>8 DEF SlotCore

\* complete_job: the worker of the job has it no longer.
LEMMA ReportKeepsSlots ==
    ASSUME SlotCore, TablesOK, NEW j \in Job, NEW e \in ExitCode, CompleteJob(j, e),
           \A b \in Agent : InCustody(b)' \subseteq InCustody(b) \ {j},
           \A k \in Job : LateReports(k)' \subseteq LateReports(k),
           LateReports(j)' = {}
    PROVE  SlotCore'
<1>1. UNCHANGED <<jobAgent, claims>>
  BY DEF CompleteJob, ReportRow, NoSuchJob, serverVars, jobVars
<1>2. \A k \in Job : jobStatus'[k] = "pending" => jobStatus[k] = "pending" \/ k = j
  BY DEF CompleteJob, ReportRow, NoSuchJob, serverVars, jobVars, TablesOK
<1> QED BY <1>1, <1>2 DEF SlotCore, InSlot

\* A call that is given up: a report passes from its agent to the late requests.
LEMMA HandOverKeepsSlots ==
    ASSUME SlotCore, PoolInv, NEW a \in Agent, Calling(a), LoseOrDelay(a), UNCHANGED serverVars,
           \A b \in Agent : InCustody(b)' \subseteq InCustody(b),
           phase[a] = "reporting" => held[a] \notin InCustody(a)'
    PROVE  SlotCore'
<1>0. PICK r \in Request, j \in Job : r = CurrentRequest(a) /\ j = held[a]
  BY CallIsRequest
<1>1. UNCHANGED <<jobStatus, jobAgent, claims>>
  BY DEF serverVars, jobVars
<1>2. late' \subseteq late \cup {r} /\ r.agent = a /\ r.job = j
      /\ (r.op = "complete" <=> phase[a] = "reporting")
  BY <1>0 DEF LoseOrDelay, CurrentRequest, CallOf, Calling
<1>3. CASE phase[a] # "reporting"
  BY <1>1, <1>2, <1>3, SlotsShrink DEF LateReports
<1>4. CASE phase[a] = "reporting"
  <2>1. j \in InCustody(a)
    <3>1. j \in Running(a) \ completed[a]
      BY <1>0, <1>4 DEF PoolInv, PoolOK, Running
    <3> QED BY <3>1, CustodyIs
  <2>2. LateReports(j) = {} /\ jobAgent[j] = a /\ claims[j] > 0 /\ jobStatus[j] # "pending"
    BY <2>1 DEF SlotCore, InSlot
  <2>3. \A k \in Job : LateReports(k)' \subseteq IF k = j THEN {r} ELSE LateReports(k)
    BY <1>2, <2>2 DEF LateReports
  <2>4. \A b \in Agent : j \notin InCustody(b)'
    BY <1>0, <1>4, <2>1 DEF SlotCore
  <2>5. \A k \in Job : \A b, c \in Agent : k \in InCustody(b)' /\ k \in InCustody(c)' => b = c
    BY DEF SlotCore
  <2>6. \A k \in Job : \A b \in Agent :
            k \in InCustody(b)' => LateReports(k)' = {} /\ jobAgent'[k] = b
    BY <1>1, <2>3, <2>4 DEF SlotCore
  <2>7. \A k \in Job : \A q, s \in LateReports(k)' : q = s /\ jobAgent'[k] = q.agent
    BY <1>1, <1>2, <2>2, <2>3 DEF SlotCore
  <2>8. \A k \in Job : jobStatus'[k] = "pending" =>
            LateReports(k)' = {} /\ \A b \in Agent : k \notin InCustody(b)'
    BY <1>1, <2>2, <2>3 DEF SlotCore
  <2>9. \A k \in Job : InSlot(k)' => claims'[k] > 0
    BY <1>1, <2>2, <2>3 DEF SlotCore, InSlot
  <2> QED BY <2>5, <2>6, <2>7, <2>8, <2>9 DEF SlotCore
<1> QED BY <1>3, <1>4

-----------------------------------------------------------------------------
(* The steps one by one. *)

\* Steps that leave every job where it is.
LEMMA StillJobs ==
    ASSUME PoolInv, PoolInv', NEW a \in Agent,
           \/ StartUp(a) \/ PollForSlot(a) \/ StopFilling(a) \/ ClaimForSlotRefused(a)
           \/ (Heartbeat(a) /\ UNCHANGED poolVars)
           \/ (\E j \in Job : Visit(a, j) \/ RunJob(a, j)) \/ EndPass(a)
    PROVE  /\ UNCHANGED <<jobStatus, jobAgent, retryCount, claims, buildStatus, creating, late>>
           /\ \A b \in Agent : InCustody(b)' = InCustody(b)
           /\ NotStartedTwice => NotStartedTwice'
<1>1. CASE \/ StartUp(a) \/ PollForSlot(a) \/ StopFilling(a) \/ ClaimForSlotRefused(a)
           \/ (Heartbeat(a) /\ UNCHANGED poolVars)
  <2>1. UNCHANGED <<jobStatus, jobAgent, retryCount, claims, buildStatus, creating, late, poolVars>>
    BY <1>1 DEF StartUp, AgentStart, RegisterAgent, PollForSlot, Poll, StopFilling,
                ClaimForSlotRefused, Refused, RefuseClaim, Heartbeat, serverVars, jobVars
  <2>2. \A b \in Agent : /\ phase'[b] = "starting" <=> phase[b] = "starting"
                         /\ phase[b] = "starting" => held'[b] = held[b]
    BY <1>1 DEF StartUp, AgentStart, PollForSlot, Poll, StopFilling, ClaimForSlotRefused, Refused,
                Heartbeat, processVars, PoolInv, ParallelTypeOK
  <2> QED BY <2>1, <2>2 DEF poolVars, InCustody, Running, NotStartedTwice
<1>2. ASSUME NEW j \in Job, Visit(a, j)
      PROVE  /\ UNCHANGED <<jobStatus, jobAgent, retryCount, claims, buildStatus, creating, late>>
             /\ \A b \in Agent : InCustody(b)' = InCustody(b)
             /\ NotStartedTwice => NotStartedTwice'
  <2>1. UNCHANGED <<jobStatus, jobAgent, retryCount, claims, buildStatus, creating, late, future,
                    completed>>
    BY <1>2 DEF Visit, serverVars, jobVars
  <2>2. \A b \in Agent : /\ phase'[b] = "starting" <=> phase[b] = "starting"
                         /\ phase[b] = "starting" => held'[b] = held[b]
    BY <1>2 DEF Visit, processVars, PoolInv, ParallelTypeOK
  <2> QED BY <2>1, <2>2 DEF InCustody, Running, NotStartedTwice
<1>3. ASSUME NEW j \in Job, RunJob(a, j)
      PROVE  /\ UNCHANGED <<jobStatus, jobAgent, retryCount, claims, buildStatus, creating, late>>
             /\ \A b \in Agent : InCustody(b)' = InCustody(b)
             /\ NotStartedTwice => NotStartedTwice'
  <2>1. UNCHANGED <<jobStatus, jobAgent, retryCount, claims, buildStatus, creating, late, phase,
                    held, completed>>
    BY <1>3 DEF RunJob, vars, serverVars, jobVars, processVars
  <2>2. \A b \in Agent : Running(b)' = Running(b)
    BY <1>3 DEF RunJob, Running, PoolInv, ParallelTypeOK
  <2> QED BY <2>1, <2>2, CustodyIs, CustodyWillBe DEF NotStartedTwice
<1>4. CASE EndPass(a)
  <2>1. /\ UNCHANGED <<jobStatus, jobAgent, retryCount, claims, buildStatus, creating, late, held>>
        /\ phase[a] = "collecting" /\ phase'[a] = "polling" /\ completed'[a] = {}
        /\ \A b \in Agent : b # a => /\ phase'[b] = phase[b] /\ completed'[b] = completed[b]
                                     /\ future'[b] = future[b]
    BY <1>4 DEF EndPass, serverVars, jobVars, PoolInv, ParallelTypeOK
  <2>2. Running(a)' = Running(a) \ completed[a]
    BY <1>4 DEF EndPass, Running, PoolInv, ParallelTypeOK
  <2>3. \A b \in Agent : b # a => Running(b)' = Running(b)
    BY <2>1 DEF Running
  <2> QED BY <2>1, <2>2, <2>3, CustodyIs, CustodyWillBe DEF NotStartedTwice
<1> QED BY <1>1, <1>2, <1>3, <1>4

LEMMA StillKeepsSlots ==
    ASSUME SlotInv, UNCHANGED <<jobStatus, jobAgent, retryCount, claims, buildStatus, creating, late>>,
           \A b \in Agent : InCustody(b)' = InCustody(b), NotStartedTwice'
    PROVE  SlotInv'
<1>1. SlotCore'
  BY SlotsShrink DEF SlotInv, LateReports
<1>2. UntouchedUntilAdded'
  BY DEF SlotInv, UntouchedUntilAdded, NotYetAdded
<1> QED BY <1>1, <1>2 DEF SlotInv

\* A claim is granted: the job was on offer, so nobody had it.
LEMMA ClaimKeepsSlots ==
    ASSUME PoolInv, PoolInv', SlotInv, NEW a \in Agent, ClaimForSlot(a)
    PROVE  SlotInv'
<1>1. PICK j \in Job : j = held[a] /\ GrantClaim(j, a)
  BY DEF ClaimForSlot, ClaimGranted, PoolInv, PoolOK
<1>2. /\ phase[a] = "claiming" /\ phase' = [phase EXCEPT ![a] = "starting"]
      /\ UNCHANGED <<held, exitCode, late, future, visited, completed>>
  BY DEF ClaimForSlot, ClaimGranted, poolVars
<1>3. \A b \in Agent : InCustody(b)' = InCustody(b) \cup (IF b = a THEN {j} ELSE {})
  BY <1>1, <1>2 DEF PoolInv, ParallelTypeOK, InCustody, Running
<1>4. SlotCore'
  BY <1>1, <1>2, <1>3, GrantKeepsSlots DEF SlotInv, LateReports, PoolInv, ParallelTypeOK
<1>5. NotStartedTwice'
  <2>1. j \notin InCustody(a) /\ completed[a] = {}
    BY <1>1, <1>2 DEF SlotInv, SlotCore, GrantClaim, PoolInv, PoolOK
  <2>2. j \notin Running(a)
    BY <2>1, CustodyIs
  <2> QED BY <1>1, <1>2, <2>2 DEF SlotInv, NotStartedTwice, Running, PoolInv, ParallelTypeOK
<1>6. UntouchedUntilAdded'
  <2>1. exitCode[a] \in ExitCode /\ TablesOK
    BY DEF PoolInv, ParallelTypeOK
  <2> QED BY <1>1, <2>1, HandlerLeavesNewJobs DEF SlotInv
<1> QED BY <1>4, <1>5, <1>6 DEF SlotInv

\* Submitting moves a job from the claim to the running ones.
LEMMA SubmitMoves ==
    ASSUME PoolInv, PoolInv', NEW a \in Agent, phase[a] = "starting", Submit(a)
    PROVE  /\ \A b \in Agent : InCustody(b)' = InCustody(b)
           /\ NotStartedTwice => NotStartedTwice'
<1>1. held[a] \in Job /\ completed[a] = {}
  BY DEF PoolInv, PoolOK
<1>2. /\ Running(a)' = Running(a) \cup {held[a]} /\ phase'[a] = "polling" /\ completed' = completed
      /\ \A b \in Agent : b # a => /\ phase'[b] = phase[b] /\ held'[b] = held[b]
                                   /\ Running(b)' = Running(b)
  BY <1>1 DEF Submit, Running, PoolInv, ParallelTypeOK
<1> QED BY <1>1, <1>2, CustodyIs, CustodyWillBe DEF NotStartedTwice

LEMMA StartKeepsSlots ==
    ASSUME PoolInv, PoolInv', SlotInv, NEW a \in Agent, StartAndSubmit(a)
    PROVE  SlotInv'
<1>1. PICK j \in Job, e \in ExitCode : j = held[a] /\ StartJob(j) /\ e = exitCode[a]
  BY DEF StartAndSubmit, PoolInv, ParallelTypeOK, PoolOK
<1>2. UNCHANGED <<jobAgent, claims, late>>
  BY <1>1 DEF StartAndSubmit, StartJob, StartRow, NoSuchJob, serverVars, jobVars
<1>3. \A k \in Job : jobStatus'[k] = "pending" => jobStatus[k] = "pending"
  BY <1>1 DEF StartJob, StartRow, NoSuchJob, serverVars, jobVars, PoolInv, ParallelTypeOK, TablesOK
<1>4. (\A b \in Agent : InCustody(b)' = InCustody(b)) /\ NotStartedTwice'
  BY SubmitMoves DEF StartAndSubmit, SlotInv
<1>5. SlotCore'
  BY <1>2, <1>3, <1>4, SlotsShrink DEF SlotInv, LateReports
<1>6. UntouchedUntilAdded'
  BY <1>1, HandlerLeavesNewJobs DEF SlotInv, PoolInv, ParallelTypeOK
<1> QED BY <1>4, <1>5, <1>6 DEF SlotInv

\* The main thread has reported the job it held, or will not try again.
LEMMA ReportedMoves ==
    ASSUME PoolInv, PoolInv', NEW a \in Agent, phase[a] = "reporting", Reported(a)
    PROVE  /\ InCustody(a)' = InCustody(a) \ {held[a]} /\ held[a] \in InCustody(a)
           /\ \A b \in Agent : b # a => InCustody(b)' = InCustody(b)
           /\ NotStartedTwice => NotStartedTwice'
<1>1. held[a] \in Running(a) \ completed[a]
  BY DEF PoolInv, PoolOK, Running
<1>2. /\ phase'[a] = "collecting" /\ completed'[a] = completed[a] \cup {held[a]}
      /\ \A b \in Agent : b # a => /\ phase'[b] = phase[b] /\ held'[b] = held[b]
                                   /\ completed'[b] = completed[b]
  BY DEF Reported, ReportNoted, PoolInv, ParallelTypeOK
<1>3. \A b \in Agent : Running(b)' = Running(b)
  BY DEF Reported, Running
<1>4. InCustody(a) = Running(a) \ completed[a]
  BY CustodyIs
<1>5. InCustody(a)' = Running(a) \ (completed[a] \cup {held[a]})
  BY <1>2, <1>3, CustodyWillBe
<1>6. \A b \in Agent : b # a => InCustody(b)' = InCustody(b)
  BY <1>2, <1>3, CustodyIs, CustodyWillBe
<1>7. NotStartedTwice => NotStartedTwice'
  BY <1>2, <1>3 DEF NotStartedTwice
<1> QED BY <1>1, <1>4, <1>5, <1>6, <1>7

LEMMA DoneKeepsSlots ==
    ASSUME PoolInv, PoolInv', SlotInv, NEW a \in Agent, Report(a)
    PROVE  SlotInv'
<1>1. PICK j \in Job, e \in ExitCode : j = held[a] /\ CompleteJob(j, e) /\ e = exitCode[a]
  BY DEF Report, PoolInv, ParallelTypeOK, PoolOK
<1>2. /\ InCustody(a)' = InCustody(a) \ {j} /\ j \in InCustody(a) /\ NotStartedTwice'
      /\ \A b \in Agent : b # a => InCustody(b)' = InCustody(b)
  BY <1>1, ReportedMoves DEF Report, SlotInv
<1>3. \A b \in Agent : InCustody(b)' \subseteq InCustody(b) \ {j}
  BY <1>2 DEF SlotInv, SlotCore
<1>4. (\A k \in Job : LateReports(k)' = LateReports(k)) /\ LateReports(j) = {}
  BY <1>2 DEF Report, LateReports, SlotInv, SlotCore
<1>5. SlotCore'
  BY <1>1, <1>3, <1>4, ReportKeepsSlots DEF SlotInv, PoolInv, ParallelTypeOK
<1>6. UntouchedUntilAdded'
  BY <1>1, HandlerLeavesNewJobs DEF SlotInv, PoolInv, ParallelTypeOK
<1> QED BY <1>2, <1>5, <1>6 DEF SlotInv

LEMMA GivenUpKeepsSlots ==
    ASSUME PoolInv, PoolInv', SlotInv, NEW a \in Agent, CallGivenUp(a)
    PROVE  SlotInv'
<1>1. Calling(a) /\ LoseOrDelay(a) /\ UNCHANGED serverVars
  BY DEF CallGivenUp
<1>2. UntouchedUntilAdded'
  BY <1>1 DEF SlotInv, UntouchedUntilAdded, NotYetAdded, serverVars, jobVars
<1>3. CASE phase[a] = "claiming" /\ Refused(a)
  <2>1. (\A b \in Agent : InCustody(b)' = InCustody(b)) /\ NotStartedTwice'
    BY <1>3 DEF Refused, poolVars, InCustody, Running, PoolInv, ParallelTypeOK, SlotInv,
                NotStartedTwice
  <2> QED BY <1>1, <1>2, <1>3, <2>1, HandOverKeepsSlots DEF SlotInv
<1>4. CASE phase[a] = "starting" /\ Submit(a)
  <2>1. (\A b \in Agent : InCustody(b)' = InCustody(b)) /\ NotStartedTwice'
    BY <1>4, SubmitMoves DEF SlotInv
  <2> QED BY <1>1, <1>2, <1>4, <2>1, HandOverKeepsSlots DEF SlotInv
<1>5. CASE phase[a] = "reporting" /\ Reported(a)
  <2>1. /\ \A b \in Agent : InCustody(b)' \subseteq InCustody(b)
        /\ held[a] \notin InCustody(a)' /\ NotStartedTwice'
    BY <1>5, ReportedMoves DEF SlotInv
  <2> QED BY <1>1, <1>2, <2>1, HandOverKeepsSlots DEF SlotInv
<1> QED BY <1>3, <1>4, <1>5 DEF CallGivenUp

LEMMA DeathKeepsSlots ==
    ASSUME PoolInv, PoolInv', SlotInv, NEW a \in Agent, ProcessDies(a)
    PROVE  SlotInv'
<1>1. UNCHANGED serverVars
  BY DEF ProcessDies, AgentCrash
<1>2. UntouchedUntilAdded'
  BY <1>1 DEF SlotInv, UntouchedUntilAdded, NotYetAdded, serverVars, jobVars
<1>3. /\ InCustody(a)' = {}
      /\ \A b \in Agent : b # a => InCustody(b)' = InCustody(b)
      /\ NotStartedTwice'
  BY DEF ProcessDies, AgentCrash, NoFutures, InCustody, Running, PoolInv, ParallelTypeOK, SlotInv,
         NotStartedTwice
<1>4. \A b \in Agent : InCustody(b)' \subseteq InCustody(b)
  BY <1>3
<1>5. CASE Calling(a)
  <2>1. LoseOrDelay(a)
    BY <1>5 DEF ProcessDies, AgentCrash
  <2> QED BY <1>1, <1>2, <1>3, <1>4, <1>5, <2>1, HandOverKeepsSlots DEF SlotInv
<1>6. CASE ~ Calling(a)
  <2>1. UNCHANGED <<late, jobStatus, jobAgent, claims>>
    BY <1>1, <1>6 DEF ProcessDies, AgentCrash, serverVars, jobVars
  <2> QED BY <1>2, <1>3, <1>4, <2>1, SlotsShrink DEF SlotInv, LateReports
<1> QED BY <1>5, <1>6

\* A request that nobody waits for is handled.
LEMMA LateKeepsSlots ==
    ASSUME SlotCore, TablesOK, late \subseteq Request, NEW r \in late, HandleLate(r),
           \A b \in Agent : InCustody(b)' = InCustody(b)
    PROVE  SlotCore'
<1>1. r.job \in Job /\ r.agent \in Agent /\ r.exit \in ExitCode
  BY DEF Request
<1>2. \A k \in Job : LateReports(k)' = LateReports(k) \ {r}
  BY DEF HandleLate, LateReports
<1>3. CASE GrantClaim(r.job, r.agent)
  BY <1>1, <1>2, <1>3, GrantKeepsSlots
<1>4. CASE RefuseClaim(r.job) \/ StartJob(r.job)
  <2>1. UNCHANGED <<jobAgent, claims>>
    BY <1>4 DEF RefuseClaim, StartJob, StartRow, NoSuchJob, serverVars, jobVars
  <2>2. \A j \in Job : jobStatus'[j] = "pending" => jobStatus[j] = "pending"
    BY <1>4 DEF RefuseClaim, StartJob, StartRow, NoSuchJob, serverVars, jobVars, TablesOK
  <2> QED BY <1>2, <2>1, <2>2, SlotsShrink
<1>5. CASE r.op = "complete" /\ CompleteJob(r.job, r.exit)
  <2>1. r \in LateReports(r.job)
    BY <1>5 DEF LateReports
  <2>2. \A b \in Agent : r.job \notin InCustody(b)
    BY <1>1, <2>1 DEF SlotCore
  <2>3. LateReports(r.job)' = {}
    BY <1>1, <1>2, <2>1 DEF SlotCore
  <2> QED BY <1>1, <1>2, <1>5, <2>2, <2>3, ReportKeepsSlots
<1> QED BY <1>3, <1>4, <1>5 DEF HandleLate

\* The server, the operators and the network.
LEMMA OutsideKeepsSlots ==
    ASSUME PoolInv, SlotInv, ServerNext \/ OperatorNext, UNCHANGED poolVars
    PROVE  SlotInv'
<1>1. UNCHANGED processVars /\ TablesOK /\ late \subseteq Request
  BY ServerTables, OperatorTables DEF PoolInv, ParallelTypeOK
<1>2. (\A b \in Agent : InCustody(b)' = InCustody(b)) /\ NotStartedTwice'
  BY <1>1 DEF poolVars, processVars, InCustody, Running, SlotInv, NotStartedTwice
<1>3. UntouchedUntilAdded'
  BY <1>1, ServerLeavesNewJobs, OperatorLeavesNewJobs DEF SlotInv
<1>4. ASSUME NEW b \in Build, CreateBuildRow(b) \/ ParseFails(b) PROVE SlotCore'
  <2>1. UNCHANGED <<late, jobStatus, jobAgent, claims>>
    BY <1>4 DEF CreateBuildRow, ParseFails, jobVars
  <2> QED BY <1>2, <2>1, SlotsShrink DEF SlotInv, LateReports
<1>5. ASSUME NEW b \in Build, AddJobs(b) PROVE SlotCore'
  <2>1. UNCHANGED <<late, jobAgent, claims>>
    BY <1>5 DEF AddJobs
  <2>2. \A j \in Job : jobStatus'[j] = jobStatus[j] \/ claims[j] = 0
    BY <1>5 DEF AddJobs, JobsOf, SlotInv, UntouchedUntilAdded, NotYetAdded
  <2>3. \A j \in Job : jobStatus'[j] = jobStatus[j] \/ ~ InSlot(j)
    BY <2>2 DEF SlotInv, SlotCore
  <2>4. \A j \in Job : LateReports(j)' = LateReports(j)
    BY <2>1 DEF LateReports
  <2> QED BY <1>2, <2>1, <2>3, <2>4 DEF SlotInv, SlotCore, InSlot
<1>6. ASSUME NEW r \in late, HandleLate(r) PROVE SlotCore'
  BY <1>1, <1>2, <1>6, LateKeepsSlots DEF SlotInv
<1>7. ASSUME OperatorNext PROVE SlotCore'
  <2>1. UNCHANGED <<late, jobAgent, claims>>
    BY <1>7 DEF OperatorNext, CancelBuild, CleanupOldBuilds, CancelJob, Drain, Undrain, GoStale,
                ReapOfflineAgents, jobVars
  <2>2. \A j \in Job : jobStatus'[j] = "pending" => jobStatus[j] = "pending"
    BY <1>1, <1>7 DEF OperatorNext, CancelBuild, CleanupOldBuilds, CancelJob, Drain, Undrain,
                      GoStale, ReapOfflineAgents, jobVars, TablesOK
  <2> QED BY <1>2, <2>1, <2>2, SlotsShrink DEF SlotInv, LateReports
<1> QED BY <1>2, <1>3, <1>4, <1>5, <1>6, <1>7 DEF ServerNext, DeliverHook, SlotInv

LEMMA InitSlots == ParallelInit => SlotInv
<1> SUFFICES ASSUME ParallelInit PROVE SlotInv
  OBVIOUS
<1>1. \A a \in Agent : InCustody(a) = {}
  BY DEF ParallelInit, Init, InCustody, Running, NoFutures
<1>2. \A j \in Job : LateReports(j) = {}
  BY DEF ParallelInit, Init, LateReports
<1>3. SlotCore
  BY <1>1, <1>2 DEF ParallelInit, Init, SlotCore, InSlot
<1> QED BY <1>3 DEF SlotInv, ParallelInit, Init, NotStartedTwice, UntouchedUntilAdded, NotYetAdded

LEMMA NextSlots == PoolInv /\ PoolInv' /\ SlotInv /\ [ParallelNext]_allVars => SlotInv'
<1> SUFFICES ASSUME PoolInv, PoolInv', SlotInv, [ParallelNext]_allVars PROVE SlotInv'
  OBVIOUS
<1>1. ASSUME NEW a \in Agent,
             \/ StartUp(a) \/ PollForSlot(a) \/ StopFilling(a) \/ ClaimForSlotRefused(a)
             \/ (Heartbeat(a) /\ UNCHANGED poolVars)
             \/ (\E j \in Job : Visit(a, j) \/ RunJob(a, j)) \/ EndPass(a)
      PROVE  SlotInv'
  BY <1>1, StillJobs, StillKeepsSlots DEF SlotInv
<1>2. CASE ParallelNext
  BY <1>1, <1>2, ClaimKeepsSlots, StartKeepsSlots, DoneKeepsSlots, GivenUpKeepsSlots,
     DeathKeepsSlots, OutsideKeepsSlots DEF ParallelNext, MainThread
<1>3. CASE UNCHANGED allVars
  <2>1. /\ UNCHANGED <<jobStatus, jobAgent, retryCount, claims, buildStatus, creating, late>>
        /\ \A b \in Agent : InCustody(b)' = InCustody(b)
        /\ NotStartedTwice'
    BY <1>3 DEF allVars, vars, serverVars, jobVars, processVars, poolVars, InCustody, Running,
                SlotInv, NotStartedTwice
  <2> QED BY <2>1, StillKeepsSlots
<1> QED BY <1>2, <1>3

\* Custody of every job is in order across the slots of all agents.
THEOREM SlotsHold == ParallelSpec => []SlotInv
  BY PoolsHold, InitSlots, NextSlots, PTL DEF ParallelSpec

\* A job sits in one slot of one agent, or one report of it is on its way.
THEOREM OneSlot == ParallelSpec => []OneSlotPerJob
<1>1. PoolInv /\ SlotInv => OneSlotPerJob
  <2> SUFFICES ASSUME PoolInv, SlotInv, NEW j \in Job
               PROVE  /\ \A a, b \in Agent : j \in InCustody(a) /\ j \in InCustody(b) => a = b
                      /\ \A a \in Agent : phase[a] = "starting" /\ held[a] = j => j \notin Running(a)
                      /\ (\E a \in Agent : j \in InCustody(a)) => LateReports(j) = {}
    BY DEF OneSlotPerJob
  <2> QED BY DEF SlotInv, SlotCore, NotStartedTwice
<1> QED BY <1>1, PoolsHold, SlotsHold, PTL

-----------------------------------------------------------------------------
(***************************************************************************)
(* Workspaces, for agents that do not share a machine                      *)
(***************************************************************************)
OwnMachines == \A a, b \in Agent : HostOf[a] = HostOf[b] => a = b

\* A pass removes the workspaces of jobs it has reported, whose futures are done.
LEMMA EndPassKeepsWorkspaces ==
    ASSUME OwnMachines, PoolInv, WorkspaceOutlivesJob, NEW a \in Agent, EndPass(a)
    PROVE  WorkspaceOutlivesJob'
<1> SUFFICES ASSUME NEW b \in Agent, NEW j \in Job, future'[b][j] = "working"
             PROVE  <<HostOf[b], j>> \in workspaces'
  BY DEF WorkspaceOutlivesJob
<1>1. future[b][j] = "working" /\ <<HostOf[b], j>> \in workspaces
  <2>1. future[b][j] = "working"
    BY DEF EndPass, PoolInv, ParallelTypeOK
  <2> QED BY <2>1 DEF WorkspaceOutlivesJob
<1>2. <<HostOf[b], j>> \notin {<<HostOf[a], i>> : i \in CleansReported(a)}
  <2> SUFFICES ASSUME NEW i \in completed[a], HostOf[b] = HostOf[a], j = i PROVE FALSE
    BY DEF CleansReported
  <2>1. b = a
    BY DEF OwnMachines
  <2>2. future[a][i] \in {"passed", "failed"}
    BY DEF PoolInv, PoolOK
  <2> QED BY <1>1, <2>1, <2>2
<1> QED BY <1>1, <1>2 DEF EndPass

LEMMA SubmitKeepsWorkspaces ==
    ASSUME PoolInv, WorkspaceOutlivesJob, NEW a \in Agent, phase[a] = "starting", Submit(a)
    PROVE  WorkspaceOutlivesJob'
<1> SUFFICES ASSUME NEW b \in Agent, NEW j \in Job, future'[b][j] = "working"
             PROVE  <<HostOf[b], j>> \in workspaces'
  BY DEF WorkspaceOutlivesJob
<1>1. CASE b = a /\ j = held[a]
  BY <1>1 DEF Submit
<1>2. CASE ~ (b = a /\ j = held[a])
  <2>1. future[b][j] = "working"
    BY <1>2 DEF Submit, PoolInv, ParallelTypeOK
  <2> QED BY <2>1 DEF WorkspaceOutlivesJob, Submit
<1> QED BY <1>1, <1>2

\* Every other step leaves the workspaces alone and gives no thread a job.
LEMMA NextKeepsWorkspaces ==
    OwnMachines /\ PoolInv /\ WorkspaceOutlivesJob /\ [ParallelNext]_allVars
        => WorkspaceOutlivesJob'
<1> SUFFICES ASSUME OwnMachines, PoolInv, WorkspaceOutlivesJob, [ParallelNext]_allVars
             PROVE  WorkspaceOutlivesJob'
  OBVIOUS
<1>1. ASSUME UNCHANGED <<future, workspaces>> PROVE WorkspaceOutlivesJob'
  BY <1>1 DEF WorkspaceOutlivesJob
<1>2. ASSUME NEW a \in Agent, MainThread(a) PROVE WorkspaceOutlivesJob'
  <2>1. CASE EndPass(a)
    BY <2>1, EndPassKeepsWorkspaces
  <2>2. CASE StartAndSubmit(a)
    BY <2>2, SubmitKeepsWorkspaces DEF StartAndSubmit
  <2>3. CASE ~ EndPass(a) /\ ~ StartAndSubmit(a)
    <3>1. UNCHANGED <<future, workspaces>>
      BY <1>2, <2>3 DEF MainThread, StartUp, PollForSlot, StopFilling, ClaimForSlot,
                        ClaimForSlotRefused, Refused, Visit, Report, Reported, poolVars
    <3> QED BY <1>1, <3>1
  <2> QED BY <2>1, <2>2, <2>3
<1>3. ASSUME NEW a \in Agent, CallGivenUp(a) PROVE WorkspaceOutlivesJob'
  <2>1. CASE phase[a] = "starting" /\ Submit(a)
    BY <2>1, SubmitKeepsWorkspaces
  <2>2. CASE Refused(a) \/ Reported(a)
    BY <1>1, <2>2 DEF Refused, Reported, poolVars
  <2> QED BY <1>3, <2>1, <2>2 DEF CallGivenUp
<1>4. ASSUME NEW a \in Agent, ProcessDies(a) \/ \E j \in Job : RunJob(a, j)
      PROVE  WorkspaceOutlivesJob'
  <2>1. /\ workspaces' = workspaces
        /\ \A b \in Agent, i \in Job : future'[b][i] = "working" => future[b][i] = "working"
    BY <1>4 DEF ProcessDies, RunJob, NoFutures, PoolInv, ParallelTypeOK
  <2> QED BY <2>1 DEF WorkspaceOutlivesJob
<1>5. CASE UNCHANGED poolVars
  BY <1>1, <1>5 DEF poolVars
<1> QED BY <1>2, <1>3, <1>4, <1>5 DEF ParallelNext, allVars

\* On a machine of its own an agent removes no workspace a thread still works in.
THEOREM WorkspacesStay == OwnMachines => (ParallelSpec => []WorkspaceOutlivesJob)
<1>1. ParallelInit => WorkspaceOutlivesJob
  BY DEF ParallelInit, NoFutures, WorkspaceOutlivesJob
<1>2. ASSUME OwnMachines
      PROVE  PoolInv /\ WorkspaceOutlivesJob /\ [ParallelNext]_allVars => WorkspaceOutlivesJob'
  BY <1>2, NextKeepsWorkspaces
<1>3. ASSUME OwnMachines PROVE ParallelSpec => []WorkspaceOutlivesJob
  BY <1>1, <1>2, <1>3, PoolsHold, PTL DEF ParallelSpec
<1> QED BY <1>3

-----------------------------------------------------------------------------
(***************************************************************************)
(* The tables, as BuildServer_proofs has them, under agents with slots     *)
(***************************************************************************)
LEMMA CallsKeepTables ==
    ASSUME PoolInv, SlotInv, TableInv, NEW a \in Agent,
           ClaimForSlot(a) \/ StartAndSubmit(a) \/ Report(a)
    PROVE  TableInv'
<1>1. held[a] \in Job /\ exitCode[a] \in ExitCode /\ TablesOK
  BY DEF PoolInv, ParallelTypeOK, PoolOK, ClaimForSlot, ClaimGranted, StartAndSubmit, Report
<1>2. GrantClaim(held[a], a) \/ StartJob(held[a]) \/ CompleteJob(held[a], exitCode[a])
  BY DEF ClaimForSlot, ClaimGranted, StartAndSubmit, Report
<1> QED BY <1>1, <1>2, HandlerKeepsTables DEF SlotInv

\* A step that frees agents at most.
LEMMA QuietKeepsTables ==
    ASSUME TableInv, UNCHANGED <<buildStatus, jobVars, claims>>,
           \A b \in Agent : agentStatus'[b] = "busy" => agentStatus[b] = "busy"
    PROVE  TableInv'
  BY DEF jobVars, TableInv, AttemptsAreBounded, FailedJobIsExhausted, BusyAgentHasJob,
         StalledBuildWasCanceled, PendingBuildIsNotRunning, SettledBuildIsJudged

LEMMA NextKeepsTables ==
    PoolInv /\ SlotInv /\ TableInv /\ [ParallelNext]_allVars => TableInv'
<1> SUFFICES ASSUME PoolInv, SlotInv, TableInv, [ParallelNext]_allVars PROVE TableInv'
  OBVIOUS
<1>0. TablesOK /\ late \subseteq Request /\ UntouchedUntilAdded
  BY DEF PoolInv, ParallelTypeOK, SlotInv
<1>1. ASSUME NEW a \in Agent, MainThread(a) PROVE TableInv'
  <2>1. CASE ClaimForSlot(a) \/ StartAndSubmit(a) \/ Report(a)
    BY <2>1, CallsKeepTables
  <2>2. CASE ~ (ClaimForSlot(a) \/ StartAndSubmit(a) \/ Report(a))
    <3>1. /\ UNCHANGED <<buildStatus, jobVars, claims>>
          /\ \A b \in Agent : agentStatus'[b] = "busy" => agentStatus[b] = "busy"
      BY <1>0, <1>1, <2>2
         DEF MainThread, StartUp, AgentStart, RegisterAgent, PollForSlot, Poll, StopFilling,
             ClaimForSlotRefused, RefuseClaim, Visit, EndPass, serverVars, jobVars, agentRowVars,
             TablesOK
    <3> QED BY <3>1, QuietKeepsTables
  <2> QED BY <2>1, <2>2
<1>2. ASSUME NEW a \in Agent,
             \/ CallGivenUp(a) \/ ProcessDies(a) \/ Heartbeat(a)
             \/ \E j \in Job : RunJob(a, j)
      PROVE  TableInv'
  <2>1. /\ UNCHANGED <<buildStatus, jobVars, claims>>
        /\ \A b \in Agent : agentStatus'[b] = "busy" => agentStatus[b] = "busy"
    BY <1>0, <1>2 DEF CallGivenUp, ProcessDies, AgentCrash, Heartbeat, RunJob, vars, serverVars,
                      jobVars, agentRowVars, TablesOK
  <2> QED BY <2>1, QuietKeepsTables
<1>3. CASE ServerNext
  BY <1>0, <1>3, ServerKeepsTables
<1>4. CASE OperatorNext
  BY <1>0, <1>4, OperatorKeepsTables
<1>5. CASE UNCHANGED allVars
  BY <1>5, QuietKeepsTables DEF allVars, vars, serverVars, agentRowVars
<1> QED BY <1>1, <1>2, <1>3, <1>4, <1>5 DEF ParallelNext

\* The rows of the three tables agree, with agents of several slots too.
THEOREM TablesHoldInParallel == ParallelSpec => []TableInv
<1>1. ParallelInit => TableInv
  BY InitTables DEF ParallelInit
<1> QED BY <1>1, NextKeepsTables, PoolsHold, SlotsHold, PTL DEF ParallelSpec

LEMMA NextMovesBuildInParallel ==
    ASSUME PoolInv, [ParallelNext]_allVars, NEW b \in Build
    PROVE  PassesClean(b) /\ StaysClosed(b)
<1>0. TablesOK /\ late \subseteq Request
  BY DEF PoolInv, ParallelTypeOK
<1>1. CASE ServerNext \/ OperatorNext
  BY <1>0, <1>1, ServerMovesBuild, OperatorMovesBuild
<1>2. ASSUME NEW a \in Agent, ClaimForSlot(a) \/ StartAndSubmit(a) \/ Report(a)
      PROVE  PassesClean(b) /\ StaysClosed(b)
  <2>1. held[a] \in Job /\ exitCode[a] \in ExitCode
    BY <1>2 DEF PoolInv, ParallelTypeOK, PoolOK, ClaimForSlot, ClaimGranted, StartAndSubmit, Report
  <2>2. GrantClaim(held[a], a) \/ StartJob(held[a]) \/ CompleteJob(held[a], exitCode[a])
    BY <1>2 DEF ClaimForSlot, ClaimGranted, StartAndSubmit, Report
  <2> QED BY <1>0, <2>1, <2>2, HandlerMovesBuild
<1>3. ASSUME NEW a \in Agent, MainThread(a),
             ~ (ClaimForSlot(a) \/ StartAndSubmit(a) \/ Report(a))
      PROVE  PassesClean(b) /\ StaysClosed(b)
  BY <1>3, NoMoveOfBuild
     DEF MainThread, StartUp, AgentStart, RegisterAgent, PollForSlot, Poll, StopFilling,
         ClaimForSlotRefused, RefuseClaim, Visit, EndPass, serverVars
<1>4. ASSUME NEW a \in Agent,
             \/ CallGivenUp(a) \/ ProcessDies(a) \/ Heartbeat(a)
             \/ \E j \in Job : RunJob(a, j)
      PROVE  PassesClean(b) /\ StaysClosed(b)
  BY <1>4, NoMoveOfBuild
     DEF CallGivenUp, ProcessDies, AgentCrash, Heartbeat, RunJob, vars, serverVars
<1>5. CASE UNCHANGED allVars
  BY <1>5, NoMoveOfBuild DEF allVars, vars, serverVars
<1> QED BY <1>1, <1>2, <1>3, <1>4, <1>5 DEF ParallelNext

\* With agents of several slots too, the step that declares a build PASSED leaves
\* no failed and no pending job in it.
THEOREM PassesClearInParallel == ParallelSpec => PassesOnlyWithoutFailure
<1>1. PoolInv /\ [ParallelNext]_allVars => \A b \in Build : PassesClean(b)
  BY NextMovesBuildInParallel
<1>2. (\A b \in Build : PassesClean(b)) =>
        \A b \in Build : buildStatus[b] # "passed" /\ buildStatus'[b] = "passed" =>
            \A j \in JobsOf(b) : jobStatus'[j] \notin {"failed", "pending"}
  BY DEF PassesClean
<1> QED BY <1>1, <1>2, PoolsHold, PTL DEF ParallelSpec, PassesOnlyWithoutFailure

\* Nor is a build offered anew once it has left PENDING, or shown RUNNING once it
\* is finished, whatever the slots of one agent report and in whatever order.
THEOREM NeverReopenedInParallel == ParallelSpec => BuildNeverReopens
<1>1. PoolInv /\ [ParallelNext]_allVars => \A b \in Build : StaysClosed(b)
  BY NextMovesBuildInParallel
<1>2. (\A b \in Build : StaysClosed(b)) =>
        \A b \in Build :
          /\ buildStatus[b] \notin {"absent", "pending"} => buildStatus'[b] # "pending"
          /\ Finished(b) => buildStatus'[b] # "running"
  BY DEF StaysClosed
<1> QED BY <1>1, <1>2, PoolsHold, PTL DEF ParallelSpec, BuildNeverReopens

-----------------------------------------------------------------------------
(***************************************************************************)
(* The slots implement AttemptLedger                                       *)
(***************************************************************************)

\* The worker of a job in the ledger, as a function of the pools and the tables.
SlotWorker(j) == IF InSlot(j) THEN jobAgent[j] ELSE NoAgent

LEMMA SlotGrant ==
    ASSUME TablesOK, NEW j \in Job, NEW a \in Agent, GrantClaim(j, a),
           NEW w \in Agent \cup {NoAgent},
           \A k \in Job : SlotWorker(k)' = IF k = j THEN w ELSE SlotWorker(k)
    PROVE  SlotLedger!Next
<1>1. j \in OfferedJobs /\ OfferedJobs' = OfferedJobs \ {j}
  BY DEF GrantClaim, TablesOK, OfferedJobs
<1>2. claims' = [claims EXCEPT ![j] = @ + 1]
  BY DEF GrantClaim
<1>3. SlotLedger!Grant(j, w)
  BY <1>1, <1>2 DEF SlotLedger!Grant, OfferedJobs, SlotWorker
<1> QED BY <1>3 DEF SlotLedger!Next

LEMMA SlotWithdraw ==
    ASSUME \A k \in Job : jobStatus'[k] = "pending" => jobStatus[k] = "pending",
           \A k \in Job : InSlot(k)' = InSlot(k),
           UNCHANGED <<jobAgent, claims>>
    PROVE  SlotLedger!Next
<1>1. PICK S \in SUBSET Job : S = {k \in Job : jobStatus'[k] # "pending"}
  OBVIOUS
<1>2. SlotLedger!Withdraw(S)
  BY <1>1 DEF SlotLedger!Withdraw
<1> QED BY <1>2 DEF SlotLedger!Next

\* Attempts may end in any number, if nothing is offered on that account.
LEMMA SlotAbandon ==
    ASSUME UNCHANGED <<jobStatus, jobAgent, claims>>,
           \A k \in Job : InSlot(k)' => InSlot(k)
    PROVE  SlotLedger!Next
<1>1. PICK S \in SUBSET Job : S = {k \in Job : ~ InSlot(k)'}
  OBVIOUS
<1>2. \A k \in Job : SlotWorker(k)' = IF k \in S THEN NoAgent ELSE SlotWorker(k)
  BY <1>1 DEF SlotWorker
<1>3. SlotLedger!Abandon(S)
  BY <1>2 DEF SlotLedger!Abandon, SlotWorker
<1> QED BY <1>3 DEF SlotLedger!Next

LEMMA SlotEnd ==
    ASSUME NEW j \in Job, SlotWorker(j) # NoAgent,
           \A k \in Job : SlotWorker(k)' = IF k = j THEN NoAgent ELSE SlotWorker(k),
           claims' = claims,
           \/ OfferedJobs' = OfferedJobs
           \/ claims[j] <= MaxRetries[j] /\ OfferedJobs' = OfferedJobs \cup {j}
    PROVE  SlotLedger!Next
<1>1. \/ UNCHANGED OfferedJobs
      \/ claims[j] <= MaxRetries[j] /\ OfferedJobs' = OfferedJobs \cup {j}
  OBVIOUS
<1>2. [k \in Job |-> SlotWorker(k)]' = [[k \in Job |-> SlotWorker(k)] EXCEPT ![j] = NoAgent]
  OBVIOUS
<1>3. SlotLedger!End(j)
  BY <1>1, <1>2 DEF SlotLedger!End, OfferedJobs, SlotWorker
<1> QED BY <1>3 DEF SlotLedger!Next

\* A report that reaches the server ends the attempt of the job's worker.
LEMMA ReportEnds ==
    ASSUME PoolInv, SlotInv, TableInv, NEW j \in Job, NEW e \in ExitCode, CompleteJob(j, e),
           InSlot(j), ~ InSlot(j)', jobStatus[j] # "pending",
           \A k \in Job : k # j => InSlot(k)' = InSlot(k)
    PROVE  SlotLedger!Next
<1>0. TablesOK /\ late \subseteq Request
  BY DEF PoolInv, ParallelTypeOK
<1>1. UNCHANGED <<jobAgent, claims>>
  BY DEF CompleteJob, ReportRow, NoSuchJob, serverVars, jobVars
<1>2. jobAgent[j] \in Agent
  <2>1. CASE \E a \in Agent : j \in InCustody(a)
    BY <2>1 DEF SlotInv, SlotCore
  <2>2. CASE LateReports(j) # {}
    BY <1>0, <2>2 DEF SlotInv, SlotCore, LateReports, Request
  <2> QED BY <2>1, <2>2 DEF InSlot
<1>3. SlotWorker(j) # NoAgent
  BY <1>2, NullAssumption DEF SlotWorker
<1>4. \A k \in Job : SlotWorker(k)' = IF k = j THEN NoAgent ELSE SlotWorker(k)
  BY <1>1 DEF SlotWorker
<1>5. CASE NoSuchJob(j)
  BY <1>1, <1>3, <1>4, <1>5, SlotEnd DEF NoSuchJob, serverVars, jobVars, OfferedJobs
<1>6. CASE ReportRow(j, e)
  <2>1. \A k \in Job : k # j => jobStatus'[k] = jobStatus[k]
    BY <1>0, <1>6 DEF ReportRow, TablesOK
  <2>2. CASE jobStatus'[j] # "pending"
    <3>1. OfferedJobs' = OfferedJobs
      BY <2>1, <2>2 DEF OfferedJobs
    <3> QED BY <1>1, <1>3, <1>4, <3>1, SlotEnd
  <2>3. CASE jobStatus'[j] = "pending"
    <3>1. retryCount[j] < MaxRetries[j]
      BY <1>0, <1>6, <2>3 DEF ReportRow, ReportedStatus, ShouldRetry, TablesOK
    <3>2. claims[j] <= MaxRetries[j]
      BY <1>0, <3>1, MaxRetriesAssumption DEF TableInv, AttemptsAreBounded, TablesOK
    <3>3. OfferedJobs' = OfferedJobs \cup {j}
      BY <2>1, <2>3 DEF OfferedJobs
    <3> QED BY <1>1, <1>3, <1>4, <3>2, <3>3, SlotEnd
  <2> QED BY <2>2, <2>3
<1> QED BY <1>5, <1>6 DEF CompleteJob

-----------------------------------------------------------------------------
(* The steps one by one. *)

LEMMA ClaimIsGrant ==
    ASSUME PoolInv, PoolInv', SlotInv, NEW a \in Agent, ClaimForSlot(a)
    PROVE  SlotLedger!Next
<1>1. PICK j \in Job : j = held[a] /\ GrantClaim(j, a)
  BY DEF ClaimForSlot, ClaimGranted, PoolInv, PoolOK
<1>2. /\ phase[a] = "claiming" /\ phase' = [phase EXCEPT ![a] = "starting"]
      /\ UNCHANGED <<held, late, future, completed>>
  BY DEF ClaimForSlot, ClaimGranted, poolVars
<1>3. \A b \in Agent : InCustody(b)' = InCustody(b) \cup (IF b = a THEN {j} ELSE {})
  BY <1>1, <1>2 DEF PoolInv, ParallelTypeOK, InCustody, Running
<1>4. \A k \in Job : InSlot(k)' = (InSlot(k) \/ k = j)
  BY <1>2, <1>3 DEF InSlot, LateReports
<1>5. \A k \in Job : jobAgent'[k] = IF k = j THEN a ELSE jobAgent[k]
  BY <1>1 DEF GrantClaim, PoolInv, ParallelTypeOK, TablesOK
<1>6. \A k \in Job : SlotWorker(k)' = IF k = j THEN a ELSE SlotWorker(k)
  BY <1>4, <1>5 DEF SlotWorker
<1> QED BY <1>1, <1>6, SlotGrant DEF PoolInv, ParallelTypeOK

LEMMA StartIsNoChange ==
    ASSUME PoolInv, PoolInv', SlotInv, NEW a \in Agent, StartAndSubmit(a)
    PROVE  SlotLedger!Next
<1>1. UNCHANGED <<jobAgent, claims, late>>
  BY DEF StartAndSubmit, StartJob, StartRow, NoSuchJob, serverVars, jobVars
<1>2. \A k \in Job : jobStatus'[k] = "pending" => jobStatus[k] = "pending"
  BY DEF StartAndSubmit, StartJob, StartRow, NoSuchJob, serverVars, jobVars, PoolInv, PoolOK,
         ParallelTypeOK, TablesOK
<1>3. \A b \in Agent : InCustody(b)' = InCustody(b)
  BY SubmitMoves DEF StartAndSubmit
<1> QED BY <1>1, <1>2, <1>3, SlotWithdraw DEF InSlot, LateReports

LEMMA ReportIsEnd ==
    ASSUME PoolInv, PoolInv', SlotInv, TableInv, NEW a \in Agent, Report(a)
    PROVE  SlotLedger!Next
<1>1. PICK j \in Job, e \in ExitCode : j = held[a] /\ CompleteJob(j, e) /\ e = exitCode[a]
  BY DEF Report, PoolInv, ParallelTypeOK, PoolOK
<1>2. /\ InCustody(a)' = InCustody(a) \ {j} /\ j \in InCustody(a)
      /\ \A b \in Agent : b # a => InCustody(b)' = InCustody(b)
  BY <1>1, ReportedMoves DEF Report
<1>3. \A k \in Job : LateReports(k)' = LateReports(k)
  BY DEF Report, LateReports
<1>4. LateReports(j) = {} /\ jobStatus[j] # "pending" /\ InSlot(j)
      /\ \A b \in Agent : b # a => j \notin InCustody(b)
  BY <1>2 DEF SlotInv, SlotCore, InSlot
<1>5. ~ InSlot(j)' /\ \A k \in Job : k # j => InSlot(k)' = InSlot(k)
  BY <1>2, <1>3, <1>4 DEF InSlot
<1> QED BY <1>1, <1>4, <1>5, ReportEnds

\* A call that is given up ends the attempt it was about, or its report is late.
LEMMA GivingUpAbandons ==
    ASSUME PoolInv, NEW a \in Agent, Calling(a), LoseOrDelay(a), UNCHANGED serverVars,
           \A b \in Agent : InCustody(b)' \subseteq InCustody(b)
    PROVE  SlotLedger!Next
<1>1. PICK r \in Request, j \in Job : r = CurrentRequest(a) /\ j = held[a]
  BY CallIsRequest
<1>2. late' \subseteq late \cup {r} /\ r.job = j /\ (r.op = "complete" <=> phase[a] = "reporting")
  BY <1>1 DEF LoseOrDelay, CurrentRequest, CallOf, Calling
<1>3. r.op = "complete" => j \in InCustody(a)
  <2> SUFFICES ASSUME phase[a] = "reporting" PROVE j \in InCustody(a)
    BY <1>2
  <2>1. j \in Running(a) \ completed[a]
    BY <1>1 DEF PoolInv, PoolOK, Running
  <2> QED BY <2>1, CustodyIs
<1>4. \A k \in Job : InSlot(k)' => InSlot(k)
  BY <1>2, <1>3 DEF InSlot, LateReports
<1> QED BY <1>4, SlotAbandon DEF serverVars, jobVars

LEMMA GivenUpIsAbandoned ==
    ASSUME PoolInv, PoolInv', SlotInv, NEW a \in Agent, CallGivenUp(a)
    PROVE  SlotLedger!Next
<1>1. Calling(a) /\ LoseOrDelay(a) /\ UNCHANGED serverVars
  BY DEF CallGivenUp
<1>2. \A b \in Agent : InCustody(b)' \subseteq InCustody(b)
  <2>1. CASE phase[a] = "claiming" /\ Refused(a)
    BY <2>1 DEF Refused, poolVars, InCustody, Running, PoolInv, ParallelTypeOK
  <2>2. CASE phase[a] = "starting" /\ Submit(a)
    BY <2>2, SubmitMoves
  <2>3. CASE phase[a] = "reporting" /\ Reported(a)
    BY <2>3, ReportedMoves
  <2> QED BY <2>1, <2>2, <2>3 DEF CallGivenUp
<1> QED BY <1>1, <1>2, GivingUpAbandons

LEMMA DeathIsAbandoned ==
    ASSUME PoolInv, PoolInv', SlotInv, NEW a \in Agent, ProcessDies(a)
    PROVE  SlotLedger!Next
<1>1. UNCHANGED serverVars
  BY DEF ProcessDies, AgentCrash
<1>2. \A b \in Agent : InCustody(b)' \subseteq InCustody(b)
  BY DEF ProcessDies, AgentCrash, NoFutures, InCustody, Running, PoolInv, ParallelTypeOK
<1>3. CASE Calling(a)
  BY <1>1, <1>2, <1>3, GivingUpAbandons DEF ProcessDies, AgentCrash
<1>4. CASE ~ Calling(a)
  <2>1. late' = late
    BY <1>4 DEF ProcessDies, AgentCrash
  <2>2. \A k \in Job : InSlot(k)' => InSlot(k)
    BY <1>2, <2>1 DEF InSlot, LateReports
  <2> QED BY <1>1, <2>2, SlotAbandon DEF serverVars, jobVars
<1> QED BY <1>3, <1>4

\* A late claim is granted to an agent that never learns of it; a late report
\* ends the attempt it was about.
LEMMA LateIsStep ==
    ASSUME PoolInv, SlotInv, TableInv, NEW r \in late, HandleLate(r),
           \A b \in Agent : InCustody(b)' = InCustody(b)
    PROVE  SlotLedger!Next
<1>0. r.job \in Job /\ r.agent \in Agent /\ r.exit \in ExitCode /\ TablesOK
  BY DEF PoolInv, ParallelTypeOK, Request
<1>1. \A k \in Job : LateReports(k)' = LateReports(k) \ {r}
  BY DEF HandleLate, LateReports
<1>2. CASE r.op = "claim" /\ GrantClaim(r.job, r.agent)
  <2>1. \A k \in Job : InSlot(k)' = InSlot(k)
    BY <1>1, <1>2 DEF InSlot, LateReports
  <2>2. ~ InSlot(r.job)
    BY <1>0, <1>2 DEF GrantClaim, SlotInv, SlotCore, InSlot
  <2>3. \A k \in Job : k # r.job => jobAgent'[k] = jobAgent[k]
    BY <1>0, <1>2 DEF GrantClaim, TablesOK
  <2>4. \A k \in Job : SlotWorker(k)' = IF k = r.job THEN NoAgent ELSE SlotWorker(k)
    BY <2>1, <2>2, <2>3 DEF SlotWorker
  <2> QED BY <1>0, <1>2, <2>4, SlotGrant
<1>3. CASE r.op \in {"claim", "start"} /\ (RefuseClaim(r.job) \/ StartJob(r.job))
  <2>1. UNCHANGED <<jobAgent, claims>>
    BY <1>3 DEF RefuseClaim, StartJob, StartRow, NoSuchJob, serverVars, jobVars
  <2>2. \A j \in Job : jobStatus'[j] = "pending" => jobStatus[j] = "pending"
    BY <1>0, <1>3 DEF RefuseClaim, StartJob, StartRow, NoSuchJob, serverVars, jobVars, TablesOK
  <2>3. \A k \in Job : InSlot(k)' = InSlot(k)
    BY <1>1, <1>3 DEF InSlot, LateReports
  <2> QED BY <2>1, <2>2, <2>3, SlotWithdraw
<1>4. CASE r.op = "complete" /\ CompleteJob(r.job, r.exit)
  <2>1. r \in LateReports(r.job)
    BY <1>4 DEF LateReports
  <2>2. LateReports(r.job)' = {} /\ InSlot(r.job) /\ jobStatus[r.job] # "pending"
        /\ \A b \in Agent : r.job \notin InCustody(b)
    BY <1>0, <1>1, <2>1 DEF SlotInv, SlotCore, InSlot
  <2>3. \A k \in Job : k # r.job => LateReports(k)' = LateReports(k)
    BY <1>1 DEF LateReports
  <2>4. ~ InSlot(r.job)' /\ \A k \in Job : k # r.job => InSlot(k)' = InSlot(k)
    BY <2>2, <2>3 DEF InSlot
  <2> QED BY <1>0, <1>4, <2>2, <2>4, ReportEnds
<1> QED BY <1>2, <1>3, <1>4 DEF HandleLate

LEMMA OutsideIsStep ==
    ASSUME PoolInv, SlotInv, TableInv, ServerNext \/ OperatorNext, UNCHANGED poolVars
    PROVE  SlotLedger!Next
<1>1. UNCHANGED processVars
  BY ServerTables, OperatorTables DEF PoolInv, ParallelTypeOK
<1>2. \A b \in Agent : InCustody(b)' = InCustody(b)
  BY <1>1 DEF poolVars, processVars, InCustody, Running
<1>3. ASSUME NEW b \in Build, CreateBuildRow(b) \/ ParseFails(b) PROVE SlotLedger!Next
  <2>1. UNCHANGED <<late, jobStatus, jobAgent, claims>>
    BY <1>3 DEF CreateBuildRow, ParseFails, jobVars
  <2> QED BY <1>2, <2>1, SlotWithdraw DEF InSlot, LateReports
<1>4. ASSUME NEW b \in Build, AddJobs(b) PROVE SlotLedger!Next
  <2>1. UNCHANGED <<late, jobAgent, claims>>
    BY <1>4 DEF AddJobs
  <2>2. PICK S \in SUBSET Job : S = JobsOf(b) \ SkippedStep
    BY DEF JobsOf
  <2>3. \A j \in JobsOf(b) : claims[j] = 0 /\ jobStatus[j] = "absent" /\ ~ InSlot(j)
    BY <1>4 DEF AddJobs, JobsOf, SlotInv, SlotCore, UntouchedUntilAdded, NotYetAdded
  <2>4. OfferedJobs' = OfferedJobs \cup S
    BY <1>4, <2>2, <2>3 DEF AddJobs, JobsOf, OfferedJobs
  <2>5. \A k \in Job : SlotWorker(k)' = SlotWorker(k)
    BY <1>2, <2>1 DEF SlotWorker, InSlot, LateReports
  <2>6. SlotLedger!Offer(S)
    BY <2>1, <2>2, <2>3, <2>4, <2>5 DEF SlotLedger!Offer, OfferedJobs, SlotWorker
  <2> QED BY <2>6 DEF SlotLedger!Next
<1>5. ASSUME NEW r \in late, HandleLate(r) PROVE SlotLedger!Next
  BY <1>2, <1>5, LateIsStep
<1>6. CASE OperatorNext
  <2>1. UNCHANGED <<late, jobAgent, claims>>
    BY <1>6 DEF OperatorNext, CancelBuild, CleanupOldBuilds, CancelJob, Drain, Undrain, GoStale,
                ReapOfflineAgents, jobVars
  <2>2. \A j \in Job : jobStatus'[j] = "pending" => jobStatus[j] = "pending"
    BY <1>6 DEF OperatorNext, CancelBuild, CleanupOldBuilds, CancelJob, Drain, Undrain, GoStale,
                ReapOfflineAgents, jobVars, PoolInv, ParallelTypeOK, TablesOK
  <2> QED BY <1>2, <2>1, <2>2, SlotWithdraw DEF InSlot, LateReports
<1> QED BY <1>3, <1>4, <1>5, <1>6 DEF ServerNext, DeliverHook

LEMMA SlotLedgerNext ==
    PoolInv /\ PoolInv' /\ SlotInv /\ TableInv /\ [ParallelNext]_allVars
        => [SlotLedger!Next]_SlotLedger!vars
<1> SUFFICES ASSUME PoolInv, PoolInv', SlotInv, TableInv, [ParallelNext]_allVars
             PROVE  SlotLedger!Next
  OBVIOUS
<1>1. ASSUME NEW a \in Agent,
             \/ StartUp(a) \/ PollForSlot(a) \/ StopFilling(a) \/ ClaimForSlotRefused(a)
             \/ (Heartbeat(a) /\ UNCHANGED poolVars)
             \/ (\E j \in Job : Visit(a, j) \/ RunJob(a, j)) \/ EndPass(a)
      PROVE  SlotLedger!Next
  BY <1>1, StillJobs, SlotWithdraw DEF InSlot, LateReports
<1>2. CASE ParallelNext
  BY <1>1, <1>2, ClaimIsGrant, StartIsNoChange, ReportIsEnd, GivenUpIsAbandoned,
     DeathIsAbandoned, OutsideIsStep DEF ParallelNext, MainThread
<1>3. CASE UNCHANGED allVars
  <2>1. UNCHANGED <<late, jobStatus, jobAgent, claims, phase, held, future, completed>>
    BY <1>3 DEF allVars, vars, serverVars, jobVars, processVars, poolVars
  <2> QED BY <2>1, SlotWithdraw DEF InSlot, LateReports, InCustody, Running
<1> QED BY <1>2, <1>3

\* Agents with slots keep the ledger of attempts: an offer is granted once, the
\* attempt ends once, and only an ended attempt with retries left is offered again.
THEOREM ImplementsSlotLedger == ParallelSpec => SlotsKeepLedger
<1>1. ParallelInit => SlotLedger!Init
  BY DEF ParallelInit, Init, NoFutures, SlotLedger!Init, InSlot, InCustody, Running, LateReports
<1> QED BY <1>1, SlotLedgerNext, PoolsHold, SlotsHold, TablesHoldInParallel, PTL
       DEF ParallelSpec, SlotsKeepLedger, SlotLedger!Spec

=============================================================================
