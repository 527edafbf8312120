---------------------------- MODULE ParallelAgent ----------------------------
(***************************************************************************)
(* Agents that run several jobs at a time (ci_engine/agent/agent.py,       *)
(* _run_parallel), against the server of BuildServer.tla: its tables, its  *)
(* handlers, its given-up requests and its operators are taken from there. *)
(*                                                                         *)
(* The main thread of an agent fills its free slots (poll, claim, start,   *)
(* submit), then goes once through its running jobs and reports those      *)
(* whose future is done, then forgets the reported ones and removes their  *)
(* workspaces.  A pool of threads runs the jobs.  The main thread's place  *)
(* is `phase', with `held' and `exitCode' for the call it makes.           *)
(*                                                                         *)
(* A workspace is a directory named after the job, on the agent's host.    *)
(* The order in which a pass visits the running jobs is left open.         *)
(***************************************************************************)
EXTENDS BuildServer

CONSTANTS
    MaxParallel,    \* --parallel-jobs, the same for all agents
    HostOf          \* HostOf[a]: the machine agent a runs on

ASSUME MaxParallelAssumption == MaxParallel \in Nat /\ MaxParallel > 1
ASSUME JobsAssumption == IsFiniteSet(Job)

VARIABLES
    future,         \* future[a][j]: the entry of job j in _running_jobs of a
    visited,        \* the running jobs this pass has looked at
    completed,      \* the ones it has reported
    slots,          \* available_slots
    workspaces      \* the workspace directories, as <<host, job>>

poolVars == <<future, visited, completed, slots, workspaces>>
allVars == <<vars, poolVars>>

Future == {"none", "working", "passed", "failed"}
Place == {"down", "polling", "claiming", "starting", "collecting", "reporting"}

NoFutures == [j \in Job |-> "none"]
Running(a) == {j \in Job : future[a][j] # "none"}

ParallelInit ==
    /\ Init
    /\ future = [a \in Agent |-> NoFutures]
    /\ visited = [a \in Agent |-> {}]
    /\ completed = [a \in Agent |-> {}]
    /\ slots = [a \in Agent |-> MaxParallel]
    /\ workspaces = {}

(***************************************************************************)
(* Filling the slots.  Starting up, polling and a granted claim are those  *)
(* of the single job loop.                                                 *)
(***************************************************************************)
StartUp(a) == AgentStart(a) /\ UNCHANGED poolVars

PollForSlot(a) == slots[a] > 0 /\ Poll(a) /\ UNCHANGED poolVars

\* No slot is free, no job was shown, or the poll failed.
StopFilling(a) ==
    /\ phase[a] = "polling"
    /\ slots[a] = 0 \/ Offered = {} \/ a \in SlowAgent
    /\ phase' = [phase EXCEPT ![a] = "collecting"]
    /\ UNCHANGED <<serverVars, held, exitCode, late, poolVars>>

ClaimForSlot(a) == ClaimGranted(a) /\ UNCHANGED poolVars

\* A refused claim leaves the loop that fills the slots.
Refused(a) ==
    /\ phase' = [phase EXCEPT ![a] = "collecting"]
    /\ held' = [held EXCEPT ![a] = NoJob]
    /\ UNCHANGED <<exitCode, poolVars>>

ClaimForSlotRefused(a) ==
    /\ phase[a] = "claiming"
    /\ RefuseClaim(held[a])
    /\ Refused(a)
    /\ UNCHANGED late

\* Mutants of the small operators below come just before the one they replace.
SlotKept(a) == slots[a]
SlotTaken(a) == slots[a] - 1

Submit(a) ==
    LET j == held[a]
    IN  /\ future' = [future EXCEPT ![a][j] = "working"]
        /\ workspaces' = workspaces \cup {<<HostOf[a], j>>}
        /\ slots' = [slots EXCEPT ![a] = SlotTaken(a)]
        /\ phase' = [phase EXCEPT ![a] = "polling"]
        /\ held' = [held EXCEPT ![a] = NoJob]
        /\ UNCHANGED <<exitCode, visited, completed>>

StartAndSubmit(a) ==
    /\ phase[a] = "starting"
    /\ StartJob(held[a])
    /\ Submit(a)
    /\ UNCHANGED late

(***************************************************************************)
(* A thread of the pool runs a job to its end.  execute_job_isolated turns *)
(* a timeout and every exception into -1.                                  *)
(***************************************************************************)
RunJob(a, j) ==
    /\ future[a][j] = "working"
    /\ \E end \in {"passed", "failed"} : future' = [future EXCEPT ![a][j] = end]
    /\ UNCHANGED <<vars, visited, completed, slots, workspaces>>

(***************************************************************************)
(* A pass over the running jobs.                                           *)
(***************************************************************************)
AnyJob(a, j) == TRUE
IsDone(a, j) == future[a][j] # "working"

Visit(a, j) ==
    /\ phase[a] = "collecting"
    /\ j \in Running(a) \ visited[a]
    /\ visited' = [visited EXCEPT ![a] = @ \cup {j}]
    /\ \/ ~ IsDone(a, j) /\ UNCHANGED processVars
       \/ /\ IsDone(a, j)
          /\ phase' = [phase EXCEPT ![a] = "reporting"]
          /\ held' = [held EXCEPT ![a] = j]
          /\ exitCode' = [exitCode EXCEPT ![a] = IF future[a][j] = "passed" THEN 0 ELSE 1]
    /\ UNCHANGED <<serverVars, late, future, completed, slots, workspaces>>

ReportNotNoted(a) == completed[a]
ReportNoted(a) == completed[a] \cup {held[a]}

Reported(a) ==
    /\ phase' = [phase EXCEPT ![a] = "collecting"]
    /\ held' = [held EXCEPT ![a] = NoJob]
    /\ exitCode' = [exitCode EXCEPT ![a] = 0]
    /\ completed' = [completed EXCEPT ![a] = ReportNoted(a)]
    /\ UNCHANGED <<future, visited, slots, workspaces>>

Report(a) ==
    /\ phase[a] = "reporting"
    /\ CompleteJob(held[a], exitCode[a])
    /\ Reported(a)
    /\ UNCHANGED late

AllHandedBack(a) == slots[a] + Cardinality(Running(a))
SlotsLeft(a) == MaxParallel - Cardinality(Running(a) \ completed[a])

CleansAll(a) == Running(a)
CleansReported(a) == completed[a]

\* The pass is over: the reported jobs go, and the loop counts its slots anew.
EndPass(a) ==
    /\ phase[a] = "collecting"
    /\ visited[a] = Running(a)
    /\ future' = [future EXCEPT ![a] =
                    [j \in Job |-> IF j \in completed[a] THEN "none" ELSE @[j]]]
    /\ workspaces' = workspaces \ {<<HostOf[a], j>> : j \in CleansReported(a)}
    /\ slots' = [slots EXCEPT ![a] = SlotsLeft(a)]
    /\ visited' = [visited EXCEPT ![a] = {}]
    /\ completed' = [completed EXCEPT ![a] = {}]
    /\ phase' = [phase EXCEPT ![a] = "polling"]
    /\ UNCHANGED <<serverVars, held, exitCode, late>>

(***************************************************************************)
(* Failures                                                                *)
(***************************************************************************)
\* The call of the main thread timed out: a claim counts as refused, a start
\* and a report as done.
CallGivenUp(a) ==
    /\ a \in SlowAgent
    /\ Calling(a)
    /\ LoseOrDelay(a)
    /\ \/ phase[a] = "claiming" /\ Refused(a)
       \/ phase[a] = "starting" /\ Submit(a)
       \/ phase[a] = "reporting" /\ Reported(a)
    /\ UNCHANGED serverVars

\* The threads die with the process; the workspaces stay.
ProcessDies(a) ==
    /\ AgentCrash(a)
    /\ future' = [future EXCEPT ![a] = NoFutures]
    /\ visited' = [visited EXCEPT ![a] = {}]
    /\ completed' = [completed EXCEPT ![a] = {}]
    /\ slots' = [slots EXCEPT ![a] = MaxParallel]
    /\ UNCHANGED workspaces

MainThread(a) ==
    \/ StartUp(a) \/ PollForSlot(a) \/ StopFilling(a)
    \/ ClaimForSlot(a) \/ ClaimForSlotRefused(a) \/ StartAndSubmit(a)
    \/ (\E j \in Job : Visit(a, j)) \/ Report(a) \/ EndPass(a)

ParallelNext ==
    \/ \E a \in Agent :
        \/ MainThread(a) \/ CallGivenUp(a) \/ ProcessDies(a)
        \/ \E j \in Job : RunJob(a, j)
        \/ Heartbeat(a) /\ UNCHANGED poolVars
    \/ (ServerNext \/ OperatorNext) /\ UNCHANGED poolVars

ParallelSpec == ParallelInit /\ [][ParallelNext]_allVars

\* The main thread keeps looping and the pool ends its jobs, on all agents.
ParallelFairness ==
    /\ \A b \in Build : WF_allVars(CreateBuildRow(b) /\ UNCHANGED poolVars)
    /\ \A a \in Agent :
        /\ WF_allVars(MainThread(a))
        /\ \A j \in Job : WF_allVars(RunJob(a, j))

ParallelFairSpec == ParallelSpec /\ ParallelFairness

-----------------------------------------------------------------------------
(***************************************************************************)
(* Properties                                                              *)
(***************************************************************************)
ParallelTypeOK ==
    /\ TablesOK
    /\ phase \in [Agent -> Place]
    /\ held \in [Agent -> Job \cup {NoJob}]
    /\ exitCode \in [Agent -> ExitCode]
    /\ late \subseteq Request
    /\ future \in [Agent -> [Job -> Future]]
    /\ visited \in [Agent -> SUBSET Job]
    /\ completed \in [Agent -> SUBSET Job]
    /\ slots \in [Agent -> 0 .. MaxParallel]
    /\ workspaces \subseteq {HostOf[a] : a \in Agent} \X Job

\* The jobs agent a has been given and works on, or has not reported or given up.
InCustody(a) ==
    {j \in Job : \/ future[a][j] = "working"
                 \/ j \in Running(a) \ completed[a]
                 \/ phase[a] = "starting" /\ held[a] = j}

\* An agent never works on more jobs than it may, the one it has claimed and not
\* yet submitted included: available_slots, counted down while the slots are
\* filled, never falls behind _running_jobs.
SlotsAreRespected ==
    \A a \in Agent :
        Cardinality(Running(a) \cup {j \in Job : phase[a] = "starting" /\ held[a] = j})
            <= MaxParallel

\* A job has one worker: one slot of one agent, or one report on its way.
OneSlotPerJob ==
    \A j \in Job :
        /\ \A a, b \in Agent : j \in InCustody(a) /\ j \in InCustody(b) => a = b
        /\ \A a \in Agent : phase[a] = "starting" /\ held[a] = j => j \notin Running(a)
        /\ (\E a \in Agent : j \in InCustody(a)) => LateReports(j) = {}

\* Agents on machines of their own: while a thread works on a job its workspace
\* is there (_prepare_job_workspace, _cleanup_job_workspace).
WorkspaceOutlivesJob ==
    \A a \in Agent, j \in Job :
        future[a][j] = "working" => <<HostOf[a], j>> \in workspaces

\* The slots of an agent keep the ledger of attempts as its single job loop does.
InSlot(j) == (\E a \in Agent : j \in InCustody(a)) \/ LateReports(j) # {}

SlotLedger == INSTANCE AttemptLedger WITH
    Nobody <- NoAgent,
    offered <- {j \in Job : jobStatus[j] = "pending"},
    worker <- [j \in Job |-> IF InSlot(j) THEN jobAgent[j] ELSE NoAgent],
    attempts <- claims

SlotsKeepLedger == SlotLedger!Spec

\* An agent that stays up gives back each job it was granted, even when its calls
\* go unanswered: the pass over the running jobs comes to it, and its slot is free.
EverySlotIsFreed ==
    \A a \in Agent \ FragileAgent, j \in Job :
        j \in InCustody(a) ~> j \notin Running(a) \cup InCustody(a)
=============================================================================
