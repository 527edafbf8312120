----------------------------- MODULE BuildServer -----------------------------
(***************************************************************************)
(* The build server of CI Engine and the agents that poll it: the rows of  *)
(* the tables builds, jobs and agents (ci_engine/server/models.py), the    *)
(* HTTP handlers that change their status columns                          *)
(* (ci_engine/server/main.py, ci_engine/core/scheduler.py) and the single  *)
(* job loop of an agent process (ci_engine/agent/agent.py, _run_single).   *)
(*                                                                         *)
(* A handler is one action: this module is the server that serves one      *)
(* request at a time.  HandlerRace.tla opens the handlers up.  create_build *)
(* alone is two actions, because it commits the build before it parses the *)
(* pipeline and adds the jobs.                                             *)
(*                                                                         *)
(* An agent waits at most 10 s for an answer and then goes on.  The request *)
(* it gave up may be lost, or be handled later: it moves to `late'.  An    *)
(* answer that is lost after the handler ran is the same behaviour with    *)
(* the agent's next steps delayed.                                         *)
(***************************************************************************)
EXTENDS Integers, FiniteSets

CONSTANTS
    Build,          \* build ids; ids are handed out in increasing order
    Job,            \* job ids
    Agent,          \* agent names
    BuildOf,        \* BuildOf[j]: the build whose pipeline has step j
    MaxRetries,     \* MaxRetries[j]: the step's "retry" value
    SkippedStep,    \* the steps parse_pipeline marks with a skip_condition
    Unparsable,     \* the builds whose pipeline makes parse_pipeline raise
    Unshowable,     \* the steps with env or matrix, whose rows list_builds cannot answer
    PageLimit,      \* how many builds list_builds answers with
    TaggedAgent,    \* the agents started with tags or skills
    SlowAgent,      \* the agents whose requests may time out
    FragileAgent,   \* the agents whose process may die and be started again
    OperatorOps,    \* the operations users and operators may call
    MaxLate,        \* bound: given-up requests that may still be handled
    NoAgent,        \* jobs.agent_id IS NULL
    NoJob           \* an agent process holds no job

Op == {"cancel_build", "cancel_job", "drain", "reap", "cleanup"}

ASSUME BuildAssumption == Build \subseteq Nat
ASSUME BuildOfAssumption == BuildOf \in [Job -> Build]
ASSUME MaxRetriesAssumption == MaxRetries \in [Job -> Nat]
ASSUME StepAssumption ==
    SkippedStep \subseteq Job /\ Unshowable \subseteq Job /\ Unparsable \subseteq Build
ASSUME PageLimitAssumption == PageLimit \in Nat \ {0}
ASSUME AgentAssumption ==
    SlowAgent \subseteq Agent /\ FragileAgent \subseteq Agent /\ TaggedAgent \subseteq Agent
ASSUME OpAssumption == OperatorOps \subseteq Op /\ MaxLate \in Nat
ASSUME NullAssumption == NoAgent \notin Agent /\ NoJob \notin Job

VARIABLES
    buildStatus,    \* builds.status; "absent" before and "deleted" after the row
    jobStatus,      \* jobs.status; "absent" while there is no such row
    jobAgent,       \* jobs.agent_id
    retryCount,     \* jobs.retry_count
    creating,       \* builds committed by a create_build that has not added the jobs
    agentStatus,    \* agents.status; "absent" while there is no such row
    drainMode,      \* agents.drain_mode
    lastSeen,       \* agents.last_seen against the reaper's cutoff
    phase,          \* where the agent process is in its loop
    held,           \* the job dictionary the agent process works on
    exitCode,       \* the exit code it is about to report
    late,           \* requests given up by their agent that may still be handled
    claims          \* history: how often the server granted each job

jobVars == <<jobStatus, jobAgent, retryCount>>
agentRowVars == <<agentStatus, drainMode, lastSeen>>
serverVars == <<buildStatus, jobVars, creating, agentRowVars, claims>>
processVars == <<phase, held, exitCode>>
vars == <<serverVars, processVars, late>>

BuildStatus == {"absent", "pending", "running", "passed", "failed", "canceled", "deleted"}
JobStatus == {"absent", "pending", "assigned", "running", "passed", "failed",
              "canceled", "skipped"}
AgentStatus == {"absent", "idle", "busy", "offline"}
Phase == {"down", "polling", "claiming", "starting", "executing", "reporting"}
ExitCode == {0, 1}
Request == [op : {"claim", "start", "complete"}, agent : Agent, job : Job, exit : ExitCode]

JobsOf(b) == {j \in Job : BuildOf[j] = b}
Finished(b) == buildStatus[b] \in {"passed", "failed", "canceled"}
Active == {"pending", "assigned", "running"}

Init ==
    /\ buildStatus = [b \in Build |-> "absent"]
    /\ jobStatus = [j \in Job |-> "absent"]
    /\ jobAgent = [j \in Job |-> NoAgent]
    /\ retryCount = [j \in Job |-> 0]
    /\ creating = {}
    /\ agentStatus = [a \in Agent |-> "absent"]
    /\ drainMode = [a \in Agent |-> FALSE]
    /\ lastSeen = [a \in Agent |-> "never"]
    /\ phase = [a \in Agent |-> "down"]
    /\ held = [a \in Agent |-> NoJob]
    /\ exitCode = [a \in Agent |-> 0]
    /\ late = {}
    /\ claims = [j \in Job |-> 0]

(***************************************************************************)
(* create_build: the build row is committed, then the pipeline is parsed   *)
(* and the jobs are committed.  When parse_pipeline raises, the row stays. *)
(***************************************************************************)
CreateBuildRow(b) ==
    /\ buildStatus[b] = "absent"
    /\ \A c \in Build : c < b => buildStatus[c] # "absent"
    /\ buildStatus' = [buildStatus EXCEPT ![b] = "pending"]
    /\ creating' = creating \cup {b}
    /\ UNCHANGED <<jobVars, agentRowVars, claims, processVars, late>>

\* A webhook delivery whose query names its event makes a build of two plain
\* steps (make build, make test) with the same two commits.
HookSteps(b) ==
    /\ b \notin Unparsable /\ Cardinality(JobsOf(b)) = 2
    /\ \A j \in JobsOf(b) : j \notin SkippedStep \union Unshowable /\ MaxRetries[j] = 0

DeliverHook(b) == HookSteps(b) /\ CreateBuildRow(b)

AddJobs(b) ==
    /\ b \in creating \ Unparsable
    /\ creating' = creating \ {b}
    /\ jobStatus' = [j \in Job |-> IF j \notin JobsOf(b) THEN jobStatus[j]
                                   ELSE IF j \in SkippedStep THEN "skipped" ELSE "pending"]
    /\ UNCHANGED <<buildStatus, jobAgent, retryCount, agentRowVars, claims, processVars, late>>

ParseFails(b) ==
    /\ b \in creating \cap Unparsable
    /\ creating' = creating \ {b}
    /\ UNCHANGED <<buildStatus, jobVars, agentRowVars, claims, processVars, late>>

(***************************************************************************)
(* The job handlers, as effects on the database.  Each is used by the      *)
(* request its agent waits for and by the same request handled late.       *)
(***************************************************************************)
\* Mutants of the three job handlers: what a slip in the handler would do.  The
\* definition that follows a group of mutants is the one they replace.
ClaimTakenJob(j, a) ==
    /\ jobStatus[j] # "absent"
    /\ jobStatus' = [jobStatus EXCEPT ![j] = "assigned"]
    /\ jobAgent' = [jobAgent EXCEPT ![j] = a]
    /\ agentStatus' = [agentStatus EXCEPT ![a] = "busy"]
    /\ claims' = [claims EXCEPT ![j] = @ + 1]
    /\ UNCHANGED <<buildStatus, retryCount, creating, drainMode, lastSeen>>

ClaimLeavesPending(j, a) ==
    /\ jobStatus[j] = "pending"
    /\ jobAgent' = [jobAgent EXCEPT ![j] = a]
    /\ agentStatus' = [agentStatus EXCEPT ![a] = "busy"]
    /\ claims' = [claims EXCEPT ![j] = @ + 1]
    /\ UNCHANGED <<buildStatus, jobStatus, retryCount, creating, drainMode, lastSeen>>

ClaimKeepsFirstAgent(j, a) ==
    /\ jobStatus[j] = "pending"
    /\ jobStatus' = [jobStatus EXCEPT ![j] = "assigned"]
    /\ jobAgent' = [jobAgent EXCEPT ![j] = IF @ = NoAgent THEN a ELSE @]
    /\ agentStatus' = [agentStatus EXCEPT ![a] = "busy"]
    /\ claims' = [claims EXCEPT ![j] = @ + 1]
    /\ UNCHANGED <<buildStatus, retryCount, creating, drainMode, lastSeen>>

GrantClaim(j, a) ==
    /\ jobStatus[j] = "pending"
    /\ jobStatus' = [jobStatus EXCEPT ![j] = "assigned"]
    /\ jobAgent' = [jobAgent EXCEPT ![j] = a]
    /\ agentStatus' = [agentStatus EXCEPT ![a] = "busy"]
    /\ claims' = [claims EXCEPT ![j] = @ + 1]
    /\ UNCHANGED <<buildStatus, retryCount, creating, drainMode, lastSeen>>

RefuseClaim(j) == jobStatus[j] # "pending" /\ UNCHANGED serverVars

StartLeavesBuild(j) ==
    /\ jobStatus[j] # "absent"
    /\ jobStatus' = [jobStatus EXCEPT ![j] = "running"]
    /\ UNCHANGED <<buildStatus, jobAgent, retryCount, creating, agentRowVars, claims>>

StartForcesBuild(j) ==
    /\ jobStatus[j] # "absent"
    /\ jobStatus' = [jobStatus EXCEPT ![j] = "running"]
    /\ buildStatus' = [buildStatus EXCEPT ![BuildOf[j]] = "running"]
    /\ UNCHANGED <<jobAgent, retryCount, creating, agentRowVars, claims>>

StartRow(j) ==
    /\ jobStatus[j] # "absent"
    /\ jobStatus' = [jobStatus EXCEPT ![j] = "running"]
    /\ buildStatus' = [buildStatus EXCEPT ![BuildOf[j]] = IF @ = "pending" THEN "running" ELSE @]
    /\ UNCHANGED <<jobAgent, retryCount, creating, agentRowVars, claims>>

NoSuchJob(j) == jobStatus[j] = "absent" /\ UNCHANGED serverVars

StartJob(j) == StartRow(j) \/ NoSuchJob(j)

\* Scheduler.update_build_status over the job statuses st; ASSIGNED is not counted.
UpdatedBuildStatus(b, st) ==
    IF \E k \in JobsOf(b) : st[k] \in {"pending", "running"} THEN buildStatus[b]
    ELSE IF \E k \in JobsOf(b) : st[k] = "failed" THEN "failed" ELSE "passed"

CloseIgnoresFailures(b, st, old) ==
    IF \E k \in JobsOf(b) : st[k] = "pending" THEN old ELSE "passed"

\* The tail of complete_job: only PENDING jobs keep the build open.
ClosedBuildStatus(b, st, old) ==
    IF \E k \in JobsOf(b) : st[k] = "pending" THEN old
    ELSE IF \E k \in JobsOf(b) : st[k] = "failed" THEN "failed" ELSE "passed"

RetryOnceTooOften(j, st) == st[j] = "failed" /\ retryCount[j] <= MaxRetries[j]
RetryOnceTooFew(j, st) == st[j] = "failed" /\ retryCount[j] + 1 < MaxRetries[j]

ShouldRetry(j, st) == st[j] = "failed" /\ retryCount[j] < MaxRetries[j]

ReportUnknownStatus(exit) == IF exit = 0 THEN "passed" ELSE "error"

ReportedStatus(exit) == IF exit = 0 THEN "passed" ELSE "failed"

ReportJobOnly(j, exit) ==
    /\ jobStatus[j] # "absent"
    /\ jobStatus' = [jobStatus EXCEPT ![j] = ReportedStatus(exit)]
    /\ agentStatus' = [a \in Agent |-> IF a = jobAgent[j] THEN "idle" ELSE agentStatus[a]]
    /\ UNCHANGED <<buildStatus, jobAgent, retryCount, creating, drainMode, lastSeen, claims>>

ReportAgentOnly(j, exit) ==
    /\ jobStatus[j] # "absent"
    /\ agentStatus' = [a \in Agent |-> IF a = jobAgent[j] THEN "idle" ELSE agentStatus[a]]
    /\ UNCHANGED <<buildStatus, jobVars, creating, drainMode, lastSeen, claims>>

ReportRow(j, exit) ==
    LET b == BuildOf[j]
        reported == [jobStatus EXCEPT ![j] = ReportedStatus(exit)]
        updated == UpdatedBuildStatus(b, reported)
    IN  /\ jobStatus[j] # "absent"
        /\ agentStatus' = [a \in Agent |-> IF a = jobAgent[j] THEN "idle" ELSE agentStatus[a]]
        /\ \/ /\ ShouldRetry(j, reported)
              /\ jobStatus' = [reported EXCEPT ![j] = "pending"]
              /\ retryCount' = [retryCount EXCEPT ![j] = @ + 1]
              /\ buildStatus' = [buildStatus EXCEPT ![b] = updated]
           \/ /\ ~ ShouldRetry(j, reported)
              /\ jobStatus' = reported
              /\ buildStatus' = [buildStatus EXCEPT ![b] = ClosedBuildStatus(b, reported, updated)]
              /\ UNCHANGED retryCount
        /\ UNCHANGED <<jobAgent, creating, drainMode, lastSeen, claims>>

CompleteJob(j, exit) == ReportRow(j, exit) \/ NoSuchJob(j)

(***************************************************************************)
(* The agent process.  AgentStart is run() up to the first poll, with the  *)
(* register handler it calls; a registration that times out ends the       *)
(* process, which is AgentStart followed by AgentCrash.                    *)
(***************************************************************************)
RegisterAgent(a) ==
    /\ agentStatus' = [agentStatus EXCEPT ![a] = "idle"]
    /\ lastSeen' = [lastSeen EXCEPT ![a] = IF agentStatus[a] = "absent" THEN "never" ELSE "fresh"]
    /\ UNCHANGED <<buildStatus, jobVars, creating, drainMode, claims>>

\* tags and skills are stored as strings and AgentResponse declares lists: the
\* answer for such an agent is a 500, its row is committed and its process exits.
RegistrationIsAnswered(a) == a \notin TaggedAgent

AgentStart(a) ==
    /\ phase[a] = "down"
    /\ RegisterAgent(a)
    /\ phase' = [phase EXCEPT ![a] = IF RegistrationIsAnswered(a) THEN "polling" ELSE "down"]
    /\ UNCHANGED <<held, exitCode, late>>

Heartbeat(a) ==
    /\ phase[a] # "down"
    /\ agentStatus' = [agentStatus EXCEPT ![a] = "idle"]
    /\ lastSeen' = [lastSeen EXCEPT ![a] = "fresh"]
    /\ UNCHANGED <<buildStatus, jobVars, creating, drainMode, claims, processVars, late>>

\* list_builds(status=pending): the newest PENDING builds, up to the limit.
PendingBuilds == {b \in Build : buildStatus[b] = "pending"}
Shown == {b \in PendingBuilds : Cardinality({c \in PendingBuilds : c > b}) < PageLimit}

\* env_vars and matrix_vars are stored as JSON strings and JobResponse declares
\* dicts: one such row, whatever its status, turns the whole answer into a 500.
ListIsAnswered == \A j \in Unshowable : BuildOf[j] \in Shown => jobStatus[j] = "absent"

Offered == {j \in Job : jobStatus[j] = "pending" /\ BuildOf[j] \in Shown /\ ListIsAnswered}

\* poll_for_job: the newest build of the list that has a PENDING job; the query
\* gives the jobs of a build no order.
Poll(a) ==
    /\ phase[a] = "polling"
    /\ \E j \in Offered :
        /\ \A k \in Offered : BuildOf[k] <= BuildOf[j]
        /\ held' = [held EXCEPT ![a] = j]
    /\ phase' = [phase EXCEPT ![a] = "claiming"]
    /\ UNCHANGED <<serverVars, exitCode, late>>

ClaimGranted(a) ==
    /\ phase[a] = "claiming"
    /\ GrantClaim(held[a], a)
    /\ phase' = [phase EXCEPT ![a] = "starting"]
    /\ UNCHANGED <<held, exitCode, late>>

ClaimRefused(a) ==
    /\ phase[a] = "claiming"
    /\ RefuseClaim(held[a])
    /\ phase' = [phase EXCEPT ![a] = "polling"]
    /\ held' = [held EXCEPT ![a] = NoJob]
    /\ UNCHANGED <<exitCode, late>>

Start(a) ==
    /\ phase[a] = "starting"
    /\ StartJob(held[a])
    /\ phase' = [phase EXCEPT ![a] = "executing"]
    /\ UNCHANGED <<held, exitCode, late>>

Execute(a) ==
    /\ phase[a] = "executing"
    /\ \E e \in ExitCode : exitCode' = [exitCode EXCEPT ![a] = e]
    /\ phase' = [phase EXCEPT ![a] = "reporting"]
    /\ UNCHANGED <<serverVars, held, late>>

Complete(a) ==
    /\ phase[a] = "reporting"
    /\ CompleteJob(held[a], exitCode[a])
    /\ phase' = [phase EXCEPT ![a] = "polling"]
    /\ held' = [held EXCEPT ![a] = NoJob]
    /\ exitCode' = [exitCode EXCEPT ![a] = 0]
    /\ UNCHANGED late

(***************************************************************************)
(* Failures of the network and of agent processes.                         *)
(***************************************************************************)
Calling(a) == phase[a] \in {"claiming", "starting", "reporting"}

CallOf == [claiming |-> "claim", starting |-> "start", reporting |-> "complete"]

CurrentRequest(a) ==
    [op |-> CallOf[phase[a]], agent |-> a, job |-> held[a], exit |-> exitCode[a]]

LoseOrDelay(a) ==
    \/ UNCHANGED late
    \/ /\ Cardinality(late) < MaxLate
       /\ late' = late \cup {CurrentRequest(a)}

\* requests raised Timeout or ConnectionError: a claim counts as refused, a
\* start or a complete is ignored.
GiveUp(a) ==
    /\ a \in SlowAgent
    /\ Calling(a)
    /\ LoseOrDelay(a)
    /\ phase' = [phase EXCEPT ![a] = IF @ = "starting" THEN "executing" ELSE "polling"]
    /\ held' = [held EXCEPT ![a] = IF phase[a] = "starting" THEN @ ELSE NoJob]
    /\ exitCode' = [exitCode EXCEPT ![a] = 0]
    /\ UNCHANGED serverVars

AgentCrash(a) ==
    /\ a \in FragileAgent
    /\ phase[a] # "down"
    /\ IF Calling(a) THEN LoseOrDelay(a) ELSE UNCHANGED late
    /\ phase' = [phase EXCEPT ![a] = "down"]
    /\ held' = [held EXCEPT ![a] = NoJob]
    /\ exitCode' = [exitCode EXCEPT ![a] = 0]
    /\ UNCHANGED serverVars

HandleLate(r) ==
    /\ late' = late \ {r}
    /\ \/ r.op = "claim" /\ (GrantClaim(r.job, r.agent) \/ RefuseClaim(r.job))
       \/ r.op = "start" /\ StartJob(r.job)
       \/ r.op = "complete" /\ CompleteJob(r.job, r.exit)
    /\ UNCHANGED processVars

(***************************************************************************)
(* Users and operators.                                                    *)
(***************************************************************************)
\* A mutant of CancelBuild that forgets the agents of the jobs.
CancelLeavesAgents(b) ==
    LET canceled == {j \in JobsOf(b) : jobStatus[j] \in Active}
    IN  /\ "cancel_build" \in OperatorOps
        /\ buildStatus[b] \in {"pending", "running"}
        /\ buildStatus' = [buildStatus EXCEPT ![b] = "canceled"]
        /\ jobStatus' = [j \in Job |-> IF j \in canceled THEN "canceled" ELSE jobStatus[j]]
        /\ UNCHANGED <<jobAgent, retryCount, creating, agentRowVars, claims,
                       processVars, late>>

CancelBuild(b) ==
    LET canceled == {j \in JobsOf(b) : jobStatus[j] \in Active}
        freed == {jobAgent[j] : j \in canceled}
    IN  /\ "cancel_build" \in OperatorOps
        /\ buildStatus[b] \in {"pending", "running"}
        /\ buildStatus' = [buildStatus EXCEPT ![b] = "canceled"]
        /\ jobStatus' = [j \in Job |-> IF j \in canceled THEN "canceled" ELSE jobStatus[j]]
        /\ agentStatus' = [a \in Agent |-> IF a \in freed THEN "idle" ELSE agentStatus[a]]
        /\ UNCHANGED <<jobAgent, retryCount, creating, drainMode, lastSeen, claims,
                       processVars, late>>

\* The session does not autoflush (db.py): the count of active jobs that
\* follows the assignment still reads the job's old status.
CancelJob(j) ==
    LET b == BuildOf[j]
        othersActive == \E k \in JobsOf(b) : jobStatus[k] \in Active
    IN  /\ "cancel_job" \in OperatorOps
        /\ jobStatus[j] \notin {"absent", "passed", "failed", "canceled"}
        /\ jobStatus' = [jobStatus EXCEPT ![j] = "canceled"]
        /\ agentStatus' = [a \in Agent |-> IF a = jobAgent[j] THEN "idle" ELSE agentStatus[a]]
        /\ buildStatus' = [buildStatus EXCEPT ![b] =
                             IF othersActive \/ @ = "canceled" THEN @ ELSE "failed"]
        /\ UNCHANGED <<jobAgent, retryCount, creating, drainMode, lastSeen, claims,
                       processVars, late>>

Drain(a) ==
    /\ "drain" \in OperatorOps
    /\ agentStatus[a] # "absent"
    /\ drainMode' = [drainMode EXCEPT ![a] = TRUE]
    /\ agentStatus' = [agentStatus EXCEPT ![a] = IF @ = "idle" THEN "offline" ELSE @]
    /\ UNCHANGED <<buildStatus, jobVars, creating, lastSeen, claims, processVars, late>>

Undrain(a) ==
    /\ "drain" \in OperatorOps
    /\ agentStatus[a] # "absent"
    /\ drainMode' = [drainMode EXCEPT ![a] = FALSE]
    /\ agentStatus' = [agentStatus EXCEPT ![a] = IF @ = "offline" THEN "idle" ELSE @]
    /\ UNCHANGED <<buildStatus, jobVars, creating, lastSeen, claims, processVars, late>>

\* Time passes: no heartbeat of a reached the server within timeout_minutes.
GoStale(a) ==
    /\ "reap" \in OperatorOps
    /\ lastSeen[a] = "fresh"
    /\ lastSeen' = [lastSeen EXCEPT ![a] = "stale"]
    /\ UNCHANGED <<buildStatus, jobVars, creating, agentStatus, drainMode, claims,
                   processVars, late>>

\* last_seen IS NULL ("never") compares as unknown: such an agent is not reaped.
ReapOfflineAgents ==
    /\ "reap" \in OperatorOps
    /\ agentStatus' = [a \in Agent |-> IF agentStatus[a] # "absent" /\ lastSeen[a] = "stale"
                                       THEN "offline" ELSE agentStatus[a]]
    /\ UNCHANGED <<buildStatus, jobVars, creating, drainMode, lastSeen, claims,
                   processVars, late>>

\* The builds older than the cutoff go with their jobs, whatever their status.
CleanupOldBuilds(newest) ==
    LET old == {b \in Build : b <= newest /\ buildStatus[b] # "absent"} \ creating
    IN  /\ "cleanup" \in OperatorOps
        /\ buildStatus' = [b \in Build |-> IF b \in old THEN "deleted" ELSE buildStatus[b]]
        /\ jobStatus' = [j \in Job |-> IF BuildOf[j] \in old THEN "absent" ELSE jobStatus[j]]
        /\ UNCHANGED <<jobAgent, retryCount, creating, agentRowVars, claims, processVars, late>>

-----------------------------------------------------------------------------
ServerNext ==
    \/ \E b \in Build : CreateBuildRow(b) \/ DeliverHook(b) \/ AddJobs(b) \/ ParseFails(b)
    \/ \E r \in late : HandleLate(r)

AgentNext ==
    \E a \in Agent :
        \/ AgentStart(a) \/ Heartbeat(a) \/ Poll(a)
        \/ ClaimGranted(a) \/ ClaimRefused(a) \/ Start(a) \/ Execute(a) \/ Complete(a)
        \/ GiveUp(a) \/ AgentCrash(a)

OperatorNext ==
    \/ \E b \in Build : CancelBuild(b) \/ CleanupOldBuilds(b)
    \/ \E j \in Job : CancelJob(j)
    \/ \E a \in Agent : Drain(a) \/ Undrain(a) \/ GoStale(a)
    \/ ReapOfflineAgents

Next == ServerNext \/ AgentNext \/ OperatorNext

Spec == Init /\ [][Next]_vars

(***************************************************************************)
(* Fairness.  A submitted build is parsed; an agent process that is up     *)
(* keeps looping, its requests are answered or given up, and its commands  *)
(* end (Executor.execute and execute_in_container run them under a         *)
(* timeout).  Nobody promises that users, operators or the network act.    *)
(***************************************************************************)
Fairness ==
    /\ \A b \in Build : WF_vars(CreateBuildRow(b)) /\ WF_vars(AddJobs(b))
    /\ \A a \in Agent :
        /\ WF_vars(AgentStart(a))
        /\ WF_vars(Poll(a))
        /\ WF_vars(ClaimGranted(a) \/ ClaimRefused(a))
        /\ WF_vars(Start(a))
        /\ WF_vars(Execute(a))
        /\ WF_vars(Complete(a))

FairSpec == Spec /\ Fairness

-----------------------------------------------------------------------------
(***************************************************************************)
(* Properties                                                              *)
(***************************************************************************)
TablesOK ==
    /\ buildStatus \in [Build -> BuildStatus]
    /\ jobStatus \in [Job -> JobStatus]
    /\ jobAgent \in [Job -> Agent \cup {NoAgent}]
    /\ retryCount \in [Job -> Nat]
    /\ creating \subseteq Build
    /\ agentStatus \in [Agent -> AgentStatus]
    /\ drainMode \in [Agent -> BOOLEAN]
    /\ lastSeen \in [Agent -> {"never", "fresh", "stale"}]
    /\ claims \in [Job -> Nat]

ProcessesOK ==
    /\ phase \in [Agent -> Phase]
    /\ held \in [Agent -> Job \cup {NoJob}]
    /\ \A a \in Agent : held[a] = NoJob <=> phase[a] \in {"down", "polling"}
    /\ exitCode \in [Agent -> ExitCode]
    /\ late \subseteq Request

TypeOK == TablesOK /\ ProcessesOK

\* Agent a was told that it has job j and has not yet reported or given up.
HasCustody(a, j) == phase[a] \in {"starting", "executing", "reporting"} /\ held[a] = j

\* The reports on j that their agent gave up and the server may still handle.
LateReports(j) == {r \in late : r.op = "complete" /\ r.job = j}

\* A granted attempt of j has not ended: an agent works on it, or its report is
\* on the way.
InHand(j) == (\E a \in Agent : HasCustody(a, j)) \/ LateReports(j) # {}

\* At most one agent works on a job, and while one does no report of an
\* earlier attempt is on its way: attempts of a job never overlap, whatever
\* is late, repeated, retried, canceled or restarted (claim_job's status check
\* against complete_job's retry).
AttemptsNeverOverlap ==
    \A j \in Job :
        /\ \A a, b \in Agent : HasCustody(a, j) /\ HasCustody(b, j) => a = b
        /\ \A a \in Agent : HasCustody(a, j) => LateReports(j) = {}
        /\ \A r, s \in LateReports(j) : r = s

\* A job that is offered to the agents (PENDING) has no agent working on it and
\* no report on the way that would overwrite the next attempt.
PendingJobIsFree ==
    \A j \in Job : jobStatus[j] = "pending" =>
        LateReports(j) = {} /\ \A a \in Agent : ~ HasCustody(a, j)

\* The row names the agent that works on the job, so complete_job and the
\* cancel handlers free the right agent.
WorkerIsRecorded ==
    \A j \in Job :
        /\ \A a \in Agent : HasCustody(a, j) => jobAgent[j] = a
        /\ \A r \in LateReports(j) : jobAgent[j] = r.agent

\* The jobs of a build that create_build has not committed yet.
NotYetAdded(j) == buildStatus[BuildOf[j]] = "absent" \/ BuildOf[j] \in creating

UntouchedUntilAdded ==
    /\ \A b \in creating : buildStatus[b] \in {"pending", "canceled"}
    /\ \A j \in Job : NotYetAdded(j) =>
        /\ jobStatus[j] = "absent" /\ jobAgent[j] = NoAgent
        /\ claims[j] = 0 /\ retryCount[j] = 0

InHandWasGranted == \A j \in Job : InHand(j) => claims[j] > 0

\* The inductive invariant behind the three properties above: custody of a job
\* passes from PENDING to one agent, from the agent to its report, and back.
CustodyInv ==
    /\ AttemptsNeverOverlap
    /\ PendingJobIsFree
    /\ WorkerIsRecorded
    /\ UntouchedUntilAdded
    /\ InHandWasGranted

\* A job is handed out at most once per attempt: once, and once more for each
\* retry, never more than 1 + max_retries times in all.
AttemptsAreBounded ==
    \A j \in Job :
        /\ claims[j] + (IF jobStatus[j] = "pending" THEN 1 ELSE 0) <= 1 + retryCount[j]
        /\ retryCount[j] <= MaxRetries[j]

\* A job rests in FAILED only when its retries are used up.
FailedJobIsExhausted ==
    \A j \in Job : jobStatus[j] = "failed" => retryCount[j] = MaxRetries[j]

\* An agent is shown BUSY only while the tables hold an unfinished job of its
\* (or cleanup took the row away under it).
BusyAgentHasJob ==
    \A a \in Agent : agentStatus[a] = "busy" =>
        \E j \in Job : jobAgent[j] = a /\ jobStatus[j] \in {"assigned", "running", "absent"}

\* A RUNNING build without an unfinished job was left behind by a cancellation
\* of one of its jobs: every other way to finish the last job closes the build.
StalledBuildWasCanceled ==
    \A b \in Build :
        buildStatus[b] = "running" /\ (\A j \in JobsOf(b) : jobStatus[j] \notin Active) =>
            \E j \in JobsOf(b) : jobStatus[j] = "canceled"

\* Once every job of a build is PASSED, FAILED or SKIPPED, and one of them ran,
\* the build shows the verdict of all of them: what was declared too early is put
\* right by the last report (the recount at the tail of complete_job).
SettledBuildIsJudged ==
    \A b \in Build :
        /\ \A j \in JobsOf(b) : jobStatus[j] \in {"passed", "failed", "skipped"}
        /\ \E j \in JobsOf(b) : jobStatus[j] # "skipped"
        => buildStatus[b] = IF \E j \in JobsOf(b) : jobStatus[j] = "failed"
                            THEN "failed" ELSE "passed"

\* The agents look only at PENDING builds: no build is shown PENDING while one
\* of its jobs runs.
PendingBuildIsNotRunning ==
    \A b \in Build : buildStatus[b] = "pending" =>
        \A j \in JobsOf(b) : jobStatus[j] # "running"

\* The step that declares a build PASSED leaves no failed job and no job to be
\* retried in it (update_build_status and the tail of complete_job together).
PassesOnlyWithoutFailure ==
    [][\A b \in Build :
          buildStatus[b] # "passed" /\ buildStatus'[b] = "passed" =>
              \A j \in JobsOf(b) : jobStatus'[j] \notin {"failed", "pending"}]_vars

\* A build that has left PENDING is never offered to the agents again, and a
\* finished build is never shown RUNNING again, whatever request is late.
BuildNeverReopens ==
    [][\A b \in Build :
          /\ buildStatus[b] \notin {"absent", "pending"} => buildStatus'[b] # "pending"
          /\ Finished(b) => buildStatus'[b] # "running"]_vars

\* Who has the current attempt of j, its agent or the report of its agent.
WorkerOf(j) == IF InHand(j) THEN jobAgent[j] ELSE NoAgent

\* The server, its agents and its network keep the ledger of attempts: an offer
\* is granted once, to one agent, and only an ended attempt with retries left is
\* offered again.
Ledger == INSTANCE AttemptLedger WITH
    Nobody <- NoAgent,
    offered <- {j \in Job : jobStatus[j] = "pending"},
    worker <- [j \in Job |-> WorkerOf(j)],
    attempts <- claims

KeepsLedger == Ledger!Spec

\* Once a job is granted to agents that stay up over a network that answers, it
\* does not stay ASSIGNED or RUNNING: its report arrives, or it is canceled.
GrantedJobIsReported ==
    \A j \in Job : jobStatus[j] \in {"assigned", "running"} ~>
        jobStatus[j] \in {"passed", "failed", "pending", "canceled"}

\* The ways in which a build is left open.  Its first step made it RUNNING, and
\* the agents look at PENDING builds only.
LeftBehind(b) ==
    /\ buildStatus[b] = "running"
    /\ \A j \in JobsOf(b) : jobStatus[j] \notin {"assigned", "running"}
    /\ \E j \in JobsOf(b) : jobStatus[j] \in {"pending", "canceled"}

\* create_build left it without a step to run: the pipeline did not parse, or all
\* its steps were skipped (or canceled one by one).
NothingToRun(b) ==
    buildStatus[b] = "pending" /\ \A j \in JobsOf(b) : jobStatus[j] # "pending"

\* More newer builds are PENDING than the list has room for, or the list cannot
\* be answered.
OutOfSight(b) == b \in PendingBuilds /\ (b \notin Shown \/ ~ ListIsAnswered)


(***************************************************************************)
(* What the documentation promises and the code does not keep: one run for *)
(* each finds the counterexample.                                          *)
(***************************************************************************)

\* "Lightweight workers that poll the server for jobs and execute them"
\* (README.md:89): each step of examples/simple-pipeline.yaml is handed out.
EveryStepIsHandedOut == \A j \in Job : jobStatus[j] = "pending" ~> claims[j] > 0

\* "Cancel a build and all its jobs." (main.py:1393): a canceled build stays
\* canceled until it is cleaned up.
CanceledBuildStaysCanceled ==
    [][\A b \in Build : buildStatus[b] = "canceled" =>
          buildStatus'[b] \in {"canceled", "deleted"}]_vars
=============================================================================
