----------------------------- MODULE HandlerRace -----------------------------
(***************************************************************************)
(* The job handlers of the build server (ci_engine/server/main.py), opened *)
(* up.  BuildServer.tla takes a handler for one step; the server runs the  *)
(* handlers in a pool of threads (and k8s/server-deployment.yaml runs two  *)
(* replicas), each with a database session of its own, over PostgreSQL.    *)
(*                                                                         *)
(* A session reads rows, changes them in memory and commits.  Nothing it   *)
(* read is locked, so what it writes may rest on rows another session has  *)
(* changed meanwhile.  A commit writes only the columns whose value        *)
(* differs from the one that was loaded.  complete_job commits up to four  *)
(* times and reads again after each.                                       *)
(*                                                                         *)
(* One build, submitted and parsed, over a network that answers.  The      *)
(* column agents.status is left out: every handler writes it and none      *)
(* decides by it.  Each query a handler decides by is a step.  A row that  *)
(* is loaded only to be assigned to is loaded with the query that decides. *)
(***************************************************************************)
EXTENDS Integers

CONSTANTS
    Job,            \* the jobs of the build
    Agent,          \* agent names
    MaxRetries,     \* MaxRetries[j]: the step's "retry" value
    UserOps,        \* the operations the user may call
    User,           \* the session of the user's requests
    NoAgent,        \* jobs.agent_id IS NULL
    NoJob           \* an agent process holds no job

\* A pipeline without steps leaves its build PENDING for ever.
ASSUME JobAssumption == Job # {}
ASSUME MaxRetriesAssumption == MaxRetries \in [Job -> Nat]
ASSUME UserAssumption == User \notin Agent /\ UserOps \subseteq {"cancel_build", "cancel_job"}
ASSUME NullAssumption == NoAgent \notin Agent /\ NoJob \notin Job

VARIABLES
    buildStatus,    \* builds.status
    jobStatus,      \* jobs.status
    jobAgent,       \* jobs.agent_id
    retryCount,     \* jobs.retry_count
    step,           \* step[s]: what the handler of session s does next
    dirty,          \* dirty[s]: the columns session s will write when it commits
    phase,          \* where the agent process is in its loop
    held,           \* the job the agent process works on
    exitCode        \* the exit code it is about to report

tables == <<buildStatus, jobStatus, jobAgent, retryCount>>
sessions == <<step, dirty>>
processVars == <<phase, held, exitCode>>
vars == <<tables, sessions, processVars>>

BuildStatus == {"pending", "running", "passed", "failed", "canceled"}
JobStatus == {"pending", "assigned", "running", "passed", "failed", "canceled"}
Phase == {"polling", "claiming", "starting", "executing", "reporting"}
ExitCode == {0, 1}
Session == Agent \cup {User}
Active == {"pending", "assigned", "running"}

\* A session writes the columns of a row that it has changed: a map from the
\* written rows to their new values, for each column.
Nothing == [j \in {} |-> ""]
Clean == [build |-> Nothing, job |-> Nothing, worker |-> Nothing, retries |-> Nothing]

\* Assigning a column the value it was loaded with writes nothing.
Assign(row, loaded, value) ==
    IF loaded = value THEN Nothing ELSE [r \in {row} |-> value]

Written(column, writes) ==
    [r \in DOMAIN column |-> IF r \in DOMAIN writes THEN writes[r] ELSE column[r]]

\* builds.status as a column with one row.
TheBuild == "build"
AssignBuild(value) == Assign(TheBuild, buildStatus, value)

Init ==
    /\ buildStatus = "pending"
    /\ jobStatus = [j \in Job |-> "pending"]
    /\ jobAgent = [j \in Job |-> NoAgent]
    /\ retryCount = [j \in Job |-> 0]
    /\ step = [s \in Session |-> "none"]
    /\ dirty = [s \in Session |-> Clean]
    /\ phase = [a \in Agent |-> "polling"]
    /\ held = [a \in Agent |-> NoJob]
    /\ exitCode = [a \in Agent |-> 0]

(***************************************************************************)
(* The agent's loop between its requests.                                  *)
(***************************************************************************)
Poll(a) ==
    /\ phase[a] = "polling"
    /\ buildStatus = "pending"
    /\ \E j \in Job : jobStatus[j] = "pending" /\ held' = [held EXCEPT ![a] = j]
    /\ phase' = [phase EXCEPT ![a] = "claiming"]
    /\ UNCHANGED <<tables, sessions, exitCode>>

Execute(a) ==
    /\ phase[a] = "executing"
    /\ \E e \in ExitCode : exitCode' = [exitCode EXCEPT ![a] = e]
    /\ phase' = [phase EXCEPT ![a] = "reporting"]
    /\ UNCHANGED <<tables, sessions, held>>

(***************************************************************************)
(* What all handlers have in common.                                       *)
(***************************************************************************)
\* The handler of s has read what it needs, changed its rows and will now do next.
Continue(s, next, writes) ==
    /\ step' = [step EXCEPT ![s] = next]
    /\ dirty' = [dirty EXCEPT ![s] = writes]
    /\ UNCHANGED <<tables, processVars>>

\* The answer reaches the process that called; a job that was reported or
\* refused is dropped.
Answered(s, newPhase) ==
    /\ phase' = [a \in Agent |-> IF a = s THEN newPhase ELSE phase[a]]
    /\ held' = [a \in Agent |-> IF a = s /\ newPhase = "polling" THEN NoJob ELSE held[a]]
    /\ exitCode' = [a \in Agent |-> IF a = s /\ newPhase = "polling" THEN 0 ELSE exitCode[a]]

\* Session s writes its dirty columns.
Flush(s) ==
    /\ buildStatus' = IF TheBuild \in DOMAIN dirty[s].build
                      THEN dirty[s].build[TheBuild] ELSE buildStatus
    /\ jobStatus' = Written(jobStatus, dirty[s].job)
    /\ jobAgent' = Written(jobAgent, dirty[s].worker)
    /\ retryCount' = Written(retryCount, dirty[s].retries)
    /\ dirty' = [dirty EXCEPT ![s] = Clean]

\* A commit in the middle of a handler, and the one that ends it.
CommitAnd(s, next) ==
    /\ Flush(s)
    /\ step' = [step EXCEPT ![s] = next]
    /\ UNCHANGED processVars

CommitLast(s, newPhase) ==
    /\ Flush(s)
    /\ step' = [step EXCEPT ![s] = "none"]
    /\ Answered(s, newPhase)

(***************************************************************************)
(* claim_job                                                               *)
(***************************************************************************)
Calls(a, p) == phase[a] = p /\ step[a] = "none"

ClaimReads(a) ==
    LET j == held[a]
    IN  /\ Calls(a, "claiming")
        /\ jobStatus[j] = "pending"
        /\ Continue(a, "claim", [Clean EXCEPT !.job = Assign(j, "pending", "assigned"),
                                              !.worker = Assign(j, jobAgent[j], a)])

ClaimRefused(a) ==
    /\ Calls(a, "claiming")
    /\ jobStatus[held[a]] # "pending"
    /\ Answered(a, "polling")
    /\ UNCHANGED <<tables, sessions>>

ClaimCommits(a) == step[a] = "claim" /\ CommitLast(a, "starting")

(***************************************************************************)
(* start_job                                                               *)
(***************************************************************************)
StartReads(a) ==
    LET j == held[a]
    IN  /\ Calls(a, "starting")
        /\ Continue(a, "open", [Clean EXCEPT !.job = Assign(j, jobStatus[j], "running")])

OpenBuild(a) ==
    /\ step[a] = "open"
    /\ Continue(a, "start",
           [dirty[a] EXCEPT !.build = IF buildStatus = "pending"
                                      THEN AssignBuild("running") ELSE Nothing])

StartCommits(a) == step[a] = "start" /\ CommitLast(a, "executing")

(***************************************************************************)
(* complete_job with the Scheduler methods it calls.                       *)
(***************************************************************************)
ReportUnknownStatus(exit) == IF exit = 0 THEN "passed" ELSE "error"

ReportedStatus(exit) == IF exit = 0 THEN "passed" ELSE "failed"

\* A mutant of ReportReads: the report is not written.
ReportNotWritten(a) == Calls(a, "reporting") /\ Continue(a, "report", Clean)

ReportReads(a) ==
    LET j == held[a]
    IN  /\ Calls(a, "reporting")
        /\ Continue(a, "report",
               [Clean EXCEPT !.job = Assign(j, jobStatus[j], ReportedStatus(exitCode[a]))])

\* A mutant of ReportCommits: the handler ends with its first commit.
ReportWithoutVerdict(a) == step[a] = "report" /\ CommitLast(a, "polling")

ReportCommits(a) == step[a] = "report" /\ CommitAnd(a, "recount")

\* update_build_status reads the jobs and the build; ASSIGNED is not counted.
Recount(a) ==
    /\ step[a] = "recount"
    /\ Continue(a, "update",
           [Clean EXCEPT !.build =
               IF \E k \in Job : jobStatus[k] \in {"pending", "running"} THEN Nothing
               ELSE IF \E k \in Job : jobStatus[k] = "failed" THEN AssignBuild("failed")
               ELSE AssignBuild("passed")])

UpdateCommits(a) == step[a] = "update" /\ CommitAnd(a, "retry")

RetryOnceTooOften(j) == jobStatus[j] = "failed" /\ retryCount[j] <= MaxRetries[j]

ShouldRetry(j) == jobStatus[j] = "failed" /\ retryCount[j] < MaxRetries[j]

\* The job row is loaded again: another session may have changed it.
Retry(a) ==
    LET j == held[a]
    IN  /\ step[a] = "retry"
        /\ \/ /\ ShouldRetry(j)
              /\ Continue(a, "requeue",
                     [Clean EXCEPT !.job = Assign(j, "failed", "pending"),
                                   !.retries = Assign(j, retryCount[j], retryCount[j] + 1)])
           \/ /\ ~ ShouldRetry(j)
              /\ Continue(a, "count", Clean)

RequeueCommits(a) == step[a] = "requeue" /\ CommitLast(a, "polling")

\* The two counts at the tail of complete_job are two queries.
CountPending(a) ==
    /\ step[a] = "count"
    /\ \/ /\ \A k \in Job : jobStatus[k] # "pending"
          /\ Continue(a, "judge", Clean)
       \/ /\ \E k \in Job : jobStatus[k] = "pending"
          /\ step' = [step EXCEPT ![a] = "none"]
          /\ Answered(a, "polling")
          /\ UNCHANGED <<tables, dirty>>

CountFailed(a) ==
    /\ step[a] = "judge"
    /\ Continue(a, "close",
           [Clean EXCEPT !.build = AssignBuild(IF \E k \in Job : jobStatus[k] = "failed"
                                               THEN "failed" ELSE "passed")])

CloseCommits(a) == step[a] = "close" /\ CommitLast(a, "polling")

(***************************************************************************)
(* cancel_build and cancel_job                                             *)
(***************************************************************************)
CancelBuildReads ==
    /\ "cancel_build" \in UserOps
    /\ step[User] = "none"
    /\ buildStatus \in {"pending", "running"}
    /\ Continue(User, "jobs", [Clean EXCEPT !.build = AssignBuild("canceled")])

CancelBuildJobs ==
    /\ step[User] = "jobs"
    /\ Continue(User, "cancel",
           [dirty[User] EXCEPT
               !.job = [k \in {k \in Job : jobStatus[k] \in Active} |-> "canceled"]])

CancelJobReads(j) ==
    /\ "cancel_job" \in UserOps
    /\ step[User] = "none"
    /\ jobStatus[j] \notin {"passed", "failed", "canceled"}
    /\ Continue(User, "others", [Clean EXCEPT !.job = Assign(j, jobStatus[j], "canceled")])

\* The count does not see the cancellation, which is not flushed.
CancelJobCounts ==
    /\ step[User] = "others"
    /\ Continue(User, "cancel",
           [dirty[User] EXCEPT
               !.build = IF (\E k \in Job : jobStatus[k] \in Active) \/ buildStatus = "canceled"
                         THEN Nothing ELSE AssignBuild("failed")])

CancelCommits == step[User] = "cancel" /\ CommitLast(User, "none")

-----------------------------------------------------------------------------
AgentNext(a) ==
    \/ Poll(a) \/ Execute(a)
    \/ ClaimReads(a) \/ ClaimRefused(a) \/ ClaimCommits(a)
    \/ StartReads(a) \/ OpenBuild(a) \/ StartCommits(a)
    \/ ReportReads(a) \/ ReportCommits(a) \/ Recount(a) \/ UpdateCommits(a)
    \/ Retry(a) \/ RequeueCommits(a)
    \/ CountPending(a) \/ CountFailed(a) \/ CloseCommits(a)

UserNext ==
    \/ CancelBuildReads \/ CancelBuildJobs
    \/ (\E j \in Job : CancelJobReads(j)) \/ CancelJobCounts
    \/ CancelCommits

Next == (\E a \in Agent : AgentNext(a)) \/ UserNext

Spec == Init /\ [][Next]_vars

-----------------------------------------------------------------------------
(***************************************************************************)
(* Properties                                                              *)
(***************************************************************************)
Step == {"none", "claim", "open", "start", "report", "recount", "update", "retry", "requeue",
         "count", "judge", "close", "jobs", "others", "cancel"}
UserStep == {"none", "jobs", "others", "cancel"}

Partial(rows, values) == UNION {[written -> values] : written \in SUBSET rows}

RetryCounts == UNION {0 .. MaxRetries[j] : j \in Job}

Writes == [build : Partial({TheBuild}, BuildStatus), job : Partial(Job, JobStatus),
           worker : Partial(Job, Agent), retries : Partial(Job, RetryCounts)]

TypeOK ==
    /\ buildStatus \in BuildStatus
    /\ jobStatus \in [Job -> JobStatus]
    /\ jobAgent \in [Job -> Agent \cup {NoAgent}]
    /\ retryCount \in [Job -> Nat]
    /\ step \in [Session -> Step]
    /\ dirty \in [Session -> Writes]
    /\ phase \in [Agent -> Phase]
    /\ held \in [Agent -> Job \cup {NoJob}]
    /\ \A a \in Agent : held[a] = NoJob <=> phase[a] = "polling"
    /\ exitCode \in [Agent -> ExitCode]

\* No handler runs and no agent has a job.
Quiet == \A s \in Session : step[s] = "none" /\ (s \in Agent => phase[s] = "polling")

\* The last report of every job is in the table.
AllReported == \A j \in Job : jobStatus[j] \in {"passed", "failed"}

\* A job never has more retries than its step allows, even when two agents
\* report it at the same time and both sessions decide to retry it.
RetriesWithinLimit == \A j \in Job : retryCount[j] <= MaxRetries[j]

\* When the reports of all jobs are in, the build is closed: each complete_job
\* commits its report before it counts, so the last one to count sees them all.
ReportedBuildIsClosed ==
    Quiet /\ AllReported => buildStatus \in {"passed", "failed", "canceled"}

\* No job is left ASSIGNED or RUNNING with nobody to report it, however the
\* claims, reports and cancellations of it overlap.
NoJobIsLeftRunning ==
    Quiet => \A j \in Job : jobStatus[j] \notin {"assigned", "running"}

\* What a handler may be about to write at each of its steps.
Serving(a) == IF step[a] = "claim" THEN "claiming"
              ELSE IF step[a] \in {"open", "start"} THEN "starting" ELSE "reporting"

JobValues(next) ==
    {v \in JobStatus : \/ next = "claim" /\ v = "assigned"
                       \/ next \in {"open", "start"} /\ v = "running"
                       \/ next = "report" /\ v \in {"passed", "failed"}
                       \/ next = "requeue" /\ v = "pending"
                       \/ next \in {"jobs", "others", "cancel"} /\ v = "canceled"}

BuildValues(next) ==
    {v \in BuildStatus : \/ next = "start" /\ v = "running"
                         \/ next \in {"update", "close"} /\ v \in {"passed", "failed"}
                         \/ next = "jobs" /\ v = "canceled"
                         \/ next = "cancel" /\ v \in {"canceled", "failed"}}

WritesFit(s, next, w) ==
    /\ \A j \in DOMAIN w.job : w.job[j] \in JobValues(next)
    /\ \A b \in DOMAIN w.build : w.build[b] \in BuildValues(next)
    /\ \A j \in DOMAIN w.retries : w.retries[j] <= MaxRetries[j]
    /\ s \in Agent => /\ DOMAIN w.job \subseteq {held[s]}
                      /\ next \in {"claim", "requeue"} => DOMAIN w.job = {held[s]}

SessionInv ==
    /\ step[User] \in UserStep
    /\ \A a \in Agent : step[a] \notin UserStep \ {"none"}
    /\ \A a \in Agent : step[a] # "none" => phase[a] = Serving(a)
    /\ \A s \in Session : WritesFit(s, step[s], dirty[s])

\* Agent a has job j and its report will overwrite the status of j.
WillReport(a, j) ==
    /\ held[a] = j
    /\ \/ phase[a] \in {"starting", "executing"}
       \/ phase[a] = "reporting" /\ step[a] = "none"
       \/ step[a] = "report" /\ j \in DOMAIN dirty[a].job

\* Agent a has a job and its report will close the build or offer the job again.
WillClose(a) ==
    \/ phase[a] \in {"starting", "executing"}
    \/ phase[a] = "reporting" /\ (step[a] = "close" => TheBuild \in DOMAIN dirty[a].build)

BuildIsOpen == buildStatus \in {"pending", "running"}

RunningIsReported ==
    \A j \in Job : jobStatus[j] \in {"assigned", "running"} => \E a \in Agent : WillReport(a, j)

OpenIsClosed == AllReported /\ BuildIsOpen => \E a \in Agent : WillClose(a)

\* The inductive invariant behind the three properties above: somebody is always
\* on the way to set right what is not settled.
RaceInv == SessionInv /\ RetriesWithinLimit /\ RunningIsReported /\ OpenIsClosed

\* "Agent claims a job to execute." (main.py:919), and a job that is not PENDING
\* is "Job not available" (main.py:926): one agent works on a job.
HasCustody(a, j) == phase[a] \in {"starting", "executing", "reporting"} /\ held[a] = j

OneAgentPerJob ==
    \A j \in Job : \A a, b \in Agent : HasCustody(a, j) /\ HasCustody(b, j) => a = b

\* "Update build status based on all job statuses." (scheduler.py:238): when the
\* reports of all jobs are in, the build shows FAILED if one of them failed.
SettledBuildIsJudged ==
    Quiet /\ AllReported /\ (\E j \in Job : jobStatus[j] = "failed") =>
        buildStatus # "passed"
=============================================================================
