------------------------- MODULE HandlerRace_proofs -------------------------
(***************************************************************************)
(* Theorems about HandlerRace, for every set of jobs and agents, every     *)
(* MaxRetries and every interleaving of the sessions.                      *)
(***************************************************************************)
EXTENDS HandlerRace, TLAPS

\* Writing typed columns into a typed table.
LEMMA WrittenType ==
    ASSUME NEW R, NEW V, NEW column \in [R -> V], NEW W, W \subseteq V,
           NEW writes \in Partial(R, W)
    PROVE  Written(column, writes) \in [R -> V]
  BY DEF Written, Partial

\* An assignment writes at most its own row, with a value of the column's type.
LEMMA AssignType ==
    ASSUME NEW R, NEW V, NEW r \in R, NEW loaded, NEW value \in V
    PROVE  /\ Assign(r, loaded, value) \in Partial(R, V)
           /\ Nothing \in Partial(R, V)
           /\ DOMAIN Assign(r, loaded, value) \subseteq {r}
           /\ \A x \in DOMAIN Assign(r, loaded, value) : Assign(r, loaded, value)[x] = value
           /\ loaded # value => DOMAIN Assign(r, loaded, value) = {r}
<1>1. Nothing \in [{} -> V]
  BY DEF Nothing
<1>2. [x \in {r} |-> value] \in [{r} -> V]
  OBVIOUS
<1>3. Nothing \in Partial(R, V) /\ [x \in {r} |-> value] \in Partial(R, V)
  BY <1>1, <1>2 DEF Partial
<1> QED BY <1>1, <1>3 DEF Assign

LEMMA StatusValues ==
    /\ \A v \in {"pending", "assigned", "running", "passed", "failed", "canceled"} : v \in JobStatus
    /\ \A v \in {"pending", "running", "passed", "failed", "canceled"} : v \in BuildStatus
    /\ DOMAIN Nothing = {}
  BY DEF JobStatus, BuildStatus, Nothing

\* The same for the two columns the handlers assign statuses to.
LEMMA AssignJob ==
    ASSUME NEW j \in Job, NEW loaded, NEW value \in JobStatus
    PROVE  /\ Assign(j, loaded, value) \in Partial(Job, JobStatus)
           /\ DOMAIN Assign(j, loaded, value) \subseteq {j}
           /\ \A x \in DOMAIN Assign(j, loaded, value) : Assign(j, loaded, value)[x] = value
           /\ loaded # value => DOMAIN Assign(j, loaded, value) = {j}
  BY AssignType

LEMMA AssignTheBuild ==
    ASSUME NEW value \in BuildStatus
    PROVE  /\ AssignBuild(value) \in Partial({TheBuild}, BuildStatus)
           /\ Nothing \in Partial({TheBuild}, BuildStatus)
           /\ \A x \in DOMAIN AssignBuild(value) : AssignBuild(value)[x] = value
           /\ buildStatus # value => DOMAIN AssignBuild(value) = {TheBuild}
  BY AssignType DEF AssignBuild

\* The same for the columns agent_id and retry_count.
LEMMA AssignWorker ==
    ASSUME NEW j \in Job, NEW loaded, NEW value \in Agent
    PROVE  Assign(j, loaded, value) \in Partial(Job, Agent)
  BY AssignType

LEMMA AssignRetries ==
    ASSUME NEW j \in Job, NEW loaded, NEW value \in RetryCounts
    PROVE  /\ Assign(j, loaded, value) \in Partial(Job, RetryCounts)
           /\ \A x \in DOMAIN Assign(j, loaded, value) : Assign(j, loaded, value)[x] = value
  BY AssignType

LEMMA CleanType == Clean \in Writes
<1>1. ASSUME NEW rows, NEW values PROVE Nothing \in Partial(rows, values)
  <2>1. Nothing \in [{} -> values]
    BY DEF Nothing
  <2> QED BY <2>1 DEF Partial
<1> HIDE DEF Nothing
<1> QED BY <1>1, SMTT(20) DEF Clean, Writes

(***************************************************************************)
(* Types and sessions                                                      *)
(***************************************************************************)

\* What a handler that continues needs to keep: typed writes that fit the next step.
Fits(s, next, w) ==
    /\ next \in Step /\ w \in Writes /\ WritesFit(s, next, w)
    /\ s = User => next \in UserStep
    /\ s \in Agent => /\ next \notin UserStep
                      /\ phase[s] = IF next = "claim" THEN "claiming"
                                    ELSE IF next \in {"open", "start"} THEN "starting"
                                    ELSE "reporting"

LEMMA ContinueKeepsSessions ==
    ASSUME TypeOK, SessionInv, NEW s \in Session, NEW next, NEW w,
           Continue(s, next, w), Fits(s, next, w)
    PROVE  TypeOK' /\ SessionInv'
<1>1. /\ UNCHANGED <<buildStatus, jobStatus, jobAgent, retryCount, phase, held, exitCode>>
      /\ step' = [step EXCEPT ![s] = next]
      /\ dirty' = [dirty EXCEPT ![s] = w]
  BY DEF Continue, tables, processVars
<1>2. TypeOK'
  BY <1>1 DEF TypeOK, Fits
<1>3. User \in Session /\ User \notin Agent /\ Agent \subseteq Session
  BY UserAssumption DEF Session
<1>4. step'[User] \in UserStep
  BY <1>1, <1>3 DEF TypeOK, SessionInv, Fits
<1>5. ASSUME NEW a \in Agent
      PROVE  step'[a] \notin UserStep \ {"none"} /\ (step'[a] # "none" => phase'[a] = Serving(a)')
  BY <1>1, <1>3, <1>5 DEF TypeOK, SessionInv, Fits, Serving, UserStep
<1>6. ASSUME NEW t \in Session PROVE WritesFit(t, step[t], dirty[t])'
  <2>1. CASE t = s
    BY <1>1, <2>1 DEF TypeOK, Fits, WritesFit
  <2>2. CASE t # s
    BY <1>1, <2>2 DEF TypeOK, SessionInv, WritesFit
  <2> QED BY <2>1, <2>2
<1> QED BY <1>2, <1>4, <1>5, <1>6 DEF SessionInv

\* A commit writes typed columns, and nothing is dirty after it.
LEMMA FlushType ==
    ASSUME TypeOK, NEW s \in Session, Flush(s)
    PROVE  /\ buildStatus' \in BuildStatus
           /\ jobStatus' \in [Job -> JobStatus]
           /\ jobAgent' \in [Job -> Agent \cup {NoAgent}]
           /\ retryCount' \in [Job -> Nat]
           /\ dirty' \in [Session -> Writes]
           /\ dirty' = [dirty EXCEPT ![s] = Clean]
<1>1. dirty[s] \in Writes
  BY DEF TypeOK
<1>2. buildStatus' \in BuildStatus
  BY <1>1 DEF Flush, TypeOK, Writes, Partial
<1>3. jobStatus' \in [Job -> JobStatus]
  BY <1>1, WrittenType DEF Flush, TypeOK, Writes
<1>4. jobAgent' \in [Job -> Agent \cup {NoAgent}]
  BY <1>1, WrittenType DEF Flush, TypeOK, Writes
<1>5. RetryCounts \subseteq Nat
  BY MaxRetriesAssumption DEF RetryCounts
<1>6. retryCount' \in [Job -> Nat]
  BY <1>1, <1>5, WrittenType DEF Flush, TypeOK, Writes
<1> QED BY <1>2, <1>3, <1>4, <1>6, CleanType DEF Flush, TypeOK

LEMMA CleanFits ==
    ASSUME NEW s \in Session, NEW next, next \notin {"claim", "requeue"}
    PROVE  WritesFit(s, next, Clean)
  BY DEF WritesFit, Clean, Nothing

LEMMA CommitAndKeepsSessions ==
    ASSUME TypeOK, SessionInv, NEW a \in Agent, NEW next \in {"recount", "retry"},
           CommitAnd(a, next), step[a] \in {"report", "update"}
    PROVE  TypeOK' /\ SessionInv'
<1>1. a \in Session /\ User \in Session /\ User # a
  BY UserAssumption DEF Session
<1>2. Flush(a) /\ step' = [step EXCEPT ![a] = next] /\ UNCHANGED <<phase, held, exitCode>>
  BY DEF CommitAnd, processVars
<1>3. TypeOK'
  BY <1>1, <1>2, FlushType DEF TypeOK, Step
<1>4. dirty' = [dirty EXCEPT ![a] = Clean]
  BY <1>2 DEF Flush
<1>5. step'[User] \in UserStep
  BY <1>1, <1>2 DEF TypeOK, SessionInv
<1>6. ASSUME NEW b \in Agent
      PROVE  step'[b] \notin UserStep \ {"none"} /\ (step'[b] # "none" => phase'[b] = Serving(b)')
  BY <1>1, <1>2 DEF TypeOK, SessionInv, Serving, UserStep, Session
<1>7. ASSUME NEW t \in Session PROVE WritesFit(t, step[t], dirty[t])'
  <2>1. CASE t = a
    BY <1>1, <1>2, <1>4, <2>1, CleanFits DEF TypeOK, WritesFit
  <2>2. CASE t # a
    BY <1>2, <1>4, <2>2 DEF TypeOK, SessionInv, WritesFit
  <2> QED BY <2>1, <2>2
<1> QED BY <1>3, <1>5, <1>6, <1>7 DEF SessionInv

\* The end of a request: the session is idle again and the agent goes on.
LEMMA EndKeepsSessions ==
    ASSUME TypeOK, SessionInv, NEW a \in Agent, NEW newPhase \in {"polling", "starting", "executing"},
           Answered(a, newPhase), phase[a] # "polling",
           step' = [step EXCEPT ![a] = "none"],
           \/ Flush(a)
           \/ dirty' = dirty /\ UNCHANGED tables /\ step[a] \in {"none", "count"}
    PROVE  TypeOK' /\ SessionInv'
<1>1. a \in Session /\ User \in Session /\ User # a /\ Agent \subseteq Session
  BY UserAssumption DEF Session
<1>2. /\ buildStatus' \in BuildStatus
      /\ jobStatus' \in [Job -> JobStatus]
      /\ jobAgent' \in [Job -> Agent \cup {NoAgent}]
      /\ retryCount' \in [Job -> Nat]
      /\ dirty' \in [Session -> Writes]
      /\ \A t \in Session \ {a} : dirty'[t] = dirty[t]
  BY <1>1, FlushType DEF TypeOK, tables
<1>3. /\ \A b \in Agent : phase'[b] = IF b = a THEN newPhase ELSE phase[b]
      /\ \A b \in Agent : b # a => held'[b] = held[b]
      /\ held'[a] = IF newPhase = "polling" THEN NoJob ELSE held[a]
      /\ phase' \in [Agent -> Phase] /\ held' \in [Agent -> Job \cup {NoJob}]
      /\ exitCode' \in [Agent -> ExitCode]
  BY DEF Answered, TypeOK, Phase, ExitCode
<1>4. TypeOK'
  BY <1>2, <1>3, NullAssumption DEF TypeOK, Step
<1>5. step'[User] \in UserStep
  BY <1>1 DEF TypeOK, SessionInv
<1>6. ASSUME NEW b \in Agent
      PROVE  step'[b] \notin UserStep \ {"none"} /\ (step'[b] # "none" => phase'[b] = Serving(b)')
  BY <1>1, <1>3 DEF TypeOK, SessionInv, Serving, UserStep
<1>7. ASSUME NEW t \in Session PROVE WritesFit(t, step[t], dirty[t])'
  <2>1. CASE Flush(a) /\ t = a
    BY <1>1, <2>1 DEF Flush, TypeOK, WritesFit, Clean, Nothing
  <2>3. CASE dirty' = dirty /\ step[a] \in {"none", "count"} /\ t = a
    <3>1. WritesFit(a, step[a], dirty[a]) /\ step'[a] = "none"
      BY <1>1 DEF SessionInv, TypeOK
    <3>2. JobValues(step[a]) = {} /\ BuildValues(step[a]) = {}
      BY <2>3 DEF JobValues, BuildValues
    <3> QED BY <2>3, <3>1, <3>2 DEF WritesFit
  <2>2. CASE t # a
    BY <1>1, <1>2, <1>3, <2>2 DEF TypeOK, SessionInv, WritesFit
  <2> QED BY <2>1, <2>2, <2>3
<1> QED BY <1>4, <1>5, <1>6, <1>7 DEF SessionInv

\* The same for the user's requests, whose process has no loop.
LEMMA UserEndKeepsSessions ==
    ASSUME TypeOK, SessionInv, CommitLast(User, "none")
    PROVE  TypeOK' /\ SessionInv'
<1>1. User \in Session /\ User \notin Agent /\ Agent \subseteq Session
  BY UserAssumption DEF Session
<1>2. Flush(User) /\ step' = [step EXCEPT ![User] = "none"]
  BY DEF CommitLast
<1>3. UNCHANGED <<phase, held, exitCode>>
  BY <1>1 DEF CommitLast, Answered, TypeOK
<1>4. dirty' = [dirty EXCEPT ![User] = Clean]
  BY <1>2 DEF Flush
<1>5. TypeOK'
  BY <1>1, <1>2, <1>3, FlushType DEF TypeOK, Step
<1>6. step'[User] \in UserStep
  BY <1>1, <1>2 DEF TypeOK, UserStep
<1>7. ASSUME NEW a \in Agent
      PROVE  step'[a] \notin UserStep \ {"none"} /\ (step'[a] # "none" => phase'[a] = Serving(a)')
  BY <1>1, <1>2, <1>3 DEF TypeOK, SessionInv, Serving
<1>8. ASSUME NEW t \in Session PROVE WritesFit(t, step[t], dirty[t])'
  <2>1. CASE t = User
    BY <1>1, <1>2, <1>3, <1>4, <2>1 DEF TypeOK, WritesFit, Clean, Nothing
  <2>2. CASE t # User
    BY <1>2, <1>3, <1>4, <2>2 DEF TypeOK, SessionInv, WritesFit
  <2> QED BY <2>1, <2>2
<1> QED BY <1>5, <1>6, <1>7, <1>8 DEF SessionInv

(***************************************************************************)
(* What each handler is about to write                                     *)
(***************************************************************************)
\* What a read step promises: a report that must be written will be, and so will
\* the verdict on an open build.
Promises(a, next, w) ==
    /\ step[a] # "report"
    /\ phase[a] = "reporting" /\ step[a] = "none" => next = "report"
    /\ next = "report" /\ jobStatus[held[a]] \in {"assigned", "running"} =>
           held[a] \in DOMAIN w.job
    /\ next = "close" /\ BuildIsOpen => TheBuild \in DOMAIN w.build

ReadStep(a) ==
    \/ ClaimReads(a) \/ StartReads(a) \/ OpenBuild(a) \/ ReportReads(a)
    \/ Recount(a) \/ Retry(a) \/ CountFailed(a)
    \/ CountPending(a) /\ \A k \in Job : jobStatus[k] # "pending"

LEMMA AgentReads ==
    ASSUME TypeOK, SessionInv, NEW a \in Agent, ReadStep(a)
    PROVE  \E next \in Step, w \in Writes :
               Continue(a, next, w) /\ Fits(a, next, w) /\ Promises(a, next, w)
<1>1. a \in Session /\ a # User /\ dirty[a] \in Writes
  BY UserAssumption DEF Session, TypeOK
<1>2. phase[a] # "polling" => held[a] \in Job
  BY DEF TypeOK
<1>3. Clean \in Writes
  BY CleanType
<1>4. CASE ClaimReads(a)
  <2>0. PICK j \in Job : j = held[a]
    BY <1>2, <1>4 DEF ClaimReads, Calls
  <2> DEFINE w == [Clean EXCEPT !.job = Assign(j, "pending", "assigned"),
                                !.worker = Assign(j, jobAgent[j], a)]
  <2>1. Continue(a, "claim", w) /\ phase[a] = "claiming" /\ step[a] = "none"
    BY <2>0, <1>4 DEF ClaimReads, Calls
  <2>2. /\ Assign(j, "pending", "assigned") \in Partial(Job, JobStatus)
        /\ Assign(j, jobAgent[j], a) \in Partial(Job, Agent)
        /\ DOMAIN Assign(j, "pending", "assigned") = {j}
        /\ \A x \in {j} : Assign(j, "pending", "assigned")[x] = "assigned"
    <3>1. Assign(j, jobAgent[j], a) \in Partial(Job, Agent)
      BY AssignWorker
    <3>2. "assigned" \in JobStatus
      BY StatusValues
    <3> QED BY <3>1, <3>2, AssignJob
  <2>3. w \in Writes
    BY <1>3, <2>2 DEF Writes, Clean
  <2>4. WritesFit(a, "claim", w)
    BY <2>0, <2>2 DEF WritesFit, JobValues, JobStatus, Clean, Nothing
  <2>5. Fits(a, "claim", w) /\ Promises(a, "claim", w)
    BY <1>1, <2>1, <2>3, <2>4 DEF Fits, Promises, Step, UserStep
  <2> QED BY <2>1, <2>3, <2>5 DEF Step
<1>5. CASE StartReads(a)
  <2>0. PICK j \in Job : j = held[a]
    BY <1>2, <1>5 DEF StartReads, Calls
  <2> DEFINE write == Assign(j, jobStatus[j], "running")
             w == [Clean EXCEPT !.job = write]
  <2>1. Continue(a, "open", w) /\ phase[a] = "starting" /\ step[a] = "none"
    BY <2>0, <1>5 DEF StartReads, Calls
  <2>2. /\ write \in Partial(Job, JobStatus)
        /\ DOMAIN write \subseteq {j}
        /\ \A x \in DOMAIN write : write[x] = "running"
    <3>1. "running" \in JobStatus
      BY StatusValues
    <3> QED BY <3>1, AssignJob
  <2>3. w \in Writes
    BY <1>3, <2>2 DEF Writes, Clean
  <2>4. WritesFit(a, "open", w)
    BY <2>0, <2>2 DEF WritesFit, JobValues, JobStatus, Clean, Nothing
  <2>5. Fits(a, "open", w) /\ Promises(a, "open", w)
    BY <1>1, <2>1, <2>3, <2>4 DEF Fits, Promises, Step, UserStep
  <2> QED BY <2>1, <2>3, <2>5 DEF Step
<1>6. CASE OpenBuild(a)
  <2> DEFINE write == IF buildStatus = "pending" THEN AssignBuild("running") ELSE Nothing
             w == [dirty[a] EXCEPT !.build = write]
  <2>1. Continue(a, "start", w) /\ phase[a] = "starting" /\ step[a] = "open"
    BY <1>6 DEF OpenBuild, SessionInv, Serving
  <2>2. /\ write \in Partial({TheBuild}, BuildStatus)
        /\ \A x \in DOMAIN write : write[x] = "running"
    BY AssignTheBuild, StatusValues
  <2>3. w \in Writes
    BY <1>1, <2>2 DEF Writes
  <2>4. WritesFit(a, "open", dirty[a])
    BY <1>1, <2>1 DEF SessionInv
  <2>5. WritesFit(a, "start", w)
    BY <1>1, <2>2, <2>4 DEF WritesFit, JobValues, BuildValues, BuildStatus, Writes
  <2>6. Fits(a, "start", w) /\ Promises(a, "start", w)
    BY <1>1, <2>1, <2>3, <2>5 DEF Fits, Promises, Step, UserStep
  <2> QED BY <2>1, <2>3, <2>6 DEF Step
<1>7. CASE ReportReads(a)
  <2>0. PICK j \in Job : j = held[a]
    BY <1>2, <1>7 DEF ReportReads, Calls
  <2>2. PICK value \in {"passed", "failed"} : value = ReportedStatus(exitCode[a])
    BY DEF ReportedStatus
  <2> DEFINE write == Assign(j, jobStatus[j], value)
             w == [Clean EXCEPT !.job = write]
  <2>1. Continue(a, "report", w) /\ phase[a] = "reporting" /\ step[a] = "none"
    BY <2>0, <2>2, <1>7 DEF ReportReads, Calls
  <2>3. /\ write \in Partial(Job, JobStatus)
        /\ DOMAIN write \subseteq {j}
        /\ \A x \in DOMAIN write : write[x] = value
        /\ jobStatus[j] # value => DOMAIN write = {j}
    <3>1. value \in JobStatus
      BY <2>2, StatusValues
    <3> QED BY <3>1, AssignJob
  <2>4. w \in Writes
    BY <1>3, <2>3 DEF Writes, Clean
  <2>5. WritesFit(a, "report", w)
    BY <2>0, <2>2, <2>3 DEF WritesFit, JobValues, JobStatus, Clean, Nothing
  <2>6. Fits(a, "report", w)
    BY <1>1, <2>1, <2>4, <2>5 DEF Fits, Step, UserStep
  <2>7. jobStatus[j] \in {"assigned", "running"} => DOMAIN write = {j}
    BY <2>2, <2>3
  <2>8. Promises(a, "report", w)
    BY <2>0, <2>1, <2>7 DEF Promises, Clean
  <2> QED BY <2>1, <2>4, <2>6, <2>8 DEF Step
<1>8. CASE Recount(a)
  <2>1. PICK write \in {Nothing, AssignBuild("failed"), AssignBuild("passed")} :
            Continue(a, "update", [Clean EXCEPT !.build = write])
    BY <1>8 DEF Recount
  <2> DEFINE w == [Clean EXCEPT !.build = write]
  <2>2. phase[a] = "reporting" /\ step[a] = "recount"
    BY <1>8 DEF Recount, SessionInv, Serving
  <2>3. /\ write \in Partial({TheBuild}, BuildStatus)
        /\ \A x \in DOMAIN write : write[x] \in {"passed", "failed"}
    BY AssignTheBuild, StatusValues
  <2>4. w \in Writes
    BY <1>3, <2>3 DEF Writes, Clean
  <2>5. WritesFit(a, "update", w)
    BY <2>3 DEF WritesFit, BuildValues, BuildStatus, Clean, Nothing
  <2>6. Fits(a, "update", w) /\ Promises(a, "update", w)
    BY <1>1, <2>2, <2>4, <2>5 DEF Fits, Promises, Step, UserStep
  <2> QED BY <2>1, <2>4, <2>6 DEF Step
<1>9. CASE Retry(a)
  <2>1. phase[a] = "reporting" /\ step[a] = "retry"
    BY <1>9 DEF Retry, SessionInv, Serving
  <2>0. PICK j \in Job : j = held[a]
    BY <1>2, <2>1
  <2>2. CASE ShouldRetry(j)
    <3> DEFINE again == Assign(j, "failed", "pending")
               count == Assign(j, retryCount[j], retryCount[j] + 1)
               w == [Clean EXCEPT !.job = again, !.retries = count]
    <3>1. Continue(a, "requeue", w)
      BY <1>9, <2>0, <2>2 DEF Retry
    <3>2. retryCount[j] + 1 \in 0 .. MaxRetries[j]
      BY <2>1, <2>2, MaxRetriesAssumption DEF ShouldRetry, TypeOK
    <3>3. retryCount[j] + 1 \in RetryCounts
      BY <2>1, <3>2 DEF RetryCounts
    <3>4. /\ again \in Partial(Job, JobStatus) /\ DOMAIN again = {j}
          /\ \A x \in DOMAIN again : again[x] = "pending"
      <4>1. "pending" \in JobStatus
        BY StatusValues
      <4> QED BY <4>1, AssignJob
    <3>5. /\ count \in Partial(Job, RetryCounts)
          /\ \A x \in DOMAIN count : x = j /\ count[x] = retryCount[j] + 1
      <4>1. PICK n \in RetryCounts : n = retryCount[j] + 1
        BY <3>3
      <4>2. /\ Assign(j, retryCount[j], n) \in Partial(Job, RetryCounts)
            /\ \A x \in DOMAIN Assign(j, retryCount[j], n) : Assign(j, retryCount[j], n)[x] = n
        BY AssignRetries
      <4>3. DOMAIN count \subseteq {j}
        BY DEF Assign, Nothing
      <4> QED BY <4>1, <4>2, <4>3
    <3>6. w \in Writes
      BY <1>3, <3>4, <3>5 DEF Writes, Clean
    <3>7. WritesFit(a, "requeue", w)
      BY <2>0, <3>2, <3>4, <3>5 DEF WritesFit, JobValues, JobStatus, Clean, Nothing
    <3>8. Fits(a, "requeue", w) /\ Promises(a, "requeue", w)
      BY <1>1, <2>1, <3>6, <3>7 DEF Fits, Promises, Step, UserStep
    <3> QED BY <3>1, <3>6, <3>8 DEF Step
  <2>3. CASE ~ ShouldRetry(j)
    <3>1. Continue(a, "count", Clean)
      BY <1>9, <2>0, <2>3 DEF Retry
    <3>2. Fits(a, "count", Clean) /\ Promises(a, "count", Clean)
      BY <1>1, <1>3, <2>1, CleanFits DEF Fits, Promises, Step, UserStep
    <3> QED BY <1>3, <3>1, <3>2 DEF Step
  <2> QED BY <2>2, <2>3
<1>10. CASE CountPending(a) /\ \A k \in Job : jobStatus[k] # "pending"
  <2>1. Continue(a, "judge", Clean) /\ phase[a] = "reporting" /\ step[a] = "count"
    BY <1>10 DEF CountPending, SessionInv, Serving
  <2>2. Fits(a, "judge", Clean) /\ Promises(a, "judge", Clean)
    BY <1>1, <1>3, <2>1, CleanFits DEF Fits, Promises, Step, UserStep
  <2> QED BY <1>3, <2>1, <2>2 DEF Step
<1>11. CASE CountFailed(a)
  <2>1. PICK value \in {"passed", "failed"} :
            Continue(a, "close", [Clean EXCEPT !.build = AssignBuild(value)])
    BY <1>11 DEF CountFailed
  <2> DEFINE w == [Clean EXCEPT !.build = AssignBuild(value)]
  <2>2. phase[a] = "reporting" /\ step[a] = "judge"
    BY <1>11 DEF CountFailed, SessionInv, Serving
  <2>3. value \in BuildStatus
    BY DEF BuildStatus
  <2>4. /\ AssignBuild(value) \in Partial({TheBuild}, BuildStatus)
        /\ \A x \in DOMAIN AssignBuild(value) : AssignBuild(value)[x] = value
        /\ buildStatus # value => DOMAIN AssignBuild(value) = {TheBuild}
    BY <2>3, AssignTheBuild
  <2>5. w \in Writes
    BY <1>3, <2>4 DEF Writes, Clean
  <2>6. WritesFit(a, "close", w)
    BY <2>4 DEF WritesFit, BuildValues, BuildStatus, Clean, Nothing
  <2>7. BuildIsOpen => DOMAIN AssignBuild(value) = {TheBuild}
    BY <2>4 DEF BuildIsOpen
  <2>8. Fits(a, "close", w) /\ Promises(a, "close", w)
    BY <1>1, <2>2, <2>5, <2>6, <2>7 DEF Fits, Promises, Step, UserStep, Clean
  <2> QED BY <2>1, <2>5, <2>8 DEF Step
<1> QED BY <1>4, <1>5, <1>6, <1>7, <1>8, <1>9, <1>10, <1>11 DEF ReadStep

\* The reads of the user's requests.
UserReadStep ==
    \/ CancelBuildReads \/ CancelBuildJobs
    \/ (\E j \in Job : CancelJobReads(j)) \/ CancelJobCounts

LEMMA UserReads ==
    ASSUME TypeOK, SessionInv, UserReadStep
    PROVE  \E next \in Step, w \in Writes : Continue(User, next, w) /\ Fits(User, next, w)
<1>1. User \in Session /\ User \notin Agent /\ dirty[User] \in Writes
  BY UserAssumption DEF Session, TypeOK
<1>2. Clean \in Writes
  BY CleanType
<1>3. CASE CancelBuildReads
  <2> DEFINE w == [Clean EXCEPT !.build = AssignBuild("canceled")]
  <2>1. Continue(User, "jobs", w)
    BY <1>3 DEF CancelBuildReads
  <2>2. /\ AssignBuild("canceled") \in Partial({TheBuild}, BuildStatus)
        /\ \A x \in DOMAIN AssignBuild("canceled") : AssignBuild("canceled")[x] = "canceled"
    BY AssignTheBuild, StatusValues
  <2>3. w \in Writes
    BY <1>2, <2>2 DEF Writes, Clean
  <2>4. WritesFit(User, "jobs", w)
    BY <1>1, <2>2 DEF WritesFit, BuildValues, BuildStatus, Clean, Nothing
  <2> QED BY <1>1, <2>1, <2>3, <2>4 DEF Fits, Step, UserStep
<1>4. CASE CancelBuildJobs
  <2> DEFINE canceled == {k \in Job : jobStatus[k] \in Active}
             writes == [k \in canceled |-> "canceled"]
             w == [dirty[User] EXCEPT !.job = writes]
  <2>1. Continue(User, "cancel", w) /\ step[User] = "jobs"
    BY <1>4 DEF CancelBuildJobs
  <2>2. "canceled" \in JobStatus /\ canceled \in SUBSET Job
    BY StatusValues
  <2>3. writes \in [canceled -> JobStatus]
    BY <2>2
  <2>4. writes \in Partial(Job, JobStatus)
    BY <2>2, <2>3 DEF Partial
  <2>5. w \in Writes
    BY <1>1, <2>4 DEF Writes
  <2>6. WritesFit(User, "jobs", dirty[User])
    BY <1>1, <2>1 DEF SessionInv
  <2>7. WritesFit(User, "cancel", w)
    BY <1>1, <2>6 DEF WritesFit, JobValues, BuildValues, JobStatus, BuildStatus, Writes
  <2> QED BY <1>1, <2>1, <2>5, <2>7 DEF Fits, Step, UserStep
<1>5. CASE \E j \in Job : CancelJobReads(j)
  <2>1. PICK j \in Job : CancelJobReads(j)
    BY <1>5
  <2> DEFINE write == Assign(j, jobStatus[j], "canceled")
             w == [Clean EXCEPT !.job = write]
  <2>2. Continue(User, "others", w)
    BY <2>1 DEF CancelJobReads
  <2>3. write \in Partial(Job, JobStatus) /\ \A x \in DOMAIN write : write[x] = "canceled"
    <3>1. "canceled" \in JobStatus
      BY StatusValues
    <3> QED BY <3>1, AssignJob
  <2>4. w \in Writes
    BY <1>2, <2>3 DEF Writes, Clean
  <2>5. WritesFit(User, "others", w)
    BY <1>1, <2>3 DEF WritesFit, JobValues, JobStatus, Clean, Nothing
  <2> QED BY <1>1, <2>2, <2>4, <2>5 DEF Fits, Step, UserStep
<1>6. CASE CancelJobCounts
  <2>1. PICK write \in {Nothing, AssignBuild("failed")} :
            Continue(User, "cancel", [dirty[User] EXCEPT !.build = write])
    BY <1>6 DEF CancelJobCounts
  <2> DEFINE w == [dirty[User] EXCEPT !.build = write]
  <2>2. /\ write \in Partial({TheBuild}, BuildStatus)
        /\ \A x \in DOMAIN write : write[x] = "failed"
    BY AssignTheBuild, StatusValues
  <2>3. w \in Writes
    BY <1>1, <2>2 DEF Writes
  <2>4. WritesFit(User, "others", dirty[User])
    BY <1>1, <1>6 DEF SessionInv, CancelJobCounts
  <2>5. WritesFit(User, "cancel", w)
    BY <1>1, <2>2, <2>4 DEF WritesFit, JobValues, BuildValues, JobStatus, BuildStatus, Writes
  <2> QED BY <1>1, <2>1, <2>3, <2>5 DEF Fits, Step, UserStep
<1> QED BY <1>3, <1>4, <1>5, <1>6 DEF UserReadStep

(***************************************************************************)
(* Types, sessions and promises are kept: one lemma for each kind of step. *)
(***************************************************************************)
Kept == TypeOK /\ RaceInv

\* What an agent will still do depends on its own process and session only.
Idle(b) == UNCHANGED <<phase[b], held[b], step[b], dirty[b]>>

LEMMA OthersKeepTheirPromises ==
    ASSUME NEW b \in Agent, Idle(b)
    PROVE  /\ \A j \in Job : WillReport(b, j) => WillReport(b, j)'
           /\ WillClose(b) => WillClose(b)'
  BY DEF Idle, WillReport, WillClose

\* The steps that change no table keep the promises if each agent does.
LEMMA TablesRest ==
    ASSUME Kept, UNCHANGED tables, TypeOK', SessionInv',
           \A b \in Agent, j \in Job :
               WillReport(b, j) /\ jobStatus[j] \in {"assigned", "running"} => WillReport(b, j)',
           \A b \in Agent : WillClose(b) /\ AllReported /\ BuildIsOpen => WillClose(b)'
    PROVE  Kept'
<1>1. RetriesWithinLimit'
  BY DEF Kept, RaceInv, RetriesWithinLimit, tables
<1>2. RunningIsReported'
  BY DEF Kept, RaceInv, RunningIsReported, tables
<1>3. (AllReported' <=> AllReported) /\ (BuildIsOpen' <=> BuildIsOpen)
  BY DEF tables, AllReported, BuildIsOpen
<1>4. OpenIsClosed'
  BY <1>3 DEF Kept, RaceInv, OpenIsClosed
<1> QED BY <1>1, <1>2, <1>4 DEF Kept, RaceInv

LEMMA ReadsKeep ==
    ASSUME Kept, NEW s \in Session, NEW next \in Step, NEW w \in Writes,
           Continue(s, next, w), Fits(s, next, w), s \in Agent => Promises(s, next, w)
    PROVE  Kept'
<1>1. TypeOK' /\ SessionInv'
  BY ContinueKeepsSessions DEF Kept, RaceInv
<1>2. /\ UNCHANGED <<tables, phase, held>>
      /\ step' = [step EXCEPT ![s] = next] /\ dirty' = [dirty EXCEPT ![s] = w]
  BY DEF Continue, processVars
<1>3. \A b \in Agent : b \in Session
  BY DEF Session
<1>4. \A b \in Agent : b # s => Idle(b)
  BY <1>2, <1>3 DEF Idle, Kept, TypeOK
<1>5. s \in Session /\ step'[s] = next /\ dirty'[s] = w
  BY <1>2 DEF Kept, TypeOK
<1>6. ASSUME NEW b \in Agent, NEW j \in Job, WillReport(b, j),
             jobStatus[j] \in {"assigned", "running"}
      PROVE  WillReport(b, j)'
  <2>1. CASE b # s
    BY <1>4, <1>6, <2>1, OthersKeepTheirPromises
  <2>2. CASE b = s
    BY <1>2, <1>5, <1>6, <2>2 DEF WillReport, Promises
  <2> QED BY <2>1, <2>2
<1>7. ASSUME NEW b \in Agent, WillClose(b), AllReported, BuildIsOpen
      PROVE  WillClose(b)'
  <2>1. CASE b # s
    BY <1>4, <1>7, <2>1, OthersKeepTheirPromises
  <2>2. CASE b = s
    BY <1>2, <1>5, <1>7, <2>2 DEF WillClose, Promises
  <2> QED BY <2>1, <2>2
<1> QED BY <1>1, <1>2, <1>6, <1>7, TablesRest

LEMMA PollKeeps ==
    ASSUME Kept, NEW a \in Agent, Poll(a)
    PROVE  Kept'
<1>1. PICK j \in Job : held' = [held EXCEPT ![a] = j]
  BY DEF Poll
<1>2. /\ phase[a] = "polling" /\ phase' = [phase EXCEPT ![a] = "claiming"]
      /\ UNCHANGED <<tables, sessions, exitCode>>
  BY DEF Poll
<1>3. TypeOK'
  BY <1>1, <1>2, NullAssumption DEF Kept, TypeOK, tables, sessions, Phase
<1>4. step[a] = "none"
  BY <1>2 DEF Kept, RaceInv, SessionInv, Serving
<1>5. SessionInv'
  <2>1. step'[User] \in UserStep /\ \A b \in Agent : step'[b] \notin UserStep \ {"none"}
    BY <1>2 DEF Kept, RaceInv, SessionInv, sessions
  <2>2. \A b \in Agent : step'[b] # "none" => phase'[b] = Serving(b)'
    BY <1>2, <1>4 DEF Kept, RaceInv, SessionInv, sessions, Serving, TypeOK
  <2>3. ASSUME NEW t \in Session PROVE WritesFit(t, step[t], dirty[t])'
    <3>1. WritesFit(t, step[t], dirty[t]) /\ UNCHANGED <<step, dirty>>
      BY <1>2 DEF Kept, RaceInv, SessionInv, sessions
    <3>2. CASE t = a
      <4>1. JobValues(step[a]) = {}
        BY <1>4 DEF JobValues
      <4> QED BY <1>4, <3>1, <3>2, <4>1 DEF WritesFit
    <3>3. CASE t # a
      BY <1>1, <3>1, <3>3 DEF WritesFit, Kept, TypeOK
    <3> QED BY <3>2, <3>3
  <2> QED BY <2>1, <2>2, <2>3 DEF SessionInv
<1>6. \A b \in Agent : b # a => Idle(b)
  BY <1>1, <1>2 DEF Idle, Kept, TypeOK, sessions
<1>7. ~ WillClose(a) /\ \A k \in Job : ~ WillReport(a, k)
  BY <1>2, <1>4 DEF WillClose, WillReport
<1> QED BY <1>2, <1>3, <1>5, <1>6, <1>7, OthersKeepTheirPromises, TablesRest

LEMMA ExecuteKeeps ==
    ASSUME Kept, NEW a \in Agent, Execute(a)
    PROVE  Kept'
<1>1. /\ phase[a] = "executing" /\ phase' = [phase EXCEPT ![a] = "reporting"]
      /\ \E e \in ExitCode : exitCode' = [exitCode EXCEPT ![a] = e]
      /\ UNCHANGED <<tables, step, dirty, held>>
  BY DEF Execute, sessions
<1>2. TypeOK'
  BY <1>1 DEF Kept, TypeOK, tables, Phase
<1>3. step[a] = "none"
  BY <1>1 DEF Kept, RaceInv, SessionInv, Serving
<1>4. SessionInv'
  <2>1. \A b \in Agent : step'[b] # "none" => phase'[b] = Serving(b)'
    BY <1>1, <1>3 DEF Kept, RaceInv, SessionInv, Serving, TypeOK
  <2>2. \A t \in Session : WritesFit(t, step[t], dirty[t])'
    BY <1>1 DEF Kept, RaceInv, SessionInv, WritesFit
  <2> QED BY <1>1, <2>1, <2>2 DEF Kept, RaceInv, SessionInv
<1>5. \A b \in Agent : b # a => Idle(b)
  BY <1>1 DEF Idle, Kept, TypeOK
<1>6. phase'[a] = "reporting" /\ step'[a] = "none" /\ held'[a] = held[a]
  BY <1>1, <1>3 DEF Kept, TypeOK
<1>7. WillClose(a)' /\ \A k \in Job : WillReport(a, k) => WillReport(a, k)'
  BY <1>6 DEF WillClose, WillReport
<1> QED BY <1>1, <1>2, <1>4, <1>5, <1>7, OthersKeepTheirPromises, TablesRest

\* The two ends of a request that write nothing.
LEMMA UnwrittenEndKeeps ==
    ASSUME Kept, NEW a \in Agent, Answered(a, "polling"), UNCHANGED <<tables, dirty>>,
           step' = [step EXCEPT ![a] = "none"],
           \/ phase[a] = "claiming" /\ step[a] = "none"
           \/ step[a] = "count" /\ \E k \in Job : jobStatus[k] = "pending"
    PROVE  Kept'
<1>1. phase[a] # "polling" /\ step[a] \in {"none", "count"}
  BY DEF Kept, RaceInv, SessionInv, Serving
<1>2. TypeOK' /\ SessionInv'
  BY <1>1, EndKeepsSessions DEF Kept, RaceInv
<1>3. \A b \in Agent : b # a => Idle(b)
  <2>1. Agent \subseteq Session
    BY DEF Session
  <2> QED BY <2>1 DEF Idle, Answered, Kept, TypeOK
<1>4. \A k \in Job : ~ WillReport(a, k)
  BY DEF WillReport, Kept, RaceInv, SessionInv, Serving
<1>5. WillClose(a) => ~ AllReported
  BY DEF WillClose, AllReported, Kept, RaceInv, SessionInv, Serving
<1> QED BY <1>2, <1>3, <1>4, <1>5, OthersKeepTheirPromises, TablesRest

\* What a commit does to the tables, from what its session may be about to write.
LEMMA FlushEffect ==
    ASSUME Kept, NEW s \in Session, Flush(s)
    PROVE  /\ \A j \in Job : j \in DOMAIN dirty[s].job => jobStatus'[j] \in JobValues(step[s])
           /\ \A j \in Job : j \notin DOMAIN dirty[s].job => jobStatus'[j] = jobStatus[j]
           /\ TheBuild \in DOMAIN dirty[s].build => buildStatus' \in BuildValues(step[s])
           /\ TheBuild \notin DOMAIN dirty[s].build => buildStatus' = buildStatus
           /\ RetriesWithinLimit'
<1>1. WritesFit(s, step[s], dirty[s])
  BY DEF Kept, RaceInv, SessionInv
<1>2. RetriesWithinLimit'
  BY <1>1 DEF Kept, RaceInv, RetriesWithinLimit, Flush, Written, WritesFit, TypeOK
<1> QED BY <1>1, <1>2 DEF Flush, Written, WritesFit, Kept, TypeOK

LEMMA OthersRest ==
    ASSUME Kept, NEW s \in Session, Flush(s),
           step' = [step EXCEPT ![s] = "none"],
           \E p : Answered(s, p)
    PROVE  \A b \in Agent : b # s => Idle(b)
<1>1. Agent \subseteq Session
  BY DEF Session
<1> QED BY <1>1 DEF Idle, Answered, Flush, Kept, TypeOK

LEMMA ClaimCommitsKeeps ==
    ASSUME Kept, NEW a \in Agent, ClaimCommits(a)
    PROVE  Kept'
<1>1. /\ a \in Session /\ step[a] = "claim" /\ Flush(a) /\ Answered(a, "starting")
      /\ step' = [step EXCEPT ![a] = "none"]
  BY DEF ClaimCommits, CommitLast, Session
<1>2. phase[a] = "claiming" /\ held[a] \in Job
  BY <1>1 DEF Kept, RaceInv, SessionInv, Serving, TypeOK
<1>3. TypeOK' /\ SessionInv'
  BY <1>1, <1>2, EndKeepsSessions DEF Kept, RaceInv
<1>4. \A b \in Agent : b # a => Idle(b)
  BY <1>1, OthersRest
<1>5. phase'[a] = "starting" /\ held'[a] = held[a]
  BY <1>1 DEF Answered
<1>6. DOMAIN dirty[a].job = {held[a]}
  BY <1>1 DEF Kept, RaceInv, SessionInv, WritesFit
<1>7. jobStatus'[held[a]] = "assigned" /\ \A j \in Job : j # held[a] => jobStatus'[j] = jobStatus[j]
  BY <1>1, <1>2, <1>6, FlushEffect DEF JobValues
<1>8. RunningIsReported'
  <2> SUFFICES ASSUME NEW j \in Job, jobStatus'[j] \in {"assigned", "running"}
               PROVE  \E b \in Agent : WillReport(b, j)'
    BY DEF RunningIsReported
  <2>1. CASE j = held[a]
    BY <1>5, <2>1 DEF WillReport
  <2>2. CASE j # held[a]
    <3>1. PICK b \in Agent : WillReport(b, j)
      BY <1>7, <2>2 DEF Kept, RaceInv, RunningIsReported
    <3>2. b # a
      BY <2>2, <3>1 DEF WillReport
    <3> QED BY <1>4, <3>1, <3>2, OthersKeepTheirPromises
  <2> QED BY <2>1, <2>2
<1>9. ~ AllReported'
  BY <1>2, <1>7 DEF AllReported
<1> QED BY <1>1, <1>3, <1>8, <1>9, FlushEffect DEF Kept, RaceInv, OpenIsClosed

LEMMA StartCommitsKeeps ==
    ASSUME Kept, NEW a \in Agent, StartCommits(a)
    PROVE  Kept'
<1>1. /\ a \in Session /\ step[a] = "start" /\ Flush(a) /\ Answered(a, "executing")
      /\ step' = [step EXCEPT ![a] = "none"]
  BY DEF StartCommits, CommitLast, Session
<1>2. phase[a] = "starting" /\ held[a] \in Job
  BY <1>1 DEF Kept, RaceInv, SessionInv, Serving, TypeOK
<1>3. TypeOK' /\ SessionInv'
  BY <1>1, <1>2, EndKeepsSessions DEF Kept, RaceInv
<1>4. \A b \in Agent : b # a => Idle(b)
  BY <1>1, OthersRest
<1>5. phase'[a] = "executing" /\ held'[a] = held[a]
  BY <1>1 DEF Answered
<1>6. DOMAIN dirty[a].job \subseteq {held[a]}
  BY <1>1 DEF Kept, RaceInv, SessionInv, WritesFit
<1>7. \A j \in Job : j # held[a] => jobStatus'[j] = jobStatus[j]
  BY <1>1, <1>6, FlushEffect
<1>8. RunningIsReported'
  <2> SUFFICES ASSUME NEW j \in Job, jobStatus'[j] \in {"assigned", "running"}
               PROVE  \E b \in Agent : WillReport(b, j)'
    BY DEF RunningIsReported
  <2>1. CASE j = held[a]
    BY <1>5, <2>1 DEF WillReport
  <2>2. CASE j # held[a]
    <3>1. PICK b \in Agent : WillReport(b, j)
      BY <1>7, <2>2 DEF Kept, RaceInv, RunningIsReported
    <3>2. b # a
      BY <2>2, <3>1 DEF WillReport
    <3> QED BY <1>4, <3>1, <3>2, OthersKeepTheirPromises
  <2> QED BY <2>1, <2>2
<1>9. WillClose(a)'
  BY <1>5 DEF WillClose
<1> QED BY <1>1, <1>3, <1>8, <1>9, FlushEffect DEF Kept, RaceInv, OpenIsClosed

\* The commits after which complete_job goes on: of the report and of the recount.
LEMMA MiddleCommitsKeep ==
    ASSUME Kept, NEW a \in Agent, ReportCommits(a) \/ UpdateCommits(a)
    PROVE  Kept'
<1>1. PICK next \in {"recount", "retry"} :
          CommitAnd(a, next) /\ step[a] \in {"report", "update"}
  BY DEF ReportCommits, UpdateCommits
<1>2. /\ a \in Session /\ Agent \subseteq Session /\ Flush(a)
      /\ step' = [step EXCEPT ![a] = next] /\ UNCHANGED <<phase, held>>
  BY <1>1 DEF CommitAnd, processVars, Session
<1>3. phase[a] = "reporting" /\ held[a] \in Job
  BY <1>1 DEF Kept, RaceInv, SessionInv, Serving, TypeOK
<1>4. TypeOK' /\ SessionInv'
  BY <1>1, CommitAndKeepsSessions DEF Kept, RaceInv
<1>5. \A b \in Agent : b # a => Idle(b)
  BY <1>2 DEF Idle, Flush, Kept, TypeOK
<1>6. step'[a] \in {"recount", "retry"} /\ phase'[a] = "reporting"
  BY <1>2, <1>3 DEF Kept, TypeOK
<1>7. DOMAIN dirty[a].job \subseteq {held[a]}
  BY <1>2 DEF Kept, RaceInv, SessionInv, WritesFit
<1>8. RunningIsReported'
  <2> SUFFICES ASSUME NEW j \in Job, jobStatus'[j] \in {"assigned", "running"}
               PROVE  \E b \in Agent : WillReport(b, j)'
    BY DEF RunningIsReported
  <2>1. j \notin DOMAIN dirty[a].job
    BY <1>1, <1>2, FlushEffect DEF JobValues
  <2>2. jobStatus'[j] = jobStatus[j]
    BY <1>2, <2>1, FlushEffect
  <2>3. PICK b \in Agent : WillReport(b, j)
    BY <2>2 DEF Kept, RaceInv, RunningIsReported
  <2>4. b # a
    BY <1>1, <1>3, <2>1, <2>3 DEF WillReport
  <2> QED BY <1>5, <2>3, <2>4, OthersKeepTheirPromises
<1>9. WillClose(a)'
  BY <1>6 DEF WillClose
<1> QED BY <1>2, <1>4, <1>8, <1>9, FlushEffect DEF Kept, RaceInv, OpenIsClosed

LEMMA RequeueCommitsKeeps ==
    ASSUME Kept, NEW a \in Agent, RequeueCommits(a)
    PROVE  Kept'
<1>1. /\ a \in Session /\ step[a] = "requeue" /\ Flush(a) /\ Answered(a, "polling")
      /\ step' = [step EXCEPT ![a] = "none"]
  BY DEF RequeueCommits, CommitLast, Session
<1>2. phase[a] = "reporting" /\ held[a] \in Job
  BY <1>1 DEF Kept, RaceInv, SessionInv, Serving, TypeOK
<1>3. TypeOK' /\ SessionInv'
  BY <1>1, <1>2, EndKeepsSessions DEF Kept, RaceInv
<1>4. \A b \in Agent : b # a => Idle(b)
  BY <1>1, OthersRest
<1>5. DOMAIN dirty[a].job = {held[a]}
  BY <1>1 DEF Kept, RaceInv, SessionInv, WritesFit
<1>6. jobStatus'[held[a]] = "pending" /\ \A j \in Job : j # held[a] => jobStatus'[j] = jobStatus[j]
  BY <1>1, <1>2, <1>5, FlushEffect DEF JobValues
<1>7. RunningIsReported'
  <2> SUFFICES ASSUME NEW j \in Job, jobStatus'[j] \in {"assigned", "running"}
               PROVE  \E b \in Agent : WillReport(b, j)'
    BY DEF RunningIsReported
  <2>1. PICK b \in Agent : WillReport(b, j)
    BY <1>6 DEF Kept, RaceInv, RunningIsReported
  <2>2. b # a
    BY <1>1, <1>2, <2>1 DEF WillReport
  <2> QED BY <1>4, <2>1, <2>2, OthersKeepTheirPromises
<1>8. ~ AllReported'
  BY <1>2, <1>6 DEF AllReported
<1> QED BY <1>1, <1>3, <1>7, <1>8, FlushEffect DEF Kept, RaceInv, OpenIsClosed

\* The last commit of complete_job closes an open build.
LEMMA CloseCommitsKeeps ==
    ASSUME Kept, NEW a \in Agent, CloseCommits(a)
    PROVE  Kept'
<1>1. /\ a \in Session /\ step[a] = "close" /\ Flush(a) /\ Answered(a, "polling")
      /\ step' = [step EXCEPT ![a] = "none"]
  BY DEF CloseCommits, CommitLast, Session
<1>2. phase[a] = "reporting" /\ held[a] \in Job
  BY <1>1 DEF Kept, RaceInv, SessionInv, Serving, TypeOK
<1>3. TypeOK' /\ SessionInv'
  BY <1>1, <1>2, EndKeepsSessions DEF Kept, RaceInv
<1>4. \A b \in Agent : b # a => Idle(b)
  BY <1>1, OthersRest
<1>5. \A j \in Job : jobStatus'[j] = jobStatus[j]
  BY <1>1, FlushEffect DEF JobValues
<1>6. RunningIsReported'
  <2> SUFFICES ASSUME NEW j \in Job, jobStatus'[j] \in {"assigned", "running"}
               PROVE  \E b \in Agent : WillReport(b, j)'
    BY DEF RunningIsReported
  <2>1. PICK b \in Agent : WillReport(b, j)
    BY <1>5 DEF Kept, RaceInv, RunningIsReported
  <2>2. b # a
    BY <1>1, <1>2, <2>1 DEF WillReport
  <2> QED BY <1>4, <2>1, <2>2, OthersKeepTheirPromises
<1>7. OpenIsClosed'
  <2> SUFFICES ASSUME AllReported', BuildIsOpen' PROVE \E b \in Agent : WillClose(b)'
    BY DEF OpenIsClosed
  <2>1. TheBuild \notin DOMAIN dirty[a].build
    BY <1>1, FlushEffect DEF BuildIsOpen, BuildValues
  <2>2. AllReported /\ BuildIsOpen
    BY <1>1, <1>5, <2>1, FlushEffect DEF AllReported, BuildIsOpen
  <2>3. PICK b \in Agent : WillClose(b)
    BY <2>2 DEF Kept, RaceInv, OpenIsClosed
  <2>4. b # a
    BY <1>1, <1>2, <2>1, <2>3 DEF WillClose
  <2> QED BY <1>4, <2>3, <2>4, OthersKeepTheirPromises
<1> QED BY <1>1, <1>3, <1>6, <1>7, FlushEffect DEF Kept, RaceInv

LEMMA CancelCommitsKeeps ==
    ASSUME Kept, CancelCommits
    PROVE  Kept'
<1>1. /\ User \in Session /\ User \notin Agent /\ step[User] = "cancel" /\ Flush(User)
      /\ CommitLast(User, "none") /\ Answered(User, "none")
      /\ step' = [step EXCEPT ![User] = "none"]
  BY UserAssumption DEF CancelCommits, CommitLast, Session
<1>2. TypeOK' /\ SessionInv'
  BY <1>1, UserEndKeepsSessions DEF Kept, RaceInv
<1>3. \A b \in Agent : Idle(b)
  BY <1>1, OthersRest
<1>4. /\ \A j \in Job : jobStatus'[j] # "canceled" => jobStatus'[j] = jobStatus[j]
      /\ buildStatus' \notin {"canceled", "failed"} => buildStatus' = buildStatus
  BY <1>1, FlushEffect DEF JobValues, BuildValues
<1>5. RunningIsReported'
  <2> SUFFICES ASSUME NEW j \in Job, jobStatus'[j] \in {"assigned", "running"}
               PROVE  \E b \in Agent : WillReport(b, j)'
    BY DEF RunningIsReported
  <2>1. PICK b \in Agent : WillReport(b, j)
    BY <1>4 DEF Kept, RaceInv, RunningIsReported
  <2> QED BY <1>3, <2>1, OthersKeepTheirPromises
<1>6. OpenIsClosed'
  <2> SUFFICES ASSUME AllReported', BuildIsOpen' PROVE \E b \in Agent : WillClose(b)'
    BY DEF OpenIsClosed
  <2>1. AllReported /\ BuildIsOpen
    BY <1>4 DEF AllReported, BuildIsOpen
  <2>2. PICK b \in Agent : WillClose(b)
    BY <2>1 DEF Kept, RaceInv, OpenIsClosed
  <2> QED BY <1>3, <2>2, OthersKeepTheirPromises
<1> QED BY <1>1, <1>2, <1>5, <1>6, FlushEffect DEF Kept, RaceInv

(***************************************************************************)
(* The theorems                                                            *)
(***************************************************************************)
LEMMA InitKept == Init => Kept
<1> SUFFICES ASSUME Init PROVE Kept
  OBVIOUS
<1>1. /\ \A s \in Session : step[s] = "none" /\ dirty[s] = Clean
      /\ \A a \in Agent : phase[a] = "polling" /\ held[a] = NoJob
      /\ \A j \in Job : jobStatus[j] = "pending" /\ retryCount[j] = 0
  BY DEF Init
<1>2. TypeOK
  BY CleanType, NullAssumption
     DEF Init, TypeOK, BuildStatus, JobStatus, Step, Phase, ExitCode
<1>3. User \in Session /\ Agent \subseteq Session
  BY DEF Session
<1>4. \A s \in Session : WritesFit(s, step[s], dirty[s])
  BY <1>1, CleanFits
<1>5. SessionInv
  BY <1>1, <1>3, <1>4 DEF SessionInv, UserStep
<1>6. RetriesWithinLimit /\ RunningIsReported
  BY <1>1, MaxRetriesAssumption DEF RetriesWithinLimit, RunningIsReported
<1>7. ~ AllReported
  BY <1>1, JobAssumption DEF AllReported
<1> QED BY <1>2, <1>5, <1>6, <1>7 DEF Kept, RaceInv, OpenIsClosed

LEMMA AgentStepKeeps ==
    ASSUME Kept, NEW a \in Agent, AgentNext(a)
    PROVE  Kept'
<1>1. CASE Poll(a)
  BY <1>1, PollKeeps
<1>2. CASE Execute(a)
  BY <1>2, ExecuteKeeps
<1>3. CASE ReadStep(a)
  <2>1. PICK next \in Step, w \in Writes :
            Continue(a, next, w) /\ Fits(a, next, w) /\ Promises(a, next, w)
    BY <1>3, AgentReads DEF Kept, RaceInv
  <2>2. a \in Session
    BY DEF Session
  <2> QED BY <2>1, <2>2, ReadsKeep
<1>4. CASE ClaimRefused(a)
  <2>1. phase[a] = "claiming" /\ step[a] = "none" /\ Answered(a, "polling")
        /\ UNCHANGED <<tables, step, dirty>>
    BY <1>4 DEF ClaimRefused, Calls, sessions
  <2>2. a \in Session
    BY DEF Session
  <2>3. step' = [step EXCEPT ![a] = "none"]
    BY <2>1, <2>2 DEF Kept, TypeOK
  <2> QED BY <2>1, <2>3, UnwrittenEndKeeps
<1>5. CASE CountPending(a) /\ \E k \in Job : jobStatus[k] = "pending"
  <2>1. /\ step[a] = "count" /\ step' = [step EXCEPT ![a] = "none"]
        /\ Answered(a, "polling") /\ UNCHANGED <<tables, dirty>>
    BY <1>5 DEF CountPending
  <2> QED BY <1>5, <2>1, UnwrittenEndKeeps
<1>6. CASE ClaimCommits(a)
  BY <1>6, ClaimCommitsKeeps
<1>7. CASE StartCommits(a)
  BY <1>7, StartCommitsKeeps
<1>8. CASE ReportCommits(a) \/ UpdateCommits(a)
  BY <1>8, MiddleCommitsKeep
<1>9. CASE RequeueCommits(a)
  BY <1>9, RequeueCommitsKeeps
<1>10. CASE CloseCommits(a)
  BY <1>10, CloseCommitsKeeps
<1> QED BY <1>1, <1>2, <1>3, <1>4, <1>5, <1>6, <1>7, <1>8, <1>9, <1>10
        DEF AgentNext, ReadStep

LEMMA NextKeeps == Kept /\ [Next]_vars => Kept'
<1> SUFFICES ASSUME Kept, [Next]_vars PROVE Kept'
  OBVIOUS
<1>1. CASE \E a \in Agent : AgentNext(a)
  BY <1>1, AgentStepKeeps
<1>2. CASE UserReadStep
  <2>1. PICK next \in Step, w \in Writes : Continue(User, next, w) /\ Fits(User, next, w)
    BY <1>2, UserReads DEF Kept, RaceInv
  <2>2. User \in Session /\ User \notin Agent
    BY UserAssumption DEF Session
  <2> QED BY <2>1, <2>2, ReadsKeep
<1>3. CASE CancelCommits
  BY <1>3, CancelCommitsKeeps
<1>4. CASE UNCHANGED vars
  <2>1. UNCHANGED <<tables, phase, held, exitCode, step, dirty>>
    BY <1>4 DEF vars, sessions, processVars
  <2>2. TypeOK'
    BY <2>1 DEF Kept, TypeOK, tables
  <2>3. SessionInv'
    BY <2>1 DEF Kept, RaceInv, SessionInv, Serving, WritesFit
  <2>4. \A b \in Agent : Idle(b)
    BY <2>1 DEF Idle
  <2> QED BY <2>1, <2>2, <2>3, <2>4, OthersKeepTheirPromises, TablesRest
<1> QED BY <1>1, <1>2, <1>3, <1>4 DEF Next, UserNext, UserReadStep

LEMMA AlwaysKept == Spec => []Kept
  BY InitKept, NextKeeps, PTL DEF Spec

\* The tables, the sessions and the processes keep their types.
THEOREM TypeCorrect == Spec => []TypeOK
<1>1. Kept => TypeOK
  BY DEF Kept
<1> QED BY <1>1, AlwaysKept, PTL

\* Every session writes only what its handler may write, and for what is not
\* settled somebody is on the way.
THEOREM RaceInvHolds == Spec => []RaceInv
<1>1. Kept => RaceInv
  BY DEF Kept
<1> QED BY <1>1, AlwaysKept, PTL

\* No interleaving of reports retries a job more often than its step allows
\* (Scheduler.should_retry_job and retry_job).
THEOREM RetriesLimited == Spec => []RetriesWithinLimit
<1>1. Kept => RetriesWithinLimit
  BY DEF Kept, RaceInv
<1> QED BY <1>1, AlwaysKept, PTL

\* Whatever the interleaving of the reports, once they are all in the build is
\* closed: no verdict may be missing (complete_job).
THEOREM BuildsClose == Spec => []ReportedBuildIsClosed
<1>1. Kept => ReportedBuildIsClosed
  <2> SUFFICES ASSUME Kept, Quiet, AllReported, buildStatus \notin {"passed", "failed", "canceled"}
               PROVE  FALSE
    BY DEF ReportedBuildIsClosed
  <2>1. BuildIsOpen
    BY DEF Kept, TypeOK, BuildStatus, BuildIsOpen
  <2>2. PICK a \in Agent : WillClose(a)
    BY <2>1 DEF Kept, RaceInv, OpenIsClosed
  <2> QED BY <2>2 DEF WillClose, Quiet, Session
<1> QED BY <1>1, AlwaysKept, PTL

\* Whatever the interleaving of claims, reports and cancellations, no job stays
\* ASSIGNED or RUNNING when no agent has a job and no handler runs.
THEOREM NoneLeftRunning == Spec => []NoJobIsLeftRunning
<1>1. Kept => NoJobIsLeftRunning
  <2> SUFFICES ASSUME Kept, Quiet, NEW j \in Job, jobStatus[j] \in {"assigned", "running"}
               PROVE  FALSE
    BY DEF NoJobIsLeftRunning
  <2>1. PICK a \in Agent : WillReport(a, j)
    BY DEF Kept, RaceInv, RunningIsReported
  <2> QED BY <2>1 DEF WillReport, Quiet, Session
<1> QED BY <1>1, AlwaysKept, PTL
=============================================================================
