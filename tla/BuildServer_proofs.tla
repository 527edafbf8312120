------------------------- MODULE BuildServer_proofs -------------------------
(***************************************************************************)
(* Theorems about BuildServer, for every set of builds, jobs and agents,   *)
(* every MaxRetries and every choice of faults and operator calls.         *)
(***************************************************************************)
EXTENDS BuildServer, TLAPS

(***************************************************************************)
(* Type correctness                                                        *)
(***************************************************************************)

\* The database effects of the job handlers keep the type of the tables,
\* whether the agent still waits for the answer or not.
LEMMA HandlerTypes ==
    ASSUME TablesOK, NEW j \in Job, NEW a \in Agent, NEW e \in ExitCode,
           \/ GrantClaim(j, a) \/ RefuseClaim(j)
           \/ StartJob(j) \/ CompleteJob(j, e)
    PROVE  TablesOK'
<1>1. CASE GrantClaim(j, a)
  BY <1>1 DEF GrantClaim, TablesOK, JobStatus, AgentStatus
<1>2. CASE RefuseClaim(j)
  BY <1>2 DEF RefuseClaim, TablesOK, serverVars, jobVars, agentRowVars
<1>3. CASE StartRow(j)
  BY <1>3, BuildOfAssumption DEF StartRow, TablesOK, JobStatus, BuildStatus, agentRowVars
<1>4. CASE NoSuchJob(j)
  BY <1>4 DEF NoSuchJob, TablesOK, serverVars, jobVars, agentRowVars
<1>5. CASE ReportRow(j, e)
  BY <1>5, BuildOfAssumption
     DEF ReportRow, TablesOK, ReportedStatus, UpdatedBuildStatus, ClosedBuildStatus,
         JobStatus, BuildStatus, AgentStatus
<1> QED
  BY <1>1, <1>2, <1>3, <1>4, <1>5 DEF StartJob, CompleteJob

\* The request an agent waits for is a well-formed request.
LEMMA CurrentRequestType ==
    ASSUME ProcessesOK, NEW a \in Agent, Calling(a)
    PROVE  CurrentRequest(a) \in Request /\ held[a] \in Job
  BY DEF ProcessesOK, Calling, CurrentRequest, CallOf, Request, Phase, ExitCode

\* A request that is given up is lost or joins the late ones.
LEMMA LoseOrDelayType ==
    ASSUME ProcessesOK, NEW a \in Agent, Calling(a), LoseOrDelay(a)
    PROVE  late' \subseteq Request
  BY CurrentRequestType DEF ProcessesOK, LoseOrDelay

LEMMA InitTypes == Init => TypeOK
  BY NullAssumption DEF Init, TypeOK, TablesOK, ProcessesOK, BuildStatus, JobStatus, AgentStatus, Phase,
         ExitCode

\* What the server does on its own account, and what late requests do.
LEMMA ServerTables ==
    ASSUME TablesOK, late \subseteq Request, ServerNext
    PROVE  TablesOK' /\ late' \subseteq Request /\ UNCHANGED processVars
<1>1. ASSUME NEW b \in Build, CreateBuildRow(b)
      PROVE  TablesOK' /\ UNCHANGED <<late, processVars>>
  BY <1>1 DEF CreateBuildRow, TablesOK, BuildStatus, jobVars, agentRowVars
<1>2. ASSUME NEW b \in Build, AddJobs(b)
      PROVE  TablesOK' /\ UNCHANGED <<late, processVars>>
  BY <1>2 DEF AddJobs, TablesOK, JobStatus, agentRowVars
<1>3. ASSUME NEW b \in Build, ParseFails(b)
      PROVE  TablesOK' /\ UNCHANGED <<late, processVars>>
  BY <1>3 DEF ParseFails, TablesOK, jobVars, agentRowVars
<1>4. ASSUME NEW r \in late, HandleLate(r)
      PROVE  TablesOK' /\ late' \subseteq late /\ UNCHANGED processVars
  <2>1. r.job \in Job /\ r.agent \in Agent /\ r.exit \in ExitCode
    BY <1>4 DEF Request
  <2> QED BY <1>4, <2>1, HandlerTypes DEF HandleLate
<1> QED BY <1>1, <1>2, <1>3, <1>4 DEF ServerNext, DeliverHook

LEMMA ServerTypes ==
    ASSUME TypeOK, ServerNext
    PROVE  TypeOK'
  BY ServerTables DEF TypeOK, ProcessesOK, processVars

LEMMA AgentTypes ==
    ASSUME TypeOK, NEW a \in Agent,
           \/ AgentStart(a) \/ Heartbeat(a) \/ Poll(a)
           \/ ClaimGranted(a) \/ ClaimRefused(a) \/ Start(a) \/ Execute(a) \/ Complete(a)
           \/ GiveUp(a) \/ AgentCrash(a)
    PROVE  TypeOK'
<1> USE NullAssumption
<1>1. CASE AgentStart(a)
  BY <1>1 DEF AgentStart, RegisterAgent, TypeOK, TablesOK, ProcessesOK, AgentStatus, Phase,
              jobVars
<1>2. CASE Heartbeat(a)
  BY <1>2 DEF Heartbeat, TypeOK, TablesOK, ProcessesOK, AgentStatus, jobVars, processVars
<1>3. CASE Poll(a)
  BY <1>3 DEF Poll, Offered, TypeOK, TablesOK, ProcessesOK, Phase, serverVars, jobVars,
              agentRowVars
<1>4. CASE ClaimGranted(a)
  <2>1. held[a] \in Job
    BY <1>4 DEF ClaimGranted, TypeOK, ProcessesOK
  <2>2. TablesOK'
    BY <1>4, <2>1, HandlerTypes DEF ClaimGranted, TypeOK, ExitCode
  <2>3. ProcessesOK'
    BY <1>4 DEF ClaimGranted, TypeOK, ProcessesOK, Phase
  <2> QED BY <2>2, <2>3 DEF TypeOK
<1>5. CASE ClaimRefused(a)
  BY <1>5 DEF ClaimRefused, RefuseClaim, TypeOK, TablesOK, ProcessesOK, Phase, serverVars,
              jobVars, agentRowVars
<1>6. CASE Start(a)
  <2>1. held[a] \in Job
    BY <1>6 DEF Start, TypeOK, ProcessesOK
  <2>2. TablesOK'
    BY <1>6, <2>1, HandlerTypes DEF Start, TypeOK, ExitCode
  <2>3. ProcessesOK'
    BY <1>6 DEF Start, TypeOK, ProcessesOK, Phase
  <2> QED BY <2>2, <2>3 DEF TypeOK
<1>7. CASE Execute(a)
  BY <1>7 DEF Execute, TypeOK, TablesOK, ProcessesOK, Phase, serverVars, jobVars,
              agentRowVars
<1>8. CASE Complete(a)
  <2>1. held[a] \in Job /\ exitCode[a] \in ExitCode
    BY <1>8 DEF Complete, TypeOK, ProcessesOK
  <2>2. TablesOK'
    BY <1>8, <2>1, HandlerTypes DEF Complete, TypeOK
  <2>3. ProcessesOK'
    BY <1>8 DEF Complete, TypeOK, ProcessesOK, Phase, ExitCode
  <2> QED BY <2>2, <2>3 DEF TypeOK
<1>9. CASE GiveUp(a)
  <2>1. late' \subseteq Request
    BY <1>9, LoseOrDelayType DEF GiveUp, TypeOK
  <2>2. held[a] \in Job
    BY <1>9, CurrentRequestType DEF GiveUp, TypeOK
  <2>3. ProcessesOK'
    BY <1>9, <2>1, <2>2 DEF GiveUp, Calling, TypeOK, ProcessesOK, Phase, ExitCode
  <2>4. TablesOK'
    BY <1>9 DEF GiveUp, TypeOK, TablesOK, serverVars, jobVars, agentRowVars
  <2> QED BY <2>3, <2>4 DEF TypeOK
<1>10. CASE AgentCrash(a)
  <2>1. late' \subseteq Request
    BY <1>10, LoseOrDelayType DEF AgentCrash, TypeOK, ProcessesOK
  <2>2. ProcessesOK'
    BY <1>10, <2>1 DEF AgentCrash, TypeOK, ProcessesOK, Phase, ExitCode
  <2>3. TablesOK'
    BY <1>10 DEF AgentCrash, TypeOK, TablesOK, serverVars, jobVars, agentRowVars
  <2> QED BY <2>2, <2>3 DEF TypeOK
<1> QED BY <1>1, <1>2, <1>3, <1>4, <1>5, <1>6, <1>7, <1>8, <1>9, <1>10

LEMMA OperatorTables ==
    ASSUME TablesOK, OperatorNext
    PROVE  TablesOK' /\ UNCHANGED <<processVars, late>>
<1> USE DEF TablesOK, BuildStatus, JobStatus, AgentStatus, jobVars, agentRowVars
<1>1. ASSUME NEW b \in Build, CancelBuild(b) PROVE TablesOK' /\ UNCHANGED <<processVars, late>>
  BY <1>1 DEF CancelBuild
<1>2. ASSUME NEW b \in Build, CleanupOldBuilds(b) PROVE TablesOK' /\ UNCHANGED <<processVars, late>>
  BY <1>2 DEF CleanupOldBuilds
<1>3. ASSUME NEW j \in Job, CancelJob(j) PROVE TablesOK' /\ UNCHANGED <<processVars, late>>
  BY <1>3, BuildOfAssumption DEF CancelJob
<1>4. ASSUME NEW a \in Agent, Drain(a) PROVE TablesOK' /\ UNCHANGED <<processVars, late>>
  BY <1>4 DEF Drain
<1>5. ASSUME NEW a \in Agent, Undrain(a) PROVE TablesOK' /\ UNCHANGED <<processVars, late>>
  BY <1>5 DEF Undrain
<1>6. ASSUME NEW a \in Agent, GoStale(a) PROVE TablesOK' /\ UNCHANGED <<processVars, late>>
  BY <1>6 DEF GoStale
<1>7. CASE ReapOfflineAgents
  BY <1>7 DEF ReapOfflineAgents
<1> QED BY <1>1, <1>2, <1>3, <1>4, <1>5, <1>6, <1>7 DEF OperatorNext

LEMMA OperatorTypes ==
    ASSUME TypeOK, OperatorNext
    PROVE  TypeOK'
  BY OperatorTables DEF TypeOK, ProcessesOK, processVars

LEMMA NextTypes == TypeOK /\ [Next]_vars => TypeOK'
<1> SUFFICES ASSUME TypeOK, [Next]_vars PROVE TypeOK'
  OBVIOUS
<1>1. CASE AgentNext
  BY <1>1, AgentTypes DEF AgentNext
<1>2. CASE UNCHANGED vars
  BY <1>2 DEF vars, serverVars, jobVars, agentRowVars, processVars, TypeOK, TablesOK,
              ProcessesOK
<1> QED BY <1>1, <1>2, ServerTypes, OperatorTypes DEF Next

\* Every row, every process and every request in flight keeps its type.
THEOREM TypeCorrect == Spec => []TypeOK
  BY InitTypes, NextTypes, PTL DEF Spec

(***************************************************************************)
(* Custody of jobs                                                         *)
(***************************************************************************)
CustodyCore == AttemptsNeverOverlap /\ PendingJobIsFree /\ WorkerIsRecorded /\ InHandWasGranted

\* A step that gives no agent and no late report a job, and offers no new job,
\* keeps custody in order.
LEMMA CustodyShrinks ==
    ASSUME CustodyCore,
           \A a \in Agent, j \in Job : HasCustody(a, j)' => HasCustody(a, j),
           \A j \in Job : LateReports(j)' \subseteq LateReports(j),
           \A j \in Job : jobStatus'[j] = "pending" => jobStatus[j] = "pending",
           UNCHANGED <<jobAgent, claims>>
    PROVE  CustodyCore'
  BY DEF CustodyCore, AttemptsNeverOverlap, PendingJobIsFree, WorkerIsRecorded,
         InHandWasGranted, InHand

\* Custody depends on the agents' loops and on the late requests alone.
LEMMA CustodyFrame ==
    ASSUME CustodyCore, UNCHANGED <<phase, held, late, jobAgent, claims>>,
           \A j \in Job : jobStatus'[j] = "pending" => jobStatus[j] = "pending"
    PROVE  CustodyCore'
<1>1. \A a \in Agent, j \in Job : HasCustody(a, j)' => HasCustody(a, j)
  BY DEF HasCustody
<1>2. \A j \in Job : LateReports(j)' \subseteq LateReports(j)
  BY DEF LateReports
<1> QED BY <1>1, <1>2, CustodyShrinks

\* claim_job: the job leaves PENDING and nobody had it.  The agent holds it if
\* it still waits for the answer; if not, nobody does.
LEMMA GrantKeepsCustody ==
    ASSUME CustodyCore, TypeOK, NEW j \in Job, NEW a \in Agent, GrantClaim(j, a),
           \A b \in Agent, k \in Job :
               HasCustody(b, k)' => HasCustody(b, k) \/ (b = a /\ k = j),
           \A k \in Job : LateReports(k)' \subseteq LateReports(k)
    PROVE  CustodyCore'
<1>1. /\ jobStatus[j] = "pending"
      /\ \A k \in Job : jobStatus'[k] = "pending" => jobStatus[k] = "pending" /\ k # j
      /\ \A k \in Job : jobAgent'[k] = IF k = j THEN a ELSE jobAgent[k]
      /\ \A k \in Job : claims'[k] = IF k = j THEN claims[j] + 1 ELSE claims[k]
      /\ claims \in [Job -> Nat]
  BY DEF GrantClaim, TypeOK, TablesOK
<1>2. \A b \in Agent : ~ HasCustody(b, j)
  BY <1>1 DEF CustodyCore, PendingJobIsFree
<1>3. LateReports(j) = {}
  BY <1>1 DEF CustodyCore, PendingJobIsFree
<1>4. AttemptsNeverOverlap'
  BY <1>2, <1>3 DEF CustodyCore, AttemptsNeverOverlap
<1>5. PendingJobIsFree'
  BY <1>1 DEF CustodyCore, PendingJobIsFree
<1>6. WorkerIsRecorded'
  BY <1>1, <1>2, <1>3 DEF CustodyCore, WorkerIsRecorded
<1>7. InHandWasGranted'
  BY <1>1 DEF CustodyCore, InHandWasGranted, InHand
<1> QED BY <1>4, <1>5, <1>6, <1>7 DEF CustodyCore

\* complete_job: whoever had the job has it no longer, so it may be offered again.
LEMMA ReportKeepsCustody ==
    ASSUME CustodyCore, TypeOK, NEW j \in Job, NEW e \in ExitCode, CompleteJob(j, e),
           \A b \in Agent, k \in Job : HasCustody(b, k)' => HasCustody(b, k) /\ k # j,
           \A k \in Job : LateReports(k)' \subseteq LateReports(k),
           LateReports(j)' = {}
    PROVE  CustodyCore'
<1>1. UNCHANGED <<jobAgent, claims>>
  BY DEF CompleteJob, ReportRow, NoSuchJob, serverVars, jobVars
<1>2. \A k \in Job : jobStatus'[k] = "pending" => jobStatus[k] = "pending" \/ k = j
  BY DEF CompleteJob, ReportRow, NoSuchJob, serverVars, jobVars, TypeOK, TablesOK
<1>3. AttemptsNeverOverlap'
  BY DEF CustodyCore, AttemptsNeverOverlap
<1>4. PendingJobIsFree'
  BY <1>2 DEF CustodyCore, PendingJobIsFree
<1>5. WorkerIsRecorded'
  BY <1>1 DEF CustodyCore, WorkerIsRecorded
<1>6. InHandWasGranted'
  BY <1>1 DEF CustodyCore, InHandWasGranted, InHand
<1> QED BY <1>3, <1>4, <1>5, <1>6 DEF CustodyCore

\* A request that is given up: the custody of a report passes from the agent to
\* the late requests, any other custody stays or ends.
LEMMA HandOverKeepsCustody ==
    ASSUME CustodyCore, TypeOK, NEW a \in Agent, Calling(a), LoseOrDelay(a),
           UNCHANGED serverVars,
           \A b \in Agent, k \in Job : HasCustody(b, k)' => HasCustody(b, k),
           phase[a] = "reporting" => \A k \in Job : ~ HasCustody(a, k)'
    PROVE  CustodyCore'
<1>0. PICK r \in Request, j \in Job : r = CurrentRequest(a) /\ j = held[a]
  BY CurrentRequestType DEF TypeOK
<1>1. UNCHANGED <<jobStatus, jobAgent, claims>>
  BY DEF serverVars, jobVars
<1>2. CASE late' = late \/ phase[a] # "reporting"
  <2>1. \A k \in Job : LateReports(k)' \subseteq LateReports(k)
    <3>1. phase[a] # "reporting" => r.op # "complete"
      BY <1>0 DEF Calling, CurrentRequest, CallOf
    <3>2. late' \subseteq late \cup {r}
      BY <1>0 DEF LoseOrDelay
    <3> QED BY <1>2, <3>1, <3>2 DEF LateReports
  <2> QED BY <1>1, <2>1, CustodyShrinks
<1>3. CASE phase[a] = "reporting" /\ late' = late \cup {r}
  <2>1. r.op = "complete" /\ r.job = j /\ r.agent = a
    BY <1>0, <1>3 DEF CurrentRequest, CallOf
  <2>2. HasCustody(a, j)
    BY <1>0, <1>3 DEF HasCustody
  <2>3. \A k \in Job : LateReports(k)' = IF k = j THEN LateReports(k) \cup {r} ELSE LateReports(k)
    BY <1>3, <2>1 DEF LateReports
  <2>4. LateReports(j) = {}
    BY <2>2 DEF CustodyCore, AttemptsNeverOverlap
  <2>5. \A b \in Agent : ~ HasCustody(b, j)'
    BY <1>3, <2>2 DEF CustodyCore, AttemptsNeverOverlap
  <2>6. AttemptsNeverOverlap'
    BY <2>3, <2>4, <2>5 DEF CustodyCore, AttemptsNeverOverlap
  <2>7. PendingJobIsFree'
    BY <1>1, <2>2, <2>3 DEF CustodyCore, PendingJobIsFree
  <2>8. WorkerIsRecorded'
    BY <1>1, <2>1, <2>2, <2>3, <2>4 DEF CustodyCore, WorkerIsRecorded
  <2>9. InHandWasGranted'
    BY <1>1, <2>2, <2>3 DEF CustodyCore, InHandWasGranted, InHand
  <2> QED BY <2>6, <2>7, <2>8, <2>9 DEF CustodyCore
<1> QED BY <1>0, <1>2, <1>3 DEF LoseOrDelay

\* AddJobs offers jobs nobody was ever granted.
LEMMA AddJobsKeepsCustody ==
    ASSUME CustodyInv, TypeOK, NEW b \in Build, AddJobs(b)
    PROVE  CustodyCore'
<1>1. UNCHANGED <<phase, held, late, jobAgent, claims>>
  BY DEF AddJobs, processVars
<1>2. \A j \in Job : ~ InHand(j) \/ jobStatus'[j] = jobStatus[j]
  BY DEF AddJobs, JobsOf, CustodyInv, UntouchedUntilAdded, NotYetAdded, InHandWasGranted
<1>3. \A j \in Job : InHand(j)' = InHand(j) /\ LateReports(j)' = LateReports(j)
  BY <1>1 DEF InHand, HasCustody, LateReports
<1>4. \A a \in Agent, j \in Job : HasCustody(a, j)' = HasCustody(a, j)
  BY <1>1 DEF HasCustody
<1>5. PendingJobIsFree'
  BY <1>2, <1>3, <1>4 DEF CustodyInv, PendingJobIsFree, InHand
<1>6. AttemptsNeverOverlap' /\ WorkerIsRecorded' /\ InHandWasGranted'
  BY <1>1, <1>3, <1>4
     DEF CustodyInv, AttemptsNeverOverlap, WorkerIsRecorded, InHandWasGranted
<1> QED BY <1>5, <1>6 DEF CustodyCore

\* A request that is handled late: nobody waits for it.
LEMMA LateKeepsCustody ==
    ASSUME CustodyCore, TypeOK, NEW r \in late, HandleLate(r)
    PROVE  CustodyCore'
<1>1. r.job \in Job /\ r.agent \in Agent /\ r.exit \in ExitCode
  BY DEF TypeOK, ProcessesOK, Request
<1>2. \A a \in Agent, k \in Job : HasCustody(a, k)' = HasCustody(a, k)
  BY DEF HandleLate, HasCustody, processVars
<1>3. \A k \in Job : LateReports(k)' = LateReports(k) \ {r}
  BY DEF HandleLate, LateReports
<1>4. CASE GrantClaim(r.job, r.agent)
  BY <1>1, <1>2, <1>3, <1>4, GrantKeepsCustody
<1>5. CASE RefuseClaim(r.job) \/ StartJob(r.job)
  <2>1. UNCHANGED <<jobAgent, claims>>
    BY <1>5 DEF RefuseClaim, StartJob, StartRow, NoSuchJob, serverVars, jobVars
  <2>2. \A j \in Job : jobStatus'[j] = "pending" => jobStatus[j] = "pending"
    BY <1>5 DEF RefuseClaim, StartJob, StartRow, NoSuchJob, serverVars, jobVars, TypeOK,
                TablesOK
  <2> QED BY <1>2, <1>3, <2>1, <2>2, CustodyShrinks
<1>6. CASE r.op = "complete" /\ CompleteJob(r.job, r.exit)
  <2>1. r \in LateReports(r.job)
    BY <1>6 DEF LateReports
  <2>2. \A a \in Agent : ~ HasCustody(a, r.job)
    BY <1>1, <2>1 DEF CustodyCore, AttemptsNeverOverlap
  <2>3. LateReports(r.job)' = {}
    BY <1>1, <1>3, <2>1 DEF CustodyCore, AttemptsNeverOverlap
  <2> QED BY <1>1, <1>2, <1>3, <1>6, <2>2, <2>3, ReportKeepsCustody
<1> QED BY <1>4, <1>5, <1>6 DEF HandleLate

LEMMA AgentKeepsCustody ==
    ASSUME CustodyCore, TypeOK, NEW a \in Agent,
           \/ AgentStart(a) \/ Heartbeat(a) \/ Poll(a)
           \/ ClaimGranted(a) \/ ClaimRefused(a) \/ Start(a) \/ Execute(a) \/ Complete(a)
           \/ GiveUp(a) \/ AgentCrash(a)
    PROVE  CustodyCore'
<1> USE DEF TypeOK, ProcessesOK
<1>1. CASE AgentStart(a) \/ Heartbeat(a) \/ Poll(a) \/ ClaimRefused(a) \/ Execute(a)
  <2>1. UNCHANGED <<late, jobStatus, jobAgent, claims>>
    BY <1>1 DEF AgentStart, RegisterAgent, Heartbeat, Poll, ClaimRefused, RefuseClaim, Execute,
                serverVars, jobVars
  <2>2. \A b \in Agent, k \in Job : HasCustody(b, k)' => HasCustody(b, k)
    BY <1>1 DEF AgentStart, Heartbeat, Poll, ClaimRefused, Execute, HasCustody, processVars
  <2> QED BY <2>1, <2>2, CustodyShrinks DEF LateReports
<1>2. CASE Start(a)
  <2>1. UNCHANGED <<late, jobAgent, claims>>
    BY <1>2 DEF Start, StartJob, StartRow, NoSuchJob, serverVars, jobVars
  <2>2. \A j \in Job : jobStatus'[j] = "pending" => jobStatus[j] = "pending"
    BY <1>2 DEF Start, StartJob, StartRow, NoSuchJob, serverVars, jobVars, TablesOK
  <2>3. \A b \in Agent, k \in Job : HasCustody(b, k)' => HasCustody(b, k)
    BY <1>2 DEF Start, HasCustody
  <2> QED BY <2>1, <2>2, <2>3, CustodyShrinks DEF LateReports
<1>3. CASE ClaimGranted(a)
  <2>1. PICK j \in Job : j = held[a] /\ GrantClaim(j, a)
    BY <1>3 DEF ClaimGranted
  <2>2. \A b \in Agent, k \in Job : HasCustody(b, k)' => HasCustody(b, k) \/ (b = a /\ k = j)
    BY <1>3, <2>1 DEF ClaimGranted, HasCustody
  <2>3. \A k \in Job : LateReports(k)' \subseteq LateReports(k)
    BY <1>3 DEF ClaimGranted, LateReports
  <2> QED BY <2>1, <2>2, <2>3, GrantKeepsCustody
<1>4. CASE Complete(a)
  <2>1. PICK j \in Job, e \in ExitCode : j = held[a] /\ e = exitCode[a]
    BY <1>4 DEF Complete
  <2>2. HasCustody(a, j) /\ CompleteJob(j, e)
    BY <1>4, <2>1 DEF Complete, HasCustody
  <2>3. \A b \in Agent, k \in Job : HasCustody(b, k)' => HasCustody(b, k) /\ b # a
    BY <1>4 DEF Complete, HasCustody
  <2>4. \A b \in Agent, k \in Job : HasCustody(b, k)' => HasCustody(b, k) /\ k # j
    BY <2>2, <2>3 DEF CustodyCore, AttemptsNeverOverlap
  <2>5. \A k \in Job : LateReports(k)' = LateReports(k)
    BY <1>4 DEF Complete, LateReports
  <2>6. LateReports(j)' = {}
    BY <2>2, <2>5 DEF CustodyCore, AttemptsNeverOverlap
  <2> QED BY <2>2, <2>4, <2>5, <2>6, ReportKeepsCustody
<1>5. CASE GiveUp(a)
  <2>1. \A b \in Agent, k \in Job : HasCustody(b, k)' => HasCustody(b, k)
    BY <1>5 DEF GiveUp, Calling, HasCustody
  <2>2. phase[a] = "reporting" => \A k \in Job : ~ HasCustody(a, k)'
    BY <1>5 DEF GiveUp, HasCustody
  <2> QED BY <1>5, <2>1, <2>2, HandOverKeepsCustody DEF GiveUp
<1>6. CASE AgentCrash(a)
  <2>1. \A b \in Agent, k \in Job : HasCustody(b, k)' => HasCustody(b, k) /\ b # a
    BY <1>6 DEF AgentCrash, HasCustody
  <2>2. CASE Calling(a)
    BY <1>6, <2>1, <2>2, HandOverKeepsCustody DEF AgentCrash
  <2>3. CASE ~ Calling(a)
    <3>1. UNCHANGED <<late, jobStatus, jobAgent, claims>>
      BY <1>6, <2>3 DEF AgentCrash, serverVars, jobVars
    <3> QED BY <2>1, <3>1, CustodyShrinks DEF LateReports
  <2> QED BY <2>2, <2>3
<1> QED BY <1>1, <1>2, <1>3, <1>4, <1>5, <1>6

LEMMA OperatorKeepsCustody ==
    ASSUME CustodyCore, TypeOK, OperatorNext
    PROVE  CustodyCore'
<1>1. UNCHANGED <<phase, held, late, jobAgent, claims>>
  BY DEF OperatorNext, CancelBuild, CleanupOldBuilds, CancelJob, Drain, Undrain, GoStale,
         ReapOfflineAgents, jobVars, processVars
<1>2. \A j \in Job : jobStatus'[j] = "pending" => jobStatus[j] = "pending"
  BY DEF OperatorNext, CancelBuild, CleanupOldBuilds, CancelJob, Drain, Undrain, GoStale,
         ReapOfflineAgents, jobVars, TypeOK, TablesOK
<1> QED BY <1>1, <1>2, CustodyFrame

\* The job handlers touch no job whose build is still being created.
LEMMA HandlerLeavesNewJobs ==
    ASSUME UntouchedUntilAdded, TablesOK, NEW j \in Job, NEW a \in Agent, NEW e \in ExitCode,
           \/ GrantClaim(j, a) \/ RefuseClaim(j)
           \/ StartJob(j) \/ CompleteJob(j, e)
    PROVE  UntouchedUntilAdded'
<1> USE BuildOfAssumption DEF TablesOK, UntouchedUntilAdded, NotYetAdded
<1>1. CASE GrantClaim(j, a)
  BY <1>1 DEF GrantClaim
<1>2. CASE RefuseClaim(j)
  BY <1>2 DEF RefuseClaim, serverVars, jobVars
<1>3. CASE StartRow(j)
  BY <1>3 DEF StartRow
<1>4. CASE NoSuchJob(j)
  BY <1>4 DEF NoSuchJob, serverVars, jobVars
<1>5. CASE ReportRow(j, e)
  BY <1>5 DEF ReportRow, UpdatedBuildStatus, ClosedBuildStatus
<1> QED BY <1>1, <1>2, <1>3, <1>4, <1>5 DEF StartJob, CompleteJob

LEMMA ServerLeavesNewJobs ==
    ASSUME UntouchedUntilAdded, TablesOK, late \subseteq Request, ServerNext
    PROVE  UntouchedUntilAdded'
<1> USE BuildOfAssumption DEF TablesOK, UntouchedUntilAdded, NotYetAdded
<1>1. ASSUME NEW b \in Build, CreateBuildRow(b) PROVE UntouchedUntilAdded'
  BY <1>1 DEF CreateBuildRow, jobVars
<1>2. ASSUME NEW b \in Build, AddJobs(b) PROVE UntouchedUntilAdded'
  <2>1. \A j \in Job : NotYetAdded(j)' => NotYetAdded(j) /\ BuildOf[j] # b
    BY <1>2 DEF AddJobs
  <2> QED BY <1>2, <2>1 DEF AddJobs, JobsOf
<1>3. ASSUME NEW b \in Build, ParseFails(b) PROVE UntouchedUntilAdded'
  BY <1>3 DEF ParseFails, jobVars
<1>4. ASSUME NEW r \in late, HandleLate(r) PROVE UntouchedUntilAdded'
  <2>1. r.job \in Job /\ r.agent \in Agent /\ r.exit \in ExitCode
    BY <1>4 DEF Request
  <2> QED BY <1>4, <2>1, HandlerLeavesNewJobs DEF HandleLate
<1> QED BY <1>1, <1>2, <1>3, <1>4 DEF ServerNext, DeliverHook

\* What the agents and the operators do to builds that are being created.
LEMMA AgentLeavesNewJobs ==
    ASSUME UntouchedUntilAdded, TypeOK, NEW a \in Agent,
           \/ AgentStart(a) \/ Heartbeat(a) \/ Poll(a)
           \/ ClaimGranted(a) \/ ClaimRefused(a) \/ Start(a) \/ Execute(a) \/ Complete(a)
           \/ GiveUp(a) \/ AgentCrash(a)
    PROVE  UntouchedUntilAdded'
<1>1. CASE ClaimGranted(a) \/ Start(a) \/ Complete(a)
  <2>1. held[a] \in Job /\ exitCode[a] \in ExitCode
    BY <1>1 DEF ClaimGranted, Start, Complete, TypeOK, ProcessesOK
  <2> QED BY <1>1, <2>1, HandlerLeavesNewJobs DEF ClaimGranted, Start, Complete, TypeOK
<1>2. CASE ~ (ClaimGranted(a) \/ Start(a) \/ Complete(a))
  <2>1. UNCHANGED <<buildStatus, creating, jobVars, claims>>
    BY <1>2 DEF AgentStart, RegisterAgent, Heartbeat, Poll, ClaimRefused, RefuseClaim, Execute,
                GiveUp, AgentCrash, serverVars, jobVars
  <2> QED BY <2>1 DEF UntouchedUntilAdded, NotYetAdded, jobVars
<1> QED BY <1>1, <1>2

LEMMA OperatorLeavesNewJobs ==
    ASSUME UntouchedUntilAdded, TablesOK, OperatorNext
    PROVE  UntouchedUntilAdded'
<1> USE BuildOfAssumption DEF TablesOK, UntouchedUntilAdded, NotYetAdded, jobVars
<1>1. ASSUME NEW b \in Build, CancelBuild(b) PROVE UntouchedUntilAdded'
  BY <1>1 DEF CancelBuild, Active
<1>2. ASSUME NEW b \in Build, CleanupOldBuilds(b) PROVE UntouchedUntilAdded'
  BY <1>2 DEF CleanupOldBuilds
<1>3. ASSUME NEW j \in Job, CancelJob(j) PROVE UntouchedUntilAdded'
  BY <1>3 DEF CancelJob
<1>4. CASE \/ \E a \in Agent : Drain(a) \/ Undrain(a) \/ GoStale(a)
           \/ ReapOfflineAgents
  BY <1>4 DEF Drain, Undrain, GoStale, ReapOfflineAgents
<1> QED BY <1>1, <1>2, <1>3, <1>4 DEF OperatorNext

LEMMA InitCustody == Init => CustodyInv
  BY NullAssumption DEF Init, CustodyInv, AttemptsNeverOverlap, PendingJobIsFree, WorkerIsRecorded,
         UntouchedUntilAdded, NotYetAdded, InHandWasGranted, InHand, HasCustody, LateReports

LEMMA NextCustody == TypeOK /\ CustodyInv /\ [Next]_vars => CustodyInv'
<1> SUFFICES ASSUME TypeOK, CustodyInv, [Next]_vars PROVE CustodyInv'
  OBVIOUS
<1>1. CustodyCore /\ UntouchedUntilAdded
  BY DEF CustodyInv, CustodyCore
<1>2. CASE ServerNext
  <2>1. ASSUME NEW b \in Build, CreateBuildRow(b) \/ ParseFails(b) PROVE CustodyCore'
    <3>1. UNCHANGED <<phase, held, late, jobAgent, claims, jobStatus>>
      BY <2>1 DEF CreateBuildRow, ParseFails, jobVars, processVars
    <3> QED BY <1>1, <3>1, CustodyFrame
  <2> QED BY <1>1, <1>2, <2>1, AddJobsKeepsCustody, LateKeepsCustody, ServerLeavesNewJobs
          DEF ServerNext, DeliverHook, CustodyInv, CustodyCore, TypeOK, ProcessesOK
<1>3. CASE AgentNext
  BY <1>1, <1>3, AgentKeepsCustody, AgentLeavesNewJobs DEF AgentNext, CustodyInv, CustodyCore
<1>4. CASE OperatorNext
  BY <1>1, <1>4, OperatorKeepsCustody, OperatorLeavesNewJobs DEF CustodyInv, CustodyCore, TypeOK
<1>5. CASE UNCHANGED vars
  BY <1>5 DEF vars, serverVars, jobVars, agentRowVars, processVars, CustodyInv,
              AttemptsNeverOverlap, PendingJobIsFree, WorkerIsRecorded, UntouchedUntilAdded,
              NotYetAdded, InHandWasGranted, InHand, HasCustody, LateReports
<1> QED BY <1>2, <1>3, <1>4, <1>5 DEF Next

\* Custody of every job is in order in every reachable state: whatever is lost,
\* late, retried, canceled, drained, reaped or cleaned up.
THEOREM CustodyHolds == Spec => []CustodyInv
  BY TypeCorrect, InitCustody, NextCustody, PTL DEF Spec

\* Two agents never work on the same job, and no attempt starts while the report
\* of the one before it is still on its way.
THEOREM NoOverlap == Spec => []AttemptsNeverOverlap
<1>1. CustodyInv => AttemptsNeverOverlap
  BY DEF CustodyInv
<1> QED BY <1>1, CustodyHolds, PTL

\* A job that is offered has no agent at work on it and no report on the way.
THEOREM OfferedIsFree == Spec => []PendingJobIsFree
<1>1. CustodyInv => PendingJobIsFree
  BY DEF CustodyInv
<1> QED BY <1>1, CustodyHolds, PTL

\* The row of a job names the agent that works on it or reported it.
THEOREM WorkerRecorded == Spec => []WorkerIsRecorded
<1>1. CustodyInv => WorkerIsRecorded
  BY DEF CustodyInv
<1> QED BY <1>1, CustodyHolds, PTL

(***************************************************************************)
(* Attempts, agents and builds                                             *)
(***************************************************************************)
TableInv ==
    /\ AttemptsAreBounded
    /\ FailedJobIsExhausted
    /\ BusyAgentHasJob
    /\ StalledBuildWasCanceled
    /\ PendingBuildIsNotRunning
    /\ SettledBuildIsJudged

\* The handlers of an agent's requests keep the tables consistent.
LEMMA HandlerKeepsTables ==
    ASSUME TableInv, UntouchedUntilAdded, TablesOK, NEW j \in Job, NEW a \in Agent, NEW e \in ExitCode,
           \/ GrantClaim(j, a) \/ RefuseClaim(j)
           \/ StartJob(j) \/ CompleteJob(j, e)
    PROVE  TableInv'
<1> USE BuildOfAssumption, MaxRetriesAssumption, NullAssumption DEF TablesOK
<1>1. CASE GrantClaim(j, a)
  <2>1. AttemptsAreBounded'
    BY <1>1 DEF GrantClaim, TableInv, AttemptsAreBounded
  <2>2. FailedJobIsExhausted'
    BY <1>1 DEF GrantClaim, TableInv, FailedJobIsExhausted
  <2>3. BusyAgentHasJob'
    BY <1>1 DEF GrantClaim, TableInv, BusyAgentHasJob
  <2>4. StalledBuildWasCanceled'
    BY <1>1 DEF GrantClaim, TableInv, StalledBuildWasCanceled, Active, JobsOf
  <2>5. PendingBuildIsNotRunning'
    BY <1>1 DEF GrantClaim, TableInv, PendingBuildIsNotRunning, JobsOf
  <2>6. SettledBuildIsJudged'
    BY <1>1 DEF GrantClaim, TableInv, SettledBuildIsJudged, JobsOf
  <2> QED BY <2>1, <2>2, <2>3, <2>4, <2>5, <2>6 DEF TableInv
<1>2. CASE RefuseClaim(j) \/ NoSuchJob(j)
  BY <1>2 DEF RefuseClaim, NoSuchJob, serverVars, jobVars, agentRowVars, TableInv,
              AttemptsAreBounded, FailedJobIsExhausted, BusyAgentHasJob,
              StalledBuildWasCanceled, PendingBuildIsNotRunning, SettledBuildIsJudged
<1>3. CASE StartRow(j)
  <2>1. AttemptsAreBounded'
    BY <1>3 DEF StartRow, TableInv, AttemptsAreBounded
  <2>2. FailedJobIsExhausted'
    BY <1>3 DEF StartRow, TableInv, FailedJobIsExhausted
  <2>3. BusyAgentHasJob'
    BY <1>3 DEF StartRow, TableInv, BusyAgentHasJob, agentRowVars
  <2>4. StalledBuildWasCanceled'
    BY <1>3 DEF StartRow, TableInv, StalledBuildWasCanceled, Active, JobsOf
  <2>5. PendingBuildIsNotRunning'
    BY <1>3 DEF StartRow, TableInv, PendingBuildIsNotRunning, JobsOf
  <2>6. SettledBuildIsJudged'
    BY <1>3 DEF StartRow, TableInv, SettledBuildIsJudged, JobsOf
  <2> QED BY <2>1, <2>2, <2>3, <2>4, <2>5, <2>6 DEF TableInv
<1>4. CASE ReportRow(j, e)
  <2>1. AttemptsAreBounded'
    BY <1>4 DEF ReportRow, ShouldRetry, ReportedStatus, TableInv, AttemptsAreBounded
  <2>2. FailedJobIsExhausted'
    BY <1>4 DEF ReportRow, ShouldRetry, TableInv, FailedJobIsExhausted, AttemptsAreBounded
  <2>3. BusyAgentHasJob'
    BY <1>4 DEF ReportRow, TableInv, BusyAgentHasJob
  <2>4. StalledBuildWasCanceled'
    BY <1>4 DEF ReportRow, UpdatedBuildStatus, ClosedBuildStatus, TableInv,
                StalledBuildWasCanceled, Active, JobsOf
  <2>5. PendingBuildIsNotRunning'
    BY <1>4 DEF ReportRow, UpdatedBuildStatus, ClosedBuildStatus, ReportedStatus, TableInv,
                PendingBuildIsNotRunning, JobsOf
  <2>6. SettledBuildIsJudged'
    BY <1>4 DEF ReportRow, ShouldRetry, UpdatedBuildStatus, ClosedBuildStatus, ReportedStatus,
                TableInv, SettledBuildIsJudged, JobsOf
  <2> QED BY <2>1, <2>2, <2>3, <2>4, <2>5, <2>6 DEF TableInv
<1> QED BY <1>1, <1>2, <1>3, <1>4 DEF StartJob, CompleteJob

LEMMA ServerKeepsTables ==
    ASSUME TableInv, UntouchedUntilAdded, TablesOK, late \subseteq Request, ServerNext
    PROVE  TableInv'
<1> USE BuildOfAssumption, MaxRetriesAssumption, NullAssumption
<1>1. ASSUME NEW b \in Build, CreateBuildRow(b) PROVE TableInv'
  <2>1. /\ UNCHANGED <<jobStatus, jobAgent, retryCount, claims, agentStatus>>
        /\ buildStatus[b] = "absent"
        /\ buildStatus' = [buildStatus EXCEPT ![b] = "pending"]
    BY <1>1 DEF CreateBuildRow, jobVars, agentRowVars
  <2>2. AttemptsAreBounded' /\ FailedJobIsExhausted' /\ BusyAgentHasJob'
    BY <2>1 DEF TableInv, AttemptsAreBounded, FailedJobIsExhausted, BusyAgentHasJob
  <2>3. StalledBuildWasCanceled'
    BY <2>1 DEF TablesOK, TableInv, StalledBuildWasCanceled, JobsOf
  <2>4. \A j \in JobsOf(b) : jobStatus[j] = "absent"
    BY <2>1 DEF UntouchedUntilAdded, NotYetAdded, JobsOf
  <2>5. PendingBuildIsNotRunning'
    BY <2>1, <2>4 DEF TablesOK, TableInv, PendingBuildIsNotRunning, JobsOf
  <2>6. SettledBuildIsJudged'
    BY <2>1, <2>4 DEF TablesOK, TableInv, SettledBuildIsJudged, JobsOf
  <2> QED BY <2>2, <2>3, <2>5, <2>6 DEF TableInv
<1>2. ASSUME NEW b \in Build, AddJobs(b) PROVE TableInv'
  <2>1. /\ UNCHANGED <<buildStatus, jobAgent, retryCount, claims, agentStatus>>
        /\ buildStatus[b] \in {"pending", "canceled"}
        /\ \A j \in Job : BuildOf[j] # b => jobStatus'[j] = jobStatus[j]
        /\ \A j \in JobsOf(b) : /\ jobStatus'[j] \in {"skipped", "pending"}
                                /\ jobAgent[j] = NoAgent
                                /\ claims[j] = 0 /\ retryCount[j] = 0
    BY <1>2 DEF AddJobs, agentRowVars, UntouchedUntilAdded, NotYetAdded, JobsOf
  <2>2. AttemptsAreBounded' /\ FailedJobIsExhausted'
    BY <2>1 DEF TableInv, AttemptsAreBounded, FailedJobIsExhausted, JobsOf
  <2>3. BusyAgentHasJob'
    BY <2>1 DEF TableInv, BusyAgentHasJob, JobsOf
  <2>4. StalledBuildWasCanceled' /\ PendingBuildIsNotRunning' /\ SettledBuildIsJudged'
    BY <2>1 DEF TableInv, StalledBuildWasCanceled, PendingBuildIsNotRunning,
                SettledBuildIsJudged, JobsOf
  <2> QED BY <2>2, <2>3, <2>4 DEF TableInv
<1>3. ASSUME NEW b \in Build, ParseFails(b) PROVE TableInv'
  BY <1>3 DEF ParseFails, jobVars, agentRowVars, TableInv, AttemptsAreBounded,
              FailedJobIsExhausted, BusyAgentHasJob, StalledBuildWasCanceled,
              PendingBuildIsNotRunning, SettledBuildIsJudged
<1>4. ASSUME NEW r \in late, HandleLate(r) PROVE TableInv'
  <2>1. r.job \in Job /\ r.agent \in Agent /\ r.exit \in ExitCode
    BY <1>4 DEF Request
  <2> QED BY <1>4, <2>1, HandlerKeepsTables DEF HandleLate
<1> QED BY <1>1, <1>2, <1>3, <1>4 DEF ServerNext, DeliverHook

LEMMA AgentKeepsTables ==
    ASSUME TableInv, UntouchedUntilAdded, TypeOK, NEW a \in Agent,
           \/ AgentStart(a) \/ Heartbeat(a) \/ Poll(a)
           \/ ClaimGranted(a) \/ ClaimRefused(a) \/ Start(a) \/ Execute(a) \/ Complete(a)
           \/ GiveUp(a) \/ AgentCrash(a)
    PROVE  TableInv'
<1>1. CASE ClaimGranted(a) \/ Start(a) \/ Complete(a)
  <2>1. held[a] \in Job /\ exitCode[a] \in ExitCode
    BY <1>1 DEF ClaimGranted, Start, Complete, TypeOK, ProcessesOK
  <2> QED BY <1>1, <2>1, HandlerKeepsTables DEF ClaimGranted, Start, Complete, TypeOK
<1>2. CASE ~ (ClaimGranted(a) \/ Start(a) \/ Complete(a))
  <2>1. /\ UNCHANGED <<buildStatus, jobVars, claims>>
        /\ \A b \in Agent : agentStatus'[b] = "busy" => agentStatus[b] = "busy"
    BY <1>2 DEF AgentStart, RegisterAgent, Heartbeat, Poll, ClaimRefused, RefuseClaim, Execute,
                GiveUp, AgentCrash, serverVars, jobVars, agentRowVars, TypeOK, TablesOK
  <2> QED BY <2>1 DEF jobVars, TableInv, AttemptsAreBounded, FailedJobIsExhausted,
                      BusyAgentHasJob, StalledBuildWasCanceled, PendingBuildIsNotRunning,
                      SettledBuildIsJudged
<1> QED BY <1>1, <1>2

LEMMA OperatorKeepsTables ==
    ASSUME TableInv, TablesOK, OperatorNext
    PROVE  TableInv'
<1> USE BuildOfAssumption, MaxRetriesAssumption, NullAssumption DEF TablesOK
<1>1. ASSUME NEW b \in Build, CancelBuild(b) PROVE TableInv'
  <2>1. AttemptsAreBounded' /\ FailedJobIsExhausted'
    BY <1>1 DEF CancelBuild, TableInv, AttemptsAreBounded, FailedJobIsExhausted
  <2>2. BusyAgentHasJob'
    BY <1>1 DEF CancelBuild, TableInv, BusyAgentHasJob, Active
  <2>3. StalledBuildWasCanceled' /\ PendingBuildIsNotRunning'
    BY <1>1 DEF CancelBuild, TableInv, StalledBuildWasCanceled, PendingBuildIsNotRunning,
                JobsOf, Active
  <2>4. SettledBuildIsJudged'
    BY <1>1 DEF CancelBuild, TableInv, SettledBuildIsJudged, JobsOf, Active
  <2> QED BY <2>1, <2>2, <2>3, <2>4 DEF TableInv
<1>2. ASSUME NEW b \in Build, CleanupOldBuilds(b) PROVE TableInv'
  <2>1. AttemptsAreBounded' /\ FailedJobIsExhausted'
    BY <1>2 DEF CleanupOldBuilds, TableInv, AttemptsAreBounded, FailedJobIsExhausted
  <2>2. BusyAgentHasJob'
    BY <1>2 DEF CleanupOldBuilds, agentRowVars, TableInv, BusyAgentHasJob
  <2>3. StalledBuildWasCanceled' /\ PendingBuildIsNotRunning'
    BY <1>2 DEF CleanupOldBuilds, TableInv, StalledBuildWasCanceled,
                PendingBuildIsNotRunning, JobsOf, Active
  <2>4. SettledBuildIsJudged'
    BY <1>2 DEF CleanupOldBuilds, TableInv, SettledBuildIsJudged, JobsOf, Active
  <2> QED BY <2>1, <2>2, <2>3, <2>4 DEF TableInv
<1>3. ASSUME NEW j \in Job, CancelJob(j) PROVE TableInv'
  <2>1. AttemptsAreBounded' /\ FailedJobIsExhausted'
    BY <1>3 DEF CancelJob, TableInv, AttemptsAreBounded, FailedJobIsExhausted
  <2>2. BusyAgentHasJob'
    BY <1>3 DEF CancelJob, TableInv, BusyAgentHasJob
  <2>3. StalledBuildWasCanceled' /\ PendingBuildIsNotRunning'
    BY <1>3 DEF CancelJob, TableInv, StalledBuildWasCanceled, PendingBuildIsNotRunning,
                JobsOf, Active
  <2>4. SettledBuildIsJudged'
    BY <1>3 DEF CancelJob, TableInv, SettledBuildIsJudged, JobsOf, Active
  <2> QED BY <2>1, <2>2, <2>3, <2>4 DEF TableInv
<1>4. CASE \/ \E a \in Agent : Drain(a) \/ Undrain(a) \/ GoStale(a)
           \/ ReapOfflineAgents
  <2>1. /\ UNCHANGED <<buildStatus, jobVars, claims>>
        /\ \A b \in Agent : agentStatus'[b] = "busy" => agentStatus[b] = "busy"
    BY <1>4 DEF Drain, Undrain, GoStale, ReapOfflineAgents, jobVars
  <2> QED BY <2>1 DEF jobVars, TableInv, AttemptsAreBounded, FailedJobIsExhausted,
                      BusyAgentHasJob, StalledBuildWasCanceled, PendingBuildIsNotRunning,
                      SettledBuildIsJudged
<1> QED BY <1>1, <1>2, <1>3, <1>4 DEF OperatorNext

LEMMA InitTables == Init => TableInv
  BY BuildOfAssumption, MaxRetriesAssumption
     DEF Init, TableInv, AttemptsAreBounded, FailedJobIsExhausted, BusyAgentHasJob,
         StalledBuildWasCanceled, PendingBuildIsNotRunning, SettledBuildIsJudged, JobsOf

LEMMA NextTables == TypeOK /\ CustodyInv /\ TableInv /\ [Next]_vars => TableInv'
<1> SUFFICES ASSUME TypeOK, CustodyInv, TableInv, [Next]_vars PROVE TableInv'
  OBVIOUS
<1>1. UntouchedUntilAdded
  BY DEF CustodyInv
<1>2. CASE ServerNext
  BY <1>1, <1>2, ServerKeepsTables DEF TypeOK, ProcessesOK
<1>3. CASE AgentNext
  BY <1>1, <1>3, AgentKeepsTables DEF AgentNext
<1>4. CASE OperatorNext
  BY <1>4, OperatorKeepsTables DEF TypeOK
<1>5. CASE UNCHANGED vars
  BY <1>5 DEF vars, serverVars, jobVars, agentRowVars, TableInv, AttemptsAreBounded,
              FailedJobIsExhausted, BusyAgentHasJob, StalledBuildWasCanceled,
              PendingBuildIsNotRunning, SettledBuildIsJudged
<1> QED BY <1>2, <1>3, <1>4, <1>5 DEF Next

\* The rows of the three tables agree in every reachable state.
THEOREM TablesHold == Spec => []TableInv
  BY TypeCorrect, CustodyHolds, InitTables, NextTables, PTL DEF Spec

\* A job is granted at most once, and once more for each retry it has.
THEOREM AttemptsBounded == Spec => []AttemptsAreBounded
<1>1. TableInv => AttemptsAreBounded
  BY DEF TableInv
<1> QED BY <1>1, TablesHold, PTL

\* When every job of a build is PASSED, FAILED or SKIPPED, the build shows the
\* verdict of all of them.
THEOREM SettledIsJudged == Spec => []SettledBuildIsJudged
<1>1. TableInv => SettledBuildIsJudged
  BY DEF TableInv
<1> QED BY <1>1, TablesHold, PTL

\* A job is left FAILED only with its retries used up (should_retry_job).
THEOREM FailedIsExhausted == Spec => []FailedJobIsExhausted
<1>1. TableInv => FailedJobIsExhausted
  BY DEF TableInv
<1> QED BY <1>1, TablesHold, PTL

\* An agent shown BUSY has an unfinished job in the tables, whatever heartbeats,
\* restarts and reaps came before.
THEOREM BusyHasJob == Spec => []BusyAgentHasJob
<1>1. TableInv => BusyAgentHasJob
  BY DEF TableInv
<1> QED BY <1>1, TablesHold, PTL

\* A RUNNING build without an unfinished job has a canceled one.
THEOREM StalledWasCanceled == Spec => []StalledBuildWasCanceled
<1>1. TableInv => StalledBuildWasCanceled
  BY DEF TableInv
<1> QED BY <1>1, TablesHold, PTL

\* A build that is offered to the agents has no running job.
THEOREM PendingIsNotRunning == Spec => []PendingBuildIsNotRunning
<1>1. TableInv => PendingBuildIsNotRunning
  BY DEF TableInv
<1> QED BY <1>1, TablesHold, PTL

(***************************************************************************)
(* What a step may never do to a build                                     *)
(***************************************************************************)
PassesClean(b) ==
    buildStatus[b] # "passed" /\ buildStatus'[b] = "passed" =>
        \A j \in JobsOf(b) : jobStatus'[j] \notin {"failed", "pending"}

StaysClosed(b) ==
    /\ buildStatus[b] \notin {"absent", "pending"} => buildStatus'[b] # "pending"
    /\ Finished(b) => buildStatus'[b] # "running"

LEMMA HandlerMovesBuild ==
    ASSUME TablesOK, NEW b \in Build, NEW j \in Job, NEW a \in Agent, NEW e \in ExitCode,
           \/ GrantClaim(j, a) \/ RefuseClaim(j)
           \/ StartJob(j) \/ CompleteJob(j, e)
    PROVE  PassesClean(b) /\ StaysClosed(b)
<1> USE BuildOfAssumption DEF TablesOK, PassesClean, StaysClosed, Finished
<1>1. CASE GrantClaim(j, a) \/ RefuseClaim(j) \/ NoSuchJob(j)
  BY <1>1 DEF GrantClaim, RefuseClaim, NoSuchJob, serverVars
<1>2. CASE StartRow(j)
  BY <1>2 DEF StartRow
<1>3. CASE ReportRow(j, e)
  <2>1. PassesClean(b)
    BY <1>3 DEF ReportRow, UpdatedBuildStatus, ClosedBuildStatus, ShouldRetry, JobsOf
  <2>2. StaysClosed(b)
    BY <1>3 DEF ReportRow, UpdatedBuildStatus, ClosedBuildStatus
  <2> QED BY <2>1, <2>2
<1> QED BY <1>1, <1>2, <1>3 DEF StartJob, CompleteJob

LEMMA ServerMovesBuild ==
    ASSUME TablesOK, late \subseteq Request, ServerNext, NEW b \in Build
    PROVE  PassesClean(b) /\ StaysClosed(b)
<1>1. ASSUME NEW c \in Build, CreateBuildRow(c) \/ AddJobs(c) \/ ParseFails(c)
      PROVE  PassesClean(b) /\ StaysClosed(b)
  BY <1>1 DEF CreateBuildRow, AddJobs, ParseFails, PassesClean, StaysClosed, Finished, TablesOK
<1>2. ASSUME NEW r \in late, HandleLate(r) PROVE PassesClean(b) /\ StaysClosed(b)
  <2>1. r.job \in Job /\ r.agent \in Agent /\ r.exit \in ExitCode
    BY <1>2 DEF Request
  <2> QED BY <1>2, <2>1, HandlerMovesBuild DEF HandleLate
<1> QED BY <1>1, <1>2 DEF ServerNext, DeliverHook

LEMMA OperatorMovesBuild ==
    ASSUME TablesOK, OperatorNext, NEW b \in Build
    PROVE  PassesClean(b) /\ StaysClosed(b)
  BY BuildOfAssumption
     DEF OperatorNext, CancelBuild, CleanupOldBuilds, CancelJob, Drain, Undrain, GoStale,
         ReapOfflineAgents, PassesClean, StaysClosed, Finished, TablesOK

LEMMA NoMoveOfBuild ==
    ASSUME buildStatus' = buildStatus, NEW b \in Build
    PROVE  PassesClean(b) /\ StaysClosed(b)
  BY DEF PassesClean, StaysClosed, Finished

LEMMA NextMovesBuild ==
    ASSUME TypeOK, [Next]_vars, NEW b \in Build
    PROVE  PassesClean(b) /\ StaysClosed(b)
<1>0. TablesOK /\ late \subseteq Request
  BY DEF TypeOK, ProcessesOK
<1>1. CASE ServerNext
  BY <1>0, <1>1, ServerMovesBuild
<1>2. CASE AgentNext
  <2>1. ASSUME NEW a \in Agent, ClaimGranted(a) \/ Start(a) \/ Complete(a)
        PROVE  PassesClean(b) /\ StaysClosed(b)
    <3>1. held[a] \in Job /\ exitCode[a] \in ExitCode
      BY <2>1 DEF ClaimGranted, Start, Complete, TypeOK, ProcessesOK
    <3> QED BY <1>0, <2>1, <3>1, HandlerMovesBuild DEF ClaimGranted, Start, Complete
  <2> QED BY <1>2, <2>1, NoMoveOfBuild
          DEF AgentNext, AgentStart, RegisterAgent, Heartbeat, Poll, ClaimRefused, RefuseClaim,
              Execute, GiveUp, AgentCrash, serverVars
<1>3. CASE OperatorNext
  BY <1>0, <1>3, OperatorMovesBuild
<1>4. CASE UNCHANGED vars
  BY <1>4, NoMoveOfBuild DEF vars, serverVars
<1> QED BY <1>1, <1>2, <1>3, <1>4 DEF Next

\* The step that declares a build PASSED leaves no failed and no pending job in it.
THEOREM PassesClear == Spec => PassesOnlyWithoutFailure
<1>1. TypeOK /\ [Next]_vars => \A b \in Build : PassesClean(b)
  BY NextMovesBuild
<1>2. (\A b \in Build : PassesClean(b)) =>
        \A b \in Build : buildStatus[b] # "passed" /\ buildStatus'[b] = "passed" =>
            \A j \in JobsOf(b) : jobStatus'[j] \notin {"failed", "pending"}
  BY DEF PassesClean
<1> QED BY <1>1, <1>2, TypeCorrect, PTL DEF Spec, PassesOnlyWithoutFailure

\* A build that left PENDING never returns to it, and a finished build never
\* returns to RUNNING.
THEOREM NeverReopened == Spec => BuildNeverReopens
<1>1. TypeOK /\ [Next]_vars => \A b \in Build : StaysClosed(b)
  BY NextMovesBuild
<1>2. (\A b \in Build : StaysClosed(b)) =>
        \A b \in Build :
          /\ buildStatus[b] \notin {"absent", "pending"} => buildStatus'[b] # "pending"
          /\ Finished(b) => buildStatus'[b] # "running"
  BY DEF StaysClosed
<1> QED BY <1>1, <1>2, TypeCorrect, PTL DEF Spec, BuildNeverReopens

(***************************************************************************)
(* BuildServer implements AttemptLedger                                    *)
(***************************************************************************)

\* The offers and the workers of the ledger, as functions of the tables, of the
\* agents' loops and of the late requests.
OfferedJobs == {j \in Job : jobStatus[j] = "pending"}

LEMMA LedgerGrant ==
    ASSUME TypeOK, NEW j \in Job, NEW a \in Agent, GrantClaim(j, a),
           NEW w \in Agent \cup {NoAgent},
           \A k \in Job : WorkerOf(k)' = IF k = j THEN w ELSE WorkerOf(k)
    PROVE  Ledger!Next
<1>1. j \in OfferedJobs /\ OfferedJobs' = OfferedJobs \ {j}
  BY DEF GrantClaim, TypeOK, TablesOK, OfferedJobs
<1>2. claims' = [claims EXCEPT ![j] = @ + 1]
  BY DEF GrantClaim
<1>3. Ledger!Grant(j, w)
  BY <1>1, <1>2 DEF Ledger!Grant, OfferedJobs
<1> QED BY <1>3 DEF Ledger!Next

LEMMA LedgerWithdraw ==
    ASSUME \A k \in Job : jobStatus'[k] = "pending" => jobStatus[k] = "pending",
           \A k \in Job : WorkerOf(k)' = WorkerOf(k),
           claims' = claims
    PROVE  Ledger!Next
<1>1. PICK S \in SUBSET Job : S = {k \in Job : jobStatus'[k] # "pending"}
  OBVIOUS
<1>2. Ledger!Withdraw(S)
  BY <1>1 DEF Ledger!Withdraw
<1> QED BY <1>2 DEF Ledger!Next

LEMMA LedgerEnd ==
    ASSUME NEW j \in Job, WorkerOf(j) # NoAgent,
           \A k \in Job : WorkerOf(k)' = IF k = j THEN NoAgent ELSE WorkerOf(k),
           claims' = claims,
           \/ OfferedJobs' = OfferedJobs
           \/ claims[j] <= MaxRetries[j] /\ OfferedJobs' = OfferedJobs \cup {j}
    PROVE  Ledger!Next
<1>1. \/ UNCHANGED OfferedJobs
      \/ claims[j] <= MaxRetries[j] /\ OfferedJobs' = OfferedJobs \cup {j}
  OBVIOUS
<1>2. [k \in Job |-> WorkerOf(k)]' = [[k \in Job |-> WorkerOf(k)] EXCEPT ![j] = NoAgent]
  OBVIOUS
<1>3. Ledger!End(j)
  BY <1>1, <1>2 DEF Ledger!End, OfferedJobs
<1> QED BY <1>3 DEF Ledger!Next

\* An agent gives up a request or dies: the attempt it had ends, or its report
\* joins the late ones and the ledger sees nothing.
LEMMA HandOverStep ==
    ASSUME TypeOK, CustodyInv, NEW a \in Agent, UNCHANGED serverVars,
           late' = late \/ (Calling(a) /\ late' = late \cup {CurrentRequest(a)}),
           \A b \in Agent \ {a}, k \in Job : HasCustody(b, k)' = HasCustody(b, k),
           \A k \in Job : HasCustody(a, k)' => HasCustody(a, k)
    PROVE  Ledger!Next
<1>1. UNCHANGED <<jobStatus, jobAgent, claims>>
  BY DEF serverVars, jobVars
<1>2. \A k \in Job : LateReports(k) \subseteq LateReports(k)'
  BY DEF LateReports
<1>3. \A k \in Job : InHand(k)' => InHand(k)
  <2>1. CASE late' = late
    BY <2>1 DEF InHand, LateReports
  <2>2. CASE Calling(a) /\ late' = late \cup {CurrentRequest(a)}
    <3>1. PICK r \in Request, j \in Job : r = CurrentRequest(a) /\ j = held[a]
      BY <2>2, CurrentRequestType DEF TypeOK
    <3>2. r.op = "complete" => r.job = j /\ HasCustody(a, j)
      BY <2>2, <3>1 DEF Calling, CurrentRequest, CallOf, HasCustody
    <3>3. \A k \in Job : LateReports(k)' \subseteq LateReports(k) \/ HasCustody(a, k)
      BY <2>2, <3>1, <3>2 DEF LateReports
    <3> QED BY <3>3 DEF InHand
  <2> QED BY <2>1, <2>2
<1>4. CASE \A k \in Job : InHand(k) => InHand(k)'
  <2>1. \A k \in Job : WorkerOf(k)' = WorkerOf(k)
    BY <1>1, <1>3, <1>4 DEF WorkerOf
  <2> QED BY <1>1, <2>1, LedgerWithdraw
<1>5. ASSUME NEW j \in Job, InHand(j), ~ InHand(j)' PROVE Ledger!Next
  <2>1. HasCustody(a, j)
    BY <1>2, <1>5 DEF InHand
  <2>2. WorkerOf(j) # NoAgent
    BY <1>5, <2>1, NullAssumption DEF WorkerOf, CustodyInv, WorkerIsRecorded
  <2>3. \A k \in Job : k # j => ~ HasCustody(a, k)
    BY <2>1 DEF HasCustody
  <2>4. \A k \in Job : k # j => InHand(k)' = InHand(k)
    BY <1>2, <1>3, <2>3 DEF InHand
  <2>5. \A k \in Job : WorkerOf(k)' = IF k = j THEN NoAgent ELSE WorkerOf(k)
    BY <1>1, <1>5, <2>4 DEF WorkerOf
  <2>6. OfferedJobs' = OfferedJobs
    BY <1>1 DEF OfferedJobs
  <2> QED BY <1>1, <2>2, <2>5, <2>6, LedgerEnd
<1> QED BY <1>4, <1>5

\* A report that reaches the server ends the attempt it belongs to.
LEMMA ReportStep ==
    ASSUME TypeOK, CustodyInv, TableInv, NEW j \in Job, NEW e \in ExitCode, CompleteJob(j, e),
           NEW a \in Agent, HasCustody(a, j) \/ \E r \in LateReports(j) : r.agent = a,
           ~ InHand(j)',
           \A k \in Job : k # j => InHand(k)' = InHand(k)
    PROVE  Ledger!Next
<1>1. UNCHANGED <<jobAgent, claims>>
  BY DEF CompleteJob, ReportRow, NoSuchJob, serverVars, jobVars
<1>2. jobAgent[j] = a /\ InHand(j) /\ jobStatus[j] # "pending"
  BY DEF CustodyInv, WorkerIsRecorded, PendingJobIsFree, InHand
<1>3. WorkerOf(j) # NoAgent
  BY <1>2, NullAssumption DEF WorkerOf
<1>4. \A k \in Job : WorkerOf(k)' = IF k = j THEN NoAgent ELSE WorkerOf(k)
  BY <1>1 DEF WorkerOf
<1>5. CASE NoSuchJob(j)
  BY <1>1, <1>3, <1>4, <1>5, LedgerEnd DEF NoSuchJob, serverVars, jobVars, OfferedJobs
<1>6. CASE ReportRow(j, e)
  <2>1. \A k \in Job : k # j => jobStatus'[k] = jobStatus[k]
    BY <1>6 DEF ReportRow, TypeOK, TablesOK
  <2>2. CASE jobStatus'[j] # "pending"
    <3>1. OfferedJobs' = OfferedJobs
      BY <1>2, <2>1, <2>2 DEF OfferedJobs
    <3> QED BY <1>1, <1>3, <1>4, <3>1, LedgerEnd
  <2>3. CASE jobStatus'[j] = "pending"
    <3>1. retryCount[j] < MaxRetries[j]
      BY <1>6, <2>3 DEF ReportRow, ReportedStatus, ShouldRetry, TypeOK, TablesOK
    <3>2. claims[j] <= MaxRetries[j]
      BY <1>2, <3>1, MaxRetriesAssumption
         DEF TableInv, AttemptsAreBounded, TypeOK, TablesOK
    <3>3. OfferedJobs' = OfferedJobs \cup {j}
      BY <2>1, <2>3 DEF OfferedJobs
    <3> QED BY <1>1, <1>3, <1>4, <3>2, <3>3, LedgerEnd
  <2> QED BY <2>2, <2>3
<1> QED BY <1>5, <1>6 DEF CompleteJob

\* A step that leaves the loops, the late reports and jobs.agent_id alone.
LEMMA SameWorkers ==
    ASSUME UNCHANGED <<jobAgent>>,
           \A a \in Agent, k \in Job : HasCustody(a, k)' = HasCustody(a, k),
           \A k \in Job : LateReports(k)' = LateReports(k)
    PROVE  \A k \in Job : WorkerOf(k)' = WorkerOf(k)
  BY DEF WorkerOf, InHand

LEMMA ServerStep ==
    ASSUME TypeOK, CustodyInv, TableInv, ServerNext
    PROVE  Ledger!Next
<1>1. ASSUME NEW b \in Build, CreateBuildRow(b) \/ ParseFails(b) PROVE Ledger!Next
  <2>1. UNCHANGED <<jobStatus, jobAgent, claims, phase, held, late>>
    BY <1>1 DEF CreateBuildRow, ParseFails, jobVars, processVars
  <2>2. \A k \in Job : WorkerOf(k)' = WorkerOf(k)
    BY <2>1, SameWorkers DEF HasCustody, LateReports
  <2> QED BY <2>1, <2>2, LedgerWithdraw
<1>2. ASSUME NEW b \in Build, AddJobs(b) PROVE Ledger!Next
  <2>1. UNCHANGED <<jobAgent, claims, phase, held, late>>
    BY <1>2 DEF AddJobs, processVars
  <2>2. \A k \in Job : WorkerOf(k)' = WorkerOf(k)
    BY <2>1, SameWorkers DEF HasCustody, LateReports
  <2>3. PICK S \in SUBSET Job : S = JobsOf(b) \ SkippedStep
    BY DEF JobsOf
  <2>4. \A j \in S : claims[j] = 0 /\ WorkerOf(j) = NoAgent
    BY <1>2, <2>3
       DEF AddJobs, JobsOf, CustodyInv, UntouchedUntilAdded, NotYetAdded, WorkerOf
  <2>5. \A j \in JobsOf(b) : jobStatus[j] = "absent"
    BY <1>2 DEF AddJobs, JobsOf, CustodyInv, UntouchedUntilAdded, NotYetAdded
  <2>6. OfferedJobs' = OfferedJobs \cup S
    BY <1>2, <2>3, <2>5 DEF AddJobs, JobsOf, OfferedJobs
  <2>7. Ledger!Offer(S)
    BY <2>1, <2>2, <2>4, <2>6 DEF Ledger!Offer, OfferedJobs
  <2> QED BY <2>7 DEF Ledger!Next
<1>3. ASSUME NEW r \in late, HandleLate(r) PROVE Ledger!Next
  <2>1. r.job \in Job /\ r.agent \in Agent /\ r.exit \in ExitCode
    BY <1>3 DEF TypeOK, ProcessesOK, Request
  <2>2. \A a \in Agent, k \in Job : HasCustody(a, k)' = HasCustody(a, k)
    BY <1>3 DEF HandleLate, HasCustody, processVars
  <2>3. CASE r.op = "claim" /\ GrantClaim(r.job, r.agent)
    <3>1. \A k \in Job : LateReports(k)' = LateReports(k)
      BY <1>3, <2>3 DEF HandleLate, LateReports
    <3>2. jobStatus[r.job] = "pending" /\ \A k \in Job : k # r.job => jobAgent'[k] = jobAgent[k]
      BY <2>1, <2>3 DEF GrantClaim, TypeOK, TablesOK
    <3>3. ~ InHand(r.job)
      BY <2>1, <3>2 DEF CustodyInv, PendingJobIsFree, InHand
    <3>4. \A k \in Job : WorkerOf(k)' = IF k = r.job THEN NoAgent ELSE WorkerOf(k)
      BY <2>1, <2>2, <3>1, <3>2, <3>3 DEF WorkerOf, InHand
    <3> QED BY <2>1, <2>3, <3>4, LedgerGrant
  <2>4. CASE \/ r.op = "claim" /\ RefuseClaim(r.job)
             \/ r.op = "start" /\ StartJob(r.job)
    <3>1. \A k \in Job : LateReports(k)' = LateReports(k)
      BY <1>3, <2>4 DEF HandleLate, LateReports
    <3>2. UNCHANGED <<jobAgent, claims>>
      BY <2>4 DEF RefuseClaim, StartJob, StartRow, NoSuchJob, serverVars, jobVars
    <3>3. \A k \in Job : jobStatus'[k] = "pending" => jobStatus[k] = "pending"
      BY <2>4 DEF RefuseClaim, StartJob, StartRow, NoSuchJob, serverVars, jobVars, TypeOK,
                  TablesOK
    <3> QED BY <2>2, <3>1, <3>2, <3>3, SameWorkers, LedgerWithdraw
  <2>5. CASE r.op = "complete" /\ CompleteJob(r.job, r.exit)
    <3>1. r \in LateReports(r.job)
      BY <2>5 DEF LateReports
    <3>2. LateReports(r.job)' = {}
      BY <1>3, <2>1, <3>1 DEF HandleLate, LateReports, CustodyInv, AttemptsNeverOverlap
    <3>3. \A a \in Agent : ~ HasCustody(a, r.job)
      BY <2>1, <3>1 DEF CustodyInv, AttemptsNeverOverlap
    <3>4. ~ InHand(r.job)'
      BY <2>1, <2>2, <3>2, <3>3 DEF InHand
    <3>5. \A k \in Job : k # r.job => LateReports(k)' = LateReports(k)
      BY <1>3 DEF HandleLate, LateReports
    <3>6. \A k \in Job : k # r.job => InHand(k)' = InHand(k)
      BY <2>2, <3>5 DEF InHand
    <3> QED BY <2>1, <2>5, <3>1, <3>4, <3>6, ReportStep
  <2> QED BY <1>3, <2>3, <2>4, <2>5 DEF HandleLate
<1> QED BY <1>1, <1>2, <1>3 DEF ServerNext, DeliverHook

LEMMA AgentStep ==
    ASSUME TypeOK, CustodyInv, TableInv, NEW a \in Agent,
           \/ AgentStart(a) \/ Heartbeat(a) \/ Poll(a)
           \/ ClaimGranted(a) \/ ClaimRefused(a) \/ Start(a) \/ Execute(a) \/ Complete(a)
           \/ GiveUp(a) \/ AgentCrash(a)
    PROVE  Ledger!Next
<1> USE DEF TypeOK, ProcessesOK
<1>1. CASE AgentStart(a) \/ Heartbeat(a) \/ Poll(a) \/ ClaimRefused(a) \/ Execute(a)
  <2>1. UNCHANGED <<late, jobStatus, jobAgent, claims>>
    BY <1>1 DEF AgentStart, RegisterAgent, Heartbeat, Poll, ClaimRefused, RefuseClaim, Execute,
                serverVars, jobVars
  <2>2. \A b \in Agent, k \in Job : HasCustody(b, k)' = HasCustody(b, k)
    BY <1>1 DEF AgentStart, Heartbeat, Poll, ClaimRefused, Execute, HasCustody, processVars
  <2> QED BY <2>1, <2>2, SameWorkers, LedgerWithdraw DEF LateReports
<1>2. CASE Start(a)
  <2>1. UNCHANGED <<late, jobAgent, claims>>
    BY <1>2 DEF Start, StartJob, StartRow, NoSuchJob, serverVars, jobVars
  <2>2. \A j \in Job : jobStatus'[j] = "pending" => jobStatus[j] = "pending"
    BY <1>2 DEF Start, StartJob, StartRow, NoSuchJob, serverVars, jobVars, TablesOK
  <2>3. \A b \in Agent, k \in Job : HasCustody(b, k)' = HasCustody(b, k)
    BY <1>2 DEF Start, HasCustody
  <2> QED BY <2>1, <2>2, <2>3, SameWorkers, LedgerWithdraw DEF LateReports
<1>3. CASE ClaimGranted(a)
  <2>1. PICK j \in Job : j = held[a] /\ GrantClaim(j, a)
    BY <1>3 DEF ClaimGranted
  <2>2. \A b \in Agent, k \in Job : HasCustody(b, k)' = (HasCustody(b, k) \/ (b = a /\ k = j))
    BY <1>3, <2>1 DEF ClaimGranted, HasCustody
  <2>3. \A k \in Job : LateReports(k)' = LateReports(k)
    BY <1>3 DEF ClaimGranted, LateReports
  <2>4. \A k \in Job : jobAgent'[k] = IF k = j THEN a ELSE jobAgent[k]
    BY <2>1 DEF GrantClaim, TablesOK
  <2>5. \A k \in Job : WorkerOf(k)' = IF k = j THEN a ELSE WorkerOf(k)
    BY <2>2, <2>3, <2>4 DEF WorkerOf, InHand
  <2> QED BY <2>1, <2>5, LedgerGrant
<1>4. CASE Complete(a)
  <2>1. PICK j \in Job, e \in ExitCode : j = held[a] /\ e = exitCode[a]
    BY <1>4 DEF Complete
  <2>2. HasCustody(a, j) /\ CompleteJob(j, e)
    BY <1>4, <2>1 DEF Complete, HasCustody
  <2>3. \A b \in Agent, k \in Job : HasCustody(b, k)' = (HasCustody(b, k) /\ b # a)
    BY <1>4 DEF Complete, HasCustody
  <2>4. \A k \in Job : LateReports(k)' = LateReports(k)
    BY <1>4 DEF Complete, LateReports
  <2>5. ~ InHand(j)'
    BY <2>2, <2>3, <2>4 DEF InHand, CustodyInv, AttemptsNeverOverlap
  <2>6. \A k \in Job : k # j => ~ HasCustody(a, k)
    BY <2>2 DEF HasCustody
  <2>7. \A k \in Job : k # j => InHand(k)' = InHand(k)
    BY <2>3, <2>4, <2>6 DEF InHand
  <2> QED BY <2>2, <2>5, <2>7, ReportStep
<1>5. CASE GiveUp(a)
  <2>1. \A b \in Agent \ {a}, k \in Job : HasCustody(b, k)' = HasCustody(b, k)
    BY <1>5 DEF GiveUp, HasCustody
  <2>2. \A k \in Job : HasCustody(a, k)' => HasCustody(a, k)
    BY <1>5 DEF GiveUp, Calling, HasCustody
  <2> QED BY <1>5, <2>1, <2>2, HandOverStep DEF GiveUp, LoseOrDelay
<1>6. CASE AgentCrash(a)
  <2>1. \A b \in Agent \ {a}, k \in Job : HasCustody(b, k)' = HasCustody(b, k)
    BY <1>6 DEF AgentCrash, HasCustody
  <2>2. \A k \in Job : ~ HasCustody(a, k)'
    BY <1>6 DEF AgentCrash, HasCustody
  <2> QED BY <1>6, <2>1, <2>2, HandOverStep DEF AgentCrash, LoseOrDelay
<1> QED BY <1>1, <1>2, <1>3, <1>4, <1>5, <1>6

LEMMA OperatorStep ==
    ASSUME TypeOK, OperatorNext
    PROVE  Ledger!Next
<1>1. UNCHANGED <<phase, held, late, jobAgent, claims>>
  BY DEF OperatorNext, CancelBuild, CleanupOldBuilds, CancelJob, Drain, Undrain, GoStale,
         ReapOfflineAgents, jobVars, processVars
<1>2. \A j \in Job : jobStatus'[j] = "pending" => jobStatus[j] = "pending"
  BY DEF OperatorNext, CancelBuild, CleanupOldBuilds, CancelJob, Drain, Undrain, GoStale,
         ReapOfflineAgents, jobVars, TypeOK, TablesOK
<1>3. \A k \in Job : WorkerOf(k)' = WorkerOf(k)
  BY <1>1, SameWorkers DEF HasCustody, LateReports
<1> QED BY <1>1, <1>2, <1>3, LedgerWithdraw

LEMMA LedgerInit == Init => Ledger!Init
  BY DEF Init, Ledger!Init, WorkerOf, InHand, HasCustody, LateReports

LEMMA LedgerNext ==
    TypeOK /\ CustodyInv /\ TableInv /\ [Next]_vars => [Ledger!Next]_Ledger!vars
<1> SUFFICES ASSUME TypeOK, CustodyInv, TableInv, [Next]_vars
             PROVE  [Ledger!Next]_Ledger!vars
  OBVIOUS
<1>1. CASE Next
  BY <1>1, ServerStep, AgentStep, OperatorStep DEF Next, AgentNext
<1>2. CASE UNCHANGED vars
  <2>1. UNCHANGED <<phase, held, late, jobAgent, jobStatus, claims>>
    BY <1>2 DEF vars, serverVars, processVars, jobVars
  <2>2. \A k \in Job : WorkerOf(k)' = WorkerOf(k)
    BY <2>1, SameWorkers DEF HasCustody, LateReports
  <2> QED BY <2>1, <2>2, LedgerWithdraw
<1> QED BY <1>1, <1>2

\* Every behaviour of the server, its agents and its network is a behaviour of
\* the ledger of attempts: an offer is granted once, the attempt ends once, and
\* only an ended attempt with retries left is offered again.
THEOREM ImplementsLedger == Spec => KeepsLedger
  BY TypeCorrect, CustodyHolds, TablesHold, LedgerInit, LedgerNext, PTL
     DEF Spec, KeepsLedger, Ledger!Spec
=============================================================================
