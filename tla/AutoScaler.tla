----------------------------- MODULE AutoScaler -----------------------------
(***************************************************************************)
(* The scaling advice of GET /api/scaling/recommendations: a new           *)
(* AutoScaler per request counts agents and jobs and advises to grow, to   *)
(* shrink or neither.  The operators who ask (outside src/) may follow it, *)
(* each some time after asking, and agents start on no other account.      *)
(***************************************************************************)
EXTENDS Naturals, FiniteSets

CONSTANTS
    MinAgents, MaxAgents,      \* ScalingConfig.MIN_AGENTS, MAX_AGENTS
    ScaleUpThreshold,          \* SCALE_UP_THRESHOLD
    QueueThreshold,            \* JOB_QUEUE_THRESHOLD
    Operator,                  \* those who ask for advice and follow it
    MostJobs                   \* bound: jobs unfinished at a time

ASSUME ScalerAssumption ==
    /\ {MinAgents, MaxAgents, ScaleUpThreshold, QueueThreshold, MostJobs} \subseteq Nat
    /\ MinAgents <= MaxAgents
    /\ IsFiniteSet(Operator)

VARIABLES
    fleet,      \* agents by status; their rows are never deleted
    queue,      \* jobs by status
    advice      \* [Operator -> the last advice it was given and has not followed]

scalerVars == <<fleet, queue, advice>>

Total == fleet.idle + fleet.busy + fleet.offline
Unfinished == queue.pending + queue.assigned + queue.running

ScalerInit ==
    /\ fleet = [idle |-> 0, busy |-> 0, offline |-> 0]
    /\ queue = [pending |-> 0, assigned |-> 0, running |-> 0]
    /\ advice = [o \in Operator |-> "no_change"]

Advice == {"scale_up", "scale_down", "no_change"}

Move(f, from, to) == [f EXCEPT ![from] = @ - 1, ![to] = @ + 1]

-----------------------------------------------------------------------------
(* What changes the counts: builds, agents, heartbeats, the reaper. *)

QueueJob ==
    /\ Unfinished < MostJobs
    /\ queue' = [queue EXCEPT !.pending = @ + 1]
    /\ UNCHANGED <<fleet, advice>>

TakeJob ==
    /\ fleet.idle > 0 /\ queue.pending > 0
    /\ fleet' = Move(fleet, "idle", "busy") /\ queue' = Move(queue, "pending", "assigned")
    /\ UNCHANGED advice

BeginJob ==
    /\ queue.assigned > 0 /\ queue' = Move(queue, "assigned", "running")
    /\ UNCHANGED <<fleet, advice>>

EndJob ==
    /\ queue.running > 0 /\ queue' = [queue EXCEPT !.running = @ - 1]
    /\ fleet' = IF fleet.busy > 0 THEN Move(fleet, "busy", "idle") ELSE fleet
    /\ UNCHANGED advice

\* A heartbeat sets IDLE whatever the agent does; a silent agent is reaped.
SetStatus ==
    /\ \E from \in {"idle", "busy", "offline"}, to \in {"idle", "offline"} :
          from # to /\ fleet[from] > 0 /\ fleet' = Move(fleet, from, to)
    /\ UNCHANGED <<queue, advice>>

-----------------------------------------------------------------------------
(* The decision. *)

\* last_scale_up and last_scale_down are None in the AutoScaler of a request:
\* its cooldowns never hold an advice back.
EvaluateScaleUp ==
    \/ queue.pending >= ScaleUpThreshold /\ fleet.idle = 0
    \/ queue.pending > QueueThreshold /\ fleet.idle < 2

EvaluateScaleDown == fleet.busy = 0 /\ queue.pending = 0 /\ queue.running = 0

NeedBeforeLimit ==
    IF Total < MinAgents \/ EvaluateScaleUp THEN "scale_up"
    ELSE IF Total > MaxAgents \/ EvaluateScaleDown THEN "scale_down"
    ELSE "no_change"
Evaluate ==
    IF Total < MinAgents THEN "scale_up"
    ELSE IF Total > MaxAgents THEN "scale_down"
    ELSE IF EvaluateScaleUp THEN "scale_up"
    ELSE IF EvaluateScaleDown THEN "scale_down"
    ELSE "no_change"

GetRecommendation(o) ==
    /\ advice' = [advice EXCEPT ![o] = Evaluate]
    /\ UNCHANGED <<fleet, queue>>

\* The operator starts an agent, which registers, or stops an idle one, which
\* the reaper finds later.
FollowAdvice(o) ==
    /\ \/ advice[o] = "scale_up" /\ fleet' = [fleet EXCEPT !.idle = @ + 1]
       \/ advice[o] = "scale_down" /\ fleet.idle > 0 /\ fleet' = Move(fleet, "idle", "offline")
    /\ advice' = [advice EXCEPT ![o] = "no_change"]
    /\ UNCHANGED queue

ScalerNext ==
    \/ QueueJob \/ TakeJob \/ BeginJob \/ EndJob \/ SetStatus
    \/ \E o \in Operator : GetRecommendation(o) \/ FollowAdvice(o)

ScalerSpec == ScalerInit /\ [][ScalerNext]_scalerVars

-----------------------------------------------------------------------------
(* Properties. *)

ScalerTypeOK ==
    /\ fleet \in [{"idle", "busy", "offline"} -> Nat]
    /\ queue \in [{"pending", "assigned", "running"} -> Nat]
    /\ advice \in [Operator -> Advice]

\* A fleet that grows by advice alone passes its limit by no more than those
\* who were advised before it was reached: since no cooldown keeps a second
\* one from the same advice, the limit alone, in which dead agents count for
\* ever, holds the fleet. (Advice is refused above the limit and not at it, so
\* at the limit the first operator to follow it passes it by one already.)
Advised == {o \in Operator : advice[o] = "scale_up"}
GrowthStopsAtLimit == Total + Cardinality(Advised) <= MaxAgents + Cardinality(Operator)
=============================================================================
