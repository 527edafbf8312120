---------------------------- MODULE AttemptLedger ----------------------------
(***************************************************************************)
(* What the job queue of CI Engine promises, without builds, rows or       *)
(* requests: a job is offered to the agents, an offer is granted once, a   *)
(* granted job is in the hands of at most one agent until the attempt ends, *)
(* and only an ended attempt of a job with retries left is offered again.  *)
(* BuildServer implements this ledger.                                     *)
(***************************************************************************)
EXTENDS Naturals

CONSTANTS Job, Agent, MaxRetries, Nobody

VARIABLES
    offered,    \* the jobs an agent may claim
    worker,     \* worker[j]: who has the current attempt of j, or Nobody
    attempts    \* attempts[j]: how often j was granted

vars == <<offered, worker, attempts>>

Init ==
    /\ offered = {}
    /\ worker = [j \in Job |-> Nobody]
    /\ attempts = [j \in Job |-> 0]

\* New jobs are offered for the first time.
Offer(S) ==
    /\ \A j \in S : attempts[j] = 0 /\ worker[j] = Nobody
    /\ offered' = offered \cup S
    /\ UNCHANGED <<worker, attempts>>

\* Offers that nobody took are taken back.
Withdraw(S) ==
    /\ offered' = offered \ S
    /\ UNCHANGED <<worker, attempts>>

\* An offer is granted to w, or to an agent that never learns of it (Nobody).
Grant(j, w) ==
    /\ j \in offered
    /\ offered' = offered \ {j}
    /\ worker' = [worker EXCEPT ![j] = w]
    /\ attempts' = [attempts EXCEPT ![j] = @ + 1]

\* The attempt ends; the job may be offered again while it has retries left.
End(j) ==
    /\ worker[j] # Nobody
    /\ worker' = [worker EXCEPT ![j] = Nobody]
    /\ \/ UNCHANGED offered
       \/ /\ attempts[j] <= MaxRetries[j]
          /\ offered' = offered \cup {j}
    /\ UNCHANGED attempts

\* An agent is gone: its attempts end, and none of their jobs is offered again.
Abandon(S) ==
    /\ worker' = [j \in Job |-> IF j \in S THEN Nobody ELSE worker[j]]
    /\ UNCHANGED <<offered, attempts>>

Next ==
    \/ \E S \in SUBSET Job : Offer(S) \/ Withdraw(S) \/ Abandon(S)
    \/ \E j \in Job, w \in Agent \cup {Nobody} : Grant(j, w)
    \/ \E j \in Job : End(j)

Spec == Init /\ [][Next]_vars
=============================================================================
