----------------------- MODULE TriggerSchedule_proofs -----------------------
(***************************************************************************)
(* Why no trigger runs by the schedule of another expression, for any      *)
(* triggers and expressions.  The property is inductive with the types: a  *)
(* trigger that is off has nothing a later expression could disagree with. *)
(***************************************************************************)
EXTENDS TriggerSchedule, TLAPS

TriggerInv == TriggerTypeOK /\ ScheduleFollowsRow

\* An iterator that is filed is the old one or that of the expression.
LEMMA AddedIs ==
    ASSUME NEW it \in Expression \union {0}, NEW expression \in Cron
    PROVE  /\ Added(it, expression) \in Expression \union {0}
           /\ expression \in Expression => Added(it, expression) = expression
  BY TriggerAssumption DEF Added, Cron

LEMMA TriggerInvInit == TriggerInit => TriggerInv
  BY TriggerAssumption DEF TriggerInit, TriggerInv, TriggerTypeOK, ScheduleFollowsRow

\* A step that concerns one trigger, which it leaves with a row, an iterator and
\* a next run that agree.
LEMMA OneTriggerChanges ==
    ASSUME TriggerInv, NEW i \in Trigger, NEW e \in Cron \union {0}, NEW on \in BOOLEAN,
           NEW it \in Expression \union {0}, NEW shown \in Expression \union {0},
           row' = [row EXCEPT ![i] = e],
           armed' = IF on THEN armed \union {i} ELSE armed \ {i},
           iterator' = [iterator EXCEPT ![i] = it], nextRun' = [nextRun EXCEPT ![i] = shown],
           unfiled' \in Expression \union {0},
           on => e # 0, ~ on => it = 0 /\ shown = 0,
           e \in Expression => it \in {0, e} /\ shown \in {0, e}
    PROVE  TriggerInv'
<1>1. \A j \in Trigger :
        /\ row'[j] = (IF j = i THEN e ELSE row[j])
        /\ iterator'[j] = (IF j = i THEN it ELSE iterator[j])
        /\ nextRun'[j] = (IF j = i THEN shown ELSE nextRun[j])
        /\ j \in armed' <=> (IF j = i THEN on ELSE j \in armed)
  BY DEF TriggerInv, TriggerTypeOK
<1>2. TriggerTypeOK'
  <2>1. armed' \subseteq {j \in Trigger : row'[j] # 0}
    BY <1>1 DEF TriggerInv, TriggerTypeOK
  <2> QED BY <2>1 DEF TriggerInv, TriggerTypeOK
<1>3. ScheduleFollowsRow'
  BY <1>1 DEF TriggerInv, ScheduleFollowsRow
<1> QED BY <1>2, <1>3 DEF TriggerInv

LEMMA CreateKeeps ==
    ASSUME TriggerInv, NEW i \in Trigger, NEW expression \in Cron, NEW on \in BOOLEAN,
           CreateTrigger(i, expression, on)
    PROVE  TriggerInv'
<1>1. expression # 0 /\ unfiled \in Expression \union {0} /\ i \notin armed /\ iterator[i] = 0
  BY TriggerAssumption
     DEF Cron, TriggerInv, TriggerTypeOK, ScheduleFollowsRow, CreateTrigger
<1> DEFINE shown == IF on THEN Added(unfiled, expression) ELSE 0
<1>2. shown \in Expression \union {0} /\ (expression \in Expression => shown \in {0, expression})
  BY <1>1, AddedIs
<1>3. /\ row' = [row EXCEPT ![i] = expression]
      /\ armed' = IF on THEN armed \union {i} ELSE armed \ {i}
      /\ iterator' = [iterator EXCEPT ![i] = 0]
      /\ nextRun' = [nextRun EXCEPT ![i] = shown]
      /\ unfiled' \in Expression \union {0}
  BY <1>1, AddedIs DEF CreateTrigger, TriggerInv, TriggerTypeOK
<1>4. ~ on => shown = 0
  OBVIOUS
<1> HIDE DEF shown
<1> QED BY <1>1, <1>2, <1>3, <1>4, OneTriggerChanges

LEMMA UpdateKeeps ==
    ASSUME TriggerInv, NEW i \in Trigger, NEW given \in Cron \union {0},
           NEW switch \in {"on", "off", "keep"}, UpdateTrigger(i, given, switch)
    PROVE  TriggerInv'
<1> DEFINE expression == IF given = 0 THEN row[i] ELSE given
           edits == given # 0 /\ i \in armed
           edited == IF edits THEN Added(iterator[i], expression) ELSE iterator[i]
           again == Added(edited, expression)
           kept == IF edits THEN edited ELSE nextRun[i]
<1>1. /\ expression \in Cron /\ expression # 0 /\ unfiled' \in Expression \union {0}
      /\ iterator[i] \in Expression \union {0} /\ nextRun[i] \in Expression \union {0}
      /\ row' = [row EXCEPT ![i] = expression]
  BY TriggerAssumption DEF UpdateTrigger, TriggerInv, TriggerTypeOK, Cron
<1>2. \/ /\ armed' = armed /\ iterator' = [iterator EXCEPT ![i] = edited]
         /\ nextRun' = [nextRun EXCEPT ![i] = kept]
      \/ /\ armed' = armed \union {i} /\ iterator' = [iterator EXCEPT ![i] = again]
         /\ nextRun' = [nextRun EXCEPT ![i] = again]
      \/ /\ armed' = armed \ {i} /\ iterator' = [iterator EXCEPT ![i] = 0]
         /\ nextRun' = [nextRun EXCEPT ![i] = 0]
  BY DEF UpdateTrigger
<1>3. i \notin armed => iterator[i] = 0 /\ nextRun[i] = 0
  BY DEF TriggerInv, ScheduleFollowsRow
<1>4. row[i] \in Expression => iterator[i] \in {0, row[i]} /\ nextRun[i] \in {0, row[i]}
  BY DEF TriggerInv, ScheduleFollowsRow
<1>5. /\ edited \in Expression \union {0} /\ kept \in Expression \union {0}
      /\ i \notin armed => edited = 0 /\ kept = 0
      /\ expression \in Expression => edited \in {0, expression} /\ kept \in {0, expression}
  <2>1. CASE edits
    <3> HIDE DEF expression
    <3>1. Added(iterator[i], expression) \in Expression \union {0}
      BY <1>1, AddedIs
    <3>2. expression \in Expression => Added(iterator[i], expression) = expression
      BY <1>1, AddedIs
    <3> QED BY <2>1, <3>1, <3>2
  <2>2. CASE ~ edits
    <3>1. edited = iterator[i] /\ kept = nextRun[i]
      BY <2>2
    <3>2. i \notin armed \/ expression = row[i]
      BY <2>2
    <3> HIDE DEF expression, edited, kept
    <3> QED BY <1>1, <1>3, <1>4, <3>1, <3>2
  <2> QED BY <2>1, <2>2
<1> HIDE DEF expression, edited, kept, edits
<1>6. again \in Expression \union {0} /\ (expression \in Expression => again = expression)
  BY <1>1, <1>5, AddedIs
<1> HIDE DEF again
<1>7. CASE /\ armed' = armed /\ iterator' = [iterator EXCEPT ![i] = edited]
           /\ nextRun' = [nextRun EXCEPT ![i] = kept]
  <2>1. PICK on \in BOOLEAN : on <=> i \in armed
    OBVIOUS
  <2>2. armed' = IF on THEN armed \union {i} ELSE armed \ {i}
    BY <1>7, <2>1
  <2> QED BY <1>1, <1>5, <1>7, <2>1, <2>2, OneTriggerChanges
<1>8. CASE /\ armed' = armed \union {i} /\ iterator' = [iterator EXCEPT ![i] = again]
           /\ nextRun' = [nextRun EXCEPT ![i] = again]
  <2>1. TRUE \in BOOLEAN /\ armed' = IF TRUE THEN armed \union {i} ELSE armed \ {i}
    BY <1>8
  <2> QED BY <1>1, <1>6, <1>8, <2>1, OneTriggerChanges
<1>9. CASE /\ armed' = armed \ {i} /\ iterator' = [iterator EXCEPT ![i] = 0]
           /\ nextRun' = [nextRun EXCEPT ![i] = 0]
  <2>1. FALSE \in BOOLEAN /\ armed' = IF FALSE THEN armed \union {i} ELSE armed \ {i}
    BY <1>9
  <2> QED BY <1>1, <1>9, <2>1, OneTriggerChanges
<1> QED BY <1>2, <1>7, <1>8, <1>9

LEMMA DeleteKeeps ==
    ASSUME TriggerInv, NEW i \in Trigger, DeleteTrigger(i)
    PROVE  TriggerInv'
<1>1. 0 \notin Expression /\ FALSE \in BOOLEAN /\ armed' = IF FALSE THEN armed \union {i} ELSE armed \ {i}
  BY TriggerAssumption DEF DeleteTrigger
<1>2. unfiled' \in Expression \union {0}
  BY DEF DeleteTrigger, TriggerInv, TriggerTypeOK
<1> QED BY <1>1, <1>2, OneTriggerChanges DEF DeleteTrigger

LEMMA RestartKeeps == TriggerInv /\ RestartTriggers => TriggerInv'
  BY DEF RestartTriggers, TriggerInv, TriggerTypeOK, ScheduleFollowsRow

LEMMA KnownIs ==
    ASSUME TriggerInv, NEW i \in armed
    PROVE  /\ Known(i) \in Expression \union {0}
           /\ row[i] \in Expression => Known(i) = row[i]
<1>1. /\ i \in Trigger /\ row[i] \in Cron /\ iterator[i] \in Expression \union {0}
      /\ row[i] \in Expression => iterator[i] \in {0, row[i]}
  BY DEF TriggerInv, TriggerTypeOK, ScheduleFollowsRow
<1>2. Added(0, row[i]) \in Expression \union {0} /\ (row[i] \in Expression => Added(0, row[i]) = row[i])
  BY <1>1, AddedIs
<1> QED BY <1>1, <1>2 DEF Known

LEMMA CheckKeeps == TriggerInv /\ Check => TriggerInv'
<1> SUFFICES ASSUME TriggerInv, Check PROVE TriggerInv'
  OBVIOUS
<1>1. PICK reached \in SUBSET armed, shown \in SUBSET armed :
        /\ iterator' = [i \in Trigger |-> IF i \in reached THEN Known(i) ELSE iterator[i]]
        /\ nextRun' = [i \in Trigger |-> IF i \in shown THEN Known(i) ELSE nextRun[i]]
  <2>1. PICK before \in SUBSET armed, reached \in SUBSET armed :
          /\ iterator' = [i \in Trigger |-> IF i \in reached THEN Known(i) ELSE iterator[i]]
          /\ nextRun' = [i \in Trigger |->
                           IF i \in before \union reached /\ iterator[i] = 0 THEN Known(i)
                           ELSE nextRun[i]]
    BY DEF Check
  <2> DEFINE shown == {i \in before \union reached : iterator[i] = 0}
  <2>2. shown \in SUBSET armed
    OBVIOUS
  <2>3. nextRun' = [i \in Trigger |-> IF i \in shown THEN Known(i) ELSE nextRun[i]]
    BY <2>1
  <2> HIDE DEF shown
  <2> QED BY <2>1, <2>2, <2>3
<1>2. UNCHANGED <<row, armed, unfiled>>
  BY DEF Check
<1>3. \A i \in Trigger :
        /\ iterator'[i] = (IF i \in reached THEN Known(i) ELSE iterator[i])
        /\ nextRun'[i] = (IF i \in shown THEN Known(i) ELSE nextRun[i])
  BY <1>1
<1>4. \A i \in armed : /\ Known(i) \in Expression \union {0}
                       /\ row[i] \in Expression => Known(i) = row[i]
  BY KnownIs
<1>5. TriggerTypeOK'
  BY <1>1, <1>2, <1>4 DEF TriggerInv, TriggerTypeOK
<1>6. ScheduleFollowsRow'
  BY <1>2, <1>3, <1>4 DEF TriggerInv, ScheduleFollowsRow
<1> QED BY <1>5, <1>6 DEF TriggerInv

LEMMA TriggerInvStep == TriggerInv /\ [TriggerNext]_triggerVars => TriggerInv'
<1> SUFFICES ASSUME TriggerInv, [TriggerNext]_triggerVars PROVE TriggerInv'
  OBVIOUS
<1>1. CASE UNCHANGED triggerVars
  BY <1>1 DEF triggerVars, TriggerInv, TriggerTypeOK, ScheduleFollowsRow
<1>2. CASE Check \/ RestartTriggers
  BY <1>2, CheckKeeps, RestartKeeps
<1>3. CASE \E i \in Trigger, expression \in Cron, on \in BOOLEAN : CreateTrigger(i, expression, on)
  BY <1>3, CreateKeeps
<1>4. CASE \E i \in Trigger, given \in Cron \union {0}, switch \in {"on", "off", "keep"} :
             UpdateTrigger(i, given, switch)
  BY <1>4, UpdateKeeps
<1>5. CASE \E i \in Trigger : DeleteTrigger(i)
  BY <1>5, DeleteKeeps
<1> QED BY <1>1, <1>2, <1>3, <1>4, <1>5 DEF TriggerNext

\* Through any edits, switches, deletions, restarts and failed checks, no trigger
\* that is off is scheduled, and none runs by or shows another expression's times.
THEOREM SchedulesFollowRows == TriggerSpec => []ScheduleFollowsRow
<1>1. TriggerInv => ScheduleFollowsRow
  BY DEF TriggerInv
<1> QED BY <1>1, TriggerInvInit, TriggerInvStep, PTL DEF TriggerSpec

\* The variables keep their types, and no trigger without a row is enabled.
THEOREM TriggerTypeCorrect == TriggerSpec => []TriggerTypeOK
<1>1. TriggerInv => TriggerTypeOK
  BY DEF TriggerInv
<1> QED BY <1>1, TriggerInvInit, TriggerInvStep, PTL DEF TriggerSpec
=============================================================================
