-------------------------- MODULE TriggerSchedule --------------------------
(***************************************************************************)
(* Pipeline triggers: the functions of core/triggers.py, which keep rows   *)
(* in the database and, in memory, an iterator over the due times of each. *)
(* What matters of an iterator is the cron expression it was made from,    *)
(* and of the next_run of a row, the expression whose iterator gave it.    *)
(*                                                                         *)
(* should_run compares the naive time of an iterator with an aware one:    *)
(* the TypeError leaves check_and_run_triggers, so no trigger ever gets a  *)
(* build and the module makes none.  (The endpoints of /api/triggers name  *)
(* a class the server never imports and change nothing.)                   *)
(***************************************************************************)
EXTENDS Naturals

CONSTANTS
    Trigger,       \* ids of triggers
    Expression,    \* cron expressions, numbered from 1
    BadCron        \* an expression that does not parse

ASSUME TriggerAssumption ==
    /\ Expression \subseteq Nat \ {0}
    /\ BadCron \in Nat \ (Expression \union {0})

Cron == Expression \union {BadCron}

VARIABLES
    row,         \* [Trigger -> the expression of the row, 0: no row]
    armed,       \* triggers whose row is enabled
    nextRun,     \* [Trigger -> the expression next_run was taken from, 0: none is shown]
    iterator,    \* [Trigger -> the expression of its iterator, 0: it has none]
    unfiled      \* the iterator under the id None

triggerVars == <<row, armed, nextRun, iterator, unfiled>>

TriggerInit ==
    /\ row = [i \in Trigger |-> 0] /\ armed = {}
    /\ nextRun = [i \in Trigger |-> 0]
    /\ iterator = [i \in Trigger |-> 0] /\ unfiled = 0

\* Mutants: add_trigger that leaves the iterator of a trigger that has one, and one
\* that files an expression without parsing it.
AddedOnce(it, expression) == IF expression = BadCron \/ it # 0 THEN it ELSE expression
AddedUnparsed(it, expression) == expression

\* add_trigger: an expression that does not parse leaves the iterator there was.
Added(it, expression) == IF expression = BadCron THEN it ELSE expression

\* The row of a new trigger has no id yet: the iterator is filed under None, where
\* nobody looks for it, and next_run is taken from what is there.
CreateTrigger(i, expression, on) ==
    /\ row[i] = 0 /\ row' = [row EXCEPT ![i] = expression]
    /\ armed' = IF on THEN armed \union {i} ELSE armed
    /\ unfiled' = IF on THEN Added(unfiled, expression) ELSE unfiled
    /\ nextRun' = [nextRun EXCEPT ![i] = IF on THEN unfiled' ELSE 0]
    /\ UNCHANGED iterator

\* A new expression, or none (given is 0); switched on, off or left as it is.
UpdateTrigger(i, given, switch) ==
    LET expression == IF given = 0 THEN row[i] ELSE given
        edits == given # 0 /\ i \in armed
        edited == IF edits THEN Added(iterator[i], expression) ELSE iterator[i]
        Shows(it, shown) ==
            iterator' = [iterator EXCEPT ![i] = it] /\ nextRun' = [nextRun EXCEPT ![i] = shown]
    IN  /\ row[i] # 0 /\ row' = [row EXCEPT ![i] = expression]
        /\ \/ /\ switch = "keep" /\ armed' = armed
              /\ Shows(edited, IF edits THEN edited ELSE nextRun[i])
           \/ /\ switch = "on" /\ armed' = armed \union {i}
              /\ Shows(Added(edited, expression), Added(edited, expression))
           \/ /\ switch = "off" /\ armed' = armed \ {i}
              /\ Shows(0, 0)
        /\ UNCHANGED unfiled

DeleteTrigger(i) ==
    /\ row[i] # 0 /\ row' = [row EXCEPT ![i] = 0] /\ armed' = armed \ {i}
    /\ nextRun' = [nextRun EXCEPT ![i] = 0]
    /\ iterator' = [iterator EXCEPT ![i] = 0]
    /\ UNCHANGED unfiled

\* The server restarts: the iterators are gone.
RestartTriggers ==
    /\ iterator' = [i \in Trigger |-> 0] /\ unfiled' = 0
    /\ UNCHANGED <<row, armed, nextRun>>

\* The iterator get_pending_triggers looks at: a missing one is made.
Known(i) == IF iterator[i] # 0 THEN iterator[i] ELSE Added(0, row[i])

\* should_run looks at the next time of an iterator: the comparison raises.
Raises(i) == Known(i) # 0

\* check_and_run_triggers goes through the enabled rows, files the missing
\* iterators and commits their next_run, until the first one that raises; before
\* are those it came to first.
Check ==
    \E before \in SUBSET {i \in armed : ~Raises(i)}, reached \in SUBSET armed :
        /\ \/ reached = {} /\ before = armed
           \/ \E i \in armed : Raises(i) /\ reached = {i}
        /\ iterator' = [i \in Trigger |-> IF i \in reached THEN Known(i) ELSE iterator[i]]
        /\ nextRun' = [i \in Trigger |->
                         IF i \in before \union reached /\ iterator[i] = 0 THEN Known(i)
                         ELSE nextRun[i]]
        /\ UNCHANGED <<row, armed, unfiled>>

TriggerNext ==
    \/ Check \/ RestartTriggers
    \/ \E i \in Trigger, expression \in Cron, on \in BOOLEAN : CreateTrigger(i, expression, on)
    \/ \E i \in Trigger, given \in Cron \union {0}, switch \in {"on", "off", "keep"} :
          UpdateTrigger(i, given, switch)
    \/ \E i \in Trigger : DeleteTrigger(i)

TriggerSpec == TriggerInit /\ [][TriggerNext]_triggerVars

-----------------------------------------------------------------------------
(* Properties. *)

TriggerTypeOK ==
    /\ row \in [Trigger -> Cron \union {0}]
    /\ armed \subseteq {i \in Trigger : row[i] # 0}
    /\ nextRun \in [Trigger -> Expression \union {0}]
    /\ iterator \in [Trigger -> Expression \union {0}] /\ unfiled \in Expression \union {0}

\* Whatever is edited, switched, deleted, created again, restarted or checked in
\* vain: a trigger that is off or gone has no iterator and shows no next run, and
\* one whose expression parses never runs by, nor shows, the time of another
\* expression, be it one it had before or the one last filed under None.
ScheduleFollowsRow ==
    \A i \in Trigger :
        /\ i \notin armed => iterator[i] = 0 /\ nextRun[i] = 0
        /\ row[i] \in Expression => {iterator[i], nextRun[i]} \subseteq {0, row[i]}
=============================================================================
