--------------------------- MODULE PipelineSteps ---------------------------
(***************************************************************************)
(* From a pipeline to the rows of its jobs: parse_pipeline expands the     *)
(* steps one by one, evaluates their conditions, and create_build makes a  *)
(* row of each.  A step is what the parser tells apart: the fields that    *)
(* decide its type, the sizes of its matrix, and its condition.            *)
(***************************************************************************)
EXTENDS Naturals, Sequences, SequencesExt, FiniteSets, FiniteSetsExt

CONSTANTS
    Form,         \* what the text is: a "mapping" with steps, a "list", or a form with no steps
    StepShape,    \* steps: [has : fields, sizes : sizes of the matrix, if : condition]
    MaxSteps      \* bound: steps of a pipeline

Condition == {"none", "true", "false", "error", "matrix.key", "key"}

ASSUME StepAssumption ==
    /\ Form \subseteq {"mapping", "list", "blank", "invalid", "other"}
    /\ \A s \in StepShape :
          /\ s.has \subseteq {"command", "wait", "block", "trigger", "not_a_mapping"}
          /\ s.sizes \in Seq(Nat) /\ s.if \in Condition
    /\ MaxSteps \in Nat

VARIABLES form, steps, read, jobs, parsing

stepVars == <<form, steps, read, jobs, parsing>>

StepInit ==
    /\ form \in Form
    /\ steps \in SeqOf(StepShape, MaxSteps)
    /\ form \notin {"mapping", "list"} => steps = <<>>
    /\ read = 0 /\ jobs = <<>> /\ parsing = "expand"

StepType(s) ==
    IF "command" \in s.has THEN "command"
    ELSE IF "wait" \in s.has THEN "wait"
    ELSE IF "block" \in s.has THEN "block"
    ELSE IF "trigger" \in s.has THEN "trigger"
    ELSE "command"

\* itertools.product over the lists of the matrix: the first key slowest.
Zipped(sizes) == [v \in 1 .. Min({sizes[i] : i \in DOMAIN sizes}) |-> [i \in DOMAIN sizes |-> v]]
Extended(combos, n) ==
    FlattenSeq([c \in DOMAIN combos |-> [v \in 1 .. n |-> Append(combos[c], v)]])
Combinations(sizes) == FoldLeft(Extended, << <<>> >>, sizes)

Row(i, combo, type) ==
    [step |-> i, combo |-> combo, type |-> type, status |-> "PENDING"]

Expandable == parsing = "expand" /\ read < Len(steps)
This == steps[read + 1]

\* A step that is no mapping has no .get: create_build fails, and the build
\* it has committed stays without jobs.
RefuseStep ==
    /\ Expandable /\ "not_a_mapping" \in This.has
    /\ parsing' = "raised" /\ jobs' = <<>>
    /\ UNCHANGED <<form, steps, read>>

\* wait, block, trigger and steps without a matrix are normalised.
NormalizeStep ==
    /\ Expandable /\ "not_a_mapping" \notin This.has
    /\ StepType(This) # "command" \/ This.sizes = <<>>
    /\ jobs' = Append(jobs, Row(read + 1, <<>>, StepType(This)))
    /\ read' = read + 1
    /\ UNCHANGED <<form, steps, parsing>>

\* The steps of a matrix are copies that are not normalised: no step_type.
ExpandMatrix ==
    /\ Expandable /\ "not_a_mapping" \notin This.has
    /\ StepType(This) = "command" /\ This.sizes # <<>>
    /\ LET combos == Combinations(This.sizes) IN
       jobs' = jobs \o [c \in DOMAIN combos |-> Row(read + 1, combos[c], "none")]
    /\ read' = read + 1
    /\ UNCHANGED <<form, steps, parsing>>

\* The matrix variables are merged into the variables under their own names:
\* {{key}} finds one, {{matrix.key}} is None.  What fails to evaluate holds.
EvaluateExpression(condition, combo) ==
    CASE condition = "key" -> combo # <<>> /\ combo[1] = 1
      [] condition \in {"false", "matrix.key"} -> FALSE
      [] OTHER -> TRUE

\* _evaluate_conditionals marks what create_build makes SKIPPED; wait, block
\* and trigger steps become PENDING rows like any other.
MakeRows ==
    /\ parsing = "expand" /\ read = Len(steps)
    /\ jobs' = [n \in DOMAIN jobs |->
                  IF EvaluateExpression(steps[jobs[n].step].if, jobs[n].combo) THEN jobs[n]
                  ELSE [jobs[n] EXCEPT !.status = "SKIPPED"]]
    /\ parsing' = "done"
    /\ UNCHANGED <<form, steps, read>>

StepNext == RefuseStep \/ NormalizeStep \/ ExpandMatrix \/ MakeRows
StepSpec == StepInit /\ [][StepNext]_stepVars

-----------------------------------------------------------------------------
(* Properties. *)

StepTypeOK ==
    /\ form \in Form /\ steps \in Seq(StepShape) /\ read \in 0 .. Len(steps)
    /\ parsing \in {"expand", "raised", "done"}
    /\ jobs \in Seq([step : DOMAIN steps, combo : Seq(Nat),
                     type : {"command", "wait", "block", "trigger", "none"},
                     status : {"PENDING", "SKIPPED"}])

\* The places of a matrix, by definition: one for each choice of a value for
\* every key.  Only command steps have one.
Places(s) ==
    IF StepType(s) = "command"
    THEN {p \in [DOMAIN s.sizes -> 1 .. Max({0} \union ToSet(s.sizes))] :
            \A i \in DOMAIN s.sizes : p[i] <= s.sizes[i]}
    ELSE {<<>>}

\* The rows of a build are its document: every step, at every place of its
\* matrix, is one row; rows come in the order of the steps; and what the
\* places of a step decide differently is only ever a condition that names a
\* key directly.
RowsMirrorPipeline ==
    parsing = "done" =>
        /\ {<<jobs[n].step, jobs[n].combo>> : n \in DOMAIN jobs}
             = UNION {{<<i, p>> : p \in Places(steps[i])} : i \in DOMAIN steps}
        /\ \A m, n \in DOMAIN jobs : m < n =>
             /\ jobs[m].step <= jobs[n].step
             /\ jobs[m].combo # jobs[n].combo \/ jobs[m].step # jobs[n].step
             /\ jobs[m].step = jobs[n].step /\ jobs[m].status # jobs[n].status
                  => steps[jobs[m].step].if = "key"
=============================================================================
