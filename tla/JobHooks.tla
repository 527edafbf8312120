------------------------------ MODULE JobHooks ------------------------------
(***************************************************************************)
(* One job inside Agent.execute_job, which BuildServer's Execute takes in  *)
(* one step: the middleware, the plugins' hooks before and after, the      *)
(* command, and the ways an exception leaves each of them.  Hooks are      *)
(* foreign code: they return what they were given, or something else, or   *)
(* nothing (as one does that forgets its return); they raise an exception, *)
(* or raise another one from the on_error that is told of it.              *)
(***************************************************************************)
EXTENDS Naturals, Integers, Sequences, SequencesExt

CONSTANTS
    Plugins,       \* the plugins of the agent, in the order they were given
    Unkind,        \* those whose on_error may raise
    Meddlers,      \* those that may return another result, or no context or result
    Metrics,       \* the MetricsPlugin among them
    Middlewares,   \* [order : 0..4, rewrites : BOOLEAN] in the order they were added
    MaxRuns        \* bound: jobs of an agent

ASSUME HookAssumption ==
    /\ Plugins \in Seq(ToSet(Plugins)) /\ IsInjective(Plugins) /\ Metrics \in ToSet(Plugins)
    /\ Unkind \subseteq ToSet(Plugins) /\ Meddlers \subseteq ToSet(Plugins) \ {Metrics}
    /\ \A m \in ToSet(Middlewares) : m.order \in 0 .. 4 /\ m.rewrites \in BOOLEAN
    /\ MaxRuns \in Nat

VARIABLES
    phase,       \* where execute_job is
    turn,        \* the next plugin of a dispatch
    enabled,     \* the plugins that are switched on
    jobCommand,  \* job["command"]: as it came, rewritten by middleware, or by a hook
    command,     \* context.command, which the hooks see; "none": there is no context
    exitCode,    \* the local exit_code of execute_job
    answer,      \* what execute_job returns
    result,      \* result.exit_code as the hooks hand it on, or Nothing
    before,      \* plugins whose pre_execute ran for this job
    seen,        \* [plugin -> exit code its post_execute was given, or Nothing]
    counted,     \* MetricsPlugin: jobs started, passed, failed
    reports,     \* history: jobs the agent reported as passed, as failed
    ran          \* jobs begun

hookVars == <<phase, turn, enabled, jobCommand, command, exitCode, answer, result,
              before, seen, counted, reports, ran>>

Hooked == ToSet(Plugins)
Nothing == 9
Unseen == [p \in Hooked |-> Nothing]

HookInit ==
    /\ phase = "idle" /\ turn = 1 /\ enabled \in SUBSET Hooked
    /\ jobCommand = "job" /\ command = "job"
    /\ exitCode = -1 /\ answer = -1 /\ result = Nothing /\ before = {} /\ seen = Unseen
    /\ counted = [total |-> 0, passed |-> 0, failed |-> 0]
    /\ reports = [passed |-> 0, failed |-> 0] /\ ran = 0

\* MiddlewareChain keeps its members sorted by order, each new one last among
\* its equals; what a member raises is swallowed.
Chain == SortSeq(Middlewares, LAMBDA m, n : m.order < n.order)

Processed == {"job"} \union {IF Chain[i].rewrites THEN "middleware" ELSE "job" : i \in DOMAIN Chain}

\* The context of the hooks is copied from the job before the middleware runs.
BeginJobRun ==
    /\ phase = "idle" /\ ran < MaxRuns /\ ran' = ran + 1
    /\ command' = "job"
    /\ jobCommand' \in Processed
    /\ phase' = "pre" /\ turn' = 1
    /\ exitCode' = -1 /\ answer' = -1 /\ result' = Nothing /\ before' = {} /\ seen' = Unseen
    /\ UNCHANGED <<enabled, counted, reports>>

\* The plugin whose turn it is in the dispatch of phase ph.
Turn(ph) == phase = ph /\ turn <= Len(Plugins)
Plugin == Plugins[turn]

NextTurn == turn' = turn + 1 /\ UNCHANGED phase

\* A plugin that is switched off is passed over.
IsOn(p) == p \in enabled

\* on_error raises (a well-meant one reads the context it is not given): out of
\* dispatch_pre_execute, or out of the finally clause of execute_job, up to the
\* top of the agent's process.
HookKillsAgent(ph) ==
    /\ Turn(ph) /\ IsOn(Plugin)
    /\ Plugin \in Unkind \/ (command = "none" /\ Plugin # Metrics)
    /\ phase' = "dead"
    /\ UNCHANGED <<turn, enabled, jobCommand, command, exitCode, answer, result,
                   before, seen, counted, reports, ran>>

SkipDisabled(ph) ==
    /\ Turn(ph) /\ ~IsOn(Plugin) /\ NextTurn
    /\ UNCHANGED <<enabled, jobCommand, command, exitCode, answer, result,
                   before, seen, counted, reports, ran>>

\* MetricsPlugin hands on what it was given; any other hook may change the
\* context, a meddler may lose it.  A hook that raises leaves it as it was.
ContextAfter(p) ==
    {command} \union (IF p = Metrics \/ command = "none" THEN {} ELSE {"hook"})
              \union (IF p \in Meddlers THEN {"hook", "none"} ELSE {})

\* That a hook raises stops nothing: a job that ValidationPlugin refuses is run.
PreHook ==
    /\ Turn("pre") /\ IsOn(Plugin) /\ NextTurn
    /\ before' = before \union {Plugin}
    /\ command' \in ContextAfter(Plugin)
    /\ counted' = IF Plugin = Metrics THEN [counted EXCEPT !.total = @ + 1] ELSE counted
    /\ UNCHANGED <<enabled, jobCommand, exitCode, answer, result, seen, reports, ran>>

\* The job takes over what the context says: the middleware's work is lost.
\* Without a context that raises, outside the try of execute_job.
HooksDone ==
    /\ phase = "pre" /\ turn > Len(Plugins)
    /\ IF command = "none" THEN phase' = "dead" /\ UNCHANGED jobCommand
                           ELSE phase' = "run" /\ jobCommand' = command
    /\ UNCHANGED <<turn, enabled, command, exitCode, answer, result, before,
                   seen, counted, reports, ran>>

\* The command ends with some exit code; that it is refused, times out or
\* raises counts as -1.  The hooks are given the local exit_code.
CommandReturns == answer' \in {-1, 0, 1} /\ UNCHANGED exitCode /\ result' = exitCode
CommandEnds == exitCode' \in {-1, 0, 1} /\ answer' = exitCode' /\ result' = exitCode'

RunCommand ==
    /\ phase = "run" /\ CommandEnds
    /\ phase' = "post" /\ turn' = 1
    /\ UNCHANGED <<enabled, jobCommand, command, before, seen, counted, reports, ran>>

\* The result goes from hook to hook.  One that raises leaves it as it was, and
\* MetricsPlugin raises, before it has counted, when there is none.
Counted(was, code) ==
    IF code = 0 THEN [was EXCEPT !.passed = @ + 1] ELSE [was EXCEPT !.failed = @ + 1]
ResultAfter(p) == {result} \union IF p \in Meddlers THEN {-1, 0, 1, Nothing} ELSE {}

PostHook ==
    /\ Turn("post") /\ IsOn(Plugin) /\ NextTurn
    /\ seen' = [seen EXCEPT ![Plugin] = result]
    /\ result' \in ResultAfter(Plugin)
    /\ counted' = IF Plugin = Metrics /\ result # Nothing THEN Counted(counted, result) ELSE counted
    /\ UNCHANGED <<enabled, jobCommand, command, exitCode, answer, before, reports, ran>>

\* What the hooks made of the result is dropped.
Returns ==
    /\ phase = "post" /\ turn > Len(Plugins) /\ phase' = "report"
    /\ UNCHANGED <<turn, enabled, jobCommand, command, exitCode, answer, result,
                   before, seen, counted, reports, ran>>

\* The agent reports what execute_job returned.
ReportRun ==
    /\ phase = "report" /\ phase' = "idle"
    /\ reports' = Counted(reports, answer)
    /\ UNCHANGED <<turn, enabled, jobCommand, command, exitCode, answer, result,
                   before, seen, counted, ran>>

HookNext ==
    \/ BeginJobRun
    \/ \E ph \in {"pre", "post"} : HookKillsAgent(ph) \/ SkipDisabled(ph)
    \/ PreHook \/ HooksDone \/ RunCommand
    \/ PostHook \/ Returns \/ ReportRun

HookSpec == HookInit /\ [][HookNext]_hookVars

-----------------------------------------------------------------------------
(* Properties. *)

HookTypeOK ==
    /\ phase \in {"idle", "pre", "run", "post", "report", "dead"}
    /\ turn \in 1 .. Len(Plugins) + 1 /\ enabled \subseteq Hooked /\ before \subseteq enabled
    /\ jobCommand \in {"job", "middleware", "hook"} /\ command \in {"job", "hook", "none"}
    /\ {exitCode, answer} \subseteq {-1, 0, 1} /\ result \in {-1, 0, 1, Nothing}
    /\ seen \in [Hooked -> {-1, 0, 1, Nothing}] /\ ran \in 0 .. MaxRuns
    /\ counted \in [{"total", "passed", "failed"} -> 0 .. MaxRuns]
    /\ reports \in [{"passed", "failed"} -> 0 .. MaxRuns]

\* No enabled meddler stands before plugin p.
Undisturbed(p) ==
    \A i, j \in DOMAIN Plugins :
        Plugins[j] = p /\ i < j => Plugins[i] \notin enabled \intersect Meddlers

\* A job is reported only after every enabled plugin saw its beginning and its
\* end, and each of them that no meddler precedes saw the exit code that is
\* reported, whatever the others raised.  So the figures of a MetricsPlugin that
\* none precedes agree, between two jobs, with what the server was told.
ReportedJobIsWrapped ==
    /\ phase = "report" =>
          /\ before = enabled /\ jobCommand = command
          /\ \A p \in enabled : Undisturbed(p) => seen[p] = answer
    /\ phase = "idle" /\ Metrics \in enabled /\ Undisturbed(Metrics) =>
          /\ counted.total = ran
          /\ counted.passed = reports.passed /\ counted.failed = reports.failed
=============================================================================
