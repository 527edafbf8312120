----------------------------- MODULE MCServices -----------------------------
(***************************************************************************)
(* The components that serve builds from the side, for TLC.  No two of     *)
(* them share a variable, so that every invariant and every step property  *)
(* of one is decided by its own steps: each behaviour moves the one        *)
(* component it chose at first, and leaves the others where they began.    *)
(***************************************************************************)
EXTENDS BuildCache, TriggerSchedule, AutoScaler, PipelineSteps, JobHooks, JobContainers,
        Vault, Artifacts, LiveUpdates, AgentSkills, TokenAccess, TLC

CONSTANTS k1, k2, w1, w2, r1, r2

\* A directory of two files and a single file, one more than the limit allows.
\* Clearing build 1 removes by text: it finds the directory's key.
Sizes == [k \in CacheKey |-> IF k = k1 THEN 2 ELSE 1]
KeysNamingOne == [b \in CacheBuild |-> {k1}]

\* Steps with and without a matrix, with each kind of condition, of each type.
Shape(has, sizes, if) == [has |-> has, sizes |-> sizes, if |-> if]
Shapes ==
    {Shape({"command"}, <<>>, "none"), Shape({"command"}, <<2, 2>>, "key"),
     Shape({"command"}, <<2, 2>>, "matrix.key"), Shape({"command"}, <<2, 0>>, "none"),
     Shape({"command"}, <<1, 2, 2>>, "false"), Shape({"command", "wait"}, <<>>, "error"),
     Shape({"wait"}, <<2>>, "true"), Shape({"block"}, <<>>, "key"), Shape({"trigger"}, <<>>, "none"),
     Shape({}, <<2>>, "none"), Shape({"not_a_mapping"}, <<>>, "none")}

ThreePlugins == <<"env", "metrics", "valid">>
TwoMiddlewares == <<[order |-> 2, rewrites |-> TRUE], [order |-> 0, rewrites |-> FALSE]>>

\* The cache's workers are alike.
Symmetry == Permutations(CacheWorker)

VARIABLE focus

servicesVars == <<cacheVars, triggerVars, scalerVars, stepVars, hookVars, containerVars,
                  vaultVars, artifactVars, liveVars, skillVars, tokenVars, focus>>

\* A component without the focus begins in one of its initial states.
Init ==
    /\ focus \in {"cache", "trigger", "scaler", "steps", "hooks", "containers",
                  "vault", "artifacts", "live", "skills", "tokens"}
    /\ CacheInit /\ TriggerInit /\ ScalerInit /\ LiveInit /\ TokenInit
    /\ StepInit /\ (focus # "steps" => form = "mapping" /\ steps = <<>>)
    /\ HookInit /\ (focus # "hooks" => enabled = Hooked)
    /\ ContainerInit /\ (focus # "containers" => host = {"docker"} /\ runtime = "docker")
    /\ VaultInit /\ (focus # "vault" => fernet = "k1")
    /\ ArtifactInit /\ (focus # "artifacts" => enforced)
    /\ SkillInit /\ (focus # "skills" => tools = {})

Rest(c) ==
    /\ c # "cache" => UNCHANGED cacheVars
    /\ c # "trigger" => UNCHANGED triggerVars
    /\ c # "scaler" => UNCHANGED scalerVars
    /\ c # "steps" => UNCHANGED stepVars
    /\ c # "hooks" => UNCHANGED hookVars
    /\ c # "containers" => UNCHANGED containerVars
    /\ c # "vault" => UNCHANGED vaultVars
    /\ c # "artifacts" => UNCHANGED artifactVars
    /\ c # "live" => UNCHANGED liveVars
    /\ c # "skills" => UNCHANGED skillVars
    /\ c # "tokens" => UNCHANGED tokenVars
    /\ UNCHANGED focus

Next ==
    \/ focus = "cache" /\ CacheNext /\ Rest("cache")
    \/ focus = "trigger" /\ TriggerNext /\ Rest("trigger")
    \/ focus = "scaler" /\ ScalerNext /\ Rest("scaler")
    \/ focus = "steps" /\ StepNext /\ Rest("steps")
    \/ focus = "hooks" /\ HookNext /\ Rest("hooks")
    \/ focus = "containers" /\ ContainerNext /\ Rest("containers")
    \/ focus = "vault" /\ VaultNext /\ Rest("vault")
    \/ focus = "artifacts" /\ ArtifactNext /\ Rest("artifacts")
    \/ focus = "live" /\ LiveNext /\ Rest("live")
    \/ focus = "skills" /\ SkillNext /\ Rest("skills")
    \/ focus = "tokens" /\ TokenNext /\ Rest("tokens")

ServicesSpec == Init /\ [][Next]_servicesVars

\* Every component is typed.
ServicesTypeOK ==
    /\ CacheTypeOK /\ TriggerTypeOK /\ ScalerTypeOK /\ StepTypeOK /\ HookTypeOK /\ ContainerTypeOK
    /\ VaultTypeOK /\ ArtifactTypeOK /\ LiveTypeOK /\ SkillTypeOK /\ TokenTypeOK
=============================================================================
