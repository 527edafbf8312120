SPECIFICATION Spec
CONSTANTS
    j1 = j1
    j2 = j2
    j3 = j3
    j4 = j4
    a1 = a1
    a2 = a2
    Agent = {a1, a2}
    Job <- TwoSteps
    Build <- OneBuild
    BuildOf <- TwoStepsBuild
    MaxRetries <- TwoStepsRetries
    SkippedStep = {}
    Unparsable = {}
    Unshowable = {}
    PageLimit = 50
    TaggedAgent = {}
    SlowAgent = {a1, a2}
    FragileAgent = {a1, a2}
    OperatorOps = {"cancel_job"}
    MaxLate = 1
    NoAgent = NoAgent
    NoJob = NoJob
SYMMETRY Symmetry
INVARIANTS
    TypeOK
    AttemptsNeverOverlap
    PendingJobIsFree
    WorkerIsRecorded
    AttemptsAreBounded
    FailedJobIsExhausted
    StalledBuildWasCanceled
    SettledBuildIsJudged
PROPERTIES
    PassesOnlyWithoutFailure
    KeepsLedger
