SPECIFICATION Spec
CONSTANTS
    j1 = j1
    j2 = j2
    j3 = j3
    j4 = j4
    a1 = a1
    a2 = a2
    Agent = {a1, a2}
    Job <- TwoSteps
    Build <- TwoBuilds
    BuildOf <- TwoStepsBuild
    MaxRetries <- TwoStepsRetries
    SkippedStep <- SkippedSecond
    Unparsable <- SecondBuild
    Unshowable = {}
    PageLimit = 50
    TaggedAgent = {}
    SlowAgent = {a1, a2}
    FragileAgent = {}
    OperatorOps <- Op
    MaxLate = 1
    NoAgent = NoAgent
    NoJob = NoJob
SYMMETRY Symmetry
INVARIANTS
    BusyAgentHasJob
    PendingBuildIsNotRunning
    CustodyInv
PROPERTIES
    BuildNeverReopens
