SPECIFICATION ParallelSpec
CONSTANTS
    j1 = j1
    j2 = j2
    j3 = j3
    a1 = a1
    a2 = a2
    Agent = {a1, a2}
    Job <- TwoJobs
    Build <- TwoBuilds
    BuildOf <- OwnBuild
    MaxRetries <- TwoRetries
    SkippedStep = {}
    Unparsable = {}
    Unshowable = {}
    PageLimit = 50
    TaggedAgent = {}
    SlowAgent = {a2}
    FragileAgent = {a2}
    OperatorOps = {}
    MaxLate = 1
    NoAgent = NoAgent
    NoJob = NoJob
    MaxParallel = 2
    HostOf <- OwnHost
INVARIANTS
    OneSlotPerJob
    WorkspaceOutlivesJob
PROPERTIES
    SlotsKeepLedger
