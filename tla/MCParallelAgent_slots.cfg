SPECIFICATION ParallelFairSpec
CONSTANTS
    j1 = j1
    j2 = j2
    j3 = j3
    a1 = a1
    a2 = a2
    Agent = {a1, a2}
    Job <- ThreeJobs
    Build <- TwoBuilds
    BuildOf <- ThirdShares
    MaxRetries <- ThreeRetries
    SkippedStep = {}
    Unparsable = {}
    Unshowable = {}
    PageLimit = 50
    TaggedAgent = {a2}
    SlowAgent = {a1}
    FragileAgent = {}
    OperatorOps = {}
    MaxLate = 0
    NoAgent = NoAgent
    NoJob = NoJob
    MaxParallel = 2
    HostOf <- OwnHost
INVARIANTS
    ParallelTypeOK
    SlotsAreRespected
PROPERTIES
    EverySlotIsFreed
