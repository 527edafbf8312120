SPECIFICATION FairSpec
CONSTANTS
    j1 = j1
    j2 = j2
    j3 = j3
    j4 = j4
    a1 = a1
    a2 = a2
    Agent = {a1, a2}
    Job <- FourSteps
    Build <- FourBuilds
    BuildOf <- FourStepsBuild
    MaxRetries <- FourStepsRetries
    SkippedStep = {}
    Unparsable <- FourthBuild
    Unshowable <- StepWithEnv
    PageLimit = 2
    TaggedAgent = {}
    SlowAgent = {}
    FragileAgent = {}
    OperatorOps = {}
    MaxLate = 0
    NoAgent = NoAgent
    NoJob = NoJob
PROPERTIES
    GrantedJobIsReported
    
