SPECIFICATION Spec
CONSTANTS
    j1 = j1
    j2 = j2
    a1 = a1
    a2 = a2
    Agent = {a1, a2}
    Job <- TwoSteps
    MaxRetries <- NoRetries
    UserOps = {}
    User = User
    NoAgent = NoAgent
    NoJob = NoJob
SYMMETRY Symmetry
CHECK_DEADLOCK FALSE
INVARIANTS
    OneAgentPerJob
