SPECIFICATION MCFairSpec
CONSTANTS
    Callers = {"c", "d"}
    Reqs = {"r"}
    MaxCalls = 4
    Runs = {"r1", "r2"}
    Ports = {1, 2}
    MaxMsgs = 1
    StepKinds <- MCSteps
    Thresholds <- MCThresholds
    MaxTrace = 6
    CallKeys = {"a", "b"}
    Outputs = {"x", "empty", "marked"}
    KeepFirst = 1
    KeepRecent = 2
    MaxTools = 5
    MemKeys = {"k", "l", "m"}
    Caps <- MCCaps
    MaxEmits = 4
    Shells = {"s", "t"}
    Configs <- MCConfigs
    ModelIds = {"m", "n"}
    Edits = 1
INVARIANTS
    ClaimIsHeld
    ReportIsTrue
    NoServerLeft
    ParksSpinnersOnly
    PruningIsDeterministic
    MemoryKeepsNewest
    ClosedEnvironment
    VerifyEnvPredicts
PROPERTIES
    CallsReturn
    RunEnds
CHECK_DEADLOCK FALSE
