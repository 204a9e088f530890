SPECIFICATION MCFairSpec
CONSTANTS
    Scenes = {"host", "ollama", "bakeoff", "profile"}
    Catalog <- MCCatalog
    CtxPins <- MCPins
    Provs = {"p"}
    Tuis = {"t1", "t2"}
    Wanted = 1
    Side = {2}
    Chunks = 2
    RAM <- MCRAM
    NiceExecs = TRUE
    Budgets <- MCBudgets
    Launches = {"l1", "l2"}
    Bases = {"a", "b"}
    Hangs <- MCHangs
    Relaunches = 2
    Candidates <- MCCandidates
    Selections <- MCSelections
    Suite = 2
    Outcomes <- MCOutcomes
    Stranger = "x"
    AvailRAMs <- MCAvailRAMs
    Bandwidths <- MCBandwidths
    Policies <- MCPolicies
    Rates <- MCRates
INVARIANTS
    ServedVerified
    ServersHaveKeepers
    WindowAgrees
    DerivesOnce
    HandedModelAnswers
    CellsAreOwn
    WinnerIsBest
    PicksAreBest
 
CHECK_DEADLOCK FALSE
