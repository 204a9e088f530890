SPECIFICATION MCSpec
CONSTANTS
    Scenes = {"host"}
    Catalog <- MCCatalog
    CtxPins <- MCPins
    Provs = {"p", "q"}
    Tuis = {}
    Wanted = 1
    Side = {}
    Chunks = 2
    RAM <- MCRAM
    NiceExecs = TRUE
    Budgets <- MCOnceEach
    Launches = {"l1", "l2"}
    Bases = {"a", "b"}
    Hangs <- MCHangs
    Relaunches = 2
    Candidates <- MCCandidates
    Selections <- MCSelections
    Suite = 2
    Outcomes <- MCOutcomes
    Stranger = "x"
    AvailRAMs <- MCAvailRAMs
    Bandwidths <- MCBandwidths
    Policies <- MCPolicies
    Rates <- MCRates
INVARIANT ServedVerified
CHECK_DEADLOCK FALSE
