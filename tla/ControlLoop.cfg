SPECIFICATION FairSpec
CONSTANTS
  N = 4
  Deps <- MCDeps
  Retries = 1
  BreakAfter = 2
  MaxRequirements = 3
  PerTaskTokens = 0
  FallbackAfter = 0
  Outputs = {"empty"}
  Costs = {0}
  Modes = {TRUE, FALSE}
  Faults = {"io", "cancel", "session"}
  InitStatus = {"OPEN"}
INVARIANT TypeOK BooksBalance BreakerTripsExactly BudgetCapsClaims
PROPERTY ReadySettles ImplementsBacklog
CHECK_DEADLOCK FALSE
