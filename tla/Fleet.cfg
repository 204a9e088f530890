SPECIFICATION FairSpec
CONSTANTS
  N = 3
  Deps <- MCDeps
  Agents = {a1, a2}
  Faults = {}
  InitStatus = {"OPEN"}
INVARIANT TypeOK DrainLeavesNothingReady
PROPERTY PairReturns
CHECK_DEADLOCK FALSE
