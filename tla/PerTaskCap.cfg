SPECIFICATION Spec
CONSTANTS
  N = 1
  Deps <- MCOne
  Retries = 2
  BreakAfter = 3
  MaxRequirements = 40
  PerTaskTokens = 2
  FallbackAfter = 0
  Outputs = {"empty"}
  Costs = {1, 2}
  Modes = {FALSE}
  Faults = {}
  InitStatus = {"OPEN"}
INVARIANT PerTaskCapHonoured
CHECK_DEADLOCK FALSE
