SPECIFICATION Spec
CONSTANTS
  N = 1
  Deps <- MCOne
  Retries = 3
  BreakAfter = 1
  MaxRequirements = 1
  PerTaskTokens = 3
  FallbackAfter = 2
  Outputs = {"empty", "x", "y"}
  Costs = {0, 1, 2}
  Modes = {FALSE}
  Faults = {"io", "cancel", "session", "task"}
  InitStatus = {"OPEN"}
INVARIANT AuditIsEvidence FallbackIsEarned
CHECK_DEADLOCK FALSE
