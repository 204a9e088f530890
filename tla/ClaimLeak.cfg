SPECIFICATION Spec
CONSTANTS
  N = 3
  Deps <- MCIndependent
  Agents = {a1}
  Faults = {"io"}
  InitStatus = {"OPEN"}
INVARIANT ClaimReleasedOnExit
CHECK_DEADLOCK FALSE
