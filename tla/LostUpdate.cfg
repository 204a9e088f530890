SPECIFICATION Spec
CONSTANTS
  N = 3
  Deps <- MCIndependent
  Agents = {a1, a2}
  Faults = {}
  InitStatus = {"OPEN"}
PROPERTY SetStatusWritesOneRow
CHECK_DEADLOCK FALSE
