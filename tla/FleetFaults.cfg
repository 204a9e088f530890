SPECIFICATION Spec
CONSTANTS
  N = 3
  Deps <- MCDanglingDeps
  Agents = {a1, a2}
  Faults = {"io", "crash", "restart", "stop", "operator"}
  InitStatus = {"PARTIAL", "PROPOSED"}
SYMMETRY Symmetry
INVARIANT ClaimExclusion ClosedOnlyByVerify ApprovedOnly DependenciesVerifiedFirst
