SPECIFICATION Spec
CONSTANTS
  Paths <- MCPaths
  Above <- MCAbove
  Escaping <- MCEscaping
  Contents <- MCContents
  Answers <- MCAnswers
  MaxParseRetries = 2
  Faults = {}
  InitTrees <- MCTrees
INVARIANT RollbackRestoresTree
