SPECIFICATION FairSpec
CONSTANTS
  Paths <- MCPaths
  Above <- MCAbove
  Escaping <- MCEscaping
  Contents <- MCContents
  Answers <- MCAnswers
  MaxParseRetries = 2
  Faults = {"io", "crash"}
  InitTrees <- MCTrees
INVARIANT TypeOK FilesRestored TestedTreeIsEdited SandboxAllOrNothing RecordsSuffice
PROPERTY DriveReturns
