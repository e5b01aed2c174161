\* One trial of a policy; an edit may fail after it wrote to the file.
CONSTANTS
    Paths <- MCPaths
    Protected <- MCProtected
    Spellings = {"plain"}
    Windows = {"all"}
    Queries = {"query"}
    Contents <- MCContents
    LineCount <- MCLineCount
    Original <- MCOriginal
    Passing <- MCPassing
    MaxSteps = 3
    FailedWrite = TRUE
SPECIFICATION CollectFairSpec
INVARIANTS SuccessIsReal
PROPERTIES TrialEnds
