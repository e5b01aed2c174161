\* Every tool, one spelling per path, an edit that fails has not changed its file.
CONSTANTS
    Paths <- MCPaths
    Protected <- MCProtected
    Spellings = {"plain"}
    Windows = {"all", "part"}
    Queries = {"query"}
    Contents <- MCContents
    LineCount <- MCLineCount
    Original <- MCOriginal
    Passing <- MCPassing
    MaxSteps = 4
    FailedWrite = FALSE
SPECIFICATION Spec
INVARIANTS EndsOnCurrentVerdict SpansAreSeen ChangesAreListed RefusedReadIsUnchanged GivesUpLate
