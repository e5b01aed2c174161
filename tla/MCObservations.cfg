\* A file of at most four characters and every edit of up to three, or one implementation
\* and two tests and every query.
CONSTANTS
    Letters = {"a", "b"}
    Parses <- MCParses
    Statements <- MCStatements
    DefaultLines = 2
    MaxChars = 4
    MinRead = 2
    MaxRead = 3
    MaxQuote = 3
    Length <- MCLength
    TotalLimit = 4
    FallbackLimit = 3
    PerFileLimit = 2
    CandidateLimit = 1
    RelatedFiles = 1
    RelatedMatches = 2
    RelatedChars = 8
    AnswerChars = 34
    LabelChars = 3
    Contents <- MCContents
    Olds <- MCOlds
    News <- MCNews
    Ranges <- MCRanges
    Repositories <- MCRepositories
    Queries <- MCQueries
    Orders <- MCOrders
    Outputs <- MCOutputs
    MaxContent = 5
    NamedNodes = 1
    NamedLogs = 1
    NamedStrings = 1
    SummaryItems = 4
    Explored <- MCExplored
    Asked <- MCAsked
    MaxRecords = 4
    NamedReads = 2
    NamedQueries = 2
    NamedUnread = 2
SPECIFICATION GuidedSpec
INVARIANTS MismatchAdviceIsRight OnlyTheRangeChanges BestMatchIsShown ImplementationIsNamed
INVARIANTS FailedRunIsNamed StalledPolicyIsSentOn
