\* Two builds, each killed anywhere or not, with no dataset or with the first two built
\* before; two trainers with one output directory.
CONSTANTS
    Train = {"task", "other"}
    Repository <- MCRepository
    TestFiles = {"test.py"}
    MaxTarget = 3
    Lead = 1
    Trail = 1
    MinWindow = 2
    MaxWindow = 4
    MaxChars = 4
    TooLong = {"long literal"}
    RowLists <- MCRowLists
    Caches <- MCCaches
    Traces <- MCTraces
    Sessions <- MCSessions
    Trajectories <- MCTrajectories
    Suggested <- MCSuggested
    PerState = 1
    Trainers = {t1, t2}
    Wanted = {"gold", "grpo", "cumulative", "recovery", "navigation", "semantic", "mix"}
    Given = {"recovery", "mix"}
    Lengths = {0, 4}
    MaxBuilds = 2
    MaxStarts = 2
    MaxCrashes = 1
    Contexts <- MCContexts
    Worths = {"unparsed", "wrong", "partial"}
    Required = 3
    MaxLost = 1
SPECIFICATION PairedSpec
INVARIANTS BuildsAreAccepted ReadsMatchTheRepository AdapterIsReported ComparedWeightsAreNamed SuccessesAreEarned
ACTION_CONSTRAINT MCEvaluatesBesideItsTrainer
SYMMETRY MCSymmetry
CHECK_DEADLOCK FALSE
