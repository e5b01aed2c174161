\* Two trials of three steps, two attempts each.
CONSTANTS
    Trials = 2
    MaxSteps = 3
    Attempts = 2
    Stride = 6
    RetryStride = 3
    Sizes = {1, 4}
    MaxObservation = 3
    MaxHistory = 4
    Window = 3
    Faults <- MCFaults
SPECIFICATION FairSpec
INVARIANTS SeedsAreFresh ContainersAreRemoved
PROPERTIES TrialsEnd
