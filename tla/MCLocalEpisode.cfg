\* Any number of episodes, one after another, with every fault.
CONSTANTS
    Nodes <- MCNodes
    Visible = 3
    Runner = "pytest"
    FailToPass <- MCFailToPass
    PassToPass <- MCPassToPass
    Dirs = {d1, d2}
    NoDir = nodir
    Fixtures <- MCFixtures
    MaxSteps = 3
    Faults <- MCFaults
SPECIFICATION Spec
INVARIANTS DirectoriesAreOwned RewardIsEarned NewFailuresEarnNothing
PROPERTIES ImplementsEpisode
