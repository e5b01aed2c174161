\* Every program, four trials, four faults of any kind.
CONSTANTS
    Programs <- AllPrograms
    Planned = 4
    Generations = 2
    Faults <- AllFaults
    MaxFaults = 4
SPECIFICATION FairResumeSpec
INVARIANTS ReportIsBacked CompleteIsWhole
PROPERTIES NothingLost ResumedRunsComplete
