\* Two processes, each with the task set of the other missing.
CONSTANTS
    Procs = {p1, p2}
    r1 = r1
    r2 = r2
    Rows <- MCRows
    TaskSets <- MCTaskSets
    Attempts = 2
    Urls = 2
    Files = {f1, f2, f3}
    NoFile = nofile
    Faults <- MCFaults
    MaxStarts = 2
SPECIFICATION Spec
SYMMETRY Symmetry
INVARIANTS FilesAreUsable NothingForgotten
\* The number of starts is bounded.
CHECK_DEADLOCK FALSE
