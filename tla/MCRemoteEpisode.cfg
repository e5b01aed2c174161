\* One client with two episodes in turn; every request may be lost or abandoned.
CONSTANTS
    Threads = {t1, t2}
    Main = main
    Sessions = {s1, s2}
    Asked = {"edit", "finish"}
    Faults = {"create", "action", "finalize", "delete"}
    MaxLost = 1
SPECIFICATION RemoteSpec
SYMMETRY Symmetry
INVARIANTS AuditMatchesReward
PROPERTIES ImplementsEpisode
\* Session ids run out after two episodes.
CHECK_DEADLOCK FALSE
