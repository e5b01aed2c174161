\* Two handlers and the shutdown on one session.
CONSTANTS
    Threads = {t1, t2}
    Main = main
    Sessions = {s1}
    Asked = {"inspect", "edit", "run_tests", "finish", "forbidden"}
SPECIFICATION Spec
SYMMETRY Symmetry
INVARIANTS NoStrandedContainer CompletedIsGraded
PROPERTIES ShutdownReleases
