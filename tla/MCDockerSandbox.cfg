\* Three episodes of one environment object, every fault of the daemon.
CONSTANTS
    Boxes = {b1, b2, b3}
    NoBox = nobox
    DaemonFaults <- AllFaults
SPECIFICATION FairSandboxSpec
INVARIANTS AckedIsOwned NothingCarriesOver
PROPERTIES Released
