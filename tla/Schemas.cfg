SPECIFICATION FairSpec
CONSTANTS
    Callers = {w1, w2, w3}
    NoCaller = NoCaller
    GroupVersions = {"apps", "batch"}
    Slow = {"batch"}
INVARIANTS TypeOK FetchedOnce
PROPERTIES KeepsPromise SlowBlocksNoOther
CHECK_DEADLOCK FALSE
