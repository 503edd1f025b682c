CONSTANTS
    pA = pA
    pB = pB
    pC = pC
    t1 = t1
    t2 = t2
    b1 = b1
    b2 = b2
    None = None
    Threads = {t1, t2}
    Paths = {pA, pB, pC}
    PathLists <- TwoMainPaths
    Backends = {b1, b2}
    MaxIdent = 2
    Ops = {"mount", "unmount", "access", "watch"}
    Faults = {"mount"}
SPECIFICATION FairSpec
INVARIANTS RefcountExact
PROPERTIES LockReleased
