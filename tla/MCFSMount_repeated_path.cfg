CONSTANTS
    pA = pA
    pB = pB
    pC = pC
    t1 = t1
    t2 = t2
    b1 = b1
    b2 = b2
    None = None
    Threads = {t1, t2}
    Paths = {pA, pB, pC}
    PathLists <- RepeatedPath
    Backends = {b1}
    MaxIdent = 2
    Ops = {"mount", "unmount"}
    Faults = {}
SPECIFICATION Spec
INVARIANTS ResolverAgrees
