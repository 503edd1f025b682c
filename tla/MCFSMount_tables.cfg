CONSTANTS
    pA = pA
    pB = pB
    pC = pC
    t1 = t1
    t2 = t2
    b1 = b1
    b2 = b2
    None = None
    Threads = {t1, t2}
    Paths = {pA, pB, pC}
    PathLists <- SharedPath
    Backends = {b1}
    MaxIdent = 2
    Ops = {"mount", "unmount", "access", "fileinfo", "watch", "eager"}
    Faults = {"mount", "unmount"}
SPECIFICATION Spec
SYMMETRY Symmetry
INVARIANTS TypeOK TablesAgree ResolverAgrees NoOrphanWatcher
PROPERTIES ImplementsMountTable
