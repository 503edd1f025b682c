CONSTANTS
    a = a
    b = b
    p = p
    x = x
    y = y
    c1 = c1
    c2 = c2
    s1 = s1
    s2 = s2
    s3 = s3
    None = None
    Objects = {a, b}
    Paths = {p}
    Backends = {x}
    Remote = {c1, c2}
    FirstEntries <- TwoEntries
    Storages = {s1, s2, s3}
    StoragesOf <- StoragesOfTwo
    Pattern <- Patterns
    ReadOnly = {s2}
    Outcomes = {FALSE}
    FaultKinds = {"remove"}
    MaxFaults = 1
    MaxCommands = 2
SPECIFICATION Spec
INVARIANTS NoOrphans
CHECK_DEADLOCK FALSE
