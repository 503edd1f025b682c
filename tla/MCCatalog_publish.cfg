CONSTANTS
    a = a
    b = b
    p = p
    x = x
    y = y
    c1 = c1
    c2 = c2
    s1 = s1
    s2 = s2
    s3 = s3
    None = None
    Objects = {a, b}
    Paths = {p}
    Backends = {x, y}
    Remote = {c1, c2}
    FirstEntries <- TwoEntries
    Storages = {s1, s2, s3}
    StoragesOf <- StoragesOfTwo
    Pattern <- Patterns
    ReadOnly = {s2}
    Outcomes = {FALSE}
    FaultKinds = {"scan", "add", "corrupt"}
    MaxFaults = 2
    MaxCommands = 3
SPECIFICATION Spec
INVARIANTS NothingHidden NoOrphans
PROPERTIES UpdateIsExact DeleteUnpublishes
CHECK_DEADLOCK FALSE
