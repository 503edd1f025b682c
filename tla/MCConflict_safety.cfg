CONSTANTS
    t1 = t1
    t2 = t2
    None = None
    Threads = {t1, t2}
    Idents = {1, 2}
    FileNames <- MCFileNames
    Modes <- AllModes
    MaxCalls = 2
SPECIFICATION Spec
INVARIANT TypeOK StaleIsRaced ListedIsFound
PROPERTY NewEntriesAreUnambiguous
CHECK_DEADLOCK FALSE
