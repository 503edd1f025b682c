CONSTANTS
    None = None
    Modes <- WebdavStaleSize
    Handles = {1, 2}
    Timeout = 0
    Forever = 100
    MaxClock = 2
    MaxSize = 2
SPECIFICATION Spec
INVARIANT SeesOwnChanges
CHECK_DEADLOCK FALSE
