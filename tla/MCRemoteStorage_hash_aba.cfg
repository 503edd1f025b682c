CONSTANTS
    None = None
    Modes <- OthersReadBack
    Handles = {1, 2}
    Timeout = 0
    Forever = 100
    MaxClock = 2
    MaxSize = 2
SPECIFICATION Spec
INVARIANT HashIsRecent
CHECK_DEADLOCK FALSE
