CONSTANTS
    d = d
    f = f
    g = g
    x = x
    y = y
    Root = Root
    Paths = {d, f}
    Parent <- Nested
    Contents = {x, y}
    Jobs <- LiveJobs
SPECIFICATION FairSpec
CHECK_DEADLOCK FALSE
PROPERTIES Quiesces
