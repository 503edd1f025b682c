CONSTANTS
    d = d
    f = f
    g = g
    x = x
    y = y
    Root = Root
    Paths = {d, f}
    Parent <- Nested
    Contents = {x, y}
    Jobs <- StaleIgnore
SPECIFICATION Spec
CHECK_DEADLOCK FALSE
INVARIANTS DifferencesReported
