CONSTANTS
    d = d
    f = f
    g = g
    x = x
    y = y
    Root = Root
    Paths = {f}
    Parent <- Single
    Contents = {x, y}
    Jobs <- BothEdit
SPECIFICATION Spec
CHECK_DEADLOCK FALSE
PROPERTIES ReplacesOnlyKnown
