CONSTANTS
    d = d
    f = f
    g = g
    x = x
    y = y
    Root = Root
    Paths = {f}
    Parent <- Single
    Contents = {x, y}
    Jobs <- LostDelete
SPECIFICATION Spec
CHECK_DEADLOCK FALSE
PROPERTIES SourceUntouched
