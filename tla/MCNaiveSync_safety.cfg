CONSTANTS
    d = d
    f = f
    g = g
    x = x
    y = y
    Root = Root
    Paths = {d, f, g}
    Parent <- Tree
    Contents = {x, y}
    Jobs <- SafeJobs
SPECIFICATION Spec
CHECK_DEADLOCK FALSE
INVARIANTS DifferencesReported HashesAgree
PROPERTIES ReplacesOnlyKnown SourceUntouched
