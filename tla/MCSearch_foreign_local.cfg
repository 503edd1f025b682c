SPECIFICATION Spec
CONSTANTS
    None = None
    Chosen = "foreign_local"
    Keys <- MCKeys
    Files <- MCFiles
    Loc <- MCLoc
    Name <- MCName
    FileOrder <- MCFileOrder
    CatalogLocs = {"a_tree", "b_tree", "x_tree"}
    TrustedLocs = {"b_tree"}
    DataLocs = {"data", "x_tree"}
    Modes <- MCModes
    MaxAsked = 2
    MaxStarts = 2
INVARIANT Exact
CHECK_DEADLOCK FALSE
