CONSTANTS
    ann = ann
    ben = ben
    zoe = zoe
    yan = yan
    None = None
    Mine <- MCMine
    Theirs <- MCTheirs
    NameSeq <- MCNames
    NameOf <- MCNameOf
    ForestName = "forest-owner"
    Requests <- AllCommands
    Served <- MCServed
    MaxCommands = 6
    MaxVersion = 1
    MaxFaults = 1
    Faults = {"write", "remote", "crash"}
SPECIFICATION Spec
INVARIANT ConfigDenotesUsers
PROPERTY FailedLeavesNothing
PROPERTY UsersStay
PROPERTY ForestComplete
PROPERTY RefreshIsEffective
CHECK_DEADLOCK FALSE
