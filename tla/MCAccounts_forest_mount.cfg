CONSTANTS
    ann = ann
    ben = ben
    zoe = zoe
    yan = yan
    None = None
    Mine <- MCMine
    Theirs <- MCTheirs
    NameSeq <- MCNames
    NameOf <- MCNameOf
    ForestName = "forest-owner"
    Requests <- MountCommands
    Served <- MCServed
    MaxCommands = 5
    MaxVersion = 1
    MaxFaults = 1
    Faults = {"write", "remote", "crash"}
SPECIFICATION Spec
PROPERTY UsersStay
CHECK_DEADLOCK FALSE
