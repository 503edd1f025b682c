CONSTANTS
    Containers <- MCContainers
    Files <- MCFiles
    Where <- MCWhere
    Key <- MCKey
    Versions <- MCVersions
    FirstFiles <- MCFirst
    Home = "h"
    HomeStorage <- HomeSt
    Kinds = {"pattern", "children", "wlpath", "outside", "off"}
    WithSubs = {"children", "wlpath", "outside"}
    Outside = "fa"
    HomePath = "catalog"
    Requests <- MCRequests
    CacheId = "cache"
    LocalIds = {"cache", "s2"}
    ReadOnlyIds = {"s2"}
    Removable <- MCRemovable
    FaultKinds = {"abort", "late", "search"}
    MaxIdent = 20
    MaxEdits = 3
    MaxRequests <- MCMaxRequests
    MaxBeside <- MCMaxBeside
    MaxFaults = 1
    None = None
SPECIFICATION Spec
INVARIANTS Settled StaysUp
PROPERTIES UnmountIsComplete MountIsComplete
CHECK_DEADLOCK FALSE
