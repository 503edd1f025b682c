CONSTANTS
    Containers <- MCContainers
    Files <- MCFiles
    Where <- MCWhere
    Key <- MCKey
    Versions <- TwoVersions
    FirstFiles <- MCFirst
    Home = "h"
    HomeStorage <- HomeSt
    Kinds = {"children"}
    WithSubs = {"children"}
    Outside = "fa"
    HomePath = "catalog"
    Requests <- MCRequests
    CacheId = "cache"
    LocalIds = {"cache", "s2"}
    ReadOnlyIds = {"s2"}
    Removable <- MCRemovable
    FaultKinds = {}
    MaxIdent = 16
    MaxEdits = 3
    MaxRequests <- MCMaxRequests
    MaxBeside <- MCMaxBeside
    MaxFaults = 1
    None = None
SPECIFICATION Spec
INVARIANT WatchedBelow
CHECK_DEADLOCK FALSE
