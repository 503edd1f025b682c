----------------------------- MODULE MCAccounts -----------------------------
(* Two keys that may be generated here, one user who lives elsewhere with a    *)
(* forest, two names.                                                         *)
EXTENDS Accounts, TLC

CONSTANTS ann, ben, zoe, yan

MCMine == {ann, ben}
MCTheirs == {zoe}
MCNames == <<"a", "forest-owner", "z">>
MCNameOf == [u \in {ann, ben, zoe} |-> IF u = zoe THEN "z" ELSE "a"]
MCServed == zoe :> [owner |-> zoe, extra |-> {}, path |-> "z", catalog |-> TRUE, version |-> 0]

NewUser == [op |-> "create", user |-> None, extra |-> {}, name |-> "a", path |-> "a"]
MoreKeys == [NewUser EXCEPT !.extra = {ann}]
SameKey == [NewUser EXCEPT !.user = ann]
DeleteUser(force, keys) ==
    [op |-> "delete", user |-> ann, force |-> force, cascade |-> ~force, keys |-> keys]
ImportUser == [op |-> "import", user |-> zoe, owner |-> None]
ImportBridge == [op |-> "bridge_import", targets |-> {zoe}, owner |-> ann]
MakeBridge(u) == [op |-> "bridge_create", user |-> u, owner |-> None]
DropBridge == [op |-> "bridge_delete", user |-> zoe]
RefreshUser(u) == [op |-> "refresh", user |-> u]
MountForest(u) == [op |-> "forest_mount", user |-> u]
AddKey == [op |-> "modify", user |-> ann, add |-> {}, of |-> {zoe}, del |-> {}]
RestoreKey(private) == [op |-> "import_key", user |-> ann, private |-> private]
MakeForest(u) == [op |-> "forest", user |-> u]
MakeContainer == [op |-> "container", user |-> ann]

AllCommands ==
    {NewUser, MountForest(zoe), MoreKeys, SameKey, DeleteUser(TRUE, TRUE), DeleteUser(FALSE, TRUE),
     DeleteUser(FALSE, FALSE), ImportUser, ImportBridge, MakeBridge(zoe),
     DropBridge, RefreshUser(zoe), RefreshUser(None), AddKey, MakeForest(None),
     MakeContainer, RestoreKey("right"), RestoreKey("wrong")}

(* For forest_mount: bridges between the users of this machine.                 *)
MountCommands == {NewUser, MakeBridge(ann), DeleteUser(FALSE, TRUE), MountForest(ben)}

(* For RefreshReachesAll: two users elsewhere, both with a bridge of ann's.     *)
TwoTheirs == {zoe, yan}
TwoNameOf == [u \in {ann, ben, zoe, yan} |-> IF u \in TwoTheirs THEN "z" ELSE "a"]
TwoServed == [u \in TwoTheirs |->
    [owner |-> u, extra |-> {}, path |-> "z", catalog |-> FALSE, version |-> 0]]
RefreshAllCommands ==
    {NewUser, RefreshUser(None)} \cup {[ImportUser EXCEPT !.user = u] : u \in TwoTheirs}

=============================================================================
