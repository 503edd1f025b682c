-------------------------- MODULE MCRemoteStorage --------------------------
(* Scenarios of RemoteStorage for TLC. *)
EXTENDS RemoteStorage

D == <<"d">>
E == <<"e">>
F == <<"f">>
G == <<"g">>
DF == <<"d", "f">>

At0(kind, data) == [kind |-> kind, data |-> data, time |-> 0]
AFile(data) == At0("file", data)
ADir == At0("dir", <<>>)

(* A file; two files; a file and an empty directory; a directory with a file. *)
OneFile == F :> AFile(<<2>>)
TwoFiles == (F :> AFile(<<2>>)) @@ (G :> AFile(<<2, 2>>))
WithEmptyDir == (D :> ADir) @@ OneFile
InDir == (D :> ADir) @@ (DF :> AFile(<<2>>))

Queries == {"getattr", "readdir"}
FileOps == {"open", "create", "write", "ftruncate", "read", "fgetattr", "flush", "release"}
PathOps == {"truncate", "unlink", "mkdir", "rmdir", "rename"}

Plain == [kind |-> "dropbox", index |-> FALSE, location |-> <<>>, trees |-> {OneFile},
          paths |-> {F}, ops |-> Queries, maxOps |-> 4, others |-> {}, otherData |-> <<>>,
          exclusive |-> TRUE, faults |-> {}, restarts |-> FALSE]

With(r) == r @@ Plain

(* The client and others.  Renames in Dropbox: with the cache; refused or cut    *)
(* off half-way.                                                                 *)
WithOthers == [others |-> {"put", "delete"}, otherData |-> <<<<2, 2>>>>, trees |-> {InDir}]
FilesOf(kind) == With([kind |-> kind, ops |-> Queries \cup FileOps, paths |-> {D, DF}, maxOps |-> 3]
                      @@ WithOthers)
PathsOf(kind, ops, n) == With([kind |-> kind, ops |-> Queries \cup ops, paths |-> {D, DF, E}, maxOps |-> n]
                              @@ WithOthers)
Folders(kind, ops) == With([others |-> {"mkdir", "rmdir"}, otherData |-> <<<<>>, <<>>>>,
    trees |-> {WithEmptyDir}, paths |-> {D, E}] @@ PathsOf(kind, ops, 2))
DropboxMovings == With([ops |-> Queries \cup {"truncate", "unlink", "rename"}, trees |-> {TwoFiles},
    paths |-> {F, G}, maxOps |-> 2])
DropboxReplaces == With([ops |-> {"rename"}, trees |-> {TwoFiles}, paths |-> {F, G}, maxOps |-> 3,
    others |-> {"put", "delete"}, otherData |-> <<<<1>>, <<1, 1>>>>, faults |-> {"api"}, restarts |-> TRUE])

(* A storage below a location, and files of the same names beside it. *)
InBase(tree) == [a \in {<<"base">> \o p : p \in DOMAIN tree} |-> tree[Tail(a)]]
DropboxLocated == With([location |-> <<"base">>, trees |-> {InBase(TwoFiles) @@ OneFile},
    paths |-> {F, G}, ops |-> Queries \cup {"truncate", "unlink", "rename"}, maxOps |-> 2])

(* Listings that fail, or are denied. *)
Unlisted(kind, faults) == With([kind |-> kind, faults |-> faults, ops |-> Queries \cup {"unlink", "mkdir"},
    paths |-> {D, DF, E}, trees |-> {InDir}, maxOps |-> 2])

(* Hashes: of files the client changes, or that others do. *)
HashesOf(kind) == With([kind |-> kind, maxOps |-> 5, restarts |-> TRUE,
    ops |-> {"open", "write", "ftruncate", "flush", "release", "truncate", "hash"}])
OthersHash == With([ops |-> {"hash", "getattr"}, maxOps |-> 5, restarts |-> TRUE,
    others |-> {"put", "delete"}, otherData |-> <<<<2, 2>>, <<1>>, <<1, 1>>>>])

(* WebDAV: truncate() leaves the cache, so nothing looks at it here. *)
WebdavFiles == With([kind |-> "webdav", ops |-> {"open", "write", "release", "hash"}, maxOps |-> 4])
WebdavTruncates == With([kind |-> "webdav", ops |-> {"truncate", "mkdir", "unlink", "rmdir"},
    trees |-> {WithEmptyDir}, paths |-> {D, F}, maxOps |-> 3])

(* S3: the only client, with one open file at a time; and readers of open files. *)
S3Alone(index, ops, ps, n) == With([kind |-> "s3", index |-> index, location |-> <<"base">>,
    ops |-> Queries \cup ops, trees |-> {InBase(InDir)}, paths |-> ps, maxOps |-> n])
S3Files(index) == S3Alone(index, FileOps, {D, DF}, 3)
S3Paths(index, n) == S3Alone(index, PathOps \ {"truncate"}, {D, DF, E}, n)
S3Bulk == S3Alone(FALSE, {"bulk", "truncate", "unlink"}, {DF}, 3)
S3Views == With([kind |-> "s3", ops |-> {"open", "create", "write", "flush", "release"},
    exclusive |-> FALSE, maxOps |-> 5])
S3Hashes == With([location |-> <<"base">>, trees |-> {InBase(OneFile)}] @@ HashesOf("s3"))
S3Broken == With([faults |-> {"api"}, ops |-> {"rename"}] @@ S3Paths(TRUE, 2))

SafetyModes == {FilesOf("dropbox"), PathsOf("dropbox", {"truncate", "unlink", "mkdir"}, 1), DropboxMovings, DropboxReplaces,
    HashesOf("dropbox"), OthersHash,
    FilesOf("local-cached"), PathsOf("local-cached", PathOps, 1), FilesOf("local-dir-cached"),
    PathsOf("local-dir-cached", PathOps, 1), HashesOf("local-cached"),
    FilesOf("webdav"), PathsOf("webdav", {"unlink", "mkdir"}, 1), WebdavFiles, WebdavTruncates,
    S3Files(FALSE), S3Files(TRUE), S3Paths(FALSE, 2), S3Paths(TRUE, 1), S3Bulk, S3Views, S3Broken, S3Hashes,
    DropboxLocated, Unlisted("dropbox", {"listing", "permission"}), Unlisted("local-cached", {"listing"}),
    Folders("dropbox", {"mkdir", "rmdir"}), Folders("webdav", {"rmdir"})}

(* Scenarios with a known defect, each for a run of its own (see the README).    *)
CutOffRename == {With([ops |-> {"getattr", "rename"}, trees |-> {TwoFiles}, paths |-> {F, G},
    maxOps |-> 2, faults |-> {"api"}])}
HashOfOpenFile == {With([kind |-> "local-cached", exclusive |-> FALSE,
    ops |-> {"open", "ftruncate", "hash"}])}
WebdavStaleSize == {With([kind |-> "webdav", ops |-> {"getattr", "truncate"}])}
S3HashMode == {S3Hashes}
LocatedMode == {DropboxLocated}
OthersReadBack == {With([ops |-> {"getattr", "open", "write", "release", "hash"}, maxOps |-> 5,
    trees |-> {F :> AFile(<<1>>)}, others |-> {"put"}, otherData |-> <<<<2>>>>])}
=============================================================================
