------------------------------ MODULE Conflict ------------------------------
(***************************************************************************)
(* Name resolution of the FUSE driver: conflict.py, and the file           *)
(* operations of fs_base.py that go through it.                            *)
(*                                                                         *)
(* Storages are mounted under paths of one tree.  The resolver keeps the   *)
(* tree of mount points (MountDir) and a cache of the storages that claim  *)
(* a path (_resolve, an lru_cache that every mount and unmount clears); a  *)
(* file operation looks the path up, asks the storages it found for the    *)
(* attributes, chooses one of them and calls it.  mount_lock is held by    *)
(* the thread that mounts or unmounts and is NOT held by a lookup, so the  *)
(* steps of both interleave.                                               *)
(*                                                                         *)
(* A name is <<stem>>, or <<stem, id>> for what the code prints as         *)
(* stem.wl_id, which a storage may also hold as a real name.  The cache    *)
(* never evicts (500 entries in the code): an eviction is a miss, which is *)
(* there too.  A storage is a tree of files and directories that behaves   *)
(* like a local directory.                                                 *)
(***************************************************************************)
EXTENDS Integers, FiniteSets, Sequences, SequencesExt

CONSTANTS None,       \* no value (a model value)
          Threads,    \* FUSE and control threads
          Idents,     \* storage ids
          FileNames,  \* names of files and directories
          Modes,      \* what is mounted, with which contents, and the calls
          MaxCalls    \* bound: file operations

(* A mode is a record:                                                     *)
(*   paths    [Idents -> sequence of mount paths]                          *)
(*   ro       the storages that are read-only                              *)
(*   stores   the contents to start from, a set of [Idents -> content]     *)
(*   mounted  the storages mounted at first                                *)
(*   calls    [Threads -> the calls it makes], records [op, path, to]      *)
(*   mounts   bound: how many mounts and unmounts                          *)
(*   faults   whether a storage may stop answering for a while             *)

(* What is left of a name with an id is a name, too.  A storage has at least *)
(* one mount path and no path twice (FSMount has those); the contents of a  *)
(* storage have a path for each of its files.                               *)
Paths == Seq(FileNames)

ASSUME NamesAssumption == \A n \in FileNames : Len(n) > 1 => Front(n) \in FileNames
ASSUME IdentsAssumption ==
    /\ IsFiniteSet(Idents) /\ None \notin Idents
    /\ None \notin {"file", "dir", "rdir"} \cup {"ENOENT", "ENOTDIR", "EIO"}
ASSUME ModesAssumption ==
    \A m \in Modes :
        /\ \A i \in Idents :
              /\ m.paths[i] \in Seq(Paths) /\ m.paths[i] # << >>
              /\ \A j, k \in 1..Len(m.paths[i]) : m.paths[i][j] = m.paths[i][k] => j = k
        /\ m.mounted \subseteq Idents
        /\ \A s \in m.stores : s \in [Idents -> Range(s)]
        /\ \A t \in Threads : \A c \in m.calls[t] :
              /\ c.path \in Paths
              /\ c.op = "rename" => c.to \in Paths

VARIABLES mode,      \* one of Modes
          live,      \* ids in fs.storages
          tree,      \* MountDir: function from a node's path to its storage_ids
          cache,     \* _resolve's lru_cache: path -> [ans, raced]
          store,     \* contents: [Idents -> [relative path -> kind]]
          down,      \* storages whose calls raise IOError now
          mount,     \* the thread that holds mount_lock: what it is doing
          thread,    \* [Threads -> the call in progress]
          handles,   \* open files: [path, ident]
          leaked,    \* open files whose release reached no storage
          mounts,    \* mounts and unmounts so far
          calls      \* file operations so far

vars == <<mode, live, tree, cache, store, down, mount, thread, handles, leaked,
          mounts, calls>>
tables == <<live, tree>>
files == <<store, handles, leaked>>

NoMount == [pc |-> "idle", id |-> None, todo |-> << >>, at |-> << >>]
NoCall == [pc |-> "idle"]
NoAnswers == << >>

Root == << >>

(* CONFLICT_RE: the name without the last storage id, and the id.          *)
HasIdent(path) == path # Root /\ Len(Last(path)) > 1
RealPath(path) ==
    IF HasIdent(path) THEN Append(Front(path), Front(Last(path))) ELSE path
IdentIn(path) == IF HasIdent(path) THEN Last(Last(path)) ELSE None

-----------------------------------------------------------------------------
(* The tree.                                                               *)

Nodes == DOMAIN tree
Children(path) == {n \in Nodes : n # Root /\ Front(n) = path}
IsEmpty(path) == Children(path) = {} /\ tree[path] = {}

Rest(path, n) == SubSeq(path, Len(n) + 1, Len(path))

(* MountDir.resolve, without an interruption.                              *)
Claims(path) ==
    {[ident |-> a[2], relpath |-> Rest(path, a[1])] :
        a \in {a \in Nodes \X Idents : IsPrefix(a[1], path) /\ a[2] \in tree[a[1]]}}

(* MountDir.is_synthetic.                                                  *)
IsSynthetic(path) ==
    /\ path \in Nodes
    /\ Children(path) # {} \/ Cardinality(tree[path]) # 1

(* MountDir.readdir, {} also for a path that is not in the tree.           *)
MountNames(path) == {Last(n) : n \in Children(path)}

-----------------------------------------------------------------------------
(* Storages.                                                               *)

IsDir(kind) == kind \in {"dir", "rdir"}

(* storage_getattr, None for an IOError (handle_io_error).  "rdir" is a    *)
(* directory without write permission.                                     *)
StorageGetattr(res) ==
    IF res.ident \in down \/ res.relpath \notin DOMAIN store[res.ident] THEN None
    ELSE LET kind == store[res.ident][res.relpath] IN
         IF kind = "dir" /\ res.ident \in mode.ro THEN "rdir" ELSE kind

(* storage_readdir, {} for an IOError.                                     *)
StorageReaddir(res) ==
    IF IsDir(StorageGetattr(res))
    THEN {Last(p) : p \in {p \in DOMAIN store[res.ident] :
                             p # Root /\ Front(p) = res.relpath}}
    ELSE {}

Below(res, name) == [res EXCEPT !.relpath = Append(@, name)]

-----------------------------------------------------------------------------
(* ConflictResolver, given what _resolve returned.                         *)

DirsOf(ans) == {res \in ans : IsDir(StorageGetattr(res))}
FilesOf(ans) == {res \in ans : StorageGetattr(res) = "file"}
WritableOf(ans) == {res \in ans : StorageGetattr(res) = "dir"}

Fails(error) == [error |-> error, kind |-> None, res |-> None]
FoundAt(res) == [error |-> None, kind |-> StorageGetattr(res), res |-> res]
ForcedReadOnly == [error |-> None, kind |-> "rdir", res |-> None]

(* getattr_extended for several directories: the only writable one, or a   *)
(* read-only directory that belongs to no storage.                         *)
MergedDirs(ans) ==
    IF Cardinality(WritableOf(ans)) = 1
    THEN FoundAt(CHOOSE res \in WritableOf(ans) : TRUE) ELSE ForcedReadOnly

(* The file a renamed name stands for: the first in the order of           *)
(* resolution, from the top of the tree down.                              *)
FileOf(ans, ident) ==
    LET mine == {res \in FilesOf(ans) : res.ident = ident} IN
    IF mine = {} THEN Fails("ENOENT")
    ELSE FoundAt(CHOOSE res \in mine :
                    \A r \in mine : Len(r.relpath) <= Len(res.relpath))

(* getattr_extended, for a path that is no synthetic directory.            *)
Disambiguate(ans, ident) ==
    LET single == IF DirsOf(ans) # {} THEN Cardinality(DirsOf(ans)) = 1
                  ELSE Cardinality(FilesOf(ans)) = 1
    IN  IF DirsOf(ans) = {} /\ Cardinality(FilesOf(ans)) > 1
        THEN FileOf(ans, ident)
        ELSE IF ident # None \/ DirsOf(ans) \cup FilesOf(ans) = {}
        THEN Fails("ENOENT")
        ELSE IF single
        THEN FoundAt(CHOOSE res \in IF DirsOf(ans) # {} THEN DirsOf(ans)
                                    ELSE FilesOf(ans) : TRUE)
        ELSE MergedDirs(ans)

(* Mutant: a merged directory takes its first directory, writable or not.  *)
GetattrFirst(path, ans) ==
    IF IsSynthetic(RealPath(path)) /\ DirsOf(ans) # {}
    THEN FoundAt(CHOOSE res \in DirsOf(ans) : TRUE)
    ELSE Disambiguate(ans, IdentIn(path))

Getattr(path, ans) ==
    IF IsSynthetic(RealPath(path)) THEN MergedDirs(ans)
    ELSE IF ans = {}
    THEN IF path = Root THEN ForcedReadOnly ELSE Fails("ENOENT")
    ELSE IF Cardinality(ans) = 1
    THEN LET res == CHOOSE r \in ans : TRUE IN
         IF IdentIn(path) # None \/ StorageGetattr(res) = None
         THEN Fails("ENOENT") ELSE FoundAt(res)
    ELSE Disambiguate(ans, IdentIn(path))

(* CONFLICT_FORMAT.                                                         *)
Renamed(name, res) == Append(name, res.ident)

(* readdir of several directories.  (The code also renames a name that it gave  *)
(* to another file before; no name looks like a given one, as assumed of names  *)
(* in ConflictProofs, too.)                                                   *)
MergedNames(dirs, mounted) ==
    LET seen(name) == {res \in dirs : name \in StorageReaddir(res)}
        names == UNION {StorageReaddir(res) : res \in dirs}
        alone == {n \in names : Cardinality(seen(n)) = 1 /\ n \notin mounted}
        shown(n, res) == IF IsDir(StorageGetattr(Below(res, n))) THEN n
                         ELSE Renamed(n, res)
    IN  mounted \cup alone
        \cup UNION {{shown(n, res) : res \in seen(n)} : n \in names \ alone}

Names(names) == [error |-> None, names |-> names]

(* Mutant: two directories are listed without renaming their files.        *)
ReaddirMerges(path, ans) ==
    Names(MountNames(path) \cup UNION {StorageReaddir(res) : res \in ans})

Readdir(path, ans) ==
    LET mounted == IF path \in Nodes THEN MountNames(path) ELSE {}
        dirs == DirsOf(ans)
        only == CHOOSE res \in ans : TRUE
    IN  IF ans = {} /\ path \notin Nodes
        THEN IF path = Root THEN Names({}) ELSE Fails("ENOENT")
        ELSE IF Cardinality(ans) = 1 /\ mounted = {}
        THEN IF IsDir(StorageGetattr(only)) THEN Names(StorageReaddir(only))
             ELSE Fails("EIO")
        ELSE IF dirs = {} /\ mounted = {}
        THEN Fails(IF Cardinality(FilesOf(ans)) = 1 THEN "ENOTDIR" ELSE "ENOENT")
        ELSE IF Cardinality(dirs) = 1
        THEN Names(mounted \cup StorageReaddir(CHOOSE res \in dirs : TRUE))
        ELSE Names(MergedNames(dirs, mounted))

(* find_storage_ids: the storages with a real directory at the path, and   *)
(* everything mounted at the path or below.                                *)
FindStorageIds(path, ans) ==
    {res.ident : res \in DirsOf(ans)}
    \cup UNION {tree[n] : n \in {n \in Nodes : path \in Nodes /\ IsPrefix(path, n)}}

-----------------------------------------------------------------------------
(* Mounting and unmounting.  One thread does it at a time, under           *)
(* mount_lock.  A path of the storage is added to the tree node by node,   *)
(* then the cache is cleared; the paths are removed in the same way.       *)

(* What a change of the tree, or of a storage, makes of the lookups that   *)
(* are going on: they have seen something that is no longer so.            *)
Overtaken(t) ==
    IF \/ thread[t].pc = "idle"
       \/ (thread[t].pc = "resolve" /\ thread[t].src = None)
    THEN thread[t]
    ELSE [thread[t] EXCEPT !.raced = TRUE]
AllOvertaken == [t \in Threads |-> Overtaken(t)]

MountBegin(id) ==
    /\ mount.pc = "idle" /\ mounts < mode.mounts /\ id \notin live
    /\ live' = live \cup {id}
    /\ mount' = [pc |-> "grow", id |-> id, todo |-> mode.paths[id], at |-> << >>]
    /\ mounts' = mounts + 1
    /\ thread' = AllOvertaken
    /\ UNCHANGED <<mode, tree, cache, files, down, calls>>

(* MountDir.mount: a missing node, or the storage at the end of the path.  *)
MountNode ==
    /\ mount.pc = "grow"
    /\ LET path == Head(mount.todo)
           next == SubSeq(path, 1, Len(mount.at) + 1)
       IN  IF mount.at = path
           THEN /\ tree' = [tree EXCEPT ![path] = @ \cup {mount.id}]
                /\ mount' = [mount EXCEPT !.pc = "clear"]
           ELSE /\ tree' = IF next \in Nodes THEN tree
                           ELSE [n \in Nodes \cup {next} |->
                                   IF n = next THEN {} ELSE tree[n]]
                /\ mount' = [mount EXCEPT !.at = next]
    /\ thread' = AllOvertaken
    /\ UNCHANGED <<mode, live, cache, files, down, mounts, calls>>

UnmountBegin(id) ==
    /\ mount.pc = "idle" /\ mounts < mode.mounts /\ id \in live
    /\ live' = live \ {id}
    /\ mount' = [pc |-> "leave", id |-> id, todo |-> mode.paths[id], at |-> << >>]
    /\ mounts' = mounts + 1
    /\ thread' = AllOvertaken
    /\ UNCHANGED <<mode, tree, cache, files, down, calls>>

(* MountDir.unmount, at the bottom of its recursion.                       *)
UnmountNode ==
    /\ mount.pc = "leave"
    /\ tree' = [tree EXCEPT ![Head(mount.todo)] = @ \ {mount.id}]
    /\ mount' = [mount EXCEPT !.pc = "prune", !.at = Head(mount.todo)]
    /\ thread' = AllOvertaken
    /\ UNCHANGED <<mode, live, cache, files, down, mounts, calls>>

(* Mutant: only the node of the storage itself is taken away.              *)
PruneLast ==
    /\ mount.pc = "prune"
    /\ tree' = IF mount.at # Root /\ IsEmpty(mount.at)
               THEN [n \in Nodes \ {mount.at} |-> tree[n]] ELSE tree
    /\ mount' = [mount EXCEPT !.pc = "clear"]
    /\ thread' = AllOvertaken
    /\ UNCHANGED <<mode, live, cache, files, down, mounts, calls>>

(* The way back up: every node that has become empty is deleted.           *)
Prune ==
    /\ mount.pc = "prune"
    /\ IF mount.at = Root
       THEN tree' = tree /\ mount' = [mount EXCEPT !.pc = "clear"]
       ELSE /\ tree' = IF IsEmpty(mount.at)
                       THEN [n \in Nodes \ {mount.at} |-> tree[n]] ELSE tree
            /\ mount' = [mount EXCEPT !.at = Front(@)]
    /\ thread' = AllOvertaken
    /\ UNCHANGED <<mode, live, cache, files, down, mounts, calls>>

AfterClear ==
    IF Len(mount.todo) = 1 THEN NoMount
    ELSE [mount EXCEPT !.todo = Tail(@), !.at = Root,
                       !.pc = IF mount.id \in live THEN "grow" ELSE "leave"]

(* Mutant: unmounting does not clear the cache.                            *)
CacheClearOnMount ==
    /\ mount.pc = "clear"
    /\ cache' = IF mount.id \in live THEN NoAnswers ELSE cache
    /\ mount' = AfterClear
    /\ UNCHANGED <<mode, tables, files, down, thread, mounts, calls>>

CacheClear ==
    /\ mount.pc = "clear"
    /\ cache' = NoAnswers
    /\ mount' = AfterClear
    /\ UNCHANGED <<mode, tables, files, down, thread, mounts, calls>>

-----------------------------------------------------------------------------
(* A call looks a path up ...                                              *)

(* A lookup is of the path itself, or of its parent for the calls that     *)
(* create an entry.                                                        *)
Looked(path, parent) == IF parent THEN Front(path) ELSE path
MakesEntry(op) == op \in {"create", "mkdir"}
Modifies(op) == op \in {"create", "mkdir", "unlink", "rmdir", "rename"}

Lookup(call, path) ==
    [pc |-> "resolve", call |-> call, path |-> path, at |-> Root, ids |-> {},
     acc |-> {}, src |-> None, res |-> None, raced |-> FALSE]

Start(t) ==
    /\ thread[t].pc = "idle" /\ calls < MaxCalls
    /\ \E call \in mode.calls[t] :
          /\ call.op = "release" => \E h \in handles : h.path = call.path
          /\ thread' = [thread EXCEPT ![t] =
                          Lookup(call, Looked(call.path, MakesEntry(call.op)))]
    /\ calls' = calls + 1
    /\ UNCHANGED <<mode, tables, cache, files, down, mount, mounts>>

(* readdir and find_storage_ids take the path as it is, getattr_extended   *)
(* takes the storage id off first.                                         *)
KeyOf(c) == IF c.call.op \in {"readdir", "find"} THEN c.path ELSE RealPath(c.path)

(* A hit in the cache.                                                     *)
Hit(t) ==
    LET c == thread[t] IN
    /\ c.pc = "resolve" /\ KeyOf(c) \in DOMAIN cache
    /\ thread' = [thread EXCEPT ![t] =
                    [c EXCEPT !.pc = "stat", !.acc = cache[KeyOf(c)].ans,
                              !.raced = \/ @ \/ cache[KeyOf(c)].raced
                                        \/ mount.pc \in {"prune", "clear"}]]
    /\ UNCHANGED <<mode, tables, cache, files, down, mount, mounts, calls>>

(* A miss: the generator reaches a node and begins to go through its set   *)
(* of storages.                                                            *)
Visit(t) ==
    LET c == thread[t] IN
    /\ \/ c.pc = "visit"
       \/ (c.pc = "resolve" /\ KeyOf(c) \notin DOMAIN cache)
    /\ thread' = [thread EXCEPT ![t] =
                    [c EXCEPT !.pc = "leave",
                              !.ids = IF c.at \in Nodes THEN tree[c.at] ELSE {}]]
    /\ UNCHANGED <<mode, tables, cache, files, down, mount, mounts, calls>>

(* It has gone through them; a set that changed its size meanwhile is a    *)
(* RuntimeError, and the call fails.  Then down to the child, or the       *)
(* answer is put into the cache.                                           *)
Descend(t) ==
    LET c == thread[t]
        now == IF c.at \in Nodes THEN tree[c.at] ELSE {}
        acc == c.acc \cup {[ident |-> i, relpath |-> Rest(KeyOf(c), c.at)] : i \in c.ids}
        child == SubSeq(KeyOf(c), 1, Len(c.at) + 1)
        broken == c.ids # {} /\ Cardinality(now) # Cardinality(c.ids)
        deeper == c.at # KeyOf(c) /\ child \in Nodes
    IN  /\ c.pc = "leave"
        /\ thread' = [thread EXCEPT ![t] =
                IF broken THEN NoCall
                ELSE IF deeper THEN [c EXCEPT !.pc = "visit", !.at = child, !.acc = acc]
                ELSE [c EXCEPT !.pc = "stat", !.acc = acc]]
        /\ cache' = IF broken \/ deeper THEN cache
                    ELSE [k \in DOMAIN cache \cup {KeyOf(c)} |->
                            IF k = KeyOf(c) THEN [ans |-> acc, raced |-> c.raced]
                            ELSE cache[k]]
        /\ UNCHANGED <<mode, tables, files, down, mount, mounts, calls>>

-----------------------------------------------------------------------------
(* ... asks the storages, and calls the one it has chosen.                 *)

(* The call is over without having reached a storage.  The kernel does not *)
(* repeat a release: the file stays open in its storage.                   *)
HandlesOf(c) == {h \in handles : c.call.op = "release" /\ h.path = c.call.path}
GiveUp(t) ==
    LET lost == IF HandlesOf(thread[t]) = {} THEN {}
                ELSE {CHOOSE h \in HandlesOf(thread[t]) : TRUE} IN
    /\ thread' = [thread EXCEPT ![t] = NoCall]
    /\ handles' = handles \ lost
    /\ leaked' = leaked \cup lost
    /\ store' = store

(* The lookup's answer names a storage that was unmounted since: KeyError. *)
Gone(c) == \E res \in c.acc : res.ident \notin live

(* getattr, readdir and find_storage_ids have their answer.                *)
Answered(t) ==
    /\ thread[t].pc = "stat"
    /\ thread[t].call.op \in {"getattr", "readdir", "find"}
    /\ thread' = [thread EXCEPT ![t] = NoCall]
    /\ UNCHANGED <<mode, tables, cache, files, down, mount, mounts, calls>>

(* _resolve_path, for proxy and for both sides of rename.                  *)
Stat(t) ==
    LET c == thread[t]
        found == Getattr(c.path, c.acc)
        second == c.call.op = "rename" /\ c.src = None
        crosses == c.call.op = "rename" /\ ~second /\ found.res.ident # c.src.ident
    IN  /\ c.pc = "stat" /\ c.call.op \notin {"getattr", "readdir", "find"}
        /\ IF Gone(c) THEN GiveUp(t)
           ELSE IF found.res = None THEN GiveUp(t)
           ELSE IF crosses THEN GiveUp(t)
           ELSE /\ thread' = [thread EXCEPT ![t] =
                        IF second
                        THEN [Lookup(c.call, Front(c.call.to)) EXCEPT
                                !.src = found.res, !.raced = c.raced]
                        ELSE [c EXCEPT !.pc = "call", !.res = found.res]]
                /\ UNCHANGED files
        /\ UNCHANGED <<mode, tables, cache, down, mount, mounts, calls>>

(* The storage: a directory that refuses what a local one would refuse.    *)
KindIn(content, r) == IF r \in DOMAIN content THEN content[r] ELSE None

WithEntry(content, r, kind) ==
    IF r \in DOMAIN content \/ KindIn(content, Front(r)) # "dir" THEN content
    ELSE [p \in DOMAIN content \cup {r} |-> IF p = r THEN kind ELSE content[p]]

WithoutEntry(content, r, isDir) ==
    IF \/ r = Root \/ r \notin DOMAIN content
       \/ IsDir(content[r]) # isDir
       \/ KindIn(content, Front(r)) # "dir"
       \/ \E p \in DOMAIN content : p # Root /\ Front(p) = r
    THEN content
    ELSE [p \in DOMAIN content \ {r} |-> content[p]]

MovedEntry(content, r, to) ==
    IF \/ KindIn(content, r) # "file" \/ KindIn(content, Front(r)) # "dir"
       \/ KindIn(content, Front(to)) # "dir" \/ KindIn(content, to) \notin {"file", None}
    THEN content
    ELSE [p \in (DOMAIN content \ {r}) \cup {to} |->
            IF p = to THEN "file" ELSE content[p]]

(* _get_storage_relative_path: the name as the caller wrote it goes below  *)
(* the parent; a path that was looked up itself goes by its real name.     *)
Effect(c) ==
    LET content == store[IF c.src # None THEN c.src.ident ELSE c.res.ident]
        new == Append(c.res.relpath, Last(c.call.path))
    IN  CASE c.call.op = "create" -> WithEntry(content, new, "file")
          [] c.call.op = "mkdir" -> WithEntry(content, new, "dir")
          [] c.call.op = "unlink" -> WithoutEntry(content, c.res.relpath, FALSE)
          [] c.call.op = "rmdir" -> WithoutEntry(content, c.res.relpath, TRUE)
          [] c.call.op = "rename" ->
                MovedEntry(content, c.src.relpath, Append(c.res.relpath, Last(c.call.to)))
          [] OTHER -> content

(* What proxy calls on the storage.                                        *)
Reached(t) ==
    LET c == thread[t]
        opened == [path |-> c.call.path, ident |-> c.res.ident]
        released == IF HandlesOf(c) = {} THEN {}
                    ELSE {CHOOSE h \in HandlesOf(c) : TRUE}
    IN  /\ store' = [store EXCEPT ![c.res.ident] = Effect(c)]
        /\ handles' = IF c.call.op = "open" /\ KindIn(store[c.res.ident], c.res.relpath) = "file"
                      THEN handles \cup {opened} ELSE handles \ released
        /\ thread' = [u \in Threads |-> IF u = t THEN NoCall
                                        ELSE IF store' # store THEN Overtaken(u)
                                        ELSE thread[u]]
        /\ leaked' = leaked

(* proxy, after the lookup: a read-only storage is not modified (EROFS).    *)
Call(t) ==
    LET c == thread[t] IN
    /\ c.pc = "call"
    /\ IF c.res.ident \notin live THEN GiveUp(t)
       ELSE IF Modifies(c.call.op) /\ c.res.ident \in mode.ro THEN GiveUp(t)
       ELSE IF c.res.ident \in down THEN GiveUp(t)
       ELSE Reached(t)
    /\ UNCHANGED <<mode, tables, cache, down, mount, mounts, calls>>

(* A storage stops answering, or answers again.                            *)
Break(i) ==
    /\ mode.faults
    /\ down' = IF i \in down THEN down \ {i} ELSE down \cup {i}
    /\ thread' = AllOvertaken
    /\ UNCHANGED <<mode, tables, cache, files, mount, mounts, calls>>

-----------------------------------------------------------------------------
PathsOf(m, i) == Range(m.paths[i])

TreeOf(m, ids) ==
    [n \in {Root} \cup UNION {UNION {Prefixes(p) : p \in PathsOf(m, i)} : i \in ids}
        |-> {i \in ids : n \in PathsOf(m, i)}]

(* The driver has mounted some storages already.                           *)
Init ==
    /\ mode \in Modes
    /\ live = mode.mounted
    /\ tree = TreeOf(mode, mode.mounted)
    /\ cache = NoAnswers
    /\ store \in mode.stores
    /\ down = {}
    /\ mount = NoMount
    /\ thread = [t \in Threads |-> NoCall]
    /\ handles = {} /\ leaked = {}
    /\ mounts = 0 /\ calls = 0

Mounter ==
    \/ \E i \in Idents : MountBegin(i) \/ UnmountBegin(i)
    \/ MountNode \/ UnmountNode \/ Prune \/ CacheClear

FileOp(t) ==
    \/ Start(t) \/ Hit(t) \/ Visit(t) \/ Descend(t)
    \/ Answered(t) \/ Stat(t) \/ Call(t)

Next ==
    \/ Mounter
    \/ \E t \in Threads : FileOp(t)
    \/ \E i \in Idents : Break(i)

Spec == Init /\ [][Next]_vars

-----------------------------------------------------------------------------
(* The tables keep their shape, and when nobody mounts or unmounts the     *)
(* tree is what the mounted storages make of it: every storage at each of  *)
(* its paths, and no node that leads to none (MountDir.mount, unmount).    *)
TypeOK ==
    /\ live \subseteq Idents /\ down \subseteq Idents
    /\ \A n \in Nodes : tree[n] \subseteq Idents
    /\ \A t \in Threads : thread[t].pc \in {"idle", "resolve", "visit", "leave", "stat", "call"}
    /\ mount.pc \in {"idle", "grow", "leave", "prune", "clear"}
    /\ mount.pc = "idle" => tree = TreeOf(mode, live)

(* A cached answer is what the tree says now, unless the lookup that put   *)
(* it there was overtaken by a mount or an unmount (_resolve may finish    *)
(* after the cache_clear that should have removed its answer).             *)
StaleIsRaced ==
    mount.pc \notin {"prune", "clear"} =>
        \A key \in DOMAIN cache : cache[key].raced \/ cache[key].ans = Claims(key)

(* Between calls of control_mount and control_unmount, with storages that  *)
(* answer: readdir and getattr agree.  A name that is listed is found and  *)
(* belongs to a storage that is mounted, or is a directory made by the     *)
(* mounts; the exceptions are a file under the name of a directory, and a  *)
(* real name of the form stem.wl_id.  When the mounts made the directory   *)
(* of that file's name (is_synthetic), the renamed file is found, too, but *)
(* as that directory: getattr_extended takes the id off first.             *)
Settled == mount.pc = "idle" /\ down = {}
Places == Nodes \cup UNION {{p \o r : p \in PathsOf(mode, i), r \in DOMAIN store[i]} : i \in live}
Listed(d) == LET l == Readdir(d, Claims(d)) IN IF l.error = None THEN l.names ELSE {}
Finds(path) == Getattr(path, Claims(RealPath(path))).error = None
ListedIsFound ==
    Settled => \A d \in Places : \A n \in Listed(d) :
                  Finds(Append(d, n)) <=>
                      (Len(n) > 1 => \/ Front(n) \notin Listed(d)
                                     \/ IsSynthetic(Append(d, Front(n))))

(* Without the exceptions (conflict.py:188-190: a single file with the     *)
(* same name as a directory is renamed).                                   *)
EveryListedIsFound == Settled => \A d \in Places : \A n \in Listed(d) : Finds(Append(d, n))

(* A call that was not overtaken creates an entry only in the one storage  *)
(* that can be written to there, and never in a read-only one              *)
(* (getattr_extended: "exactly one writable storage, so we know where to   *)
(* put new files").  The directory may be named with a storage id: the     *)
(* id is taken off before is_synthetic is asked, so that x.wl_1 stands for *)
(* a directory x that the mounts have made.                                *)
Changes(i) == store[i] # store'[i]
Target(call) == RealPath(Front(call.path))
NewEntriesAreUnambiguous ==
    [][\A t \in Threads, i \in Idents :
         /\ thread[t].pc = "call" /\ thread'[t].pc = "idle" /\ ~thread[t].raced
         /\ Changes(i)
         => /\ i \notin mode.ro /\ i \in live
            /\ MakesEntry(thread[t].call.op) =>
                  {res.ident : res \in WritableOf(Claims(Target(thread[t].call)))} = {i}]_vars

(* A directory that several storages can write to is read-only: the list   *)
(* of its files cannot be modified (conflict.py:185-187).                  *)
ForcedReadOnlyStays ==
    [][\A t \in Threads :
         /\ thread[t].pc = "call" /\ thread'[t].pc = "idle" /\ ~thread[t].raced
         /\ Cardinality(WritableOf(Claims(Front(thread[t].call.path)))) > 1
         => store' = store]_vars

(* A file that is open is released in the storage it was opened in.        *)
EveryOpenIsReleased == leaked = {}
=============================================================================
