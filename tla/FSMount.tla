------------------------------ MODULE FSMount ------------------------------
(***************************************************************************)
(* The mount table of the FUSE driver (wildland/fs_base.py): the control   *)
(* commands mount, unmount, add-watch and fileinfo, the file operations    *)
(* that go through proxy(), the lazily mounted storages (LazyStorageDict), *)
(* the reference count of a deduplicated backend (storage_backends/base.py)*)
(* and the watches of connected clients (wildland/fs_watchers.py).         *)
(*                                                                         *)
(* Every thread of the driver - one per control connection, one per FUSE   *)
(* request - is a member of Threads and runs one operation at a time.      *)
(* mount_lock is a non-reentrant lock; whatever the code does without it   *)
(* is a step of its own.                                                   *)
(***************************************************************************)
EXTENDS Integers, Sequences, FiniteSets

CONSTANTS
    Threads,    \* control connections and FUSE requests
    Paths,      \* mount points
    PathLists,  \* the path lists of mount commands; the head is the main path
    Backends,   \* deduplicated StorageBackend instances
    MaxIdent,   \* bound: storages mounted during a behaviour
    Ops,        \* the operations clients use
    Faults,     \* which of {"mount", "unmount"} a backend may fail
    None

ASSUME PathListsAssumption == PathLists \subseteq Seq(Paths) \ {<< >>}
ASSUME MaxIdentAssumption == MaxIdent \in Nat

(* An item of a mount command. *)
Requests == [paths : PathLists, backend : Backends, remount : BOOLEAN, lazy : BOOLEAN]

ASSUME NoneAssumption == None \notin Threads \cup Backends \cup Requests

VARIABLES
    storages,         \* LazyStorageDict._storages: ident -> backend or None
    initialized,      \* LazyStorageDict._initialized
    storage_paths,    \* ident -> path list, << >> when absent
    main_paths,       \* main path -> ident, 0 when absent
    storage_counter,  \* next ident
    resolver,         \* the resolver's prefix tree: path -> set of idents
    mount_lock,       \* the thread inside a "with mount_lock" block, or None
    mounted,          \* StorageBackend.mounted: the reference count
    up,               \* whether mount() of the backend is in effect
    watches,          \* connection -> watched ident, 0 when it has no watch
    watchers,         \* idents with a registered watcher thread
    pc, req, ident, backend, todo, cont, count   \* locals of each thread

tables == <<storages, storage_paths, main_paths, storage_counter>>
watchVars == <<watches, watchers>>
vars == <<storages, initialized, storage_paths, main_paths, storage_counter, resolver,
          mount_lock, mounted, up, watches, watchers,
          pc, req, ident, backend, todo, cont, count>>

Idents == 1..MaxIdent
PCs == {"idle", "mount", "unmount", "access", "close", "add_watch", "stop_watches",
        "uncount", "del", "resolver_del", "insert", "resolver_add",
        "get", "get_read", "get_write", "get_done", "start_watcher", "use"}
Critical == {"stop_watches", "uncount", "del", "resolver_del", "insert", "resolver_add",
             "start_watcher"}

Elems(s) == {s[k] : k \in 1..Len(s)}
(* Idents that are keys of the storage dictionary. *)
Mounted == {i \in Idents : storages[i] # None}
WatchesOf(i) == {t \in Threads : watches[t] = i}
(* The backend's watcher_instance is set by the watcher of one of its storages. *)
HasWatcher(b) == \E i \in watchers : storages[i] = b
(* Mount commands that have not taken their ident yet. *)
Mounting == {t \in Threads : /\ req[t] # None
                             /\ pc[t] \in {"mount", "stop_watches", "uncount", "del",
                                           "resolver_del", "insert"}}

TablesTypeOK ==
    /\ storages \in [Idents -> Backends \cup {None}]
    /\ initialized \in [Idents -> BOOLEAN]
    /\ storage_paths \in [Idents -> PathLists \cup {<< >>}]
    /\ main_paths \in [Paths -> Idents \cup {0}]
    /\ storage_counter \in 1..(MaxIdent + 1)
    /\ resolver \in [Paths -> SUBSET Idents]
    /\ mounted \in [Backends -> Int]
    /\ up \in [Backends -> BOOLEAN]
    /\ watches \in [Threads -> Idents \cup {0}]
    /\ watchers \in SUBSET Idents

ThreadsTypeOK ==
    /\ mount_lock \in Threads \cup {None}
    /\ pc \in [Threads -> PCs]
    /\ req \in [Threads -> Requests \cup {None}]
    /\ ident \in [Threads -> Idents \cup {0}]
    /\ backend \in [Threads -> Backends \cup {None}]
    /\ todo \in [Threads -> Seq(Paths)]
    /\ cont \in [Threads -> {"idle", "use", "insert", "start_watcher"}]
    /\ count \in [Threads -> Int]

TypeOK == TablesTypeOK /\ ThreadsTypeOK

Init ==
    /\ storages = [i \in Idents |-> None]
    /\ initialized = [i \in Idents |-> FALSE]
    /\ storage_paths = [i \in Idents |-> << >>]
    /\ main_paths = [p \in Paths |-> 0]
    /\ storage_counter = 1
    /\ resolver = [p \in Paths |-> {}]
    /\ mount_lock = None
    /\ mounted = [b \in Backends |-> 0]
    /\ up = [b \in Backends |-> FALSE]
    /\ watches = [t \in Threads |-> 0]
    /\ watchers = {}
    /\ pc = [t \in Threads |-> "idle"]
    /\ req = [t \in Threads |-> None]
    /\ ident = [t \in Threads |-> 0]
    /\ backend = [t \in Threads |-> None]
    /\ todo = [t \in Threads |-> << >>]
    /\ cont = [t \in Threads |-> "idle"]
    /\ count = [t \in Threads |-> 0]

-----------------------------------------------------------------------------
(* Thread control. *)

At(t, where) == pc[t] = where
Goto(t, where) == pc' = [pc EXCEPT ![t] = where]

(* The operation of t is over, normally or with an exception: the "with"     *)
(* statement releases the lock if t is inside one, and the locals are gone.  *)
Return(t) ==
    /\ pc' = [pc EXCEPT ![t] = "idle"]
    /\ req' = [req EXCEPT ![t] = None]
    /\ ident' = [ident EXCEPT ![t] = 0]
    /\ backend' = [backend EXCEPT ![t] = None]
    /\ todo' = [todo EXCEPT ![t] = << >>]
    /\ cont' = [cont EXCEPT ![t] = "idle"]
    /\ count' = [count EXCEPT ![t] = 0]
    /\ mount_lock' = IF mount_lock = t THEN None ELSE mount_lock

Acquire(t) == mount_lock = None /\ mount_lock' = t
Release(t) == mount_lock' = None

-----------------------------------------------------------------------------
(* control_mount, one item of its list: _mount_storage.  The outer loop only *)
(* collects the exceptions of the items, so a thread that mounts several     *)
(* items is a thread that runs this operation several times.                 *)

MountBegin(t) ==
    /\ "mount" \in Ops /\ At(t, "idle")
    /\ storage_counter + Cardinality(Mounting) <= MaxIdent     \* bound
    /\ \E r \in Requests : /\ r.lazy \/ "eager" \in Ops
                           /\ req' = [req EXCEPT ![t] = r]
    /\ Goto(t, "mount")
    /\ UNCHANGED <<tables, initialized, resolver, mount_lock, mounted, up, watchVars,
                   ident, backend, todo, cont, count>>

MountLocked(t) ==
    /\ At(t, "mount")
    /\ LET current == main_paths[Head(req[t].paths)] IN
       IF current = 0
       THEN /\ Acquire(t)
            /\ Goto(t, "insert")
            /\ UNCHANGED <<req, ident, backend, todo, cont, count>>
       ELSE IF req[t].remount
       THEN /\ Acquire(t)
            /\ ident' = [ident EXCEPT ![t] = current]
            /\ cont' = [cont EXCEPT ![t] = "insert"]
            /\ Goto(t, "stop_watches")
            /\ UNCHANGED <<req, backend, todo, count>>
       ELSE mount_lock = None /\ Return(t)                \* raise WildlandError
    /\ UNCHANGED <<tables, initialized, resolver, mounted, up, watchVars>>

(* Mutants: the ident of the new storage is not handed to the resolver; idents *)
(* are taken from the storages that happen to be mounted.                      *)
MountInsertAnonymous(t) ==
    /\ At(t, "insert")
    /\ storage_counter \in Idents
    /\ storages' = [storages EXCEPT ![storage_counter] = req[t].backend]
    /\ storage_paths' = [storage_paths EXCEPT ![storage_counter] = req[t].paths]
    /\ main_paths' = [main_paths EXCEPT ![Head(req[t].paths)] = storage_counter]
    /\ storage_counter' = storage_counter + 1
    /\ todo' = [todo EXCEPT ![t] = req[t].paths]
    /\ Goto(t, "resolver_add")
    /\ UNCHANGED <<initialized, resolver, mount_lock, mounted, up, watchVars,
                   req, ident, backend, cont, count>>

MountInsertRecycled(t) ==
    /\ At(t, "insert")
    /\ \E i \in Idents \ Mounted :
          /\ \A j \in Idents \ Mounted : i <= j
          /\ storages' = [storages EXCEPT ![i] = req[t].backend]
          /\ storage_paths' = [storage_paths EXCEPT ![i] = req[t].paths]
          /\ main_paths' = [main_paths EXCEPT ![Head(req[t].paths)] = i]
          /\ ident' = [ident EXCEPT ![t] = i]
    /\ storage_counter' = storage_counter + 1
    /\ todo' = [todo EXCEPT ![t] = req[t].paths]
    /\ Goto(t, "resolver_add")
    /\ UNCHANGED <<initialized, resolver, mount_lock, mounted, up, watchVars,
                   req, backend, cont, count>>

MountInsert(t) ==
    /\ At(t, "insert")
    /\ storage_counter \in Idents                         \* bound
    /\ LET i == storage_counter IN
       /\ storages' = [storages EXCEPT ![i] = req[t].backend]
       /\ initialized' = [initialized EXCEPT ![i] = FALSE]
       /\ storage_paths' = [storage_paths EXCEPT ![i] = req[t].paths]
       /\ main_paths' = [main_paths EXCEPT ![Head(req[t].paths)] = i]
       /\ ident' = [ident EXCEPT ![t] = i]
    /\ storage_counter' = storage_counter + 1
    /\ todo' = [todo EXCEPT ![t] = req[t].paths]
    /\ cont' = [cont EXCEPT ![t] = "use"]
    /\ Goto(t, "resolver_add")
    /\ UNCHANGED <<resolver, mount_lock, mounted, up, watchVars, req, backend, count>>

(* resolver.mount(path, ident) for each path, in order. *)
ResolverAdd(t) ==
    /\ At(t, "resolver_add") /\ todo[t] # << >>
    /\ resolver' = [resolver EXCEPT ![Head(todo[t])] = @ \cup {ident[t]}]
    /\ todo' = [todo EXCEPT ![t] = Tail(@)]
    /\ UNCHANGED <<tables, initialized, mount_lock, mounted, up, watchVars,
                   pc, req, ident, backend, cont, count>>

(* The lock is left; an eager mount then initialises the storage without it. *)
MountEnd(t) ==
    /\ At(t, "resolver_add") /\ todo[t] = << >>
    /\ IF req[t].lazy
       THEN Return(t)
       ELSE /\ Release(t)
            /\ Goto(t, "get")
            /\ UNCHANGED <<req, ident, backend, todo, cont, count>>
    /\ UNCHANGED <<tables, initialized, resolver, mounted, up, watchVars>>

-----------------------------------------------------------------------------
(* control_unmount: the storage is looked up before the lock is taken. *)

UnmountBegin(t) ==
    /\ "unmount" \in Ops /\ At(t, "idle")
    /\ \E i \in Mounted : ident' = [ident EXCEPT ![t] = i]
    /\ Goto(t, "unmount")
    /\ UNCHANGED <<tables, initialized, resolver, mount_lock, mounted, up, watchVars,
                   req, backend, todo, cont, count>>

UnmountLocked(t) ==
    /\ At(t, "unmount")
    /\ Acquire(t)
    /\ Goto(t, "stop_watches")
    /\ UNCHANGED <<tables, initialized, resolver, mounted, up, watchVars,
                   req, ident, backend, todo, cont, count>>

(* Mutant: the watches go, the watcher thread stays. *)
StopWatchesOnly(t) ==
    /\ At(t, "stop_watches") /\ ident[t] \in Mounted
    /\ watches' = [u \in Threads |-> IF watches[u] = ident[t] THEN 0 ELSE watches[u]]
    /\ Goto(t, IF initialized[ident[t]] THEN "uncount" ELSE "del")
    /\ UNCHANGED <<tables, initialized, resolver, mount_lock, mounted, up, watchers,
                   req, ident, backend, todo, cont, count>>

(* _unmount_storage: remove_watches, then the assertions that fail when       *)
(* another thread unmounted the storage between the look-up and the lock.     *)
StopWatches(t) ==
    /\ At(t, "stop_watches")
    /\ watches' = [u \in Threads |-> IF watches[u] = ident[t] THEN 0 ELSE watches[u]]
    /\ watchers' = watchers \ {ident[t]}
    /\ IF ident[t] \notin Mounted
       THEN Return(t)                                     \* AssertionError
       ELSE /\ Goto(t, IF initialized[ident[t]] THEN "uncount" ELSE "del")
            /\ UNCHANGED <<mount_lock, req, ident, backend, todo, cont, count>>
    /\ UNCHANGED <<tables, initialized, resolver, mounted, up>>

(* request_unmount reads self.mounted ... *)
Uncount(t) ==
    /\ At(t, "uncount")
    /\ count' = [count EXCEPT ![t] = mounted[storages[ident[t]]]]
    /\ Goto(t, "del")
    /\ UNCHANGED <<tables, initialized, resolver, mount_lock, mounted, up, watchVars,
                   req, ident, backend, todo, cont>>

(* ... and writes it back; the last reference unmounts the backend.           *)
UnmountBackend(b, n) ==
    /\ mounted' = [mounted EXCEPT ![b] = n]
    /\ up' = IF n = 0 THEN [up EXCEPT ![b] = FALSE] ELSE up

(* The dictionary entries are deleted once request_unmount() has returned.    *)
(* mains and rest are what becomes of the main paths and of the paths to      *)
(* withdraw from the resolver.                                                *)
DelEntries(t, mains, rest) ==
    /\ At(t, "del")
    /\ LET i == ident[t] IN
       /\ IF initialized[i]
          THEN UnmountBackend(storages[i], count[t] - 1)
          ELSE UNCHANGED <<mounted, up>>
       /\ storages' = [storages EXCEPT ![i] = None]
       /\ initialized' = [initialized EXCEPT ![i] = FALSE]
       /\ storage_paths' = [storage_paths EXCEPT ![i] = << >>]
    /\ main_paths' = mains
    /\ todo' = [todo EXCEPT ![t] = rest]
    /\ Goto(t, "resolver_del")
    /\ UNCHANGED <<storage_counter, resolver, mount_lock, watchVars,
                   req, ident, backend, cont, count>>

(* Mutants: del main_paths[...] forgotten; the main path left in the resolver. *)
DelTablesKeepsMain(t) == DelEntries(t, main_paths, storage_paths[ident[t]])
DelTablesSkipsMain(t) ==
    DelEntries(t, [main_paths EXCEPT ![Head(storage_paths[ident[t]])] = 0],
                  Tail(storage_paths[ident[t]]))

DelTables(t) ==
    DelEntries(t, [main_paths EXCEPT ![Head(storage_paths[ident[t]])] = 0],
                  storage_paths[ident[t]])

(* unmount() of the backend raises: the count is already written, the entries *)
(* stay, and what the backend did of its unmounting is unknown.               *)
UnmountFails(t) ==
    /\ "unmount" \in Faults /\ At(t, "del")
    /\ initialized[ident[t]] /\ count[t] = 1
    /\ LET b == storages[ident[t]] IN
       /\ mounted' = [mounted EXCEPT ![b] = 0]
       /\ \E still \in BOOLEAN : up' = [up EXCEPT ![b] = still]
    /\ Return(t)
    /\ UNCHANGED <<tables, initialized, resolver, watchVars>>

(* resolver.unmount(path, ident) for each path; it raises for a path from     *)
(* which the storage is already gone.                                         *)
ResolverDel(t) ==
    /\ At(t, "resolver_del") /\ todo[t] # << >>
    /\ LET p == Head(todo[t]) IN
       IF ident[t] \in resolver[p]
       THEN /\ resolver' = [resolver EXCEPT ![p] = @ \ {ident[t]}]
            /\ todo' = [todo EXCEPT ![t] = Tail(@)]
            /\ UNCHANGED <<pc, req, ident, backend, cont, count, mount_lock>>
       ELSE Return(t) /\ UNCHANGED resolver               \* KeyError, AssertionError
    /\ UNCHANGED <<tables, initialized, mounted, up, watchVars>>

UnmountEnd(t) ==
    /\ At(t, "resolver_del") /\ todo[t] = << >>
    /\ IF cont[t] = "insert"                              \* _mount_storage goes on
       THEN Goto(t, "insert") /\ UNCHANGED <<mount_lock, req, ident, backend, todo, cont, count>>
       ELSE Return(t)
    /\ UNCHANGED <<tables, initialized, resolver, mounted, up, watchVars>>

-----------------------------------------------------------------------------
(* LazyStorageDict.get with StorageBackend.request_mount, in four steps:      *)
(* the look-up and the check of self.mounted, the read and the write of       *)
(* self.mounted += 1, and the flag.  The caller may or may not hold the lock. *)

MountBackend(b) ==
    IF mounted[b] = 0 THEN up' = [up EXCEPT ![b] = TRUE] ELSE UNCHANGED up

(* Leaves get(): what the caller does next, after its "with" block if any.    *)
GotStorage(t) ==
    /\ Goto(t, cont[t])
    /\ mount_lock' = IF mount_lock = t /\ cont[t] = "use" THEN None ELSE mount_lock

(* Mutant: request_mount for a storage that is initialised already. *)
GetLookupAlways(t) ==
    /\ At(t, "get") /\ storages[ident[t]] # None
    /\ backend' = [backend EXCEPT ![t] = storages[ident[t]]]
    /\ MountBackend(storages[ident[t]])
    /\ Goto(t, "get_read")
    /\ UNCHANGED <<tables, initialized, resolver, mount_lock, mounted, watchVars,
                   req, ident, todo, cont, count>>

GetLookup(t) ==
    /\ At(t, "get")
    /\ LET b == storages[ident[t]] IN
       IF b = None
       THEN Return(t) /\ UNCHANGED up                     \* KeyError
       ELSE /\ backend' = [backend EXCEPT ![t] = b]
            /\ IF initialized[ident[t]]
               THEN GotStorage(t) /\ UNCHANGED up
               ELSE MountBackend(b) /\ Goto(t, "get_read") /\ UNCHANGED mount_lock
            /\ UNCHANGED <<req, ident, todo, cont, count>>
    /\ UNCHANGED <<tables, initialized, resolver, mounted, watchVars>>

(* Mutant: the exception leaves the critical section without unlocking. *)
MountFailsLocked(t) ==
    /\ "mount" \in Faults /\ At(t, "get")
    /\ storages[ident[t]] # None /\ ~initialized[ident[t]]
    /\ mounted[storages[ident[t]]] = 0
    /\ Goto(t, "idle")
    /\ UNCHANGED <<tables, initialized, resolver, mount_lock, mounted, up, watchVars,
                   req, ident, backend, todo, cont, count>>

MountFails(t) ==
    /\ "mount" \in Faults /\ At(t, "get")
    /\ storages[ident[t]] # None /\ ~initialized[ident[t]]
    /\ mounted[storages[ident[t]]] = 0
    /\ Return(t)                                          \* WildlandError
    /\ UNCHANGED <<tables, initialized, resolver, mounted, up, watchVars>>

GetRead(t) ==
    /\ At(t, "get_read")
    /\ count' = [count EXCEPT ![t] = mounted[backend[t]]]
    /\ Goto(t, "get_write")
    /\ UNCHANGED <<tables, initialized, resolver, mount_lock, mounted, up, watchVars,
                   req, ident, backend, todo, cont>>

GetWrite(t) ==
    /\ At(t, "get_write")
    /\ mounted' = [mounted EXCEPT ![backend[t]] = count[t] + 1]
    /\ Goto(t, "get_done")
    /\ UNCHANGED <<tables, initialized, resolver, mount_lock, up, watchVars,
                   req, ident, backend, todo, cont, count>>

GetDone(t) ==
    /\ At(t, "get_done")
    /\ initialized' = [initialized EXCEPT ![ident[t]] = TRUE]
    /\ GotStorage(t)
    /\ UNCHANGED <<tables, resolver, mounted, up, watchVars,
                   req, ident, backend, todo, cont, count>>

-----------------------------------------------------------------------------
(* A file operation: getattr_extended picks a storage without the lock, the   *)
(* storage object is then fetched under it and used after its release.        *)

AccessResolve(t) ==
    /\ "access" \in Ops /\ At(t, "idle")
    /\ \E p \in Paths : \E i \in resolver[p] : ident' = [ident EXCEPT ![t] = i]
    /\ cont' = [cont EXCEPT ![t] = "use"]
    /\ Goto(t, "access")
    /\ UNCHANGED <<tables, initialized, resolver, mount_lock, mounted, up, watchVars,
                   req, backend, todo, count>>

AccessLocked(t) ==
    /\ At(t, "access")
    /\ Acquire(t)
    /\ Goto(t, "get")
    /\ UNCHANGED <<tables, initialized, resolver, mounted, up, watchVars,
                   req, ident, backend, todo, cont, count>>

(* control_fileinfo indexes self.storages without the lock. *)
FileInfo(t) ==
    /\ "fileinfo" \in Ops /\ At(t, "idle")
    /\ \E p \in Paths : \E i \in resolver[p] : ident' = [ident EXCEPT ![t] = i]
    /\ cont' = [cont EXCEPT ![t] = "use"]
    /\ Goto(t, "get")
    /\ UNCHANGED <<tables, initialized, resolver, mount_lock, mounted, up, watchVars,
                   req, backend, todo, count>>

(* The storage's own method returned; an eager mount is over in the same way. *)
UseEnd(t) ==
    /\ At(t, "use")
    /\ Return(t)
    /\ UNCHANGED <<tables, initialized, resolver, mounted, up, watchVars>>

-----------------------------------------------------------------------------
(* control_add_watch and the closing of a connection. *)

AddWatchBegin(t) ==
    /\ "watch" \in Ops /\ At(t, "idle")
    /\ watches[t] = 0                                     \* bound: a watch per connection
    /\ \E i \in Mounted : ident' = [ident EXCEPT ![t] = i]
    /\ Goto(t, "add_watch")
    /\ UNCHANGED <<tables, initialized, resolver, mount_lock, mounted, up, watchVars,
                   req, backend, todo, cont, count>>

(* The watch is registered first; the first watch of a storage then needs the *)
(* storage itself, to start its watcher.                                      *)
AddWatchLocked(t) ==
    /\ At(t, "add_watch")
    /\ mount_lock = None
    /\ watches' = [watches EXCEPT ![t] = ident[t]]
    /\ IF WatchesOf(ident[t]) = {}
       THEN /\ mount_lock' = t
            /\ cont' = [cont EXCEPT ![t] = "start_watcher"]
            /\ Goto(t, "get")
            /\ UNCHANGED <<req, ident, backend, todo, count>>
       ELSE Return(t)
    /\ UNCHANGED <<tables, initialized, resolver, mounted, up, watchers>>

(* StorageBackend.start_watcher refuses a second watcher of one backend. *)
StartWatcher(t) ==
    /\ At(t, "start_watcher")
    /\ watchers' = IF HasWatcher(backend[t]) THEN watchers ELSE watchers \cup {ident[t]}
    /\ Return(t)
    /\ UNCHANGED <<tables, initialized, resolver, mounted, up, watches>>

CloseBegin(t) ==
    /\ At(t, "idle") /\ watches[t] # 0
    /\ Goto(t, "close")
    /\ UNCHANGED <<tables, initialized, resolver, mount_lock, mounted, up, watchVars,
                   req, ident, backend, todo, cont, count>>

(* _cleanup_watch: the watch may be gone, when its storage was unmounted. *)
CleanupWatch(t) ==
    /\ At(t, "close")
    /\ mount_lock = None
    /\ watches' = [watches EXCEPT ![t] = 0]
    /\ watchers' = IF WatchesOf(watches[t]) = {t} THEN watchers \ {watches[t]} ELSE watchers
    /\ Return(t)
    /\ UNCHANGED <<tables, initialized, resolver, mounted, up>>

-----------------------------------------------------------------------------

Step(t) ==
    \/ MountLocked(t) \/ MountInsert(t) \/ ResolverAdd(t) \/ MountEnd(t)
    \/ UnmountLocked(t) \/ StopWatches(t) \/ Uncount(t) \/ DelTables(t) \/ UnmountFails(t)
    \/ ResolverDel(t) \/ UnmountEnd(t)
    \/ GetLookup(t) \/ MountFails(t) \/ GetRead(t) \/ GetWrite(t) \/ GetDone(t)
    \/ AccessLocked(t) \/ UseEnd(t)
    \/ AddWatchLocked(t) \/ StartWatcher(t) \/ CleanupWatch(t)

Begin(t) ==
    \/ MountBegin(t) \/ UnmountBegin(t) \/ AccessResolve(t) \/ FileInfo(t)
    \/ AddWatchBegin(t) \/ CloseBegin(t)

(* No operation runs; without it the bound on idents would look like a deadlock. *)
Quiet == (\A t \in Threads : At(t, "idle")) /\ UNCHANGED vars

Next == (\E t \in Threads : Begin(t) \/ Step(t)) \/ Quiet

Spec == Init /\ [][Next]_vars
(* A thread that runs an operation is scheduled; nobody has to start one. *)
FairSpec == Spec /\ \A t \in Threads : WF_vars(Step(t))

-----------------------------------------------------------------------------
(* Properties. *)

(* storages, storage_paths and main_paths describe the same set of mounted     *)
(* storages, and no two of them share a main path (fs_base.py, _mount_storage  *)
(* and _unmount_storage), whatever failed before.                              *)
TablesAgree ==
    /\ \A i \in Idents : storages[i] = None <=> storage_paths[i] = << >>
    /\ \A p \in Paths, i \in Idents :
          main_paths[p] = i <=> storages[i] # None /\ Head(storage_paths[i]) = p

(* Outside the critical sections the resolver's tree holds exactly the mounted *)
(* storages, each at exactly its own paths.                                    *)
ResolverAgrees ==
    mount_lock = None =>
        \A p \in Paths : resolver[p] = {i \in Mounted : p \in Elems(storage_paths[i])}

(* An ident resolved before the lock was taken can never denote another        *)
(* storage afterwards: at worst it denotes none (proxy, control_unmount).      *)
IdentsDenoteOneStorage ==
    [][\A i \in Idents :
          i < storage_counter => storages'[i] \in {storages[i], None}]_vars

(* Unmounting a storage and closing a connection stop watcher threads with     *)
(* their last watch: none is left for a storage that is gone or unwatched.     *)
NoOrphanWatcher ==
    mount_lock = None =>
        /\ watchers \subseteq {i \in Mounted : WatchesOf(i) # {}}
        /\ \A i, j \in watchers : storages[i] = storages[j] => i = j

(* When every get() is made under mount_lock, the reference count of a shared  *)
(* backend is the number of initialised storages that use it, and the backend  *)
(* is mounted exactly while there is one (request_mount, request_unmount).     *)
RefcountExact ==
    mount_lock = None =>
        \A b \in Backends :
            LET users == {i \in Mounted : storages[i] = b /\ initialized[i]} IN
            /\ mounted[b] = Cardinality(users)
            /\ up[b] <=> users # {}

(* Every critical section ends, on its error paths too: no thread keeps        *)
(* mount_lock for ever.                                                        *)
LockReleased == \A t \in Threads : mount_lock = t ~> mount_lock # t

(* The driver implements the table its control clients see.                    *)
Table == INSTANCE MountTable WITH table <- storage_paths, next <- storage_counter
ImplementsMountTable == Table!Spec

(* "Unmounts deleted storages" (LazyStorageDict): with nothing running, a      *)
(* backend that no mounted storage uses is unmounted.                          *)
DeletedStoragesUnmounted ==
    (\A t \in Threads : At(t, "idle")) =>
        \A b \in Backends : (\A i \in Mounted : storages[i] # b) => ~up[b]

(* "Request storage to be mounted, if not mounted already" (request_mount): when *)
(* it returns to LazyStorageDict.get, the backend is mounted.                   *)
RequestMountMounts ==
    [][\A t \in Threads : At(t, "get_write") /\ pc'[t] = "get_done" => up[backend[t]]]_vars

(* "Start a watch thread, but only if the storage provides watcher() method"   *)
(* (add_watch; every backend here provides one): a watched storage is watched. *)
WatchedHasWatcher ==
    mount_lock = None => \A i \in Mounted : WatchesOf(i) # {} => i \in watchers
=============================================================================
