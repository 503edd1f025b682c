----------------------------- MODULE NaiveSync -----------------------------
(***************************************************************************)
(* NaiveSyncer (wildland/storage_sync/naive_sync.py) between two local     *)
(* storages (wildland/storage_backends/local.py): files and directories,   *)
(* the inotify queue and the ignore list of each storage's watcher, the    *)
(* handlers of the two watcher threads under the syncer's lock, the        *)
(* initial sync, and users who edit either storage at any moment.          *)
(*                                                                         *)
(* Every call the syncer makes on a storage is a step of its own, so that  *)
(* a user's edit may come between any two of them.  What is left to do of  *)
(* the syncer's current call is a stack of tasks, work; the code's local   *)
(* variables that outlive a storage call are fields of its tasks.          *)
(***************************************************************************)
EXTENDS Naturals, Sequences, SequencesExt

CONSTANTS
    Paths,          \* the names a storage may hold
    Root,           \* the root directory
    Parent,         \* Paths -> Paths \cup {Root}
    Contents,       \* what users write into files
    Jobs            \* the sync jobs, and what users do meanwhile, by name

Storages == {"source", "target"}
Other(s) == IF s = "source" THEN "target" ELSE "source"

Absent == "absent"
Dir == "dir"
Empty == "empty"          \* the content of a file that was created and not written
NoHash == "none"          \* Python's None as a hash
Missing == "missing"      \* not a key of the dictionary
Files == Contents \cup {Empty}
Nodes == Files \cup {Absent, Dir}
Hashes == Files \cup {NoHash}      \* a file's hash stands for its content
Types == {"CREATE", "DELETE", "MODIFY"}
Events == [type : Types, path : Paths, is_dir : BOOLEAN]

ASSUME ConstantsAssumption ==
    /\ Root \notin Paths
    /\ Parent \in [Paths -> Paths \cup {Root}]
    /\ Contents \cap {Absent, Dir, Empty, NoHash, Missing} = {}

(* Bound: directories are at the root, files at the root or in a directory.  *)
Dirs == {p \in Paths : Parent[p] = Root}
Trees == {t \in [Paths -> Nodes] :
             \A p \in Paths : /\ t[p] = Dir => p \in Dirs
                              /\ t[p] # Absent => p \in Dirs \/ t[Parent[p]] = Dir}

(* A job and its users: initial, the set of what the storages may hold before; *)
(* continuous, start_sync or one_shot_sync; unidirectional; editors, the      *)
(* storages users edit; edits, what they do; max, the bound on their edits;   *)
(* pace, what they wait for before each (nothing, the initial sync, or that   *)
(* the last change is synced).                                                *)
ASSUME JobsAssumption ==
    /\ \A p \in Paths : Parent[p] # Root => Parent[p] \in Dirs
    /\ \A j \in Range(Jobs) :
          /\ DOMAIN j = {"initial", "continuous", "unidirectional", "editors", "edits",
                         "max", "pace"}
          /\ j.initial \subseteq [Storages -> Trees]
          /\ j.editors \subseteq Storages /\ j.max \in Nat
          /\ j.edits \subseteq {"write", "delete", "mkdir", "rmdir", "rename"}
          /\ j.pace \in {"any", "started", "synced"}

VARIABLES
    job,         \* the name of the job, which never changes
    fs,          \* what each storage holds
    watched,     \* the directories inotify watches; empty without a watcher
    queue,       \* inotify events not yet read
    ignore,      \* LocalStorageWatcher.ignore_list
    inbox,       \* events a watcher thread has read and not yet handled
    hashes,      \* NaiveSyncer.storage_hashes
    dirs,        \* storage_dirs of the initial sync
    conflicts,   \* paths in NaiveSyncer.conflicts
    phase,       \* of the job: starting, running, failed (to start), stopped
    holder,      \* whose call runs under the lock: the start, a storage's watcher, nobody
    work,        \* what is left of that call
    orphan,      \* the file being written was unlinked meanwhile
    state,       \* BaseSyncer.state
    edits        \* edits so far

disk == <<fs, watched, queue>>
memory == <<hashes, dirs, conflicts>>
control == <<phase, holder, work, state>>
Job == Jobs[job]

vars == <<job, fs, watched, queue, ignore, inbox, hashes, dirs, conflicts, phase, holder, work,
          orphan, state, edits>>

Tasks == [op : {"watch", "one_shot", "scan", "scan_visit", "dirs", "mkdirs", "differ",
                "missing", "files", "CREATE", "MODIFY", "DELETE", "mkdir", "list", "visit",
                "target", "open_new", "open", "copy", "write", "check", "unlink",
                "rmtree", "rmchildren", "rmfile"},
          src : Storages,              \* where the change comes from
          path : Paths \cup {Root},
          paths : SUBSET Paths,        \* what is left of a loop
          old : Hashes \cup {Missing}, \* old_source_hash
          is_dir : BOOLEAN]

Do(op, s, p) == [op |-> op, src |-> s, path |-> p, paths |-> {}, old |-> Missing,
                 is_dir |-> FALSE]
Loop(op, s, p, ps) == [Do(op, s, p) EXCEPT !.paths = ps]

TypeOK ==
    /\ job \in DOMAIN Jobs
    /\ fs \in [Storages -> Trees]
    /\ watched \in [Storages -> SUBSET (Paths \cup {Root})]
    /\ queue \in [Storages -> Seq(Events)]
    /\ ignore \in [Storages -> Seq(Types \X Paths)]
    /\ inbox \in [Storages -> Seq(Events)]
    /\ hashes \in [Storages -> [Paths -> Hashes \cup {Missing}]]
    /\ dirs \in [Storages -> SUBSET Paths]
    /\ conflicts \in SUBSET Paths
    /\ phase \in {"starting", "running", "failed", "stopped"}
    /\ holder \in Storages \cup {"start", "nobody"}
    /\ work \in Seq(Tasks)
    /\ orphan \in BOOLEAN
    /\ state \in {"STOPPED", "ONE_SHOT", "RUNNING", "SYNCED", "ERROR"}
    /\ edits \in 0..Job.max

(* _one_shot_sync, after the watchers of start_sync.                         *)
(* Mutant: the target is synced back to the source in a one-way sync, too. *)
DirectionsBoth == <<"source", "target">>
Directions == IF Job.unidirectional THEN <<"source">> ELSE <<"source", "target">>
Each(op) == [k \in 1..Len(Directions) |-> Do(op, Directions[k], Root)]

Startup ==
    (IF Job.continuous THEN Each("watch") ELSE << >>)
    \o <<Do("one_shot", "source", Root), Do("scan", "source", Root), Do("scan", "target", Root)>>
    \o Each("dirs") \o <<Do("differ", "source", Root)>> \o Each("missing")

Init ==
    /\ job \in DOMAIN Jobs
    /\ fs \in Job.initial
    /\ watched = [s \in Storages |-> {}]
    /\ queue = [s \in Storages |-> << >>]
    /\ ignore = [s \in Storages |-> << >>]
    /\ inbox = [s \in Storages |-> << >>]
    /\ hashes = [s \in Storages |-> [p \in Paths |-> Missing]]
    /\ dirs = [s \in Storages |-> {}]
    /\ conflicts = {}
    /\ phase = "starting"
    /\ holder = "start"
    /\ work = Startup
    /\ orphan = FALSE
    /\ state = "STOPPED"
    /\ edits = 0

-----------------------------------------------------------------------------
(* A storage on disk and its inotify queue. *)

Children(s, p) == {q \in Paths : Parent[q] = p /\ fs[s][q] # Absent}
(* Opening or stat-ing p raises NotADirectoryError; creating it may also raise *)
(* FileNotFoundError.                                                          *)
UnderFile(s, p) == p \notin Dirs /\ fs[s][Parent[p]] \in Files
InDirectory(s, p) == p \notin Dirs => fs[s][Parent[p]] = Dir

Event(type, p, is_dir) == [type |-> type, path |-> p, is_dir |-> is_dir]

(* inotify merges an event that equals the last one queued.                   *)
Enqueue(events, e) == IF events # << >> /\ Last(events) = e THEN events ELSE Append(events, e)
Report(s, events) ==
    LET seen == SelectSeq(events, LAMBDA e : Parent[e.path] \in watched[s]) IN
    queue' = [queue EXCEPT ![s] = FoldLeft(Enqueue, @, seen)]

(* The node becomes what is at p; a directory that goes takes its watch along. *)
Put(s, p, node, events) ==
    /\ fs' = [fs EXCEPT ![s][p] = node]
    /\ Report(s, events)
    /\ watched' = [watched EXCEPT ![s] = IF node = Dir THEN @ ELSE @ \ {p}]

(* ignore_event: the backend announces what it is about to do to its watcher. *)
Ignore(s, type, p) ==
    ignore' = IF watched[s] = {} THEN ignore
              ELSE [ignore EXCEPT ![s] = Append(@, <<type, p>>)]

(* get_hash: the file's hash, None below a file; for a path that holds no file *)
(* Absent or Dir, where the code raises.                                      *)
Hash(s, p) == IF UnderFile(s, p) THEN NoHash ELSE fs[s][p]
Known(h) == h \in Files
(* dict.get *)
Get(s, p) == IF hashes[s][p] = Missing THEN NoHash ELSE hashes[s][p]
Keys(s) == {p \in Paths : hashes[s][p] # Missing}

Record(s, p, h) == hashes' = [hashes EXCEPT ![s][p] = h]
(* _remove_subdir_paths *)
Forgotten(s, p) == [q \in Paths |-> IF q = p \/ Parent[q] = p THEN Missing ELSE hashes[s][q]]
Forget(s, p) == hashes' = [hashes EXCEPT ![s] = Forgotten(s, p)]

-----------------------------------------------------------------------------
(* The stack of tasks. *)

Doing(op) == work # << >> /\ Head(work).op = op
task == Head(work)
Src == task.src
Dst == Other(task.src)
path == task.path

Replace(tasks) == work' = tasks \o Tail(work) /\ UNCHANGED <<phase, holder, state>>
Then(op) == Replace(<<[task EXCEPT !.op = op]>>)
Pop == Replace(<< >>)

(* An exception: out of the initial sync it reaches the worker, which sets the *)
(* state and will stop the syncer; a handler drops the rest of its batch.     *)
Fail ==
    /\ work' = << >>
    /\ state' = "ERROR"
    /\ IF holder = "start" THEN phase' = "failed" /\ holder' = "nobody"
                           ELSE UNCHANGED <<phase, holder>>

Conflict(p) == conflicts' = conflicts \cup {p}
Quietly == UNCHANGED <<disk, ignore>>            \* nothing happens to a storage
world == <<inbox, edits>>

-----------------------------------------------------------------------------
(* The initial sync: _one_shot_sync. *)

Watch ==
    /\ Doing("watch")
    /\ watched' = [watched EXCEPT ![Src] = {Root} \cup {p \in Dirs : fs[Src][p] = Dir}]
    /\ Pop
    /\ UNCHANGED <<fs, queue, ignore, memory, orphan, world>>

OneShot ==
    /\ Doing("one_shot")
    /\ state' = "ONE_SHOT"
    /\ work' = Tail(work)
    /\ UNCHANGED <<disk, ignore, memory, phase, holder, orphan, world>>

(* walk: the names in a directory, then what each of them is.                 *)
ReadDir(op, then) ==
    /\ Doing(op)
    /\ IF path = Root \/ fs[Src][path] = Dir
       THEN Replace(<<Loop(then, Src, path, Children(Src, path))>>)
       ELSE Fail
    /\ Quietly /\ UNCHANGED <<memory, orphan, world>>

Scan == ReadDir("scan", "scan_visit")

(* The attributes and the hash of p are taken in one step: had p changed in   *)
(* between, the second call would raise like the first.                       *)
ScanVisit ==
    /\ Doing("scan_visit")
    /\ \/ task.paths = {} /\ Pop /\ UNCHANGED memory
       \/ \E p \in task.paths :
             LET rest == Loop("scan_visit", Src, path, task.paths \ {p}) IN
             \/ fs[Src][p] = Absent /\ Fail /\ UNCHANGED memory
             \/ /\ fs[Src][p] = Dir
                /\ dirs' = [dirs EXCEPT ![Src] = @ \cup {p}]
                /\ Replace(<<Do("scan", Src, p), rest>>)
                /\ UNCHANGED <<hashes, conflicts>>
             \/ /\ fs[Src][p] \in Files
                /\ Record(Src, p, fs[Src][p])
                /\ Replace(<<rest>>)
                /\ UNCHANGED <<dirs, conflicts>>
    /\ Quietly /\ UNCHANGED <<orphan, world>>

(* os.makedirs with exist_ok; the CREATE is announced whatever is there.      *)
MakeDir(s, p) ==
    /\ Ignore(s, "CREATE", p)
    /\ IF fs[s][p] = Absent THEN Put(s, p, Dir, <<Event("CREATE", p, TRUE)>>)
                            ELSE UNCHANGED disk

SyncDirs ==
    /\ Doing("dirs")
    /\ Replace(<<Loop("mkdirs", Src, Root, dirs[Src] \ dirs[Dst])>>)
    /\ Quietly /\ UNCHANGED <<memory, orphan, world>>

MakeDirs ==
    /\ Doing("mkdirs")
    /\ \/ task.paths = {} /\ Pop /\ Quietly /\ UNCHANGED conflicts
       \/ \E p \in task.paths :
             /\ MakeDir(Dst, p)
             /\ IF fs[Dst][p] \in Files THEN Conflict(p) ELSE UNCHANGED conflicts
             /\ Replace(<<Loop("mkdirs", Src, Root, task.paths \ {p})>>)
    /\ UNCHANGED <<hashes, dirs, orphan, world>>

(* Mutant: the paths one storage lacks, instead of those that differ. *)
FindConflictsMissing ==
    /\ Doing("differ")
    /\ conflicts' = conflicts \cup {p \in Keys("source") : p \notin Keys("target")}
    /\ Pop
    /\ Quietly /\ UNCHANGED <<hashes, dirs, orphan, world>>

FindConflicts ==
    /\ Doing("differ")
    /\ conflicts' = conflicts \cup {p \in Keys("source") \cap Keys("target") :
                                       hashes["source"][p] # hashes["target"][p]}
    /\ Pop
    /\ Quietly /\ UNCHANGED <<hashes, dirs, orphan, world>>

(* The removal of files that were deleted offline never happens here: the     *)
(* code compares a HashCache with a hash.                                     *)
FindMissing ==
    /\ Doing("missing")
    /\ Replace(<<Loop("files", Src, Root, Keys(Src) \ Keys(Dst))>>)
    /\ Quietly /\ UNCHANGED <<memory, orphan, world>>

SyncMissing ==
    /\ Doing("files")
    /\ \/ task.paths = {} /\ Pop
       \/ \E p \in task.paths :
             Replace(<<Do("MODIFY", Src, p), Loop("files", Src, Root, task.paths \ {p})>>)
    /\ Quietly /\ UNCHANGED <<memory, orphan, world>>

-----------------------------------------------------------------------------
(* _create_object and _sync_dir. *)

CreateObject ==
    /\ Doing("CREATE")
    /\ IF UnderFile(Src, path) THEN Fail
       ELSE \/ fs[Src][path] = Absent /\ Pop
            \/ fs[Src][path] = Dir /\ Replace(<<Do("mkdir", Src, path), Do("list", Src, path)>>)
            \/ fs[Src][path] \in Files /\ Then("MODIFY")
    /\ Quietly /\ UNCHANGED <<memory, orphan, world>>

(* FileExistsError is swallowed. *)
Mkdir ==
    /\ Doing("mkdir")
    /\ MakeDir(Dst, path)
    /\ Pop
    /\ UNCHANGED <<memory, orphan, world>>

ListDir == ReadDir("list", "visit")

Visit ==
    /\ Doing("visit")
    /\ \/ task.paths = {} /\ Pop
       \/ \E p \in task.paths :
             IF fs[Src][p] = Absent THEN Fail
             ELSE Replace(<<Do("MODIFY", Src, p), Loop("visit", Src, path, task.paths \ {p})>>)
    /\ Quietly /\ UNCHANGED <<memory, orphan, world>>

-----------------------------------------------------------------------------
(* _sync_file. *)

(* The source's hash is taken and recorded.  A file that is gone loses its    *)
(* hash, which in the initial sync breaks the loop over the hashes.           *)
SyncFile ==
    /\ Doing("MODIFY")
    /\ LET h == Hash(Src, path) IN
       IF h \in {Absent, Dir}
       THEN /\ Record(Src, path, Missing)
            /\ IF holder = "start" THEN Fail ELSE Pop
       ELSE /\ Record(Src, path, h)
            /\ Replace(<<[task EXCEPT !.op = "target", !.old = hashes[Src][path]]>>)
    /\ Quietly /\ UNCHANGED <<dirs, conflicts, orphan, world>>

(* Mutant: a known conflict does not prevent syncing. *)
SyncTargetBlind ==
    /\ Doing("target")
    /\ LET found == Hash(Dst, path)
           hash == IF found = Absent THEN NoHash ELSE found
           known == hashes[Dst][path]
       IN IF found = Dir THEN Conflict(path) /\ Pop
          ELSE IF hash = hashes[Src][path] THEN Pop /\ UNCHANGED conflicts
          ELSE IF Known(known) /\ Known(hash) /\ hash # known
          THEN Conflict(path) /\ Pop
          ELSE Then(IF Known(hash) THEN "open" ELSE "open_new") /\ UNCHANGED conflicts
    /\ Quietly /\ UNCHANGED <<hashes, dirs, orphan, world>>

(* The target's hash, and what to do about it.                                *)
SyncTarget ==
    /\ Doing("target")
    /\ LET found == Hash(Dst, path)
           hash == IF found = Absent THEN NoHash ELSE found
           known == hashes[Dst][path]
       IN IF found = Dir THEN Conflict(path) /\ Pop
          ELSE IF \/ /\ Known(known) /\ Known(task.old) /\ known # task.old
                     /\ hash # NoHash                         \* known conflict
                  \/ hash = hashes[Src][path]                 \* nothing to do
          THEN Pop /\ UNCHANGED conflicts
          ELSE IF Known(known) /\ Known(hash) /\ hash # known
          THEN Conflict(path) /\ Pop
          ELSE Then(IF Known(hash) THEN "open" ELSE "open_new") /\ UNCHANGED conflicts
    /\ Quietly /\ UNCHANGED <<hashes, dirs, orphan, world>>

(* create: announced to the watcher, then O_CREAT, which truncates nothing.   *)
OpenNew ==
    /\ Doing("open_new")
    /\ Ignore(Dst, "CREATE", path)
    /\ IF UnderFile(Dst, path)
       THEN Conflict(path) /\ Pop /\ UNCHANGED disk
       ELSE /\ UNCHANGED conflicts
            /\ IF fs[Dst][path] = Absent /\ InDirectory(Dst, path)
               THEN Put(Dst, path, Empty, <<Event("CREATE", path, FALSE)>>) /\ Then("copy")
               ELSE /\ UNCHANGED disk
                    /\ IF fs[Dst][path] \in Files THEN Then("copy") ELSE Fail
    /\ UNCHANGED <<hashes, dirs, orphan, world>>

(* open_for_safe_replace is not supported: a plain open, whatever is there now. *)
Open ==
    /\ Doing("open")
    /\ IF fs[Dst][path] \in Files THEN Then("copy") ELSE Fail
    /\ Quietly /\ UNCHANGED <<memory, orphan, world>>

(* The source is opened and read and the target truncated.  Without a source  *)
(* the target is closed unwritten, and its CLOSE_WRITE is not announced.      *)
Copy ==
    /\ Doing("copy")
    /\ IF fs[Src][path] \in Files
       THEN /\ fs' = IF orphan THEN fs ELSE [fs EXCEPT ![Dst][path] = Empty]
            /\ Replace(<<[task EXCEPT !.op = "write", !.old = fs[Src][path]]>>)
            /\ UNCHANGED <<watched, queue, orphan>>
       ELSE /\ Report(Dst, <<Event("MODIFY", path, FALSE)>>)
            /\ Fail
            /\ orphan' = FALSE
            /\ UNCHANGED <<fs, watched>>
    /\ UNCHANGED <<ignore, memory, world>>

(* Mutant: only the source's hash is recorded. *)
WriteForgetsTarget ==
    /\ Doing("write")
    /\ fs' = IF orphan THEN fs ELSE [fs EXCEPT ![Dst][path] = task.old]
    /\ Ignore(Dst, "MODIFY", path)
    /\ Report(Dst, <<Event("MODIFY", path, FALSE)>>)
    /\ Record(Src, path, task.old)
    /\ orphan' = FALSE
    /\ Pop
    /\ UNCHANGED <<watched, dirs, conflicts, world>>

Write ==
    /\ Doing("write")
    /\ fs' = IF orphan THEN fs ELSE [fs EXCEPT ![Dst][path] = task.old]
    /\ Ignore(Dst, "MODIFY", path)
    /\ Report(Dst, <<Event("MODIFY", path, FALSE)>>)
    /\ hashes' = [s \in Storages |-> [hashes[s] EXCEPT ![path] = task.old]]
    /\ orphan' = FALSE
    /\ Pop
    /\ UNCHANGED <<watched, dirs, conflicts, world>>

-----------------------------------------------------------------------------
(* A DELETE event: _remove_object, or the other side's version comes back.    *)

DeleteObject ==
    /\ Doing("DELETE")
    /\ IF Get(Src, path) # Get(Dst, path)
       THEN Replace(<<Do("CREATE", Dst, path)>>) /\ UNCHANGED memory
       ELSE LET gone == fs[Dst][path] = Absent /\ ~UnderFile(Dst, path)
                was_dir == hashes[Src][path] = Missing
            IN
            /\ hashes' = [s \in Storages |->
                             IF s = Src \/ gone THEN Forgotten(s, path) ELSE hashes[s]]
            /\ IF gone THEN Pop /\ UNCHANGED conflicts                \* already removed
               ELSE IF UnderFile(Dst, path) THEN Fail /\ UNCHANGED conflicts
               ELSE IF (fs[Dst][path] = Dir) # was_dir THEN Conflict(path) /\ Pop
               ELSE /\ IF was_dir THEN Then("rmtree")
                       ELSE Replace(<<[task EXCEPT !.op = "check", !.old = hashes[Src][path]]>>)
                    /\ UNCHANGED conflicts
            /\ UNCHANGED dirs
    /\ Quietly /\ UNCHANGED <<orphan, world>>

(* The file is removed if it is the one that was removed on the other side.   *)
CheckRemoved ==
    /\ Doing("check")
    /\ LET h == Hash(Dst, path)
           expected == IF Known(task.old) THEN task.old ELSE hashes[Dst][path]
       IN IF h = Absent THEN Forget(Dst, path) /\ Pop /\ UNCHANGED conflicts
          ELSE /\ UNCHANGED hashes
               /\ IF h = Dir \/ expected = Missing THEN Fail /\ UNCHANGED conflicts
                  ELSE IF h # expected THEN Conflict(path) /\ Pop
                  ELSE Then("unlink") /\ UNCHANGED conflicts
    /\ Quietly /\ UNCHANGED <<dirs, orphan, world>>

Unlink ==
    /\ Doing("unlink")
    /\ Ignore(Dst, "DELETE", path)
    /\ IF fs[Dst][path] \in Files
       THEN /\ Put(Dst, path, Absent, <<Event("DELETE", path, FALSE)>>)
            /\ Record(Dst, path, Missing)
            /\ Pop
       ELSE /\ UNCHANGED disk
            /\ IF fs[Dst][path] = Dir \/ UnderFile(Dst, path)
               THEN Fail /\ UNCHANGED hashes
               ELSE Forget(Dst, path) /\ Pop
    /\ UNCHANGED <<dirs, conflicts, orphan, world>>

(* _remove_whole_dir: the tree is walked first.                               *)
RemoveDir ==
    /\ Doing("rmtree")
    /\ IF fs[Dst][path] = Dir
       THEN Replace(<<Loop("rmchildren", Src, path, Children(Dst, path))>>)
       ELSE Fail
    /\ Quietly /\ UNCHANGED <<memory, orphan, world>>

(* A child that is not as expected ends the removal half-way.                 *)
CheckChild ==
    /\ Doing("rmchildren")
    /\ \E p \in task.paths :
          LET h == Hash(Dst, p) IN
          IF h = Absent \/ hashes[Dst][p] = Missing THEN Fail
          ELSE IF h # hashes[Dst][p] THEN Pop
          ELSE Replace(<<Do("rmfile", Src, p),
                         Loop("rmchildren", Src, path, task.paths \ {p})>>)
    /\ Quietly /\ UNCHANGED <<memory, orphan, world>>

RemoveChild ==
    /\ Doing("rmfile")
    /\ Ignore(Dst, "DELETE", path)
    /\ IF fs[Dst][path] \in Files
       THEN /\ Put(Dst, path, Absent, <<Event("DELETE", path, FALSE)>>)
            /\ Record(Dst, path, Missing)
            /\ Pop
       ELSE Fail /\ UNCHANGED <<disk, hashes>>
    /\ UNCHANGED <<dirs, conflicts, orphan, world>>

Rmdir ==
    /\ Doing("rmchildren") /\ task.paths = {}
    /\ Ignore(Dst, "DELETE", path)
    /\ IF fs[Dst][path] = Dir /\ Children(Dst, path) = {}
       THEN Put(Dst, path, Absent, <<Event("DELETE", path, TRUE)>>) /\ Pop
       ELSE Fail /\ UNCHANGED disk
    /\ UNCHANGED <<memory, orphan, world>>

-----------------------------------------------------------------------------
(* The watcher threads: LocalStorageWatcher.wait and _handle_events. *)

(* Mutant: an announcement stays in the ignore list. *)
FilterKeeps(s, events) ==
    LET One(acc, e) ==
            [watched |-> IF e.type = "CREATE" /\ e.is_dir /\ fs[s][e.path] = Dir
                         THEN acc.watched \cup {e.path} ELSE acc.watched,
             ignore |-> acc.ignore,
             events |-> IF Contains(acc.ignore, <<e.type, e.path>>) THEN acc.events
                        ELSE Append(acc.events, e)]
    IN FoldLeft(One, [watched |-> watched[s], ignore |-> ignore[s], events |-> << >>], events)

(* An event is dropped once for each time it was announced; a new directory   *)
(* is watched from here on, if it is still there.                             *)
Filter(s, events) ==
    LET One(acc, e) ==
            LET own == <<e.type, e.path>> IN
            [watched |-> IF e.type = "CREATE" /\ e.is_dir /\ fs[s][e.path] = Dir
                         THEN acc.watched \cup {e.path} ELSE acc.watched,
             ignore |-> RemoveFirst(acc.ignore, own),
             events |-> IF Contains(acc.ignore, own) THEN acc.events ELSE Append(acc.events, e)]
    IN FoldLeft(One, [watched |-> watched[s], ignore |-> ignore[s], events |-> << >>], events)

WatcherReads(s) ==
    /\ watched[s] # {} /\ queue[s] # << >>
    /\ inbox[s] = << >> /\ holder # s                     \* not in its handler
    /\ LET read == Filter(s, queue[s]) IN
       /\ watched' = [watched EXCEPT ![s] = read.watched]
       /\ ignore' = [ignore EXCEPT ![s] = read.ignore]
       /\ inbox' = [inbox EXCEPT ![s] = read.events]
    /\ queue' = [queue EXCEPT ![s] = << >>]
    /\ UNCHANGED <<fs, memory, control, orphan, edits>>

(* BaseSyncer's setter keeps ERROR. *)
Set(s) == state' = IF state = "ERROR" THEN state ELSE s

(* Mutant: the first event of a batch stands for all of them. *)
HandleFirstEvent(s) ==
    /\ holder = "nobody" /\ inbox[s] # << >>
    /\ holder' = s
    /\ Set("RUNNING")
    /\ work' = IF Job.unidirectional THEN << >> ELSE <<Do(inbox[s][1].type, s, inbox[s][1].path)>>
    /\ inbox' = [inbox EXCEPT ![s] = << >>]
    /\ UNCHANGED <<disk, ignore, memory, phase, orphan, edits>>

(* A unidirectional sync watches one storage: there is none to bring events to. *)
HandleEvents(s) ==
    /\ holder = "nobody" /\ inbox[s] # << >>
    /\ holder' = s
    /\ Set("RUNNING")
    /\ work' = IF Job.unidirectional THEN << >>
               ELSE [k \in 1..Len(inbox[s]) |-> Do(inbox[s][k].type, s, inbox[s][k].path)]
    /\ inbox' = [inbox EXCEPT ![s] = << >>]
    /\ UNCHANGED <<disk, ignore, memory, phase, orphan, edits>>

(* Mutant: an error leaves the lock taken. *)
UnlockUnlessFailed ==
    /\ holder # "nobody" /\ work = << >> /\ state # "ERROR"
    /\ holder' = "nobody"
    /\ Set("SYNCED")
    /\ phase' = IF holder # "start" THEN phase ELSE IF Job.continuous THEN "running" ELSE "stopped"
    /\ UNCHANGED <<disk, ignore, memory, work, orphan, world>>

(* The end of a handler or of the initial sync. *)
Unlock ==
    /\ holder # "nobody" /\ work = << >>
    /\ holder' = "nobody"
    /\ Set("SYNCED")
    /\ phase' = IF holder # "start" THEN phase ELSE IF Job.continuous THEN "running" ELSE "stopped"
    /\ UNCHANGED <<disk, ignore, memory, work, orphan, world>>

(* stop_sync, which the worker calls when start_sync raised: it joins the      *)
(* watcher threads, which finish the handler they are in.                     *)
StopSync ==
    /\ phase = "failed" /\ Job.continuous
    /\ holder = "nobody" /\ \A s \in Storages : inbox[s] = << >>
    /\ watched' = [s \in Storages |-> {}]
    /\ queue' = [s \in Storages |-> << >>]
    /\ conflicts' = {}
    /\ phase' = "stopped"
    /\ UNCHANGED <<fs, ignore, hashes, dirs, holder, work, state, orphan, world>>

-----------------------------------------------------------------------------
(* Users. *)

Edit(kind, s) ==
    /\ kind \in Job.edits /\ s \in Job.editors
    /\ edits < Job.max                                   \* bound
    /\ edits' = edits + 1
    /\ UNCHANGED <<ignore, inbox, memory, control>>

(* The syncer has the file at p open for writing. *)
OpenAt(s, p) == (Doing("copy") \/ Doing("write")) /\ Dst = s /\ path = p

UserWrites(s, p, c) ==
    /\ Edit("write", s)
    /\ InDirectory(s, p) /\ fs[s][p] \notin {Dir, c}
    /\ Put(s, p, c, (IF fs[s][p] = Absent THEN <<Event("CREATE", p, FALSE)>> ELSE << >>)
                    \o <<Event("MODIFY", p, FALSE)>>)
    /\ UNCHANGED orphan

UserDeletes(s, p) ==
    /\ Edit("delete", s)
    /\ fs[s][p] \in Files
    /\ Put(s, p, Absent, <<Event("DELETE", p, FALSE)>>)
    /\ orphan' = (orphan \/ OpenAt(s, p))

UserMakesDir(s, p) ==
    /\ Edit("mkdir", s)
    /\ p \in Dirs /\ fs[s][p] = Absent
    /\ Put(s, p, Dir, <<Event("CREATE", p, TRUE)>>)
    /\ UNCHANGED orphan

UserRemovesDir(s, p) ==
    /\ Edit("rmdir", s)
    /\ fs[s][p] = Dir /\ Children(s, p) = {}
    /\ Put(s, p, Absent, <<Event("DELETE", p, TRUE)>>)
    /\ UNCHANGED orphan

(* Bound: files are renamed, directories are not; a file the syncer has open  *)
(* stays where it is.                                                         *)
UserRenames(s, p, q) ==
    /\ Edit("rename", s)
    /\ p # q /\ fs[s][p] \in Files /\ fs[s][q] # Dir /\ InDirectory(s, q)
    /\ ~OpenAt(s, p) /\ ~OpenAt(s, q)
    /\ fs' = [fs EXCEPT ![s][p] = Absent, ![s][q] = fs[s][p]]
    /\ Report(s, <<Event("DELETE", p, FALSE), Event("CREATE", q, FALSE)>>)
    /\ UNCHANGED <<watched, orphan>>

-----------------------------------------------------------------------------

StartStep == Watch \/ OneShot \/ Scan \/ ScanVisit \/ SyncDirs \/ MakeDirs \/ FindConflicts
             \/ FindMissing \/ SyncMissing
ObjectStep == CreateObject \/ Mkdir \/ ListDir \/ Visit
              \/ SyncFile \/ SyncTarget \/ OpenNew \/ Open \/ Copy \/ Write
              \/ DeleteObject \/ CheckRemoved \/ Unlink \/ RemoveDir \/ CheckChild
              \/ RemoveChild \/ Rmdir
ThreadStep == Unlock \/ StopSync \/ \E s \in Storages : WatcherReads(s) \/ HandleEvents(s)

SyncStep == StartStep \/ ObjectStep \/ ThreadStep
UserStep == \E s \in Storages, p \in Paths :
                \/ \E c \in Contents : UserWrites(s, p, c)
                \/ UserDeletes(s, p) \/ UserMakesDir(s, p) \/ UserRemovesDir(s, p)
                \/ \E q \in Paths : UserRenames(s, p, q)

(* Nothing is running and nothing is waiting to be handled. *)
AtRest ==
    /\ phase = "running" /\ holder = "nobody"
    /\ \A s \in Storages : queue[s] = << >> /\ inbox[s] = << >>

Waited == CASE Job.pace = "any" -> TRUE
            [] Job.pace = "started" -> phase = "running"
            [] Job.pace = "synced" -> AtRest

Next == (SyncStep \/ (Waited /\ UserStep)) /\ UNCHANGED job

Spec == Init /\ [][Next]_vars
(* The worker and the watcher threads are never stopped for good: one of them *)
(* takes its next step as long as there is one.  Users need not do anything.  *)
FairSpec == Spec /\ WF_vars(SyncStep /\ UNCHANGED job)

-----------------------------------------------------------------------------
(* Properties. *)

Settled == phase = "stopped" \/ AtRest

(* What SYNCED says: when every event has been handled and no error was met,  *)
(* the storages are equal but for the paths whose conflict was reported.  It  *)
(* takes the scan, the conflict search, both directions of _sync_file and the *)
(* ignore lists together, and fails as soon as one event is lost.  A one-way  *)
(* sync leaves what only the target holds, and a one-shot sync promises       *)
(* nothing of what users change while it runs.                                *)
Synced == Settled /\ state = "SYNCED" /\ (Job.continuous \/ Job.editors = {})

DifferencesReported ==
    Synced =>
        \A p \in Paths :
            fs["source"][p] # fs["target"][p] /\ (Job.unidirectional => fs["source"][p] # Absent)
            => p \in conflicts \/ Parent[p] \in conflicts

(* storage_hashes describes the files: a hash that lags behind would make the *)
(* next change a false conflict, or let _remove_object refuse a removal.      *)
HashesAgree ==
    Synced =>
        \A s \in Storages, p \in Paths : fs[s][p] \in Files => hashes[s][p] = fs[s][p]

(* _sync_file and _remove_object replace or remove a version only if it is    *)
(* what the syncer last saw there and, as far as it knows, also what the other *)
(* side held before the change: a version it has never seen, or one in        *)
(* conflict, is left alone.  (Nothing keeps a user of the target from writing *)
(* to a file between the syncer's open and its write.)                        *)
ReplacesOnlyKnown ==
    [][\A s \in Storages, p \in Paths :
          fs[s][p] \in Contents /\ fs'[s][p] # fs[s][p] /\ edits' = edits
          /\ (Job.pace = "any" => "target" \notin Job.editors)
          => fs[s][p] = hashes[s][p] /\ (Known(task.old) => task.old = fs[s][p])]_vars

(* The source is never written: it is the only one its user edits, so what    *)
(* comes back from the target could only be an echo of the syncer's own       *)
(* writes (which the ignore lists are for), or the sync is one-way.           *)
SourceUntouched ==
    [][(Job.unidirectional \/ Job.editors = {"source"}) /\ edits' = edits
       => fs'["source"] = fs["source"]]_vars

(* What ERROR says (storage_sync/base.py): after an error, the syncer leaves  *)
(* the storages alone.                                                        *)
ErrorAborts == [][state = "ERROR" /\ edits' = edits => fs' = fs]_vars

(* The two handlers do not feed each other for ever, and none keeps the lock: *)
(* once the users stop, the syncer comes to rest (or has failed to start and  *)
(* is stopped), whatever its writes report to the other side's watcher.       *)
Quiesces == <>[](AtRest \/ phase = "stopped")
=============================================================================
