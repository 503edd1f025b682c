---------------------------- MODULE Mounting ----------------------------
(***************************************************************************)
(* The clients of the FUSE driver: the commands of the command line that   *)
(* mount and unmount containers, and the daemon mount-watch (Remounter)    *)
(* that mounts containers as their manifests change.  Both look at the     *)
(* driver's table of storages through a WildlandFSClient, which remembers  *)
(* what it read, and both change the table with one control command after  *)
(* another; the commands of the two interleave.                            *)
(*                                                                         *)
(* The driver is reduced to its table (FSMount.tla has its threads, and    *)
(* MountTable.tla the promise used here: main paths are not shared and     *)
(* identifiers are not reused).  A manifest file belongs to the storage of *)
(* one container; a manifest is a container and the list of its storages.  *)
(***************************************************************************)
EXTENDS Naturals, FiniteSets, SequencesExt

CONSTANTS
    Containers,
    Files,        \* manifest files
    Where,        \* Where[f]: the container in whose storage the file is
    Key,          \* Key[f]: the path of the file as an event tells it
    Versions,     \* Versions[k][f]: the manifests a file may hold, by what is watched
    FirstFiles,   \* FirstFiles[k][f]: what it holds at first, or None
    Home,         \* the container whose files are watched with a pattern
    HomeStorage,  \* and its storage
    Kinds,        \* what mount-watch is asked to watch: "pattern", "children" (a
                  \* pattern, with subcontainers), "wlpath", "outside" or, when it
                  \* does not run, "off"
    WithSubs,     \* the kinds of watching that include subcontainers
    Outside,      \* the file of the outside container
    HomePath,     \* the wildland path of all containers in the catalog, as a name
    Requests,     \* the commands a user may give, by kind
    CacheId,      \* the id of a cache storage
    LocalIds,     \* the ids of storages on this machine, CacheId among them
    ReadOnlyIds,  \* the ids of storages that are not writable
    Removable,    \* Removable[k]: the files that may go away
    FaultKinds,   \* what may go wrong: "abort", "late", "search"
    MaxIdent, MaxEdits, MaxFaults, \* bounds,
    MaxRequests,  \* and by kind: of commands
    MaxBeside,    \* and of edits when there are commands
    None

ASSUME MountingAssumption ==
    /\ Where \in [Files -> Containers]
    /\ Home \in Containers /\ Outside \in Files /\ HomePath \notin Files
    /\ Kinds \subseteq {"pattern", "children", "wlpath", "outside", "off"} /\ WithSubs \subseteq Kinds
    /\ CacheId \in LocalIds
    /\ {MaxIdent, MaxEdits, MaxFaults} \subseteq Nat
    /\ MaxRequests \in [Kinds -> Nat] /\ MaxBeside \in [Kinds -> Nat]

VARIABLES
    content,  \* the manifest in each file, or None
    table,    \* the driver: live identifiers and what they mount
    next,     \* the driver: the next identifier
    up,       \* the driver runs
    watches,  \* the driver: watches of the remounter, by container and identifier
    jobs,     \* the sync daemon: a job for a container, between two storages
    remote,   \* default-remote-for-container: the id of a storage, or None
    caches,   \* the containers with a manifest of a cache storage
    defaults, \* the files named in default-containers
    cached,   \* cached[p]: the paths and the info a client remembers
    batch,    \* batch[p]: the items of the mount command that is running
    errors,   \* errors[p]: the command reported an error
    kind, rem, inbox, \* the remounter, and the batches of events sent to it
    cli,      \* the command line
    gone,     \* history: whether a file went away, and whether mount-watch was told
    faults, edits, requests

driver == <<table, next, up, watches>>
disk == <<jobs, remote, caches, defaults>>
clients == <<cached, batch, errors>>
bounds == <<faults, edits, requests>>
vars == <<content, driver, disk, clients, kind, rem, inbox, cli, gone, bounds>>

Clients == {"cli", "rem"}
Idents == 1..MaxIdent
Unread == << >>  \* a cache that was never filled, or was cleared
NoParent == << >>  \* a container that was mounted for itself

-----------------------------------------------------------------------------
\* What a storage is mounted as.

\* An entry of the driver's table.  One for the storage and one, pm, for its
\* pseudomanifest; full tells whether all paths or only the unique one was asked.
Entry(con, s, pm, full, sub) ==
    [con |-> con, id |-> s.id, par |-> s.par, prim |-> s.prim,
     pm |-> pm, full |-> full, sub |-> sub]

\* The main path of an entry: ".backends/container/storage" in the owner's part.
MainPath(e) == <<e.con, e.id, e.pm>>

\* Only the primary storage is mounted under the container's own paths.
IsUnderContainerPaths(e) == e.prim /\ e.full

\* The tag stands for the parameters and the mount paths.
Tag(e) == <<e.par, e.prim, e.full>>

\* Identifiers are given out in order, and a path lists them in that order.
FirstOf(ids) == IF ids = {} THEN None ELSE CHOOSE i \in ids : \A j \in ids : i <= j

ByMainPath(tab, path) == {i \in DOMAIN tab : MainPath(tab[i]) = path}

ByContainerPath(tab, con, pm) ==
    {i \in DOMAIN tab : tab[i].con = con /\ tab[i].pm = pm /\ IsUnderContainerPaths(tab[i])}

\* The storage and the pseudomanifest found for the unique path of a storage...
FindByPath(tab, con, id) ==
    <<FirstOf(ByMainPath(tab, <<con, id, FALSE>>)), FirstOf(ByMainPath(tab, <<con, id, TRUE>>))>>

\* ... and for the uuid path of a container.
FindMain(tab, con) ==
    <<FirstOf(ByContainerPath(tab, con, FALSE)), FirstOf(ByContainerPath(tab, con, TRUE))>>

FindPrimary(tab, con) == FindMain(tab, con)[1]

FindAll(tab, con) == ByContainerPath(tab, con, FALSE) \union ByContainerPath(tab, con, TRUE)

UniquePaths(tab, con) == {i \in DOMAIN tab : tab[i].con = con}

\* What shows the manifest of a storage: mounted like it, with paths of its own.
PseudomanifestOf(e) == [e EXCEPT !.pm = TRUE]

\* The storages of the container that are mounted and no longer wanted.
Orphaned(tab, con, storages) ==
    {tab[i].id : i \in {j \in UniquePaths(tab, con) : ~tab[j].pm}} \ {s.id : s \in Range(storages)}

\* A container rebuilt from the paths of a storage has its uuid when it is mounted
\* under the container's own paths; otherwise it gets a new one, which no storage
\* names as its parent.
RebuiltName(e) == IF IsUnderContainerPaths(e) /\ ~e.pm THEN <<e.con>> ELSE MainPath(e)

SubsOf(info, names) == {i \in DOMAIN info : info[i].sub \in names}

NamesIn(info, ids) == {RebuiltName(info[i]) : i \in ids}

(* Mutant: only the subcontainers that a container holds itself. *)
SubsOnce(info, names) == SubsOf(info, names)

\* Subcontainers, theirs, and so on: the least set that has them all.  (Of
\* containers inside each other the search in the code has no end.)
Subs(info, names) ==
    LET under == {i \in DOMAIN info : info[i].sub # NoParent}
        closed == {s \in SUBSET under : SubsOf(info, names \union NamesIn(info, s)) \subseteq s}
    IN  {i \in under : \A s \in closed : i \in s}

(* Mutant: a storage that is mounted is never remounted. *)
ShouldRemountNever(paths, info, con, s) == FindByPath(paths, con, s.id)[1] = None

ShouldRemount(paths, info, con, s) ==
    LET id == FindByPath(paths, con, s.id)[1]
    IN  id # None => Tag(info[id]) # Tag(Entry(con, s, FALSE, TRUE, NoParent))

-----------------------------------------------------------------------------
\* Manifests, and the storages of a container.

CacheStorage == [id |-> CacheId, par |-> 0, prim |-> TRUE, ref |-> None]

\* A cache becomes the primary storage of its container.
WithCache(con, storages) ==
    IF con \in caches
    THEN <<CacheStorage, [Head(storages) EXCEPT !.prim = FALSE]>> \o Tail(storages)
    ELSE storages

\* The storages in the order of mounting, the primary one first; none at all for
\* a manifest that has two primary storages.
StoragesToMount(m) ==
    LET prims == {i \in DOMAIN m.sts : m.sts[i].prim}
        first == IF prims = {} THEN 1 ELSE FirstOf(prims)
    IN  IF m.sts = << >> \/ Cardinality(prims) > 1
        THEN << >>
        ELSE WithCache(m.con, <<[m.sts[first] EXCEPT !.prim = TRUE]>> \o RemoveAt(m.sts, first))

FilesIn(con) == {f \in Files : Where[f] = con /\ content[f] # None}

\* The manifests of subcontainers, but for one of the container itself.
AllSubcontainers(con) ==
    IF con = Home THEN {} ELSE {f \in FilesIn(con) : content[f].con # con}

\* Whether a manifest's storage may hold subcontainers.
CanHaveChildren(con) == con # Home /\ \E f \in Files : Where[f] = con

\* A group is what is asked for one container; the storages of all groups come
\* before their pseudomanifests.
Items(groups, full, remount) ==
    LET storages == FlattenSeq([g \in DOMAIN groups |->
                        [k \in DOMAIN groups[g].sts |->
                            [entry |-> Entry(groups[g].con, groups[g].sts[k], FALSE, full, groups[g].sub),
                             remount |-> remount]]])
    IN  storages \o [k \in DOMAIN storages |-> [storages[k] EXCEPT !.entry = PseudomanifestOf(@)]]

Group(con, sts, sub) == [con |-> con, sts |-> sts, sub |-> sub]

\* The manifests that a name stands for: a file, or what a wildland path leads to.
Load(name) == IF name = HomePath THEN {content[f] : f \in FilesIn(Home)} ELSE {content[name]} \ {None}

\* A storage may need another container mounted before its own, which is loaded.
References(m) == {content[s.ref] : s \in {t \in Range(m.sts) : t.ref # None}} \ {None}

WithReferences(mans) ==
    LET found[n \in 0..Cardinality(Files)] ==
            IF n = 0 THEN mans ELSE found[n - 1] \union UNION {References(m) : m \in found[n - 1]}
    IN  found[Cardinality(Files)]

\* Nothing is mounted when containers need each other.
IsCyclic(mans) == \E m \in WithReferences(mans) : m \in WithReferences(References(m))

\* The containers that need others and those they need come first, in order.
Ordered(mans) ==
    LET all == WithReferences(mans)
        linked == UNION {References(m) \union (IF References(m) = {} THEN {} ELSE {m}) : m \in all}
    IN  CHOOSE s \in SetToSeqs(all) : \A i, j \in DOMAIN s :
            s[i] \in References(s[j]) \/ (s[i] \in linked /\ s[j] \notin linked) => i < j

-----------------------------------------------------------------------------
\* The driver and the caches of a client.

Forget(p) == cached' = [cached EXCEPT ![p] = [paths |-> Unread, info |-> Unread]]

\* Both are read when they are first needed, each with a command of its own.
FetchPaths(p) ==
    /\ up /\ cached[p].paths = Unread
    /\ cached' = [cached EXCEPT ![p].paths = <<table>>]

FetchInfo(p) ==
    /\ up /\ cached[p].info = Unread
    /\ cached' = [cached EXCEPT ![p].info = <<table>>]

PathsOf(p) == cached[p].paths[1]
InfoOf(p) == IF cached[p].info = Unread THEN Unread ELSE cached[p].info[1]

\* The info is tested for truth: when it is empty it does not count as cached.
KeepInfo(c) ==
    IF c.info # Unread /\ DOMAIN c.info[1] = {} THEN [c EXCEPT !.info = Unread] ELSE c

Without(ids) == [i \in DOMAIN table \ ids |-> table[i]]

LiveWatches(ids) == {w \in watches : w.ident \notin ids}

\* control_unmount, for one identifier.
Unmount(id) ==
    /\ table' = Without({id})
    /\ watches' = LiveWatches({id})
    /\ UNCHANGED <<next, up>>

\* _mount_storage: a mounted storage is replaced only by a remount.
CanMount(item) == item.remount \/ ByMainPath(table, MainPath(item.entry)) = {}

MountAs(item) ==
    LET old == ByMainPath(table, MainPath(item.entry))
    IN  /\ next \in Idents
        /\ table' = [i \in DOMAIN Without(old) \union {next} |->
                        IF i = next THEN item.entry ELSE table[i]]
        /\ next' = next + 1
        /\ watches' = LiveWatches(old)
        /\ UNCHANGED up

BeginMount(p, items) ==
    /\ Forget(p)
    /\ batch' = [batch EXCEPT ![p] = items]
    /\ errors' = [errors EXCEPT ![p] = FALSE]

\* One item of a mount command; an error is collected and the rest goes on.
DriverMounts(p) ==
    /\ batch[p] # << >> /\ up
    /\ LET item == Head(batch[p])
       IN  IF CanMount(item)
           THEN MountAs(item) /\ UNCHANGED errors
           ELSE errors' = [errors EXCEPT ![p] = TRUE] /\ UNCHANGED driver
    /\ batch' = [batch EXCEPT ![p] = Tail(@)]
    /\ UNCHANGED <<content, disk, cached, kind, rem, inbox, cli, gone, bounds>>

\* A storage whose class cannot be constructed ends the whole command.
DriverAborts(p) ==
    /\ "abort" \in FaultKinds /\ faults < MaxFaults
    /\ batch[p] # << >> /\ up
    /\ batch' = [batch EXCEPT ![p] = << >>]
    /\ errors' = [errors EXCEPT ![p] = TRUE]
    /\ faults' = faults + 1
    /\ UNCHANGED <<content, driver, disk, cached, kind, rem, inbox, cli, gone, edits, requests>>

\* A storage that fails when it is not mounted lazily stays in the table.
DriverMountsLate(p) ==
    /\ "late" \in FaultKinds /\ faults < MaxFaults
    /\ batch[p] # << >> /\ up
    /\ CanMount(Head(batch[p])) /\ MountAs(Head(batch[p]))
    /\ batch' = [batch EXCEPT ![p] = Tail(@)]
    /\ errors' = [errors EXCEPT ![p] = TRUE]
    /\ faults' = faults + 1
    /\ UNCHANGED <<content, disk, cached, kind, rem, inbox, cli, gone, edits, requests>>

DriverGone(p) ==
    /\ batch[p] # << >> /\ ~up
    /\ batch' = [batch EXCEPT ![p] = << >>]
    /\ errors' = [errors EXCEPT ![p] = TRUE]
    /\ UNCHANGED <<content, driver, disk, cached, kind, rem, inbox, cli, gone, bounds>>

Driver == \E p \in Clients :
    DriverMounts(p) \/ DriverAborts(p) \/ DriverMountsLate(p) \/ DriverGone(p)

-----------------------------------------------------------------------------
\* The remounter.  Queues of what to mount and to unmount are filled by the
\* events of one batch, and carried out after all of them.

\* Exceptions end the handling of one event; what was queued before stays.
Fails(q) == [q EXCEPT !.ok = FALSE]

HandleChanged(q, paths, info, m) ==
    LET storages == StoragesToMount(m)
        orphans == SetToSeq(Orphaned(paths, m.con, storages))
        queued == [q EXCEPT !.unmount =
                      @ \o FlattenSeq([k \in DOMAIN orphans |-> FindByPath(paths, m.con, orphans[k])])]
        known == \A s \in Range(storages) : FindByPath(paths, m.con, s.id)[1] \in DOMAIN info \union {None}
        again == SelectSeq(storages, LAMBDA s : ShouldRemount(paths, info, m.con, s))
    IN  CASE storages = << >> -> Fails(q)
          [] storages # << >> /\ FindPrimary(paths, m.con) = None ->
               [q EXCEPT !.mount = Append(@, Group(m.con, storages, NoParent))]
          [] storages # << >> /\ FindPrimary(paths, m.con) # None ->
               IF None \in Range(queued.unmount) THEN Fails(q)
               ELSE IF ~known THEN Fails(queued)
               ELSE IF again = << >> THEN queued
               ELSE [queued EXCEPT !.mount = Append(@, Group(m.con, again, NoParent))]

\* The main paths that are not to be mounted any more.
QueueUnmounts(q, paths, cons) ==
    LET found == {con \in cons : FindPrimary(paths, con) # None}
        ids == SetToSeq({FindMain(paths, con) : con \in found})
    IN  IF \E con \in found : FindMain(paths, con)[2] = None
        THEN Fails(q)
        ELSE [q EXCEPT !.unmount = @ \o FlattenSeq(ids)]

\* What the wildland path resolves to: a process resolves it once, and finds the
\* answer in the cache of Search ever after.
Resolution == {rem.resolved[f] : f \in DOMAIN rem.resolved} \ {None}

\* The manifests it resolves to, until a failure.
Resolved(q, paths, info, mans) ==
    FoldSeq(LAMBDA m, acc :
                IF ~acc.ok THEN acc
                ELSE LET r == HandleChanged(acc, paths, info, m)
                     IN  IF r.ok THEN [r EXCEPT !.new = @ \union {m.con}] ELSE r,
            q, Reverse(mans))

\* A wildland path is handled as a whole, whatever the event was.  After a
\* failure nothing that was known is forgotten.
HandleWlpathEvent(q, paths, info) ==
    LET r == Resolved([q EXCEPT !.new = {}], paths, info, SetToSeq(Resolution))
        left == QueueUnmounts(r, paths, rem.wltrack \ r.new)
    IN  IF ~r.ok
        THEN [Fails(r) EXCEPT !.wltrack = @ \union r.new]
        ELSE IF ~left.ok THEN [left EXCEPT !.wltrack = @ \union r.new]
        ELSE [left EXCEPT !.wltrack = r.new]

(* Mutant: the containers of deleted files stay mounted. *)
HandleDeleteForgets(q, paths, e) == [q EXCEPT !.track[Key[e.file]] = None]

HandleDelete(q, paths, e) ==
    LET con == q.track[Key[e.file]]
        r == IF con = None THEN q ELSE QueueUnmounts(q, paths, {con})
    IN  IF r.ok THEN [r EXCEPT !.track[Key[e.file]] = None] ELSE r

\* The storage whose children are watched, for each container seen so far.
WatchChildren(q, m, pattern) ==
    IF ~pattern \/ kind \notin WithSubs \/ ~(m.con \in DOMAIN q.inside \/ CanHaveChildren(m.con))
    THEN q
    ELSE [q EXCEPT !.inside =
             [c \in DOMAIN q.inside \union {m.con} |-> IF c = m.con THEN m.sts[1] ELSE q.inside[c]]]

HandleCreate(q, paths, info, e) ==
    LET m == content[e.file]
    IN  IF m = None \/ StoragesToMount(m) = << >>
        THEN Fails(q)
        ELSE HandleChanged([WatchChildren(q, m, e.pattern) EXCEPT !.track[Key[e.file]] = m.con],
                           paths, info, m)

\* Whether the event asks for new watches.
ChildrenChanged(q, e) ==
    /\ e.type # "DELETE" /\ e.pattern /\ kind \in WithSubs
    /\ content[e.file].con \in DOMAIN q.inside \/ CanHaveChildren(content[e.file].con)

HandleEvent(q, paths, info, e) ==
    LET r == IF e.type = "DELETE"
             THEN HandleDelete(q, paths, e)
             ELSE HandleCreate(q, paths, info, e)
    IN  IF r.ok THEN [r EXCEPT !.changed = ChildrenChanged(q, e)] ELSE r

Queues == [mount |-> rem.mount, unmount |-> rem.unmount, ok |-> TRUE, new |-> {},
           track |-> rem.track, wltrack |-> rem.wltrack, inside |-> rem.inside,
           changed |-> rem.changed]

WithQueues(q) ==
    [rem EXCEPT !.mount = q.mount, !.unmount = q.unmount, !.track = q.track,
                !.wltrack = q.wltrack, !.inside = q.inside, !.changed = q.changed]

OnlyRem == UNCHANGED <<content, driver, disk, batch, errors, kind, cli, gone, bounds>>

\* The containers that an event makes the remounter look at.
Concerned(e) ==
    IF kind = "wlpath" /\ e.pattern
    THEN {m.con : m \in IF rem.seen THEN {} ELSE Resolution}
    ELSE {content[f].con : f \in IF e.type = "DELETE" THEN {}
                                 ELSE {e.file} \intersect FilesIn(Where[e.file])}

\* The info of storages is read for containers that are mounted.
NeedsInfo(p, cons) ==
    cached[p].info = Unread /\ \E con \in cons : FindPrimary(PathsOf(p), con) # None

\* Outside containers are looked at before anything is watched.
Outsiders == rem.pc = "init" /\ kind = "outside" /\ kind \in WithSubs

Looking == IF Outsiders THEN {rem.outside.con} ELSE Concerned(Head(rem.events))

RemReads ==
    /\ Outsiders \/ (rem.pc = "handle" /\ rem.events # << >>)
    /\ \/ FetchPaths("rem")
       \/ cached["rem"].paths # Unread /\ NeedsInfo("rem", Looking) /\ FetchInfo("rem")
    /\ UNCHANGED <<rem, inbox>> /\ OnlyRem

\* One event of the batch.
HandleEvents ==
    /\ rem.pc = "handle" /\ rem.events # << >>
    /\ cached["rem"].paths # Unread
    /\ ~NeedsInfo("rem", Concerned(Head(rem.events)))
    /\ LET e == Head(rem.events)
           paths == PathsOf("rem")
           info == InfoOf("rem")
           rest == [rem EXCEPT !.events = Tail(@)]
       IN  IF kind = "wlpath" /\ e.pattern
           THEN LET q == HandleWlpathEvent(Queues, paths, info)
                IN  rem' = IF rem.seen THEN [rest EXCEPT !.wlchanged = TRUE]
                           ELSE [WithQueues(q) EXCEPT !.events = Tail(@), !.wlchanged = TRUE,
                                                      !.seen = q.ok]
           ELSE rem' = [WithQueues(HandleEvent(Queues, paths, info, e)) EXCEPT !.events = Tail(@)]
    /\ cached' = [cached EXCEPT !["rem"] = KeepInfo(@)]
    /\ UNCHANGED inbox /\ OnlyRem

Dies == rem' = [rem EXCEPT !.pc = "dead"]

\* Without the driver the handling of an event fails where the tables are needed:
\* the manifest of a subcontainer has been loaded by then, the one of a mounted
\* file cannot be, and for a file that is not tracked nothing is needed.
HandleFails ==
    /\ rem.pc = "handle" /\ rem.events # << >> /\ ~up
    /\ cached["rem"].paths # Unread => NeedsInfo("rem", Concerned(Head(rem.events)))
    /\ LET e == Head(rem.events)
           resolved == kind = "wlpath" /\ e.pattern
           handled == ~resolved /\ e.type = "DELETE" /\ rem.track[Key[e.file]] = None
           m == IF e.pattern \/ e.type = "DELETE" THEN None ELSE content[e.file]
       IN  rem' = [rem EXCEPT !.events = Tail(@), !.wlchanged = @ \/ resolved, !.changed = @ /\ ~handled,
                              !.track[Key[e.file]] =
                                  IF m = None \/ StoragesToMount(m) = << >> THEN @ ELSE m.con]
    /\ UNCHANGED <<cached, inbox>> /\ OnlyRem

HandlingEnds ==
    /\ rem.pc = "handle" /\ rem.events = << >>
    /\ rem' = [rem EXCEPT !.pc = "unmount"]
    /\ UNCHANGED <<cached, inbox>> /\ OnlyRem

\* An identifier that is gone is an error, which is logged.
UnmountPending ==
    /\ rem.pc = "unmount" /\ rem.unmount # << >>
    /\ rem' = [rem EXCEPT !.unmount = Tail(@)]
    /\ Forget("rem")
    /\ IF up /\ Head(rem.unmount) \in DOMAIN table
       THEN Unmount(Head(rem.unmount))
       ELSE UNCHANGED driver
    /\ UNCHANGED <<content, disk, batch, errors, kind, inbox, cli, gone, bounds>>

MountPending ==
    /\ rem.pc \in {"unmount", "initmount"}
    /\ rem.pc = "unmount" => rem.unmount = << >>
    /\ BeginMount("rem", Items(rem.mount, TRUE, TRUE))
    /\ rem' = [rem EXCEPT !.pc = IF @ = "unmount" THEN "mounting" ELSE "initmounting"]
    /\ UNCHANGED <<content, driver, disk, kind, inbox, cli, gone, bounds>>

\* The queue is emptied even if the command failed.
MountPendingEnds ==
    /\ rem.pc \in {"mounting", "initmounting"} /\ batch["rem"] = << >>
    /\ rem' = [rem EXCEPT !.mount = << >>, !.seen = FALSE,
                   !.pc = CASE @ = "initmounting" -> "initwl"
                            [] @ = "mounting" /\ rem.wlchanged -> "init"
                            [] @ = "mounting" /\ ~rem.wlchanged /\ rem.changed -> "register"
                            [] OTHER -> "wait"]
    /\ UNCHANGED <<cached, inbox>> /\ OnlyRem

\* init_watch_params: the outside container as it was loaded at the start...
InitOutside ==
    /\ rem.pc = "init"
    /\ LET ready == cached["rem"].paths # Unread /\ ~NeedsInfo("rem", Looking)
           q == HandleChanged(Queues, PathsOf("rem"), InfoOf("rem"), rem.outside)
       IN  \/ /\ ~Outsiders
              /\ rem' = [rem EXCEPT !.pc = IF kind \in WithSubs THEN "initmount" ELSE "initwl"]
              /\ UNCHANGED cached
           \/ Outsiders /\ ~ready /\ ~up /\ Dies /\ UNCHANGED cached
           \/ /\ Outsiders /\ ready
              /\ rem' = IF q.ok THEN [WithQueues(q) EXCEPT !.pc = "initmount"] ELSE [rem EXCEPT !.pc = "dead"]
              /\ cached' = [cached EXCEPT !["rem"] = KeepInfo(@)]
    /\ UNCHANGED inbox /\ OnlyRem

\* What a search finds that nothing is cached for.
Resolve == [f \in {g \in Files : Where[g] = Home} |-> content[f]]

\* A search that fails ends the daemon; one whose answer is cached cannot fail.
SearchFails ==
    /\ "search" \in FaultKinds /\ faults < MaxFaults
    /\ rem.pc = "initwl" /\ kind = "wlpath" /\ rem.resolved = None
    /\ Dies
    /\ faults' = faults + 1
    /\ UNCHANGED <<cached, content, driver, disk, batch, errors, kind, inbox, cli, gone, edits, requests>>

\* The container that a step of the path leads through, when it is not mounted.
MountParams == IF UniquePaths(table, Home) = {} THEN <<Group(Home, <<HomeStorage>>, NoParent)>> ELSE << >>

\* The answer of the search, cached or not, and what is to be mounted to watch it.
WatchParams ==
    [resolved |-> IF rem.resolved = None THEN Resolve ELSE rem.resolved, mounts |-> MountParams]

\* ... and for a wildland path the containers it leads through, which are mounted
\* under their unique path only.  Patterns are kept when that fails.
InitWlpath ==
    /\ rem.pc = "initwl"
    /\ rem' = [rem EXCEPT !.pc = IF kind # "wlpath" THEN "register" ELSE IF up THEN "catalog" ELSE "dead",
                           !.resolved = IF kind = "wlpath" THEN WatchParams.resolved ELSE @]
    /\ IF kind = "wlpath" /\ up /\ WatchParams.mounts # << >>
       THEN BeginMount("rem", Items(WatchParams.mounts, FALSE, FALSE))
       ELSE /\ cached' = IF kind = "wlpath" /\ up THEN [cached EXCEPT !["rem"].paths = <<table>>] ELSE cached
            /\ errors' = [errors EXCEPT !["rem"] = FALSE]
            /\ UNCHANGED batch
    /\ UNCHANGED <<content, driver, disk, kind, inbox, cli, gone, bounds>>

InitEnds ==
    /\ rem.pc = "catalog" /\ batch["rem"] = << >>
    /\ LET pats == rem.patterns \/ ~errors["rem"]
           again == pats # rem.patterns \/ rem.changed \/ ~rem.watching
       IN  rem' = [rem EXCEPT !.patterns = pats, !.wlchanged = FALSE,
                              !.pc = IF again THEN "register" ELSE "wait"]
    /\ errors' = [errors EXCEPT !["rem"] = FALSE]
    /\ UNCHANGED <<cached, batch, inbox>>
    /\ UNCHANGED <<content, driver, disk, kind, cli, gone, bounds>>

\* The identifiers whose files the pattern covers, by the client's paths.
InTree(paths, con) ==
    IF kind = "wlpath"
    THEN {i \in UniquePaths(paths, con) : ~paths[i].pm}
    ELSE ByContainerPath(paths, con, FALSE)

ChildWatches == IF kind = "outside" THEN [rem.inside EXCEPT ![rem.outside.con] = rem.outside.sts[1]]
                ELSE rem.inside

\* A storage is recognised by its parameters.
WatchedIdent(con, s) ==
    FirstOf({i \in DOMAIN table : ~table[i].pm /\ table[i].id = s.id /\ table[i].par = s.par})

Event(f, type) == [file |-> f, type |-> type, pattern |-> Where[f] = Home]

\* A watch that cannot be placed ends the daemon.  Events that wait are lost with
\* the watches that saw them.
Register ==
    /\ rem.pc = "register"
    /\ LET paths == IF cached["rem"].paths = Unread THEN table ELSE PathsOf("rem")
           patterned == kind \in {"pattern", "children"} \/ (kind = "wlpath" /\ rem.patterns)
           ids == IF patterned THEN InTree(paths, Home) ELSE {}
           kids == {[con |-> c, ident |-> WatchedIdent(c, ChildWatches[c])] : c \in DOMAIN ChildWatches}
       IN  IF \/ ~up
              \/ patterned /\ ids = {}
              \/ ~(ids \subseteq DOMAIN table)
              \/ \E w \in kids : w.ident = None
           THEN Dies /\ watches' = {} /\ UNCHANGED cached
           ELSE /\ watches' = {[con |-> Home, ident |-> i] : i \in ids} \union kids
                /\ cached' = IF patterned THEN [cached EXCEPT !["rem"].paths = <<paths>>] ELSE cached
                /\ rem' = [rem EXCEPT !.pc = "initial", !.watching = TRUE]
    /\ inbox' = << >>
    /\ gone' = [f \in Files |-> IF \E k \in DOMAIN inbox : Event(f, "DELETE") \in Range(inbox[k])
                               THEN "missed" ELSE gone[f]]
    /\ UNCHANGED <<content, table, next, up, disk, batch, errors, kind, cli, bounds>>

\* The files that are there when the watches are placed, as one batch: those of
\* the patterns, and those of subcontainers.
Present == {f \in Files : content[f] # None /\ \E w \in watches : w.con = Where[f]}
InitialFiles == SetToSeq({f \in Present : Where[f] = Home})
InitialChildren == SetToSeq({f \in Present : Where[f] # Home})

InitialEvents ==
    /\ rem.pc = "initial"
    /\ LET fs == InitialFiles \o InitialChildren
       IN  rem' = [rem EXCEPT !.events = [k \in DOMAIN fs |-> Event(fs[k], "CREATE")],
                              !.changed = FALSE, !.wlchanged = FALSE,
                              !.pc = IF fs = << >> THEN "wait" ELSE "handle"]
    /\ UNCHANGED <<cached, inbox>> /\ OnlyRem

TakeEvents ==
    /\ rem.pc = "wait" /\ inbox # << >>
    /\ rem' = [rem EXCEPT !.pc = "handle", !.events = Head(inbox),
                          !.changed = FALSE, !.wlchanged = FALSE]
    /\ inbox' = Tail(inbox)
    /\ UNCHANGED cached /\ OnlyRem

\* The driver has closed the connection: the watches are placed again.
ConnectionCloses ==
    /\ rem.pc = "wait" /\ inbox = << >> /\ ~up
    /\ rem' = [rem EXCEPT !.pc = "register"]
    /\ UNCHANGED <<cached, inbox>> /\ OnlyRem

Remounter ==
    \/ RemReads \/ HandleEvents \/ HandleFails \/ HandlingEnds
    \/ UnmountPending \/ MountPending \/ MountPendingEnds
    \/ InitOutside \/ SearchFails \/ InitWlpath \/ InitEnds
    \/ Register \/ InitialEvents \/ TakeEvents \/ ConnectionCloses

-----------------------------------------------------------------------------
\* The command line.  A command is a process of its own, with empty caches.  For the
\* properties, before is the table when it began, and below the names of the
\* containers whose subcontainers it looked for.

OnlyCli == UNCHANGED <<content, driver, disk, batch, errors, kind, rem, inbox, gone, bounds>>

Idle == [pc |-> "idle", req |-> None, names |-> << >>, conts |-> << >>, stack |-> << >>, acc |-> << >>,
         groups |-> << >>, man |-> None, unm |-> << >>, cacheIds |-> << >>, back |-> "idle",
         loaded |-> {}, seen |-> {}, before |-> << >>, below |-> {}, fails |-> FALSE, ok |-> TRUE]

Begin ==
    /\ cli.pc = "idle" /\ requests < MaxRequests[kind] /\ edits <= MaxBeside[kind]
    /\ \E req \in Requests[kind] :
        /\ req.kind \notin {"start", "sync", "stop-sync"} => up
        /\ cli' = [Idle EXCEPT !.req = req, !.names = req.names, !.before = table,
                              !.pc = IF req.kind = "mount" THEN "names" ELSE req.kind]
    /\ Forget("cli")
    /\ requests' = requests + 1
    /\ UNCHANGED <<content, driver, disk, batch, errors, kind, rem, inbox, gone, faults, edits>>

End(ok) == cli' = [cli EXCEPT !.pc = "idle", !.ok = ok]

\* _create_cache, for each container that --with-cache is to mount.
CachesCreated(mans) == IF cli.req.cache THEN caches \union {m.con : m \in mans} ELSE caches

\* wl container mount: each name in turn.
LoadName ==
    /\ cli.pc = "names" /\ cli.names # << >>
    /\ LET mans == Load(Head(cli.names))
       IN  CASE mans = {} ->
                  /\ cli' = [cli EXCEPT !.names = Tail(@), !.fails = @ \/ Head(cli.names) # HomePath]
                  /\ UNCHANGED caches
             [] mans # {} /\ IsCyclic(mans) -> End(FALSE) /\ UNCHANGED caches
             [] mans # {} /\ ~IsCyclic(mans) ->
                  /\ cli' = [cli EXCEPT !.conts = Ordered(mans), !.stack = << >>, !.acc = << >>,
                                        !.pc = "prepare", !.seen = @ \union WithReferences(mans)]
                  /\ caches' = CachesCreated(WithReferences(mans))
    /\ UNCHANGED <<cached, content, driver, jobs, remote, defaults, batch, errors, kind, rem, inbox, gone, bounds>>

JobsOf(con) == {j \in jobs : j.con = con}

\* Start the sync of a cache with what was the primary storage, unless there is a
\* job already.
CacheSync(con, storages) ==
    jobs' = IF Head(storages).id # CacheId \/ JobsOf(con) # {} THEN jobs
            ELSE jobs \union {[con |-> con, src |-> storages[2].id, dst |-> CacheId]}

SubFrames(con) ==
    LET fs == SetToSeq(AllSubcontainers(con))
    IN  IF cli.req.subs THEN [k \in DOMAIN fs |-> [man |-> content[fs[k]], sub |-> <<con>>]] ELSE << >>

\* A container has been worked through, with its subcontainers, or the name has;
\* a failure gives up what was prepared for the container.
Prepared(c) == [c EXCEPT !.groups = @ \o c.acc, !.acc = << >>]

NextName(c) ==
    [Prepared(c) EXCEPT !.pc = "names", !.names = Tail(@), !.loaded = @ \union {Head(c.names)}]

NextContainer(c) ==
    [Prepared(c) EXCEPT !.conts = Tail(@), !.stack = <<[man |-> Head(c.conts), sub |-> NoParent]>>]

GiveUp(c) ==
    [c EXCEPT !.pc = "prepare", !.stack = << >>, !.acc = IF c.req.kind = "start" THEN @ ELSE << >>]

(* Mutant: orphaned storages are left mounted. *)
ToUnmountNone(paths, con, storages) == << >>

\* What prepare_remount decides, from the tables the command has read.
ToUnmount(paths, con, storages) ==
    LET ids == SetToSeq(Orphaned(paths, con, storages))
    IN  FlattenSeq([k \in DOMAIN ids |-> FindByPath(paths, con, ids[k])])

ToRemount(paths, info, con, storages, force) ==
    IF force THEN storages
    ELSE SelectSeq(storages, LAMBDA s : ShouldRemount(paths, info, con, s))

PrepareReads ==
    /\ cli.pc = "prepare" /\ cli.stack # << >>
    /\ \/ FetchPaths("cli")
       \/ /\ cached["cli"].paths # Unread /\ cli.req.remount
          /\ NeedsInfo("cli", {Head(cli.stack).man.con}) /\ FetchInfo("cli")
    /\ UNCHANGED cli /\ OnlyCli

PrepareMount ==
    /\ cli.pc = "prepare" /\ cli.stack # << >> /\ cached["cli"].paths # Unread
    /\ cli.req.remount => ~NeedsInfo("cli", {Head(cli.stack).man.con})
    /\ LET m == Head(cli.stack).man
           paths == PathsOf("cli")
           info == InfoOf("cli")
           storages == StoragesToMount(m)
           new == FindPrimary(paths, m.con) = None
           known == new \/ \A s \in Range(storages) :
                        FindByPath(paths, m.con, s.id)[1] \in DOMAIN info \union {None}
           add(sts) == [cli EXCEPT !.stack = SubFrames(m.con) \o Tail(@),
                           !.acc = Append(@, Group(m.con, sts, Head(cli.stack).sub))]
       IN  \/ /\ ~(storages # << >> /\ (new \/ cli.req.remount))
              /\ cli' = GiveUp(cli)
              /\ UNCHANGED jobs
           \/ /\ storages # << >> /\ new
              /\ cli' = add(storages)
              /\ CacheSync(m.con, storages)
           \/ /\ storages # << >> /\ ~new /\ cli.req.remount
              /\ IF known
                 THEN /\ cli' = [add(ToRemount(paths, info, m.con, storages, FALSE)) EXCEPT
                                    !.unm = ToUnmount(paths, m.con, storages), !.man = m,
                                    !.pc = "unmounting", !.back = "prepare"]
                      /\ UNCHANGED jobs
                 ELSE End(FALSE) /\ UNCHANGED jobs
    /\ cached' = [cached EXCEPT !["cli"] = KeepInfo(@)]
    /\ UNCHANGED <<content, driver, remote, caches, defaults, batch, errors, kind, rem, inbox, gone, bounds>>

PrepareEnds ==
    /\ cli.pc = "prepare" /\ cli.stack = << >>
    /\ cli' = IF cli.conts = << >> THEN NextName(cli) ELSE NextContainer(cli)
    /\ UNCHANGED cached /\ OnlyCli

\* Identifiers are unmounted one by one; the first that is gone is an error.
Unmounting ==
    /\ cli.pc = "unmounting" /\ cli.unm # << >>
    /\ IF up /\ Head(cli.unm) \in DOMAIN table
       THEN /\ Unmount(Head(cli.unm))
            /\ cli' = [cli EXCEPT !.unm = Tail(@)]
       ELSE /\ cli' = IF cli.back = "prepare" THEN GiveUp([cli EXCEPT !.unm = << >>])
                      ELSE [cli EXCEPT !.pc = "idle", !.ok = FALSE]
            /\ UNCHANGED driver
    /\ Forget("cli")
    /\ UNCHANGED <<content, disk, batch, errors, kind, rem, inbox, gone, bounds>>

UnmountingEnds ==
    /\ cli.pc = "unmounting" /\ cli.unm = << >>
    /\ cli' = [cli EXCEPT !.pc = cli.back]
    /\ IF cli.back = "prepare" THEN CacheSync(cli.man.con, StoragesToMount(cli.man)) ELSE UNCHANGED jobs
    /\ UNCHANGED <<cached, content, driver, remote, caches, defaults, batch, errors, kind, rem, inbox, gone, bounds>>

AllNames ==
    /\ cli.pc = "names" /\ cli.names = << >>
    /\ IF \E g \in Range(cli.groups) : g.sts # << >>
       THEN /\ BeginMount("cli", Items(cli.groups, TRUE, cli.req.remount))
            /\ cli' = [cli EXCEPT !.pc = "mounting", !.back = "save"]
       ELSE /\ cli' = [cli EXCEPT !.pc = "save"]
            /\ UNCHANGED clients
    /\ UNCHANGED <<content, driver, disk, kind, rem, inbox, gone, bounds>>

\* After an error nothing is saved.
MountEnds ==
    /\ cli.pc = "mounting" /\ batch["cli"] = << >>
    /\ IF errors["cli"] /\ cli.req.kind # "start"
       THEN End(FALSE)
       ELSE cli' = [cli EXCEPT !.pc = cli.back]
    /\ UNCHANGED cached /\ OnlyCli

Save ==
    /\ cli.pc = "save"
    /\ defaults' = IF cli.req.save THEN defaults \union cli.loaded ELSE defaults
    /\ End(~cli.fails)
    /\ UNCHANGED <<cached, content, driver, jobs, remote, caches, batch, errors, kind, rem, inbox, gone, bounds>>

\* The driver ends, and everything it knew with it.
DriverStops == table' = << >> /\ watches' = {} /\ up' = FALSE

\* wl start: a driver that runs is stopped first, and default containers are
\* mounted then.
StartStops ==
    /\ cli.pc = "start"
    /\ DriverStops
    /\ cli' = [cli EXCEPT !.pc = "starting", !.names = @ \o SetToSeq(defaults)]
    /\ Forget("cli")
    /\ UNCHANGED <<content, next, disk, batch, errors, kind, rem, inbox, gone, bounds>>

\* A new driver has nothing mounted, and identifiers start again.
FsStart ==
    /\ cli.pc = "starting"
    /\ table' = << >> /\ next' = 1 /\ up' = TRUE
    /\ cli' = [cli EXCEPT !.pc = "names"]
    /\ Forget("cli")
    /\ UNCHANGED <<content, watches, disk, batch, errors, kind, rem, inbox, gone, bounds>>

\* wl stop: the sync daemon is shut down with it.
FsStop ==
    /\ cli.pc = "stop"
    /\ DriverStops
    /\ jobs' = {}
    /\ End(TRUE)
    /\ Forget("cli")
    /\ UNCHANGED <<content, next, remote, caches, defaults, batch, errors, kind, rem, inbox, gone, bounds>>

\* wl container unmount: what is mounted for each container, by the unique paths
\* of its storages.
IsCache(tab, i) == tab[i].con \in caches /\ tab[i].id = CacheId /\ ~tab[i].pm

\* The pseudomanifest that is found with a storage; there may be none.
PmOf(tab, i) ==
    LET pm == FindByPath(tab, tab[i].con, tab[i].id)[2]
    IN  IF tab[i].pm \/ pm = None THEN i ELSE pm

\* Each storage is followed by its pseudomanifest.
WithPms(tab, ids) ==
    [k \in 1..(2 * Len(ids)) |-> IF k % 2 = 1 THEN ids[(k + 1) \div 2] ELSE PmOf(tab, ids[k \div 2])]

\* The k-th of them has k of them up to it.
Sorted(ids) ==
    [k \in 1..Cardinality(ids) |-> CHOOSE i \in ids : Cardinality({j \in ids : j <= i}) = k]

\* Only the first of equals stays.
Distinct(ids) ==
    LET firsts == {k \in DOMAIN ids : \A j \in DOMAIN ids : ids[j] = ids[k] => k <= j}
        order == Sorted(firsts)
    IN  [k \in DOMAIN order |-> ids[order[k]]]

CollectByName(paths, info, con) ==
    WithPms(paths, Sorted({i \in UniquePaths(paths, con) : ~IsCache(paths, i)}))
    \o (IF cli.req.subs THEN Sorted(Subs(info, {<<con>>})) ELSE << >>)

\* The names that the subcontainers of these are looked for by.
Below(info, names) == IF cli.req.subs THEN names \union NamesIn(info, Subs(info, names)) ELSE {}

(* Mutant: caches are not unmounted. *)
CacheIdsOfNone(paths, con) == << >>

CacheIdsOf(paths, con) == Sorted({i \in UniquePaths(paths, con) : IsCache(paths, i)})

\* The info is needed for subcontainers, and to count what is to be unmounted.
CollectReads ==
    /\ \/ /\ cli.pc \in {"unmount", "path", "remount"} /\ FetchPaths("cli")
          /\ cli.pc = "unmount" => cli.conts # << >>
       \/ cli.pc = "unmount" /\ cli.conts # << >> /\ cli.req.subs /\ FetchInfo("cli")
       \/ cli.pc = "unmount" /\ cli.conts = << >> /\ cli.names = << >> /\ FetchInfo("cli")
       \/ cli.pc = "path" /\ cached["cli"].paths # Unread /\ FetchInfo("cli")
       \/ cli.pc = "all" /\ FetchInfo("cli")
    /\ UNCHANGED cli /\ OnlyCli

CollectName ==
    /\ cli.pc = "unmount" /\ cli.conts = << >> /\ cli.names # << >>
    /\ LET mans == Load(Head(cli.names))
       IN  cli' = [cli EXCEPT !.names = Tail(@), !.conts = SetToSeq(mans),
                       !.fails = @ \/ (mans = {} /\ Head(cli.names) # HomePath)]
    /\ UNCHANGED cached /\ OnlyCli

CollectContainer ==
    /\ cli.pc = "unmount" /\ cli.conts # << >>
    /\ cached["cli"].paths # Unread /\ (cli.req.subs => cached["cli"].info # Unread)
    /\ LET m == Head(cli.conts)
           paths == PathsOf("cli")
           info == InfoOf("cli")
       IN  cli' = [cli EXCEPT !.conts = Tail(@), !.seen = @ \union {m},
                       !.below = @ \union Below(info, {<<m.con>>}),
                       !.unm = Distinct(@ \o CollectByName(paths, info, m.con)),
                       !.cacheIds = Distinct(@ \o CacheIdsOf(paths, m.con))]
    /\ cached' = [cached EXCEPT !["cli"] = KeepInfo(@)]
    /\ OnlyCli

Undone(names) == {f \in defaults : f \notin Range(names)}

\* --undo-save comes before anything is unmounted.  Then storages are counted, and
\* one that the info does not have ends the command.
Collected ==
    /\ cli.pc = "unmount" /\ cli.conts = << >> /\ cli.names = << >>
    /\ LET ids == Range(cli.unm) \union Range(cli.cacheIds)
       IN  /\ ids # {} => cached["cli"].info # Unread
           /\ IF \/ ids = {} /\ ~cli.req.save
                 \/ ids # {} /\ ~(ids \subseteq DOMAIN InfoOf("cli"))
              THEN End(FALSE)
              ELSE cli' = [cli EXCEPT !.pc = "unmounting", !.back = "caches"]
    /\ defaults' = IF cli.req.save THEN Undone(cli.req.names) ELSE defaults
    /\ UNCHANGED <<cached, content, driver, jobs, remote, caches, batch, errors, kind, rem, inbox, gone, bounds>>

\* By path: the storage with that path and its pseudomanifest, and the subcontainers
\* of both; secondary storages are not found.  A single storage is refused.
CollectPath ==
    /\ cli.pc = "path"
    /\ cached["cli"].paths # Unread /\ cached["cli"].info # Unread
    /\ LET tab == PathsOf("cli")
           info == InfoOf("cli")
           ids == FindAll(tab, cli.req.con)
           names == NamesIn(info, ids)
           subs == IF cli.req.subs THEN Subs(info, names) ELSE {}
       IN  IF ids = {} \/ ~(ids \subseteq DOMAIN info) \/ (Cardinality(ids) = 1 /\ subs = {})
           THEN End(FALSE)
           ELSE cli' = [cli EXCEPT !.unm = Sorted({i \in ids : ~IsCache(tab, i)} \union subs),
                            !.cacheIds = Sorted({i \in ids : IsCache(tab, i)}),
                            !.below = Below(info, names),
                            !.pc = "unmounting", !.back = "caches"]
    /\ cached' = [cached EXCEPT !["cli"] = KeepInfo(@)]
    /\ OnlyCli

\* A cache goes last, after its sync job; one that has no job stays.
UnmountCaches ==
    /\ cli.pc = "caches"
    /\ IF cli.cacheIds = << >>
       THEN /\ End(~cli.fails)
            /\ UNCHANGED <<jobs, cached>>
       ELSE LET i == Head(cli.cacheIds)
            IN  /\ up
                /\ cached' = [cached EXCEPT !["cli"] = KeepInfo([@ EXCEPT !.info = <<table>>])]
                /\ IF \/ i \notin DOMAIN table
                      \/ ~IsUnderContainerPaths(table[i])
                      \/ JobsOf(table[i].con) = {}
                   THEN End(FALSE) /\ UNCHANGED jobs
                   ELSE /\ jobs' = jobs \ JobsOf(table[i].con)
                        /\ cli' = [cli EXCEPT !.cacheIds = Tail(@), !.unm = <<i>>,
                                              !.pc = "unmounting", !.back = "caches"]
    /\ UNCHANGED <<content, driver, remote, caches, defaults, batch, errors, kind, rem, inbox, gone, bounds>>

CollectAll ==
    /\ cli.pc = "all"
    /\ cached["cli"].info # Unread
    /\ LET info == InfoOf("cli")
       IN  IF \A i \in DOMAIN info : info[i].pm
           THEN End(TRUE)
           ELSE cli' = [cli EXCEPT !.unm = Sorted(DOMAIN info), !.pc = "unmounting", !.back = "stop-all"]
    /\ UNCHANGED cached /\ OnlyCli

StopAll ==
    /\ cli.pc = "stop-all"
    /\ jobs' = {}
    /\ End(TRUE)
    /\ UNCHANGED <<cached, content, driver, remote, caches, defaults, batch, errors, kind, rem, inbox, gone, bounds>>

DeleteCache ==
    /\ cli.pc = "delete-cache"
    /\ LET m == content[Head(cli.names)]
       IN  IF m = None THEN End(FALSE) /\ UNCHANGED caches
           ELSE End(TRUE) /\ caches' = caches \ {m.con}
    /\ UNCHANGED <<cached, content, driver, jobs, remote, defaults, batch, errors, kind, rem, inbox, gone, bounds>>

-----------------------------------------------------------------------------
\* The sync of a container by hand.

\* The storages of a container and its cache, the writable ones first.
AllStorages(m) ==
    LET all == IF m.con \in caches THEN Append(m.sts, CacheStorage) ELSE m.sts
    IN  SelectSeq(all, LAMBDA s : s.id \notin ReadOnlyIds)
        \o SelectSeq(all, LAMBDA s : s.id \in ReadOnlyIds)

LocalStorages(m) == SelectSeq(AllStorages(m), LAMBDA s : s.id \in LocalIds)

\* The default remote storage alone, if there is one, wherever it is.
RemoteStorages(m) ==
    SelectSeq(AllStorages(m),
              LAMBDA s : IF remote[m.con] = None THEN s.id \notin LocalIds ELSE s.id = remote[m.con])

WithId(storages, id) == SelectSeq(storages, LAMBDA s : s.id = id)

FirstId(storages) == IF storages = << >> THEN None ELSE Head(storages).id

\* The storage that was asked for, be it local or not, or the first that fits.
LocalStorage(m, asked) ==
    FirstId(IF asked = None THEN LocalStorages(m) ELSE WithId(AllStorages(m), asked))

RemoteStorage(m, asked) ==
    FirstId(IF asked = None THEN RemoteStorages(m) ELSE WithId(AllStorages(m), asked))

\* wl container sync.  A remote storage that was asked for is the default ever
\* after, even if the job cannot be started.
SyncContainer ==
    /\ cli.pc = "sync"
    /\ \E m \in {content[Head(cli.names)]} :
        LET src == IF m = None THEN None ELSE LocalStorage(m, cli.req.source)
            dst == IF src = None THEN None ELSE RemoteStorage(m, cli.req.target)
        IN  IF dst = None
            THEN End(FALSE) /\ UNCHANGED <<remote, jobs>>
            ELSE /\ remote' = IF cli.req.target = None THEN remote ELSE [remote EXCEPT ![m.con] = dst]
                 /\ jobs' = IF JobsOf(m.con) # {} THEN jobs
                            ELSE jobs \union {[con |-> m.con, src |-> src, dst |-> dst]}
                 /\ IF JobsOf(m.con) # {} \/ ~cli.req.once
                    THEN End(JobsOf(m.con) = {})
                    ELSE cli' = [cli EXCEPT !.pc = "wait-sync", !.man = m]
    /\ UNCHANGED <<cached, content, driver, caches, defaults, batch, errors, kind, rem, inbox, gone, bounds>>

\* A sync that is done once ends with its job stopped, successful or not.
WaitForSync ==
    /\ cli.pc = "wait-sync"
    /\ jobs' = jobs \ JobsOf(cli.man.con)
    /\ End(TRUE)
    /\ UNCHANGED <<cached, content, driver, remote, caches, defaults, batch, errors, kind, rem, inbox, gone, bounds>>

StopSyncing ==
    /\ cli.pc = "stop-sync"
    /\ \E m \in {content[Head(cli.names)]} :
        LET stopped == IF m = None THEN {} ELSE JobsOf(m.con)
        IN  jobs' = jobs \ stopped /\ End(stopped # {})
    /\ UNCHANGED <<cached, content, driver, remote, caches, defaults, batch, errors, kind, rem, inbox, gone, bounds>>

-----------------------------------------------------------------------------
\* Changes of manifest files, by the command line and by anybody else.

Send(events) ==
    LET told == SelectSeq(events, LAMBDA e : \E w \in watches : w.con = Where[e.file])
    IN  inbox' = IF told = << >> THEN inbox ELSE Append(inbox, told)

Changed(f, m) ==
    Event(f, CASE content[f] = None -> "CREATE" [] m = None -> "DELETE" [] OTHER -> "MODIFY")

\* wl container modify or edit saves the manifest, then remounts the container if
\* it is mounted.
Modify ==
    /\ cli.pc = "modify"
    /\ LET f == Head(cli.names)
       IN  IF content[f] = None
           THEN End(FALSE) /\ UNCHANGED <<content, inbox>>
           ELSE \E m \in Versions[kind][f] \ {content[f]} :
                /\ content' = [content EXCEPT ![f] = m]
                /\ Send(<<Changed(f, m)>>)
                /\ cli' = [cli EXCEPT !.pc = "remount", !.seen = {m},
                                      !.stack = <<[man |-> content[f], sub |-> NoParent]>>]
    /\ UNCHANGED <<cached, driver, disk, batch, errors, kind, rem, gone, bounds>>

\* remount_container, or hard_remount_container when the manifest is now one of
\* another container.
Remount ==
    /\ cli.pc = "remount" /\ cached["cli"].paths # Unread
    /\ LET old == Head(cli.stack).man
           m == CHOOSE x \in cli.seen : TRUE
           paths == PathsOf("cli")
           storages == StoragesToMount(m)
           ids == IF old.con = m.con
                  THEN ToUnmount(paths, m.con, storages)
                  ELSE LET us == Sorted({i \in UniquePaths(paths, old.con) : ~paths[i].pm})
                       IN  FlattenSeq([k \in DOMAIN us |->
                               FindByPath(paths, old.con, paths[us[k]].id)])
       IN  IF FindPrimary(paths, old.con) = None
           THEN End(TRUE)
           ELSE IF storages = << >> /\ old.con = m.con
           THEN End(FALSE)
           ELSE cli' = [cli EXCEPT !.unm = ids, !.pc = "unmounting", !.back = "again",
                                   !.groups = <<Group(m.con, storages, NoParent)>>]
    /\ UNCHANGED cached /\ OnlyCli

RemountMounts ==
    /\ cli.pc = "again"
    /\ IF cli.groups[1].sts = << >>
       THEN End(FALSE) /\ UNCHANGED clients
       ELSE /\ BeginMount("cli", Items(cli.groups, TRUE, TRUE))
            /\ cli' = [cli EXCEPT !.pc = "mounting", !.back = "save"]
    /\ UNCHANGED <<content, driver, disk, kind, rem, inbox, gone, bounds>>

Cli ==
    \/ Begin \/ LoadName \/ PrepareReads \/ PrepareMount \/ PrepareEnds
    \/ Unmounting \/ UnmountingEnds \/ AllNames \/ MountEnds \/ Save
    \/ StartStops \/ FsStart \/ FsStop
    \/ CollectReads \/ CollectName \/ CollectContainer \/ Collected \/ CollectPath \/ UnmountCaches
    \/ CollectAll \/ StopAll \/ DeleteCache
    \/ SyncContainer \/ WaitForSync \/ StopSyncing
    \/ Modify \/ Remount \/ RemountMounts

AtRest == /\ rem.pc \in {"off", "wait", "dead"} /\ inbox = << >>
          /\ cli.pc = "idle"

\* What becomes of the history when a file is changed: nobody is told of a file
\* that goes away while no watch is placed.
Noted(f, m) ==
    [gone EXCEPT ![f] =
        CASE m = None -> IF \E w \in watches : w.con = Where[f] THEN "told" ELSE "missed"
          [] m # None /\ @ # "never" -> "told"
          [] OTHER -> @]

EditFile ==
    /\ edits < MaxEdits /\ (requests > 0 => edits < MaxBeside[kind])
    /\ \E f \in Files : \E m \in (Versions[kind][f] \union {None}) \ {content[f]} :
        /\ m = None => f \in Removable[kind]
        /\ content' = [content EXCEPT ![f] = m]
        /\ gone' = Noted(f, m)
        /\ Send(<<Changed(f, m)>>)
    /\ edits' = edits + 1
    /\ UNCHANGED <<driver, disk, clients, kind, rem, cli, faults, requests>>

-----------------------------------------------------------------------------

NoTracks == [k \in Range(Key) |-> None]

RemIdle(k) ==
    [pc |-> IF k = "off" THEN "off" ELSE "init",
     events |-> << >>, seen |-> FALSE, wlchanged |-> FALSE, changed |-> FALSE,
     mount |-> << >>, unmount |-> << >>, track |-> NoTracks, wltrack |-> {},
     inside |-> IF k = "outside" THEN [c \in {FirstFiles[k][Outside].con} |-> FirstFiles[k][Outside].sts[1]]
                ELSE << >>,
     resolved |-> None, patterns |-> FALSE, watching |-> FALSE, outside |-> FirstFiles[k][Outside]]

\* The catalog is mounted, everything else is to come.
Init ==
    /\ table = [i \in {1, 2} |-> Entry(Home, HomeStorage, i = 2, TRUE, NoParent)]
    /\ next = 3 /\ up = TRUE /\ watches = {}
    /\ jobs = {} /\ caches = {} /\ defaults = {}
    /\ remote = [con \in Containers |-> None]
    /\ cached = [p \in Clients |-> [paths |-> Unread, info |-> Unread]]
    /\ batch = [p \in Clients |-> << >>]
    /\ errors = [p \in Clients |-> FALSE]
    /\ kind \in Kinds /\ content = FirstFiles[kind]
    /\ rem = RemIdle(kind)
    /\ inbox = << >>
    /\ cli = Idle
    /\ gone = [f \in Files |-> "never"]
    /\ faults = 0 /\ edits = 0 /\ requests = 0

Next == Driver \/ Remounter \/ Cli \/ EditFile

Spec == Init /\ [][Next]_vars

-----------------------------------------------------------------------------
\* Properties.

(* The type invariant, with the driver's promise that main paths are not        *)
(* shared.                                                                      *)
TypeOK ==
    /\ DOMAIN table \subseteq 1..(next - 1) /\ next \in 1..(MaxIdent + 1)
    /\ \A i, j \in DOMAIN table : MainPath(table[i]) = MainPath(table[j]) => i = j
    /\ \A w \in watches : w.ident \in DOMAIN table
    /\ \A f \in Files : content[f] \in Versions[kind][f] \union {None}
    /\ \A j, k \in jobs : j.con = k.con => j = k
    /\ \A j \in jobs : j.con \in Containers /\ None \notin {j.src, j.dst}
    /\ DOMAIN remote = Containers
    /\ caches \subseteq Containers /\ defaults \subseteq Files \union {HomePath}
    /\ \A f \in DOMAIN rem.track : rem.track[f] \in Containers \union {None}
    /\ faults <= MaxFaults /\ edits <= MaxEdits /\ requests <= MaxRequests[kind]

\* The container is mounted as its manifest says: each storage with its
\* pseudomanifest, and no other.
MountedAs(m) ==
    LET storages == StoragesToMount(m)
    IN  /\ \A s \in Range(storages) : \A pm \in BOOLEAN :
              \E i \in DOMAIN table :
                 /\ MainPath(table[i]) = <<m.con, s.id, pm>>
                 /\ Tag(table[i]) = Tag(Entry(m.con, s, pm, TRUE, NoParent))
        /\ Orphaned(table, m.con, storages) = {}

Quiet == AtRest /\ rem.pc = "wait" /\ up

Watched(f) == \/ kind \in {"pattern", "children", "wlpath"} /\ Where[f] = Home
              \/ kind = "children" /\ \E w \in watches : w.con = Where[f]
              \/ kind = "outside" /\ Where[f] = FirstFiles[kind][Outside].con

NobodyHolds(con) == \A f \in Files : content[f] # None => content[f].con # con

\* The files hold what they are said to hold, and what went away is not mounted as
\* a container any more.
InSync(holds) ==
    \A f \in {g \in Files : Watched(g)} :
        IF holds[f] # None
        THEN StoragesToMount(holds[f]) # << >> => MountedAs(holds[f])
        ELSE gone[f] # "missed" =>
                \A m \in Versions[kind][f] : NobodyHolds(m.con) => FindPrimary(table, m.con) = None

(* When mount-watch waits for events and none is left, and no command was given,  *)
(* the containers are mounted as the manifests it watches say, and the primary   *)
(* storages of containers whose manifests are gone are not mounted (mount_watch:   *)
(* keep the filesystem mount state in sync); of a wildland path, as the manifests *)
(* said when it was first resolved.  Events arrive after the change, tables are   *)
(* read before it, and what is queued by one event is carried out after the next. *)
(* Not so for a file that goes away while watches are placed, of which nobody is  *)
(* told; for the other storages of a container that is gone, handle_event         *)
(* unmounts one; and for subcontainers whose manifests nobody watches: when the   *)
(* storage that shows them was replaced, or as WatchedBelow says.               *)
Settled ==
    Quiet /\ faults = 0 /\ requests = 0 =>
        IF kind = "wlpath" THEN \A m \in Resolution : StoragesToMount(m) # << >> /\ rem.wltrack # {} => MountedAs(m)
        ELSE InSync(content)

(* handle_events tells "whether there may be a need to recalculate watch patterns" *)
(* (remounter): the subcontainers of all watched containers are mounted as their   *)
(* manifests say.  But the next event of the batch overwrites what it tells.      *)
WatchedBelow ==
    Quiet /\ faults = 0 /\ requests = 0 /\ kind = "children" =>
        \A f \in Files : \A g \in Files :
            /\ Where[g] = Home /\ content[g] # None /\ content[g].con = Where[f]
            /\ content[f] # None /\ StoragesToMount(content[f]) # << >>
            => MountedAs(content[f])

(* "A file change event results in a Wildland path resolve again" (remounter):  *)
(* the containers of a watched wildland path are mounted as their manifests say. *)
WlpathSettled == Quiet /\ faults = 0 /\ requests = 0 /\ kind = "wlpath" => InSync(content)

(* While the driver runs, mount-watch does not end because a watch cannot be    *)
(* placed again: the storages it watches children of are mounted by then.  Not   *)
(* so once the manifest of one of these containers went away, which is never     *)
(* forgotten, nor beside a command that unmounts or modifies one.               *)
StaysUp ==
    /\ up /\ faults = 0 /\ requests = 0
    /\ \A f \in Files : gone[f] # "never" => \A m \in Versions[kind][f] : m.con \notin DOMAIN rem.inside
    => rem.pc # "dead"

Done == cli.pc # "idle" /\ cli'.pc = "idle" /\ cli'.ok

\* What a command was to unmount, of the entries of a table.
Unwanted(tab) ==
    {i \in DOMAIN tab : \/ \E m \in cli.seen : tab[i].con = m.con
                        \/ cli.req.kind = "path" /\ i \in FindAll(tab, cli.req.con)
                        \/ tab[i].sub \in cli.below}

LeavesNothing ==
    Done /\ cli.req.kind \in {"unmount", "path"} => Unwanted(table') \intersect DOMAIN cli.before = {}

StopsJobFirst ==
    cli.pc = "unmounting" /\ cli.req.kind \in {"unmount", "path"} /\ cli' # cli =>
        \A i \in DOMAIN table \ DOMAIN table' :
            /\ table[i].con \in caches /\ table[i].id = CacheId /\ ~table[i].pm
            /\ table[i].sub = NoParent
            => JobsOf(table[i].con) = {}

(* A command wl container unmount that reports success leaves nothing of what was *)
(* mounted for the containers when it began, their pseudomanifests and caches     *)
(* included, nor of their subcontainers at any depth, be they named or given by   *)
(* a path (which does not find secondary storages), and it takes away no cache    *)
(* that a sync job still works on, the caches that were mounted for subcontainers *)
(* aside.  It reads the paths, then the info, and unmounts one storage after the  *)
(* other while mount-watch mounts and unmounts, too.                            *)
UnmountIsComplete == [][LeavesNothing /\ StopsJobFirst]_vars

\* The storages of a container are mounted, though perhaps not what shows their
\* manifests.
StoragesMountedAs(m) ==
    LET storages == StoragesToMount(m)
    IN  /\ \A s \in Range(storages) :
              \E i \in DOMAIN table :
                 /\ MainPath(table[i]) = <<m.con, s.id, FALSE>>
                 /\ Tag(table[i]) = Tag(Entry(m.con, s, FALSE, TRUE, NoParent))
        /\ Orphaned(table, m.con, storages) = {}

(* When no mount-watch runs, a command wl container mount that reports success    *)
(* leaves every container it loaded mounted as its manifest says, and so does     *)
(* modify, if the container was mounted before: all storages and no others.       *)
(* After a command that failed half-way, pseudomanifests may be missing for ever. *)
(* A manifest with two primary storages is none.  A container is given up with    *)
(* any of its subcontainers that cannot be mounted or, without --remount, is      *)
(* mounted already: then it is as if it had not been asked for.                 *)
MountIsComplete ==
    [][Done /\ cli.pc = "save" /\ cli.req.kind \in {"mount", "modify"} /\ kind = "off" =>
        \A m \in cli.seen :
            /\ StoragesToMount(m)' # << >>
            /\ \A f \in Files : Where[f] # Home /\ content[f] # None => StoragesToMount(content[f])' # << >>
            /\ \/ cli.req.kind = "modify" \/ cli.req.remount
               \/ \A i \in DOMAIN cli.before : cli.before[i].con = Home
            => StoragesMountedAs(m)' /\ (faults = 0 => MountedAs(m)')]_vars

(* A sync job works for a container whose cache is mounted.                     *)
JobsHaveCaches ==
    cli.pc = "idle" /\ kind = "off" =>
        \A j \in jobs : CacheId \in {j.src, j.dst} =>
            \E i \in DOMAIN table : table[i].con = j.con /\ table[i].id = CacheId

=============================================================================
