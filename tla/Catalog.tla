------------------------------ MODULE Catalog ------------------------------
(***************************************************************************)
(* Container manifests and their publication.  A user keeps container      *)
(* manifests in a local directory and publishes copies of them in the      *)
(* storages of the containers listed in the user's manifests catalog.  The *)
(* module follows one command of the command line at a time, file          *)
(* operation by file operation, because any of them can fail: the save of  *)
(* the local manifest, the choice of the catalog storages                  *)
(* (Publisher.get_catalog_storages), the update of the copies in one       *)
(* storage (FileChildrenMixin._update_child) and the file ".unpublished"   *)
(* that caches which local manifests have no copy.                         *)
(*                                                                         *)
(* A manifest is reduced to the container's paths besides the one of its   *)
(* uuid, and to the standalone storages it refers to.                      *)
(***************************************************************************)
EXTENDS Naturals, FiniteSets, SequencesExt

CONSTANTS
    Objects,      \* containers, each standing for its uuid path as well
    Paths,        \* the other paths
    Backends,     \* storages with a manifest of their own
    Remote,       \* catalog containers without a local manifest
    FirstEntries, \* the user's manifests catalog, a sequence of containers
    Storages,     \* the storages of catalog containers
    StoragesOf,   \* the storages of each catalog container, in their order
    Pattern,      \* the kind of manifest-pattern of each storage
    ReadOnly,     \* the storages that are not writeable
    Outcomes,     \* {FALSE}, or BOOLEAN when file times may be equal
    FaultKinds,   \* what may go wrong: "scan", "add", "remove", "delete", "corrupt"
    MaxFaults,    \* bound on what goes wrong
    MaxCommands,  \* bound on the number of commands
    None

ASSUME CatalogAssumption ==
    /\ StoragesOf \in [Objects \union Remote -> Seq(Storages)]
    /\ Pattern \in [Storages -> {"flat", "tree", "shared", "none"}]
    /\ FirstEntries \in Seq(Remote)
    /\ ReadOnly \subseteq Storages
    /\ Outcomes \subseteq BOOLEAN
    /\ Objects \intersect (Remote \union Paths) = {} /\ IsFiniteSet(Storages)

VARIABLES
    manifest,   \* the local manifest of each container, or None
    broken,     \* the containers whose local manifest cannot be loaded
    newer,      \* newer[o]: the manifest's time is after the one of the cache file
    cache,      \* the names in ".unpublished", None without the file
    standalone, \* the storages whose own manifest exists
    entries,    \* the user's manifests catalog
    mounted,    \* the containers that are mounted
    files,      \* the manifests in each storage, by relative path, or what was to
                \* be written there
    half,       \* the files, by storage and path, whose last write broke off
    pc, job,    \* where the command is, and what it works on
    todo,       \* the file operations left in the storage being updated
    faults, commands

local == <<manifest, broken, newer, cache, standalone, entries, mounted>>
control == <<pc, job, todo>>
bounds == <<faults, commands>>
vars == <<local, files, half, control, bounds>>

-----------------------------------------------------------------------------
\* Relative paths in a storage, and what an update of a storage does.

Man == [paths : SUBSET Paths, backends : SUBSET Backends]

ASSUME NoneAssumption ==
    /\ None \notin Objects \union Paths \union Backends \union Storages
    /\ None \notin [obj : Objects, man : Man] \union {"publish", "unpublish", "republish"}

AllPaths(o, m) == {o} \union m.paths

AddBackend(m, b) == [m EXCEPT !.backends = @ \union {b}]
DelBackend(m, b) == [m EXCEPT !.backends = @ \ {b}]

\* The pattern "/*.yaml" has one file for a container, "/{path}/*.yaml" one for
\* each path of it, and "/{path}.yaml" shares the files of its paths with others.
Rel(s, o, p) ==
    [path |-> IF Pattern[s] = "flat" THEN None ELSE p,
     obj |-> IF Pattern[s] = "shared" THEN None ELSE o,
     backend |-> None]

ManifestRels(s, o, m) == {Rel(s, o, p) : p \in AllPaths(o, m)}

HasChild(s, o) == Rel(s, o, o) \in DOMAIN files[s]

\* The file at the uuid path is there and cannot be loaded.
IsUnreadable(s, o) == HasChild(s, o) /\ <<s, Rel(s, o, o)>> \in half

\* The files that a storage is asked for when a path is looked up.
FindManifestFiles(s, q) ==
    {r \in DOMAIN files[s] : r.backend = None /\ (Pattern[s] = "flat" \/ r.path = q)}

\* Storages that cannot be loaded are left out.
StorageRels(s, o, m) ==
    {[Rel(s, o, o) EXCEPT !.backend = b] : b \in m.backends \intersect standalone}

(* Mutant: what was published under other paths is forgotten. *)
OldRelsUuidOnly(s, o) ==
    IF HasChild(s, o) THEN {Rel(s, o, o)} ELSE {}

OldRels(s, o) ==
    IF HasChild(s, o) THEN ManifestRels(s, o, files[s][Rel(s, o, o)].man) ELSE {}

Removals(rels) == {[rel |-> r, write |-> None] : r \in rels}
Writes(rels, o, m) == {[rel |-> r, write |-> [obj |-> o, man |-> m]] : r \in rels}

(* Mutant: unpublishing removes the current paths only. *)
UpdateChildCurrent(s, o, m, remove) ==
    LET rels == ManifestRels(s, o, m)
    IN  IF remove
        THEN << Removals(rels \union StorageRels(s, o, m)) >>
        ELSE << Writes({Rel(s, o, o)}, o, m), Writes(rels \ {Rel(s, o, o)}, o, m) >>

\* Sets of operations, one after the other; the order inside a set is not fixed.
UpdateChild(s, o, m, remove) ==
    LET rels == ManifestRels(s, o, m)
        copies == StorageRels(s, o, m)
        first == {Rel(s, o, o)}
    IN  IF remove
        THEN << Removals(OldRels(s, o) \union rels \union copies) >>
        ELSE << Removals(OldRels(s, o) \ (rels \union copies)),
                Writes(copies, o, m),
                Writes(first, o, m),
                Writes(rels \ first, o, m) >>

Apply(fs, op) ==
    IF op.write = None
    THEN [r \in DOMAIN fs \ {op.rel} |-> fs[r]]
    ELSE [r \in DOMAIN fs \union {op.rel} |-> IF r = op.rel THEN op.write ELSE fs[r]]

-----------------------------------------------------------------------------
\* The catalog's storages and the cache of unpublished containers.

Loads(o) == manifest[o] # None /\ o \notin broken

\* The storage that one container of the catalog offers: the first that can be
\* mounted and takes manifests.
Offered(c, down, writable) ==
    LET fit == {i \in DOMAIN StoragesOf[c] :
                   LET s == StoragesOf[c][i]
                   IN  /\ writable => s \notin ReadOnly
                       /\ s \notin down
                       /\ Pattern[s] # "none"}
    IN  IF fit = {} \/ (c \in Objects /\ ~Loads(c)) THEN None ELSE StoragesOf[c][Min(fit)]

\* The storages of the catalog, by their entries.  Entries that cannot be loaded
\* are passed over; to find nothing at all is an error.
CatalogStorages(down, writable) ==
    [i \in {j \in DOMAIN entries : Offered(entries[j], down, writable) # None} |->
        Offered(entries[i], down, writable)]

Outages ==
    {D \in SUBSET Storages :
        D = {} \/ ("scan" \in FaultKinds /\ faults + Cardinality(D) <= MaxFaults)}

IsPublished(o, down) ==
    \E s \in Range(CatalogStorages(down, FALSE)) : HasChild(s, o)

HasCatalog == entries # << >>

IsInvalid(ignored) ==
    \/ cache = None
    \/ \E o \in Objects \ ignored : manifest[o] # None /\ newer[o]

\* Manifests that cannot be loaded are passed over.
LoadAllManifests == {o \in Objects : Loads(o)}

Recomputed(down) == {o \in LoadAllManifests : HasCatalog /\ ~IsPublished(o, down)}

\* The set of names the cache file has after _get_changed: recomputed if another
\* manifest is newer than the file.
CacheFor(o, down) == IF IsInvalid({o}) THEN Recomputed(down) ELSE cache

(* Mutant: unpublishing is not noted. *)
AddNameForgotten(o, down) == CacheFor(o, down)

AddName(o, down) == CacheFor(o, down) \union {o}
DropName(o, down) == CacheFor(o, down) \ {o}

SaveCache(names) ==
    /\ cache' = names
    /\ newer' = [o \in Objects |-> FALSE]

Cost(down) == faults' = faults + Cardinality(down)

-----------------------------------------------------------------------------
Idle == [cmd |-> None, obj |-> None, man |-> None, mode |-> None,
         targets |-> << >>, cascade |-> FALSE, isLocal |-> TRUE]

TypeOK ==
    /\ manifest \in [Objects -> Man \union {None}]
    /\ broken \subseteq Objects
    /\ newer \in [Objects -> BOOLEAN]
    /\ cache \in (SUBSET Objects) \union {None}
    /\ standalone \subseteq Backends
    /\ entries \in Seq(Objects \union Remote)
    /\ mounted \subseteq Objects
    /\ \A s \in Storages : \A r \in DOMAIN files[s] :
          files[s][r] \in [obj : Objects, man : Man]
    /\ \A f \in half : f[1] \in Storages /\ f[2] \in DOMAIN files[f[1]]
    /\ pc \in {"idle", "check", "scan", "child", "cache", "list",
               "uncache", "disown", "unlink"}
    /\ (pc = "idle") <=> (job = Idle)
    /\ todo # << >> => pc = "child"

Init ==
    /\ manifest = [o \in Objects |-> None]
    /\ broken = {}
    /\ newer = [o \in Objects |-> FALSE]
    /\ cache = None
    /\ standalone = {}
    /\ entries = FirstEntries
    /\ mounted = {}
    /\ files = [s \in Storages |-> << >>] /\ half = {}
    /\ pc = "idle" /\ job = Idle /\ todo = << >>
    /\ faults = 0 /\ commands = 0

-----------------------------------------------------------------------------
\* Commands: what they do before the publisher is asked.

Command ==
    /\ pc = "idle"
    /\ commands < MaxCommands
    /\ commands' = commands + 1
    /\ UNCHANGED <<files, half, todo, faults>>

Ask(where, cmd, o, m, mode, cascade) ==
    /\ pc' = where
    /\ job' = [Idle EXCEPT !.cmd = cmd, !.obj = o, !.man = m,
                           !.mode = mode, !.cascade = cascade]

\* The same for an object that was fetched from a storage: it has no local path,
\* even after its manifest was saved.
AskFetched(where, cmd, o, m, mode) ==
    /\ pc' = where
    /\ job' = [Idle EXCEPT !.cmd = cmd, !.obj = o, !.man = m, !.mode = mode, !.isLocal = FALSE]

Finish == pc' = "idle" /\ job' = Idle

\* open(path, "wb"): the manifest's time is later than the cache's, unless both
\* writes fall in one tick of the file system's clock.
SaveManifest(o, m) ==
    /\ manifest' = [manifest EXCEPT ![o] = m]
    /\ \E tie \in Outcomes : newer' = [newer EXCEPT ![o] = ~tie]

\* The manifests that looking for a container by one of its paths may find, in
\* whichever storage of the catalog is read first.
Fetched(o) ==
    UNION {{files[s][r].man :
               r \in {f \in UNION {FindManifestFiles(s, q) : q \in Paths \union {o}} :
                         /\ files[s][f].obj = o /\ <<s, f>> \notin half
                         /\ Pattern[s] # "flat" => f.path \in AllPaths(o, files[s][f].man)}}
           : s \in UNION {ToSet(StoragesOf[c]) : c \in ToSet(entries)}}

\* Containers that use a storage.
UsedBy(b) == {o \in Objects : Loads(o) /\ b \in manifest[o].backends}

\* A uuid no container ever had.
Unused(o) ==
    /\ manifest[o] = None
    /\ o \notin mounted
    /\ o \notin ToSet(entries)
    /\ \A s \in Storages : \A r \in DOMAIN files[s] : files[s][r].obj # o

\* wl container create; --update-user adds it to the user's catalog.
Create(o, ps, attach, publish) ==
    /\ Command
    /\ Unused(o)
    /\ LET m == [paths |-> ps, backends |-> {}] IN
       /\ SaveManifest(o, m)
       /\ entries' = IF attach THEN Append(entries, o) ELSE entries
       /\ IF publish /\ entries' # << >>
          THEN Ask("scan", "create", o, m, "publish", FALSE)
          ELSE Finish
    /\ UNCHANGED <<broken, cache, standalone, mounted>>

\* New storages for those of a container, each under an id that is not used.
StorageCopies(src) ==
    {bs \in SUBSET Backends : /\ bs \intersect standalone = {}
                              /\ Cardinality(bs) = Cardinality(manifest[src].backends)}

CopyOf(src, bs) == [paths |-> manifest[src].paths, backends |-> bs]

\* wl container duplicate: standalone storages are copied under new ids.
Duplicate(src, o, bs) ==
    /\ Command
    /\ Loads(src) /\ Unused(o)
    /\ bs \in StorageCopies(src)
    /\ manifest[src].backends \subseteq standalone
    /\ SaveManifest(o, CopyOf(src, bs))
    /\ standalone' = standalone \union bs
    /\ Finish
    /\ UNCHANGED <<broken, cache, entries, mounted>>

\* wl container update --storage: the container is saved and not republished.
Update(o, b) ==
    /\ Command
    /\ Loads(o) /\ b \in standalone
    /\ SaveManifest(o, AddBackend(manifest[o], b))
    /\ Finish
    /\ UNCHANGED <<broken, cache, standalone, entries, mounted>>

\* A manifest that is not valid, or cannot be signed, is not saved.
SignAndSave(o, m) == m \in Man /\ SaveManifest(o, m)

\* modify_manifest saves and remounts only what the edit functions changed.
ModifyManifest(o, m) == m # manifest[o] /\ SignAndSave(o, m)

Flags == {"publish", "no-publish", "auto"}

\* The options of a modification: some are needed, and none may both add and
\* remove a path.
AnyOption(options) == \E values \in options : values # {}
OptionsConflict(add, del) == add \intersect del # {}
OptionCheck(add, del, bs) == AnyOption({add, del, bs}) /\ ~OptionsConflict(add, del)

\* What is there already is not added, and what is not there not removed.
AddFields(m, ps) == [m EXCEPT !.paths = @ \union ps]
DelKeysAndValues(values, del) == values \ del
DelFields(m, ps) == [m EXCEPT !.paths = DelKeysAndValues(@, ps)]

\* Storages are given by their positions in the manifest that is saved.
StoragesToDel(o, bs) == bs \intersect manifest[o].backends
DelNestedFields(m, bs) == [m EXCEPT !.backends = DelKeysAndValues(@, bs)]

Modified(m, add, del, bs) == DelNestedFields(DelFields(AddFields(m, add), del), bs)

\* wl container modify.  A mounted container is remounted.
Modify(o, add, del, bs, flag) ==
    /\ Command
    /\ Loads(o)
    /\ OptionCheck(add, del, bs)
    /\ LET m == Modified(manifest[o], add, del, StoragesToDel(o, bs))
       IN  ModifyManifest(o, m) /\ Ask("check", "modify", o, m, flag, FALSE)
    /\ UNCHANGED <<broken, cache, standalone, entries, mounted>>

\* wl container edit: the editor may also add references to storages.
Edit(o, m, flag) ==
    /\ Command
    /\ Loads(o)
    /\ m # manifest[o]
    /\ m.backends \ manifest[o].backends \subseteq standalone
    /\ SignAndSave(o, m)
    /\ Ask("check", "edit", o, m, flag, FALSE)
    /\ UNCHANGED <<broken, cache, standalone, entries, mounted>>

\* modify or edit of a container that only exists in a storage: the manifest is
\* fetched, edited and saved as a new local one, changed or not.
ModifyRemote(o, old, m, flag) ==
    /\ Command
    /\ manifest[o] = None /\ old \in Fetched(o)
    /\ m.backends \ old.backends \subseteq standalone
    /\ SaveManifest(o, m)
    /\ IF m = old THEN Finish ELSE AskFetched("check", "modify", o, m, flag)
    /\ UNCHANGED <<broken, cache, standalone, entries, mounted>>

\* Storages are added, or updated, and the container saved.
AddStorageToContainer(o, bs) ==
    SaveManifest(o, [manifest[o] EXCEPT !.backends = @ \union bs])

\* Inline storages, which are part of the container's manifest.
StoragesFromTemplates(o, publish) ==
    /\ AddStorageToContainer(o, {})
    /\ IF publish
       THEN Ask("scan", "storage", o, manifest[o], "republish", FALSE)
       ELSE Finish

\* wl storage create-from-template
CreateFromTemplate(o, publish) ==
    /\ Command
    /\ Loads(o)
    /\ StoragesFromTemplates(o, publish)
    /\ UNCHANGED <<broken, cache, standalone, entries, mounted>>

\* wl storage create --no-inline: the storage's manifest, then the container's.
CreateStorage(o, b, publish) ==
    /\ Command
    /\ Loads(o) /\ b \notin standalone
    /\ AddStorageToContainer(o, {b})
    /\ IF publish
       THEN Ask("scan", "storage", o, AddBackend(manifest[o], b), "republish", FALSE)
       ELSE Finish
    /\ standalone' = standalone \union {b}
    /\ UNCHANGED <<broken, cache, entries, mounted>>

\* Where a storage is that is to be deleted, and who uses it: without a manifest of
\* its own it is looked for in the containers.
StorageAndUsage(b) == [isLocal |-> b \in standalone, usedBy |-> UsedBy(b)]

\* A storage that is not the container's only one is copied to another one first.
NeedsSync(o, b) == manifest[o].backends \intersect standalone # {b}

DeleteCascade(b) ==
    /\ manifest' = [o \in Objects |->
                       IF o \in UsedBy(b) THEN DelBackend(manifest[o], b) ELSE manifest[o]]
    /\ newer' = [o \in Objects |-> newer[o] \/ o \in UsedBy(b)]

\* wl storage delete: taken out of the containers that use it, none of which is
\* republished.  Nothing happens when the data cannot be copied.
DeleteStorage(b, force, cascade, synced) ==
    /\ Command
    /\ b \in standalone
    /\ LET found == StorageAndUsage(b)
           copied == force \/ synced \/ \A o \in found.usedBy : ~NeedsSync(o, b)
           allowed == found.isLocal /\ (cascade \/ force \/ found.usedBy = {})
       IN  /\ standalone' = IF copied /\ allowed THEN standalone \ {b} ELSE standalone
           /\ IF copied /\ allowed /\ cascade
              THEN DeleteCascade(b)
              ELSE UNCHANGED <<manifest, newer>>
    /\ Finish
    /\ UNCHANGED <<broken, cache, entries, mounted>>

\* What publish and unpublish work on: the local manifest, or the one that a
\* wildland path leads to if there is no local manifest.
AskPublishable(o, cmd) ==
    IF Loads(o)
    THEN Ask("scan", cmd, o, manifest[o], cmd, FALSE)
    ELSE \E m \in Fetched(o) : AskFetched("scan", cmd, o, m, cmd)

Publish(o) ==
    /\ Command
    /\ AskPublishable(o, "publish")
    /\ UNCHANGED local

Unpublish(o) ==
    /\ Command
    /\ AskPublishable(o, "unpublish")
    /\ UNCHANGED local

\* wl container delete.  The container is unmounted before the standalone
\* storages are looked at, which may refuse the deletion.
Delete(o, force, cascade, unpublish) ==
    /\ Command
    /\ Loads(o)
    /\ o \in ToSet(entries) => (cascade \/ force)
    /\ mounted' = mounted \ {o}
    /\ LET used == manifest[o].backends \intersect standalone IN
       /\ standalone' = IF cascade THEN standalone \ used ELSE standalone
       /\ IF used # {} /\ ~cascade /\ ~force
          THEN Finish
          ELSE Ask(IF unpublish THEN "scan" ELSE "uncache", "delete", o,
                   manifest[o], IF unpublish THEN "unpublish" ELSE None, cascade)
    /\ UNCHANGED <<manifest, broken, newer, cache, entries>>

\* wl container delete --force of a manifest that does not load.
DeleteForce(o) ==
    /\ Command
    /\ o \in broken
    /\ manifest' = [manifest EXCEPT ![o] = None]
    /\ broken' = broken \ {o}
    /\ Finish
    /\ UNCHANGED <<newer, cache, standalone, entries, mounted>>

\* Outside this module: the container's storages are mounted.
Mount(o) ==
    /\ Command
    /\ Loads(o) /\ o \notin mounted
    /\ mounted' = mounted \union {o}
    /\ Finish
    /\ UNCHANGED <<manifest, broken, newer, cache, standalone, entries>>

-----------------------------------------------------------------------------
\* The publisher.

\* No storage to publish in, or an update that cannot begin: an error, which delete
\* takes for "not published".
PublisherRaises ==
    IF job.cmd = "delete" THEN pc' = "uncache" /\ job' = job ELSE Finish

RepublishObject == pc' = "scan" /\ job' = [job EXCEPT !.mode = "republish"]
PublishObject == pc' = "scan" /\ job' = [job EXCEPT !.mode = "publish"]

\* _publish_container_after_modification
CheckPublished(down) ==
    /\ pc = "check"
    /\ Cost(down)
    /\ LET published == IsPublished(job.obj, down)
       IN  CASE published /\ job.mode # "no-publish" -> RepublishObject
             [] ~published /\ job.mode = "publish" -> PublishObject
             [] OTHER -> Finish
    /\ UNCHANGED <<local, files, half, todo, commands>>

\* The storages a request goes to.
PublishTargets(found) == Restrict(found, {Min(DOMAIN found)})
UnpublishTargets(found) == found
RepublishTargets(found, o) == Restrict(found, {i \in DOMAIN found : HasChild(found[i], o)})

\* The one that is updated, in the order of the catalog, and those that follow.
First == Min(DOMAIN job.targets)
Target == job.targets[First]
Others == Restrict(job.targets, DOMAIN job.targets \ {First})

Scan(down) ==
    /\ pc = "scan"
    /\ Cost(down)
    /\ LET found == CatalogStorages(down, TRUE)
           chosen == CASE job.mode = "publish" -> PublishTargets(found)
                       [] job.mode = "unpublish" -> UnpublishTargets(found)
                       [] job.mode = "republish" -> RepublishTargets(found, job.obj)
       IN  CASE found = << >> /\ job.mode # "republish" -> PublisherRaises
             [] chosen = << >> /\ job.mode = "republish" -> Finish
             [] OTHER -> pc' = "child" /\ job' = [job EXCEPT !.targets = chosen]
    /\ todo' = << >>
    /\ UNCHANGED <<local, files, half, commands>>

\* _update_child reads the manifest at the uuid path and knows what to do...
StartChild ==
    /\ pc = "child" /\ todo = << >> /\ job.targets # << >>
    /\ ~IsUnreadable(Target, job.obj)
    /\ todo' = UpdateChild(Target, job.obj, job.man, job.mode = "unpublish")
    /\ UNCHANGED <<local, files, half, pc, job, bounds>>

\* ... unless it is a file that the write of an earlier update left half-written.
ChildUnreadable ==
    /\ pc = "child" /\ todo = << >> /\ job.targets # << >>
    /\ IsUnreadable(Target, job.obj)
    /\ PublisherRaises
    /\ UNCHANGED <<local, files, half, todo, bounds>>

\* _remove_old_paths and _create_new_paths, one file at a time.
ChildStep(op) ==
    /\ pc = "child"
    /\ \E i \in DOMAIN todo :
          /\ op \in todo[i] /\ \A j \in 1..i-1 : todo[j] = {}
          /\ todo' = [todo EXCEPT ![i] = @ \ {op}]
    /\ files' = [files EXCEPT ![Target] = Apply(@, op)]
    /\ half' = half \ {<<Target, op.rel>>}
    /\ UNCHANGED <<local, pc, job, bounds>>

\* write_file creates or truncates the file before it writes: what raises in
\* between, or a process that dies there, leaves a file that cannot be loaded.
WriteBreaks(op) ==
    /\ pc = "child" /\ op.write # None
    /\ \E i \in DOMAIN todo : op \in todo[i] /\ \A j \in 1..i-1 : todo[j] = {}
    /\ "add" \in FaultKinds /\ faults < MaxFaults
    /\ faults' = faults + 1
    /\ files' = [files EXCEPT ![Target] = Apply(@, op)]
    /\ half' = half \union {<<Target, op.rel>>}
    /\ todo' = << >>
    /\ Finish
    /\ UNCHANGED <<local, commands>>

Unfinished == \E i \in DOMAIN todo : todo[i] # {}

\* A file operation raises before it did anything, or the process dies between two:
\* while the files of a storage are updated, or while a container is deleted.
CommandFails ==
    /\ \/ pc = "child" /\ Unfinished
       \/ pc \in {"disown", "unlink"}
    /\ CASE pc # "child" -> "delete" \in FaultKinds
         [] job.mode = "unpublish" -> "remove" \in FaultKinds
         [] OTHER -> "add" \in FaultKinds
    /\ faults < MaxFaults
    /\ faults' = faults + 1
    /\ todo' = << >>
    /\ Finish
    /\ UNCHANGED <<local, files, half, commands>>

ChildDone ==
    /\ pc = "child" /\ todo # << >> /\ ~Unfinished
    /\ todo' = << >>
    /\ job' = [job EXCEPT !.targets = Others]
    /\ UNCHANGED <<local, files, half, pc, bounds>>

Updated ==
    /\ pc = "child" /\ todo = << >> /\ job.targets = << >>
    /\ pc' = "cache"
    /\ UNCHANGED <<local, files, half, job, todo, bounds>>

\* The name of a local container goes into the cache or leaves it.
UpdateCache(down) ==
    /\ pc = "cache"
    /\ Cost(down)
    /\ IF job.isLocal
       THEN SaveCache(IF job.mode = "unpublish"
                      THEN AddName(job.obj, down) ELSE DropName(job.obj, down))
       ELSE UNCHANGED <<cache, newer>>
    /\ CASE job.cmd = "publish" -> pc' = "list" /\ job' = job
         [] job.cmd = "delete" -> pc' = "uncache" /\ job' = job
         [] OTHER -> Finish
    /\ UNCHANGED <<manifest, broken, standalone, entries, mounted, files, half, todo, commands>>

LoadCache(down) ==
    IF IsInvalid({}) THEN SaveCache(Recomputed(down)) ELSE UNCHANGED <<cache, newer>>

\* wl container publish looks for other containers that are not published.
ListUnpublished(down) ==
    /\ pc = "list"
    /\ Cost(down)
    /\ LoadCache(down)
    /\ Finish
    /\ UNCHANGED <<manifest, broken, standalone, entries, mounted, files, half, todo, commands>>

\* delete: out of the cache, out of the catalog, and the file is removed.
RemoveFromCache(down) ==
    /\ pc = "uncache"
    /\ Cost(down)
    /\ SaveCache(DropName(job.obj, down))
    /\ pc' = IF job.cascade THEN "disown" ELSE "unlink"
    /\ UNCHANGED <<manifest, broken, standalone, entries, mounted, files, half, job, todo, commands>>

RemoveCatalogEntry ==
    /\ pc = "disown"
    /\ LET at == {i \in DOMAIN entries : entries[i] = job.obj}
       IN  entries' = IF at = {} THEN entries ELSE RemoveAt(entries, Min(at))
    /\ pc' = "unlink"
    /\ UNCHANGED <<manifest, broken, newer, cache, standalone, mounted, files, half, job, todo, bounds>>

Unlink ==
    /\ pc = "unlink"
    /\ manifest' = [manifest EXCEPT ![job.obj] = None]
    /\ Finish
    /\ UNCHANGED <<broken, newer, cache, standalone, entries, mounted, files, half, todo, bounds>>

\* A manifest that stops loading, for instance because a key is gone.
Corrupt(o) ==
    /\ pc = "idle"
    /\ Loads(o)
    /\ "corrupt" \in FaultKinds /\ faults < MaxFaults
    /\ faults' = faults + 1
    /\ broken' = broken \union {o}
    /\ UNCHANGED <<manifest, newer, cache, standalone, entries, mounted, files, half, control, commands>>

-----------------------------------------------------------------------------
ContainerCommand ==
    \E o \in Objects :
       \/ \E ps \in SUBSET Paths, attach, publish \in BOOLEAN : Create(o, ps, attach, publish)
       \/ \E src \in Objects, bs \in SUBSET Backends : Duplicate(src, o, bs)
       \/ \E b \in Backends : Update(o, b)
       \/ \E publish \in BOOLEAN : CreateFromTemplate(o, publish)
       \/ \E add, del \in SUBSET Paths, bs \in SUBSET Backends, flag \in Flags :
              Modify(o, add, del, bs, flag)
       \/ \E m \in Man, flag \in Flags : Edit(o, m, flag)
       \/ \E old \in Fetched(o), m \in Man, flag \in Flags : ModifyRemote(o, old, m, flag)
       \/ Publish(o)
       \/ Unpublish(o)
       \/ \E force, cascade, unpublish \in BOOLEAN : Delete(o, force, cascade, unpublish)
       \/ DeleteForce(o)
       \/ Mount(o)
       \/ Corrupt(o)

StorageCommand ==
    \E b \in Backends :
       \/ \E o \in Objects, publish \in BOOLEAN : CreateStorage(o, b, publish)
       \/ \E force, cascade, synced \in BOOLEAN : DeleteStorage(b, force, cascade, synced)

PublisherStep ==
    \/ \E down \in Outages :
          \/ CheckPublished(down)
          \/ Scan(down)
          \/ UpdateCache(down)
          \/ ListUnpublished(down)
          \/ RemoveFromCache(down)
    \/ StartChild
    \/ ChildUnreadable
    \/ \E op \in UNION ToSet(todo) : ChildStep(op) \/ WriteBreaks(op)
    \/ CommandFails
    \/ ChildDone
    \/ Updated
    \/ RemoveCatalogEntry
    \/ Unlink

Next == ContainerCommand \/ StorageCommand \/ PublisherStep

Spec == Init /\ [][Next]_vars

-----------------------------------------------------------------------------
\* Properties.

Copies(s, o) ==
    {r \in DOMAIN files[s] : r.backend = None /\ files[s][r].obj = o}

\* A copy of a manifest that is not among the paths of the copy at the uuid path
\* can no longer be found by any command.  _remove_old_paths says that it removes
\* the uuid path last, for this reason.  There is an exception: when the write of
\* the copy at the uuid path itself breaks off, no later update gets past it.
NoOrphans ==
    pc = "idle" =>
        \A s \in Storages, o \in Objects :
            IsUnreadable(s, o) \/ Copies(s, o) \subseteq OldRels(s, o)

\* Without the exception: every copy that is left is found.  It does not hold.
NoOrphansEver ==
    pc = "idle" =>
        \A s \in Storages, o \in Objects :
            Copies(s, o) \subseteq IF IsUnreadable(s, o) THEN {} ELSE OldRels(s, o)

\* A container that has no copy in the catalog is named by ".unpublished", or the
\* file is older than a manifest and will be recomputed before it is used:
\* publish's list of what is not published misses nothing.
NothingHidden ==
    pc = "idle" /\ ~IsInvalid({}) /\ HasCatalog =>
        \A o \in Objects : Loads(o) => o \in cache \/ IsPublished(o, {})

\* An update of a storage that ends leaves the container's copies at exactly its
\* current paths and with its current contents, with the manifests of its
\* standalone storages, all of them written to the end, whatever earlier updates
\* were interrupted.
UpdateIsExact ==
    [][ChildDone =>
          LET s == Target
              o == job.obj
          IN  IF job.mode = "unpublish"
              THEN Copies(s, o) = {}
              ELSE /\ Copies(s, o) = ManifestRels(s, o, job.man)
                   /\ \A r \in Copies(s, o) : files[s][r].man = job.man
                   /\ StorageRels(s, o, job.man) \subseteq DOMAIN files[s]
                   /\ \A r \in Copies(s, o) \union StorageRels(s, o, job.man) :
                         <<s, r>> \notin half]_vars

\* As long as nothing fails, a delete that was to unpublish the container leaves
\* no copy of it in a storage that can be written.
DeleteUnpublishes ==
    [][Unlink /\ job.mode = "unpublish" /\ faults = 0 =>
          \A s \in Storages \ ReadOnly : Copies(s, job.obj) = {}]_vars
=============================================================================
