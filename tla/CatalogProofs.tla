---------------------------- MODULE CatalogProofs ----------------------------
(***************************************************************************)
(* Proofs about Catalog, for any containers, paths, storages, patterns and   *)
(* numbers of commands and failures.                                       *)
(***************************************************************************)
EXTENDS Catalog, FiniteSetTheorems, SequenceTheorems, WellFoundedInduction, TLAPS

-----------------------------------------------------------------------------
(* The invariant: types. *)

Places == {"idle", "check", "scan", "child", "cache", "list", "uncache", "disown", "unlink"}

LocalTyped ==
    /\ manifest \in [Objects -> Man \union {None}]
    /\ standalone \subseteq Backends
    /\ entries \in Seq(Objects \union Remote)

FilesTyped ==
    /\ files = [s \in Storages |-> files[s]]
    /\ \A s \in Storages : \A r \in DOMAIN files[s] : files[s][r] \in [obj : Objects, man : Man]

JobTyped ==
    /\ pc \in Places
    /\ pc # "idle" => DOMAIN job = DOMAIN Idle /\ job.obj \in Objects /\ job.man \in Man
    /\ pc = "scan" => job.mode \in {"publish", "unpublish", "republish"}
    /\ pc = "child" => /\ DOMAIN job.targets \subseteq Nat
                       /\ job.targets \in [DOMAIN job.targets -> Storages]
    /\ pc # "child" => todo = << >>

Typed == LocalTyped /\ FilesTyped /\ JobTyped

-----------------------------------------------------------------------------
(* Positions. *)

(* Every nonempty set of numbers has a least element.                         *)
LEMMA MinIsLeast ==
    ASSUME NEW T, T \subseteq Nat, T # {}
    PROVE  Min(T) \in T /\ \A y \in T : Min(T) <= y
<1> DEFINE R == OpToRel(<, Nat)
<1>1. \E x \in T : \A y \in T : ~ (<<y, x>> \in R)
  BY NatLessThanWellFounded, WFMin
<1>2. \A x, y \in Nat : y < x => <<y, x>> \in R
  BY DEF OpToRel
<1> HIDE DEF R
<1>3. PICK x \in T : \A y \in T : ~ (<<y, x>> \in R)
  BY <1>1
<1>4. \A y \in T : ~ (y < x)
  BY <1>2, <1>3
<1>5. \A y \in T : x <= y
  BY <1>4
<1> QED
  BY <1>3, <1>5 DEF Min

(* A catalog container offers one of its storages, or none.                   *)
LEMMA OffersStorages ==
    ASSUME NEW c \in Objects \union Remote, NEW down, NEW writable
    PROVE  Offered(c, down, writable) \in Storages \union {None}
<1> DEFINE fit == {i \in DOMAIN StoragesOf[c] :
                     LET s == StoragesOf[c][i]
                     IN  /\ writable => s \notin ReadOnly
                         /\ s \notin down
                         /\ Pattern[s] # "none"}
<1>1. StoragesOf[c] \in Seq(Storages)
  BY CatalogAssumption
<1>2. fit \subseteq DOMAIN StoragesOf[c] /\ DOMAIN StoragesOf[c] \subseteq Nat
  BY <1>1
<1>3. Offered(c, down, writable) = IF fit = {} \/ (c \in Objects /\ ~Loads(c)) THEN None ELSE StoragesOf[c][Min(fit)]
  BY DEF Offered
<1> HIDE DEF fit
<1>4. fit # {} => Min(fit) \in DOMAIN StoragesOf[c]
  BY <1>2, MinIsLeast
<1>5. fit # {} => StoragesOf[c][Min(fit)] \in Storages
  BY <1>1, <1>4
<1> QED
  BY <1>3, <1>5

(* The storages that a request may go to.                                     *)
LEMMA FoundTyped ==
    ASSUME LocalTyped, NEW down, NEW writable
    PROVE  LET found == CatalogStorages(down, writable)
           IN  /\ DOMAIN found \subseteq Nat /\ DOMAIN found \subseteq DOMAIN entries
               /\ found \in [DOMAIN found -> Storages]
               /\ \A i \in DOMAIN found : found[i] = Offered(entries[i], down, writable)
<1>1. \A i \in DOMAIN entries : entries[i] \in Objects \union Remote /\ i \in Nat
  BY DEF LocalTyped
<1>2. \A i \in DOMAIN entries : Offered(entries[i], down, writable) \in Storages \union {None}
  BY <1>1, OffersStorages
<1> QED
  BY <1>1, <1>2 DEF CatalogStorages

-----------------------------------------------------------------------------
(* Commands begin. *)

(* A command asks the publisher, or ends.                                     *)
LEMMA AskTyped ==
    ASSUME NEW where \in Places \ {"child"}, NEW cmd, NEW o \in Objects, NEW m \in Man, NEW mode, NEW cascade,
           where = "scan" => mode \in {"publish", "unpublish", "republish"},
           \/ Ask(where, cmd, o, m, mode, cascade) \/ AskFetched(where, cmd, o, m, mode) \/ Finish,
           todo' = << >>
    PROVE  JobTyped'
  BY DEF JobTyped, Ask, AskFetched, Finish, Idle, Places

(* A manifest is saved.                                                       *)
LEMMA SaveTyped ==
    ASSUME LocalTyped, NEW o \in Objects, NEW m \in Man, SaveManifest(o, m)
    PROVE  manifest' \in [Objects -> Man \union {None}]
  BY DEF LocalTyped, SaveManifest

(* What is fetched from a storage is a manifest.                              *)
LEMMA FetchedAreManifests ==
    ASSUME Typed, NEW o \in Objects
    PROVE  Fetched(o) \subseteq Man
<1>1. \A c \in ToSet(entries) : ToSet(StoragesOf[c]) \subseteq Storages
  <2>1. \A c \in ToSet(entries) : c \in Objects \union Remote
    BY DEF Typed, LocalTyped, ToSet
  <2>2. \A c \in Objects \union Remote : StoragesOf[c] \in Seq(Storages)
    BY CatalogAssumption
  <2> QED
    BY <2>1, <2>2 DEF ToSet
<1>2. \A s \in Storages : \A r \in DOMAIN files[s] : files[s][r].man \in Man
  BY DEF Typed, FilesTyped
<1>3. \A s, q : FindManifestFiles(s, q) \subseteq DOMAIN files[s]
  BY DEF FindManifestFiles
<1>4. ASSUME NEW m \in Fetched(o)
      PROVE  \E s \in UNION {ToSet(StoragesOf[c]) : c \in ToSet(entries)} :
                \E r \in UNION {FindManifestFiles(s, q) : q \in Paths \union {o}} : m = files[s][r].man
  BY <1>4, Zenon DEF Fetched
<1>5. ASSUME NEW s, s \in UNION {ToSet(StoragesOf[c]) : c \in ToSet(entries)} PROVE s \in Storages
  BY <1>1, <1>5
<1>6. ASSUME NEW s, NEW r, r \in UNION {FindManifestFiles(s, q) : q \in Paths \union {o}}
      PROVE  r \in DOMAIN files[s]
  BY <1>3, <1>6
<1> QED
  BY <1>2, <1>4, <1>5, <1>6

(* Loaded manifests.                                                          *)
LEMMA LoadedAreManifests ==
    ASSUME LocalTyped, NEW o \in Objects, Loads(o)
    PROVE  manifest[o] \in Man
  BY DEF LocalTyped, Loads

(* What is the same for every command.                                        *)
LEMMA CommandKeeps ==
    ASSUME Typed, Command
    PROVE  pc = "idle" /\ todo = << >> /\ todo' = << >> /\ FilesTyped'
<1>1. pc = "idle" /\ UNCHANGED <<files, todo>>
  BY DEF Command
<1> QED
  BY <1>1 DEF Typed, JobTyped, FilesTyped

(* Commands on containers.                                                    *)
LEMMA CreateTyped ==
    ASSUME Typed, NEW o \in Objects, NEW ps \in SUBSET Paths, NEW attach \in BOOLEAN, NEW publish \in BOOLEAN,
           Create(o, ps, attach, publish)
    PROVE  Typed'
<1> DEFINE m == [paths |-> ps, backends |-> {}]
<1>1. m \in Man
  BY DEF Man
<1>2. /\ Command /\ SaveManifest(o, m) /\ UNCHANGED standalone
      /\ entries' = IF attach THEN Append(entries, o) ELSE entries
      /\ Ask("scan", "create", o, m, "publish", FALSE) \/ Finish
  BY DEF Create
<1> HIDE DEF m
<1>3. manifest' \in [Objects -> Man \union {None}]
  BY <1>1, <1>2, SaveTyped DEF Typed
<1>4. entries' \in Seq(Objects \union Remote)
  BY <1>2 DEF Typed, LocalTyped
<1>5. LocalTyped'
  BY <1>2, <1>3, <1>4 DEF Typed, LocalTyped
<1>6. JobTyped'
  BY <1>1, <1>2, CommandKeeps, AskTyped DEF Places
<1> QED
  BY <1>2, <1>5, <1>6, CommandKeeps DEF Typed

(* A command that saves a manifest and then asks, or ends.                    *)
LEMMA SavesAndAsks ==
    ASSUME Typed, Command, NEW o \in Objects, NEW m \in Man, SaveManifest(o, m), standalone' \subseteq Backends,
           UNCHANGED entries, NEW where \in {"check", "scan"}, NEW cmd, NEW mode,
           where = "scan" => mode \in {"publish", "unpublish", "republish"},
           Finish \/ Ask(where, cmd, o, m, mode, FALSE) \/ AskFetched(where, cmd, o, m, mode)
    PROVE  Typed'
<1>1. LocalTyped'
  BY SaveTyped DEF Typed, LocalTyped
<1>2. todo' = << >> /\ FilesTyped'
  BY CommandKeeps
<1>3. where \in Places \ {"child"}
  BY DEF Places
<1>4. JobTyped'
  BY <1>2, <1>3, AskTyped
<1> QED
  BY <1>1, <1>2, <1>4 DEF Typed

(* duplicate.                                                                *)
LEMMA DuplicateTyped ==
    ASSUME Typed, NEW src \in Objects, NEW o \in Objects, NEW bs \in SUBSET Backends, Duplicate(src, o, bs)
    PROVE  Typed'
<1>1. manifest[src] \in Man
  BY LoadedAreManifests DEF Duplicate, Typed
<1>2. CopyOf(src, bs) \in Man
  BY <1>1 DEF CopyOf, Man
<1>3. Command /\ SaveManifest(o, CopyOf(src, bs)) /\ Finish /\ UNCHANGED entries /\ standalone' \subseteq Backends
  BY DEF Duplicate, Typed, LocalTyped
<1> QED
  BY <1>2, <1>3, SavesAndAsks

(* update --storage.                                                         *)
LEMMA UpdateTyped ==
    ASSUME Typed, NEW o \in Objects, NEW b \in Backends, Update(o, b)
    PROVE  Typed'
<1>1. manifest[o] \in Man
  BY LoadedAreManifests DEF Update, Typed
<1>2. AddBackend(manifest[o], b) \in Man
  BY <1>1 DEF AddBackend, Man
<1>3. Command /\ SaveManifest(o, AddBackend(manifest[o], b)) /\ Finish /\ UNCHANGED <<entries, standalone>>
  BY DEF Update
<1> QED
  BY <1>2, <1>3, SavesAndAsks DEF Typed, LocalTyped

(* A storage from a template.                                                 *)
LEMMA FromTemplateTyped ==
    ASSUME Typed, NEW o \in Objects, NEW publish \in BOOLEAN, CreateFromTemplate(o, publish)
    PROVE  Typed'
<1>1. manifest[o] \in Man
  BY LoadedAreManifests DEF CreateFromTemplate, Typed
<1>2. [manifest[o] EXCEPT !.backends = @ \union {}] = manifest[o]
  BY <1>1 DEF Man
<1>3. Command /\ SaveManifest(o, manifest[o]) /\ UNCHANGED <<entries, standalone>>
  BY <1>2 DEF CreateFromTemplate, StoragesFromTemplates, AddStorageToContainer
<1>4. Finish \/ Ask("scan", "storage", o, manifest[o], "republish", FALSE)
  BY DEF CreateFromTemplate, StoragesFromTemplates
<1> QED
  BY <1>1, <1>3, <1>4, SavesAndAsks DEF Typed, LocalTyped

(* A storage with a manifest of its own.                                      *)
LEMMA CreateStorageTyped ==
    ASSUME Typed, NEW o \in Objects, NEW b \in Backends, NEW publish \in BOOLEAN, CreateStorage(o, b, publish)
    PROVE  Typed'
<1>1. manifest[o] \in Man
  BY LoadedAreManifests DEF CreateStorage, Typed
<1>2. AddBackend(manifest[o], b) = [manifest[o] EXCEPT !.backends = @ \union {b}] /\ AddBackend(manifest[o], b) \in Man
  BY <1>1 DEF AddBackend, Man
<1>3. Command /\ SaveManifest(o, AddBackend(manifest[o], b)) /\ UNCHANGED entries
  BY <1>2 DEF CreateStorage, AddStorageToContainer
<1>4. Finish \/ Ask("scan", "storage", o, AddBackend(manifest[o], b), "republish", FALSE)
  BY DEF CreateStorage
<1>5. standalone' \subseteq Backends
  BY DEF CreateStorage, Typed, LocalTyped
<1> QED
  BY <1>2, <1>3, <1>4, <1>5, SavesAndAsks

(* modify: only a valid manifest is saved.                                    *)
LEMMA ModifyTyped ==
    ASSUME Typed, NEW o \in Objects, NEW add, NEW del, NEW bs, NEW flag, Modify(o, add, del, bs, flag)
    PROVE  Typed'
<1> DEFINE m == Modified(manifest[o], add, del, StoragesToDel(o, bs))
<1>1. Command /\ ModifyManifest(o, m) /\ Ask("check", "modify", o, m, flag, FALSE) /\ UNCHANGED <<entries, standalone>>
  BY DEF Modify
<1> HIDE DEF m
<1>2. m \in Man /\ SaveManifest(o, m)
  BY <1>1 DEF ModifyManifest, SignAndSave
<1> QED
  BY <1>1, <1>2, SavesAndAsks DEF Typed, LocalTyped

(* edit: the same.                                                            *)
LEMMA EditTyped ==
    ASSUME Typed, NEW o \in Objects, NEW m, NEW flag, Edit(o, m, flag)
    PROVE  Typed'
<1>1. Command /\ m \in Man /\ SaveManifest(o, m) /\ Ask("check", "edit", o, m, flag, FALSE)
      /\ UNCHANGED <<entries, standalone>>
  BY DEF Edit, SignAndSave
<1> QED
  BY <1>1, SavesAndAsks DEF Typed, LocalTyped

(* modify of a container that is fetched.                                     *)
LEMMA ModifyRemoteTyped ==
    ASSUME Typed, NEW o \in Objects, NEW old, NEW m \in Man, NEW flag, ModifyRemote(o, old, m, flag)
    PROVE  Typed'
<1>1. Command /\ SaveManifest(o, m) /\ (Finish \/ AskFetched("check", "modify", o, m, flag))
      /\ UNCHANGED <<entries, standalone>>
  BY DEF ModifyRemote
<1> QED
  BY <1>1, SavesAndAsks DEF Typed, LocalTyped

(* publish and unpublish.                                                     *)
LEMMA PublishTyped ==
    ASSUME Typed, NEW o \in Objects, Publish(o) \/ Unpublish(o)
    PROVE  Typed'
<1>1. Command /\ UNCHANGED local /\ \E cmd \in {"publish", "unpublish"} : AskPublishable(o, cmd)
  BY DEF Publish, Unpublish
<1>2. PICK cmd \in {"publish", "unpublish"} : AskPublishable(o, cmd)
  BY <1>1
<1>3. todo' = << >> /\ FilesTyped'
  BY <1>1, CommandKeeps
<1>4. "scan" \in Places \ {"child"}
  BY DEF Places
<1>5. CASE Loads(o)
  <2>1. manifest[o] \in Man
    BY <1>5, LoadedAreManifests DEF Typed
  <2> QED
    BY <1>1, <1>2, <1>3, <1>4, <1>5, <2>1, AskTyped DEF AskPublishable, Typed, LocalTyped, local
<1>6. CASE ~Loads(o)
  <2>1. PICK m \in Fetched(o) : AskFetched("scan", cmd, o, m, cmd)
    BY <1>2, <1>6 DEF AskPublishable
  <2>2. m \in Man
    BY FetchedAreManifests
  <2> QED
    BY <1>1, <1>3, <1>4, <2>1, <2>2, AskTyped DEF Typed, LocalTyped, local
<1> QED
  BY <1>5, <1>6

(* delete, with and without a request to unpublish.                           *)
LEMMA DeleteTyped ==
    ASSUME Typed, NEW o \in Objects, NEW force, NEW cascade, NEW unpublish, Delete(o, force, cascade, unpublish)
    PROVE  Typed'
<1>1. manifest[o] \in Man
  BY LoadedAreManifests DEF Delete, Typed
<1>2. /\ Command /\ UNCHANGED <<manifest, entries>> /\ standalone' \subseteq standalone
      /\ \/ Finish
         \/ Ask("scan", "delete", o, manifest[o], "unpublish", cascade)
         \/ Ask("uncache", "delete", o, manifest[o], None, cascade)
  BY DEF Delete
<1>3. todo' = << >> /\ FilesTyped'
  BY <1>2, CommandKeeps
<1>4. "scan" \in Places \ {"child"} /\ "uncache" \in Places \ {"child"}
  BY DEF Places
<1>5. JobTyped'
  <2>1. CASE Finish
    BY <2>1, <1>3 DEF Finish, JobTyped, Places
  <2>2. CASE Ask("scan", "delete", o, manifest[o], "unpublish", cascade)
    BY <2>2, <1>1, <1>3, <1>4, AskTyped
  <2>3. CASE Ask("uncache", "delete", o, manifest[o], None, cascade)
    BY <2>3, <1>1, <1>3, <1>4, AskTyped
  <2> QED
    BY <1>2, <2>1, <2>2, <2>3
<1>6. LocalTyped'
  BY <1>2 DEF Typed, LocalTyped
<1> QED
  BY <1>3, <1>5, <1>6 DEF Typed

(* delete --force of a broken manifest, and a mount.                          *)
LEMMA SmallCommandsTyped ==
    ASSUME Typed, NEW o \in Objects, DeleteForce(o) \/ Mount(o)
    PROVE  Typed'
<1>1. Command /\ Finish /\ UNCHANGED <<entries, standalone>>
      /\ (UNCHANGED manifest \/ manifest' = [manifest EXCEPT ![o] = None])
  BY DEF DeleteForce, Mount
<1>2. todo' = << >> /\ FilesTyped'
  BY <1>1, CommandKeeps
<1>3. JobTyped'
  BY <1>1, <1>2 DEF Finish, JobTyped, Places
<1> QED
  BY <1>1, <1>2, <1>3 DEF Typed, LocalTyped

(* A manifest breaks.                                                         *)
LEMMA CorruptTyped ==
    ASSUME Typed, NEW o \in Objects, Corrupt(o)
    PROVE  Typed'
<1>1. UNCHANGED <<manifest, standalone, entries, files, control>>
  BY DEF Corrupt
<1> QED
  BY <1>1 DEF Typed, LocalTyped, FilesTyped, JobTyped, control

(* A storage is deleted, and taken out of the containers.                     *)
LEMMA DeleteStorageTyped ==
    ASSUME Typed, NEW b \in Backends, NEW force, NEW cascade, NEW synced, DeleteStorage(b, force, cascade, synced)
    PROVE  Typed'
<1>1. /\ Command /\ Finish /\ UNCHANGED entries /\ standalone' \subseteq standalone
      /\ UNCHANGED manifest \/ DeleteCascade(b)
  BY DEF DeleteStorage
<1>2. DeleteCascade(b) => manifest' \in [Objects -> Man \union {None}]
  <2>1. \A o \in UsedBy(b) : o \in Objects /\ manifest[o] \in Man
    BY LoadedAreManifests DEF UsedBy, Typed
  <2>2. \A o \in UsedBy(b) : DelBackend(manifest[o], b) \in Man
    BY <2>1 DEF DelBackend, Man
  <2> QED
    BY <2>2 DEF DeleteCascade, Typed, LocalTyped
<1>3. todo' = << >> /\ FilesTyped'
  BY <1>1, CommandKeeps
<1>4. JobTyped'
  BY <1>1, <1>3 DEF Finish, JobTyped, Places
<1> QED
  BY <1>1, <1>2, <1>3, <1>4 DEF Typed, LocalTyped

(* Commands begin well.                                                       *)
LEMMA CommandsTyped ==
    ASSUME Typed, ContainerCommand \/ StorageCommand
    PROVE  Typed'
<1>1. CASE ContainerCommand
  <2>1. ASSUME NEW o \in Objects,
               \/ \E ps \in SUBSET Paths, attach, publish \in BOOLEAN : Create(o, ps, attach, publish)
               \/ \E src \in Objects, bs \in SUBSET Backends : Duplicate(src, o, bs)
               \/ \E b \in Backends : Update(o, b)
               \/ \E publish \in BOOLEAN : CreateFromTemplate(o, publish)
        PROVE  Typed'
    BY <2>1, CreateTyped, DuplicateTyped, UpdateTyped, FromTemplateTyped
  <2>2. ASSUME NEW o \in Objects,
               \/ \E add, del \in SUBSET Paths, bs \in SUBSET Backends, flag \in Flags :
                      Modify(o, add, del, bs, flag)
               \/ \E m \in Man, flag \in Flags : Edit(o, m, flag)
               \/ \E old \in Fetched(o), m \in Man, flag \in Flags : ModifyRemote(o, old, m, flag)
        PROVE  Typed'
    BY <2>2, ModifyTyped, EditTyped, ModifyRemoteTyped
  <2>3. ASSUME NEW o \in Objects,
               \/ Publish(o) \/ Unpublish(o)
               \/ \E force, cascade, unpublish \in BOOLEAN : Delete(o, force, cascade, unpublish)
               \/ DeleteForce(o) \/ Mount(o) \/ Corrupt(o)
        PROVE  Typed'
    BY <2>3, PublishTyped, DeleteTyped, SmallCommandsTyped, CorruptTyped
  <2> QED
    BY <1>1, <2>1, <2>2, <2>3 DEF ContainerCommand
<1>2. CASE StorageCommand
  BY <1>2, CreateStorageTyped, DeleteStorageTyped DEF StorageCommand
<1> QED
  BY <1>1, <1>2

-----------------------------------------------------------------------------
(* The publisher. *)

(* An operation on a file of a storage.                                       *)
LEMMA ApplyTyped ==
    ASSUME FilesTyped, NEW s \in Storages, NEW op,
           op.write # None => op.write \in [obj : Objects, man : Man],
           files' = [files EXCEPT ![s] = Apply(@, op)]
    PROVE  FilesTyped'
<1>1. \A t \in Storages : files'[t] = IF t = s THEN Apply(files[s], op) ELSE files[t]
  BY DEF FilesTyped
<1>2. files' = [t \in Storages |-> files'[t]]
  BY DEF FilesTyped
<1>3. \A r \in DOMAIN Apply(files[s], op) : Apply(files[s], op)[r] \in [obj : Objects, man : Man]
  BY DEF Apply, FilesTyped
<1> QED
  BY <1>1, <1>2, <1>3 DEF FilesTyped

(* The storages a request goes to.                                            *)
LEMMA ScanTyped ==
    ASSUME Typed, NEW down, Scan(down)
    PROVE  Typed'
<1> DEFINE found == CatalogStorages(down, TRUE)
           chosen == CASE job.mode = "publish" -> PublishTargets(found)
                       [] job.mode = "unpublish" -> UnpublishTargets(found)
                       [] job.mode = "republish" -> RepublishTargets(found, job.obj)
<1>1. /\ pc = "scan" /\ UNCHANGED <<manifest, standalone, entries, files>> /\ todo' = << >>
      /\ \/ PublisherRaises
         \/ Finish
         \/ /\ found # << >> \/ job.mode = "republish"
            /\ pc' = "child" /\ job' = [job EXCEPT !.targets = chosen]
  BY DEF Scan, local
<1>2. DOMAIN found \subseteq Nat /\ found \in [DOMAIN found -> Storages]
  BY FoundTyped DEF Typed
<1>3. job.mode \in {"publish", "unpublish", "republish"}
  BY <1>1 DEF Typed, JobTyped
<1>4. CASE PublisherRaises
  BY <1>1, <1>4 DEF PublisherRaises, Finish, Typed, JobTyped, Places, LocalTyped, FilesTyped
<1>5. CASE Finish
  BY <1>1, <1>5 DEF Finish, Typed, JobTyped, Places, LocalTyped, FilesTyped
<1>6. ASSUME found # << >> \/ job.mode = "republish", pc' = "child", job' = [job EXCEPT !.targets = chosen]
      PROVE  Typed'
  <2>1. DOMAIN chosen \subseteq Nat /\ chosen \in [DOMAIN chosen -> Storages]
    <3>1. CASE job.mode = "publish"
      <4>1. chosen = Restrict(found, {Min(DOMAIN found)})
        BY <3>1 DEF PublishTargets
      <4> HIDE DEF found, chosen
      <4>2. DOMAIN found # {}
        <5>1. found # << >>
          BY <1>6, <3>1
        <5>2. found = [i \in DOMAIN found |-> found[i]]
          BY <1>2
        <5>3. \A f : DOMAIN f = {} /\ f = [i \in DOMAIN f |-> f[i]] => f = << >>
          OBVIOUS
        <5> QED
          BY <5>1, <5>2, <5>3
      <4>3. Min(DOMAIN found) \in DOMAIN found
        BY <1>2, <4>2, MinIsLeast
      <4> QED
        BY <1>2, <4>1, <4>3 DEF Restrict
    <3>2. CASE job.mode = "unpublish"
      <4>1. chosen = found
        BY <3>2 DEF UnpublishTargets
      <4> QED
        BY <1>2, <4>1
    <3>3. CASE job.mode = "republish"
      <4>1. chosen = Restrict(found, {i \in DOMAIN found : HasChild(found[i], job.obj)})
        BY <3>3 DEF RepublishTargets
      <4> HIDE DEF found, chosen
      <4> QED
        BY <1>2, <4>1 DEF Restrict
    <3> QED
      BY <1>3, <3>1, <3>2, <3>3
  <2> HIDE DEF found, chosen
  <2>2. "targets" \in DOMAIN job /\ pc # "idle"
    BY <1>1 DEF Typed, JobTyped, Idle
  <2>3. job'.targets = chosen /\ DOMAIN job' = DOMAIN job /\ job'.obj = job.obj /\ job'.man = job.man
    BY <1>6, <2>2
  <2> QED
    BY <1>1, <1>6, <2>1, <2>2, <2>3 DEF Typed, JobTyped, Places, LocalTyped, FilesTyped
<1> QED
  BY <1>1, <1>4, <1>5, <1>6

(* A step that leaves the files alone, and what the user has.                  *)
LEMMA QuietSteps ==
    ASSUME Typed, NEW down,
           \/ CheckPublished(down) \/ UpdateCache(down) \/ ListUnpublished(down) \/ RemoveFromCache(down)
           \/ StartChild \/ ChildUnreadable \/ CommandFails \/ ChildDone \/ Updated
    PROVE  UNCHANGED <<manifest, standalone, entries, files>>
  BY DEF CheckPublished, UpdateCache, ListUnpublished, RemoveFromCache, StartChild, ChildUnreadable,
         CommandFails, ChildDone, Updated, local

(* Whether a container is published is asked first.                           *)
LEMMA CheckTyped ==
    ASSUME Typed, NEW down, CheckPublished(down)
    PROVE  Typed'
<1>1. /\ pc = "check" /\ UNCHANGED <<manifest, standalone, entries, files, todo>>
      /\ RepublishObject \/ PublishObject \/ Finish
  BY DEF CheckPublished, local
<1>2. pc # "idle" /\ pc # "child" /\ "mode" \in DOMAIN Idle
  BY <1>1 DEF Idle
<1>3. CASE RepublishObject
  BY <1>1, <1>2, <1>3 DEF RepublishObject, Typed, JobTyped, Places, LocalTyped, FilesTyped
<1>4. CASE PublishObject
  BY <1>1, <1>2, <1>4 DEF PublishObject, Typed, JobTyped, Places, LocalTyped, FilesTyped
<1>5. CASE Finish
  BY <1>1, <1>2, <1>5 DEF Finish, Typed, JobTyped, Places, LocalTyped, FilesTyped
<1> QED
  BY <1>1, <1>3, <1>4, <1>5

(* An update of the storages ends, or goes on with the next one.                *)
LEMMA ChildDoneTyped ==
    ASSUME Typed, ChildDone
    PROVE  Typed'
<1>1. /\ pc = "child" /\ todo' = << >> /\ UNCHANGED <<manifest, standalone, entries, files, pc>>
      /\ job' = [job EXCEPT !.targets = Others]
  BY DEF ChildDone, local
<1>2. "targets" \in DOMAIN job
  BY <1>1 DEF Typed, JobTyped, Idle
<1>3. job'.targets = Others /\ DOMAIN job' = DOMAIN job /\ job'.obj = job.obj /\ job'.man = job.man
  BY <1>1, <1>2
<1>4. DOMAIN Others \subseteq Nat /\ Others \in [DOMAIN Others -> Storages]
  BY <1>1 DEF Typed, JobTyped, Others, Restrict
<1> QED
  BY <1>1, <1>3, <1>4 DEF Typed, JobTyped, LocalTyped, FilesTyped

(* The other steps of the publisher that touch no file.                        *)
LEMMA PublisherTyped ==
    ASSUME Typed, NEW down,
           \/ UpdateCache(down) \/ ListUnpublished(down) \/ RemoveFromCache(down)
           \/ StartChild \/ ChildUnreadable \/ CommandFails \/ Updated
    PROVE  Typed'
<1>1. UNCHANGED <<manifest, standalone, entries, files>>
  BY QuietSteps
<1>2. LocalTyped' /\ FilesTyped'
  BY <1>1 DEF Typed, LocalTyped, FilesTyped
<1>3. CASE UpdateCache(down)
  <2>1. /\ pc = "cache" /\ UNCHANGED todo
        /\ \/ pc' \in {"list", "uncache"} /\ job' = job
           \/ Finish
    BY <1>3 DEF UpdateCache
  <2> QED
    BY <1>2, <2>1 DEF Finish, Typed, JobTyped, Places
<1>4. CASE ListUnpublished(down)
  BY <1>2, <1>4 DEF ListUnpublished, Finish, Typed, JobTyped, Places
<1>5. CASE RemoveFromCache(down)
  BY <1>2, <1>5 DEF RemoveFromCache, Typed, JobTyped, Places
<1>6. CASE StartChild
  BY <1>2, <1>6 DEF StartChild, Typed, JobTyped, Places
<1>7. CASE CommandFails
  BY <1>2, <1>7 DEF CommandFails, Finish, Typed, JobTyped, Places
<1>8. CASE Updated
  BY <1>2, <1>8 DEF Updated, Typed, JobTyped, Places
<1>9. CASE ChildUnreadable
  BY <1>2, <1>9 DEF ChildUnreadable, PublisherRaises, Finish, Typed, JobTyped, Places
<1> QED
  BY <1>3, <1>4, <1>5, <1>6, <1>7, <1>8, <1>9

(* A sequence without one of its elements.                                    *)
LEMMA Without ==
    ASSUME NEW S, NEW q \in Seq(S), NEW i \in 1..Len(q)
    PROVE  LET w == RemoveAt(q, i)
           IN  /\ w \in Seq(S) /\ DOMAIN w = 1..Len(q)-1
               /\ \A j \in 1..Len(q) : (j < i => w[j] = q[j]) /\ (j > i => w[j-1] = q[j])
<1> DEFINE f == SubSeq(q, 1, i-1)
           g == SubSeq(q, i+1, Len(q))
<1>1. f \in Seq(S) /\ Len(f) = i-1 /\ \A j \in 1..i-1 : f[j] = q[j]
  OBVIOUS
<1>2. g \in Seq(S) /\ Len(g) = Len(q)-i /\ \A j \in 1..Len(q)-i : g[j] = q[i+j]
  OBVIOUS
<1>3. RemoveAt(q, i) = f \o g
  BY DEF RemoveAt
<1> HIDE DEF f, g
<1>0. Len(q) \in Nat /\ i \in Nat /\ 1 <= i /\ i <= Len(q)
  OBVIOUS
<1>4. /\ f \o g \in Seq(S) /\ Len(f \o g) = Len(q)-1
      /\ \A j \in 1..Len(q)-1 : (f \o g)[j] = IF j <= i-1 THEN f[j] ELSE g[j-(i-1)]
  <2>1. /\ f \o g \in Seq(S) /\ Len(f \o g) = Len(f) + Len(g)
        /\ \A j \in 1..Len(f)+Len(g) : (f \o g)[j] = IF j <= Len(f) THEN f[j] ELSE g[j-Len(f)]
    BY <1>1, <1>2, ConcatProperties
  <2>2. Len(f) + Len(g) = Len(q)-1
    BY <1>0, <1>1, <1>2
  <2> QED
    BY <1>1, <2>1, <2>2
<1>5. ASSUME NEW j \in 1..Len(q), j > i PROVE (f \o g)[j-1] = q[j]
  <2>1. j-1 \in 1..Len(q)-1 /\ ~(j-1 <= i-1) /\ (j-1)-(i-1) = j-i /\ j-i \in 1..Len(q)-i /\ i+(j-i) = j
    BY <1>0, <1>5
  <2>2. (f \o g)[j-1] = g[j-i]
    BY <1>4, <2>1
  <2>3. g[j-i] = q[i+(j-i)]
    BY <1>2, <2>1
  <2> QED
    BY <2>1, <2>2, <2>3
<1>6. ASSUME NEW j \in 1..Len(q), j < i PROVE (f \o g)[j] = q[j]
  BY <1>1, <1>4, <1>6
<1>7. DOMAIN (f \o g) = 1..Len(q)-1
  BY <1>4
<1> QED
  BY <1>3, <1>4, <1>5, <1>6, <1>7

(* The catalog loses an entry for a container, the others stay.                *)
LEMMA EntryGoes ==
    ASSUME LocalTyped, NEW o, LET at == {i \in DOMAIN entries : entries[i] = o}
                              IN  entries' = IF at = {} THEN entries ELSE RemoveAt(entries, Min(at))
    PROVE  /\ entries' \in Seq(Objects \union Remote)
           /\ \A j \in DOMAIN entries : entries[j] # o => \E k \in DOMAIN entries' : entries'[k] = entries[j]
<1> DEFINE at == {i \in DOMAIN entries : entries[i] = o}
           i == Min(at)
<1>1. entries \in Seq(Objects \union Remote)
  BY DEF LocalTyped
<1>2. CASE at = {}
  BY <1>1, <1>2
<1>3. CASE at # {}
  <2>1. entries' = RemoveAt(entries, i)
    BY <1>3
  <2>2. at \subseteq Nat
    BY <1>1
  <2> HIDE DEF i
  <2>3. i \in at
    BY <1>3, <2>2, MinIsLeast DEF i
  <2>4. i \in 1..Len(entries) /\ entries[i] = o
    BY <1>1, <2>3
  <2>5. /\ entries' \in Seq(Objects \union Remote) /\ DOMAIN entries' = 1..Len(entries)-1
        /\ \A j \in 1..Len(entries) : (j < i => entries'[j] = entries[j]) /\ (j > i => entries'[j-1] = entries[j])
    <3>1. LET w == RemoveAt(entries, i)
          IN  /\ w \in Seq(Objects \union Remote) /\ DOMAIN w = 1..Len(entries)-1
              /\ \A j \in 1..Len(entries) : (j < i => w[j] = entries[j]) /\ (j > i => w[j-1] = entries[j])
      BY <1>1, <2>4, Without
    <3> QED
      BY <2>1, <3>1
  <2>6. ASSUME NEW j \in DOMAIN entries, entries[j] # o
        PROVE  \E k \in DOMAIN entries' : entries'[k] = entries[j]
    <3>1. j \in 1..Len(entries) /\ j # i /\ Len(entries) \in Nat
      BY <1>1, <2>4, <2>6
    <3>2. CASE j < i
      <4>1. j \in DOMAIN entries'
        BY <2>4, <2>5, <3>1, <3>2
      <4> QED
        BY <2>5, <3>1, <3>2, <4>1
    <3>3. CASE j > i
      <4>1. j-1 \in 1..Len(entries)-1
        BY <2>4, <3>1, <3>3
      <4>2. entries'[j-1] = entries[j]
        BY <2>5, <3>1, <3>3
      <4> QED
        BY <2>5, <4>1, <4>2
    <3>4. i \in Nat /\ j \in Nat /\ j # i
      BY <2>4, <3>1
    <3>5. j < i \/ j > i
      BY <3>4
    <3> QED
      BY <3>2, <3>3, <3>5
  <2> QED
    BY <2>5, <2>6
<1> QED
  BY <1>2, <1>3

(* The end of a deletion.                                                     *)
LEMMA DeletionTyped ==
    ASSUME Typed, RemoveCatalogEntry \/ Unlink
    PROVE  Typed'
<1>1. CASE RemoveCatalogEntry
  <2>1. /\ pc = "disown" /\ pc' = "unlink" /\ UNCHANGED <<manifest, standalone, files, job, todo>>
        /\ LET at == {i \in DOMAIN entries : entries[i] = job.obj}
           IN  entries' = IF at = {} THEN entries ELSE RemoveAt(entries, Min(at))
    BY <1>1 DEF RemoveCatalogEntry
  <2>2. entries' \in Seq(Objects \union Remote)
    BY <2>1, EntryGoes DEF Typed
  <2> QED
    BY <2>1, <2>2 DEF Typed, LocalTyped, FilesTyped, JobTyped, Places
<1>2. CASE Unlink
  BY <1>2 DEF Unlink, Finish, Typed, LocalTyped, FilesTyped, JobTyped, Places
<1> QED
  BY <1>1, <1>2

-----------------------------------------------------------------------------
(* The invariant: the copies in the storages. *)

(* A manifest in a storage, and the operations that write and remove it.        *)
Copy(o, m) == [obj |-> o, man |-> m]
WriteOf(r, o, m) == [rel |-> r, write |-> Copy(o, m)]
Removal(r) == [rel |-> r, write |-> None]

(* No update of a container touches the files at the uuid paths of the others. *)
Mine(s, o, r) == \A x \in Objects \ {o} : r # Rel(s, x, x)

(* An unpublish that is under way has every copy on its list.                  *)
Removing(s, o, A) ==
    /\ todo = << Removals(A) >>
    /\ Copies(s, o) \subseteq A
    /\ \A r \in A : Mine(s, o, r)

(* What is left to do of a publish, stage by stage.                            *)
Left(o, m, A, B, C, D) ==
    << Removals(A), Writes(B, o, m), Writes(C, o, m), Writes(D, o, m) >>

(* No stage begins before the one before it has ended.                         *)
InOrder(s, o, m, A, B, C, D) ==
    LET first == {Rel(s, o, o)}
        rels == ManifestRels(s, o, m)
        copies == StorageRels(s, o, m)
    IN  /\ A \intersect (rels \union copies) = {}
        /\ B \subseteq copies /\ C \subseteq first /\ D \subseteq rels \ first
        /\ A # {} => B = copies
        /\ A # {} \/ B # {} => C = first
        /\ A # {} \/ B # {} \/ C # {} => D = rels \ first
        /\ \A r \in A : Mine(s, o, r)

(* A publish that is under way has the copies under other paths on its list of  *)
(* removals, and has written what is not on the others.                       *)
Written(s, o, m, A, B, C, D) ==
    LET first == {Rel(s, o, o)}
        rels == ManifestRels(s, o, m)
        copies == StorageRels(s, o, m)
    IN  /\ Copies(s, o) \ rels \subseteq A
        /\ \A r \in (copies \ B) \union (first \ C) \union ((rels \ first) \ D) :
              r \in DOMAIN files[s] /\ files[s][r] = Copy(o, m)

Writing(s, o, m, A, B, C, D) ==
    todo = Left(o, m, A, B, C, D) /\ InOrder(s, o, m, A, B, C, D) /\ Written(s, o, m, A, B, C, D)

Working ==
    pc = "child" /\ todo # << >> =>
        /\ DOMAIN job.targets # {}
        /\ IF job.mode = "unpublish"
           THEN \E A : Removing(Target, job.obj, A)
           ELSE \E A, B, C, D : Writing(Target, job.obj, job.man, A, B, C, D)

Unpublishing(s, o) ==
    pc = "child" /\ todo # << >> /\ job.mode = "unpublish" /\ s = Target /\ o = job.obj

(* The copies that NoOrphans speaks of, in every state.                        *)
Findable ==
    \A s \in Storages, o \in Objects : Copies(s, o) \subseteq OldRels(s, o) \/ Unpublishing(s, o)

CopiesInv == Typed /\ Working /\ Findable

-----------------------------------------------------------------------------
(* The files of a container. *)

(* A container's files are not at the uuid paths of the others.                *)
LEMMA RelsAreMine ==
    ASSUME NEW s \in Storages, NEW o \in Objects, NEW m \in Man
    PROVE  /\ \A r \in ManifestRels(s, o, m) : Mine(s, o, r) /\ r.backend = None
           /\ \A r \in StorageRels(s, o, m) : Mine(s, o, r) /\ r.backend # None
           /\ Rel(s, o, o) \in ManifestRels(s, o, m)
<1>1. Objects \intersect Paths = {}
  BY CatalogAssumption
<1>2. \A x, p : Rel(s, x, p).backend = None
  BY DEF Rel
<1>3. ASSUME NEW p \in Paths \union {o}, NEW x \in Objects \ {o} PROVE Rel(s, o, p) # Rel(s, x, x)
  <2>1. p # x
    BY <1>1, <1>3
  <2>2. CASE Pattern[s] = "shared"
    <3>1. Rel(s, o, p).path = p /\ Rel(s, x, x).path = x
      BY <2>2 DEF Rel
    <3> QED
      BY <2>1, <3>1
  <2>3. CASE Pattern[s] # "shared"
    <3>1. Rel(s, o, p).obj = o /\ Rel(s, x, x).obj = x
      BY <2>3 DEF Rel
    <3> QED
      BY <1>3, <3>1
  <2> QED
    BY <2>2, <2>3
<1>4. AllPaths(o, m) \subseteq Paths \union {o} /\ o \in AllPaths(o, m)
  BY DEF AllPaths, Man
<1>5. \A r \in ManifestRels(s, o, m) : Mine(s, o, r) /\ r.backend = None
  BY <1>2, <1>3, <1>4 DEF ManifestRels, Mine
<1>6. None \notin Backends /\ m.backends \subseteq Backends
  BY NoneAssumption DEF Man
<1>7. \A b : [Rel(s, o, o) EXCEPT !.backend = b].backend = b
  BY DEF Rel
<1>8. \A r \in StorageRels(s, o, m) : r.backend \in Backends
  BY <1>6, <1>7 DEF StorageRels
<1>9. \A r \in StorageRels(s, o, m) : Mine(s, o, r) /\ r.backend # None
  BY <1>2, <1>6, <1>8 DEF Mine
<1> QED
  BY <1>4, <1>5, <1>9 DEF ManifestRels

(* Neither are those of an earlier version.                                   *)
LEMMA OldRelsAreMine ==
    ASSUME FilesTyped, NEW s \in Storages, NEW o \in Objects
    PROVE  \A r \in OldRels(s, o) : Mine(s, o, r) /\ r.backend = None
<1>1. CASE HasChild(s, o)
  <2>1. files[s][Rel(s, o, o)].man \in Man
    BY <1>1 DEF HasChild, FilesTyped
  <2> QED
    BY <1>1, <2>1, RelsAreMine DEF OldRels
<1>2. CASE ~HasChild(s, o)
  BY <1>2 DEF OldRels
<1> QED
  BY <1>1, <1>2

(* What the removal of a file changes.                                        *)
LEMMA RemovalEffect ==
    ASSUME FilesTyped, NEW s \in Storages, NEW o \in Objects, NEW r, Mine(s, o, r), NEW op,
           op = Removal(r), files' = [files EXCEPT ![s] = Apply(@, op)]
    PROVE  /\ FilesTyped' /\ \A t \in Storages \ {s} : files'[t] = files[t]
           /\ DOMAIN files'[s] = DOMAIN files[s] \ {r}
           /\ \A q \in DOMAIN files'[s] : files'[s][q] = files[s][q]
           /\ \A x \in Objects : Copies(s, x)' = Copies(s, x) \ {r}
           /\ \A x \in Objects \ {o} : OldRels(s, x)' = OldRels(s, x)
           /\ r # Rel(s, o, o) => OldRels(s, o)' = OldRels(s, o)
<1>1. op.rel = r /\ op.write = None
  BY DEF Removal
<1>2. FilesTyped'
  BY <1>1, ApplyTyped
<1>3. files'[s] = Apply(files[s], op) /\ \A t \in Storages \ {s} : files'[t] = files[t]
  BY DEF FilesTyped
<1>4. DOMAIN files'[s] = DOMAIN files[s] \ {r} /\ \A q \in DOMAIN files'[s] : files'[s][q] = files[s][q]
  BY <1>1, <1>3 DEF Apply
<1>5. \A x \in Objects : Copies(s, x)' = Copies(s, x) \ {r}
  BY <1>4 DEF Copies
<1>6. ASSUME NEW x \in Objects, r # Rel(s, x, x) PROVE OldRels(s, x)' = OldRels(s, x)
  <2>1. HasChild(s, x)' <=> HasChild(s, x)
    BY <1>4, <1>6 DEF HasChild
  <2>2. HasChild(s, x) => files'[s][Rel(s, x, x)] = files[s][Rel(s, x, x)]
    BY <1>4, <2>1 DEF HasChild
  <2> QED
    BY <2>1, <2>2 DEF OldRels, HasChild, ManifestRels
<1>7. \A x \in Objects \ {o} : r # Rel(s, x, x)
  BY DEF Mine
<1> QED
  BY <1>2, <1>3, <1>4, <1>5, <1>6, <1>7

(* What the writing of a file changes.                                        *)
Wrote(s, o, m, r) ==
    /\ FilesTyped' /\ \A t \in Storages \ {s} : files'[t] = files[t]
    /\ DOMAIN files'[s] = DOMAIN files[s] \union {r}
    /\ \A q \in DOMAIN files'[s] : files'[s][q] = IF q = r THEN Copy(o, m) ELSE files[s][q]
    /\ \A x \in Objects \ {o} : Copies(s, x)' \subseteq Copies(s, x) /\ OldRels(s, x)' = OldRels(s, x)
    /\ r.backend = None => Copies(s, o)' = Copies(s, o) \union {r}
    /\ r.backend # None => Copies(s, o)' = Copies(s, o)
    /\ r # Rel(s, o, o) => OldRels(s, o)' = OldRels(s, o)
    /\ r = Rel(s, o, o) => OldRels(s, o)' = ManifestRels(s, o, m)

(* A file is written.                                                         *)
LEMMA WriteEffect ==
    ASSUME FilesTyped, NEW s \in Storages, NEW o \in Objects, NEW m \in Man, NEW r, Mine(s, o, r),
           NEW op, op = WriteOf(r, o, m), files' = [files EXCEPT ![s] = Apply(@, op)]
    PROVE  Wrote(s, o, m, r)
<1>11. PICK v : v = Copy(o, m)
  OBVIOUS
<1>1. op.rel = r /\ op.write = v /\ v \in [obj : Objects, man : Man] /\ v.obj = o /\ v.man = m
  BY <1>11 DEF Copy, WriteOf
<1>2. v # None
  BY <1>1, NoneAssumption
<1>3. FilesTyped'
  BY <1>1, ApplyTyped
<1>4. files'[s] = Apply(files[s], op) /\ \A t \in Storages \ {s} : files'[t] = files[t]
  BY DEF FilesTyped
<1>5. DOMAIN files'[s] = DOMAIN files[s] \union {r}
      /\ \A q \in DOMAIN files'[s] : files'[s][q] = IF q = r THEN v ELSE files[s][q]
  BY <1>1, <1>2, <1>4 DEF Apply
<1>6. \A x \in Objects \ {o} : Copies(s, x)' \subseteq Copies(s, x)
  BY <1>1, <1>5 DEF Copies
<1>7. /\ r.backend = None => Copies(s, o)' = Copies(s, o) \union {r}
      /\ r.backend # None => Copies(s, o)' = Copies(s, o)
  BY <1>1, <1>5 DEF Copies
<1>8. ASSUME NEW x \in Objects, r # Rel(s, x, x) PROVE OldRels(s, x)' = OldRels(s, x)
  <2>1. HasChild(s, x)' <=> HasChild(s, x)
    BY <1>5, <1>8 DEF HasChild
  <2>2. HasChild(s, x) => files'[s][Rel(s, x, x)] = files[s][Rel(s, x, x)]
    BY <1>5, <1>8, <2>1 DEF HasChild
  <2> QED
    BY <2>1, <2>2 DEF OldRels, HasChild, ManifestRels
<1>9. r = Rel(s, o, o) => OldRels(s, o)' = ManifestRels(s, o, m)
  BY <1>1, <1>5 DEF OldRels, HasChild, ManifestRels
<1>10. \A x \in Objects \ {o} : r # Rel(s, x, x)
  BY DEF Mine
<1> QED
  BY <1>3, <1>4, <1>5, <1>6, <1>7, <1>8, <1>9, <1>10, <1>11 DEF Wrote

(* A stage loses the operation that is done.                                  *)
LEMMA OneLess ==
    ASSUME NEW R, NEW o, NEW m, NEW op
    PROVE  /\ op \in Removals(R) => \E r \in R : /\ op = Removal(r)
                                                /\ Removals(R) \ {op} = Removals(R \ {r})
           /\ op \in Writes(R, o, m) => \E r \in R : /\ op = WriteOf(r, o, m)
                                                     /\ Writes(R, o, m) \ {op} = Writes(R \ {r}, o, m)
           /\ Removals(R) = {} <=> R = {}
           /\ Writes(R, o, m) = {} <=> R = {}
<1>1. ASSUME op \in Removals(R)
      PROVE  \E r \in R : op = Removal(r) /\ Removals(R) \ {op} = Removals(R \ {r})
  <2>1. PICK r \in R : op = Removal(r)
    BY <1>1 DEF Removals, Removal
  <2>2. \A q : [rel |-> q, write |-> None] = op <=> q = r
    BY <2>1 DEF Removal
  <2>3. Removals(R) \ {op} = Removals(R \ {r})
    BY <2>2 DEF Removals
  <2> QED
    BY <2>1, <2>3
<1>2. ASSUME op \in Writes(R, o, m)
      PROVE  \E r \in R : /\ op = WriteOf(r, o, m)
                          /\ Writes(R, o, m) \ {op} = Writes(R \ {r}, o, m)
  <2>1. PICK r \in R : op = WriteOf(r, o, m)
    BY <1>2 DEF Writes, WriteOf, Copy
  <2>2. \A q : [rel |-> q, write |-> [obj |-> o, man |-> m]] = op <=> q = r
    BY <2>1 DEF WriteOf, Copy
  <2>3. Writes(R, o, m) \ {op} = Writes(R \ {r}, o, m)
    BY <2>2 DEF Writes
  <2> QED
    BY <2>1, <2>3
<1>3. Removals(R) = {} <=> R = {}
  BY DEF Removals
<1>4. Writes(R, o, m) = {} <=> R = {}
  BY DEF Writes
<1> QED
  BY <1>1, <1>2, <1>3, <1>4

-----------------------------------------------------------------------------
(* An update of a storage begins. *)

(* There is a storage to update.                                              *)
LEMMA TargetIsStorage ==
    ASSUME JobTyped, pc = "child", DOMAIN job.targets # {}
    PROVE  Target \in Storages /\ job.obj \in Objects /\ job.man \in Man
<1>1. First \in DOMAIN job.targets
  BY MinIsLeast DEF JobTyped, First
<1> QED
  BY <1>1 DEF JobTyped, Target

(* A step that leaves the files alone keeps what can be found.                 *)
LEMMA FindableStays ==
    ASSUME Findable, UNCHANGED files, \A s \in Storages, o \in Objects : Unpublishing(s, o) => Copies(s, o) = {}
    PROVE  Findable'
<1>1. \A s, o : Copies(s, o)' = Copies(s, o) /\ OldRels(s, o)' = OldRels(s, o)
  BY DEF Copies, OldRels, HasChild, ManifestRels
<1>2. \A s \in Storages, o \in Objects : Copies(s, o) \subseteq OldRels(s, o)
  BY DEF Findable
<1> QED
  BY <1>1, <1>2 DEF Findable

(* The list of an update is right when it is made.                            *)
LEMMA UpdateStarts ==
    ASSUME CopiesInv, StartChild
    PROVE  CopiesInv'
<1>1. /\ pc = "child" /\ todo = << >> /\ job.targets # << >>
      /\ todo' = UpdateChild(Target, job.obj, job.man, job.mode = "unpublish")
      /\ UNCHANGED <<pc, job, files, standalone>>
  <2>1. pc = "child" /\ todo = << >> /\ job.targets # << >> /\ UNCHANGED <<pc, job, files, standalone>>
    BY DEF StartChild, local
  <2>2. todo' = UpdateChild(Target, job.obj, job.man, job.mode = "unpublish")
    BY Zenon DEF StartChild
  <2> QED
    BY <2>1, <2>2, Zenon
<1>2. DOMAIN job.targets # {}
  <2>1. PICK t : t = job.targets
    OBVIOUS
  <2>2. t \in [DOMAIN t -> Storages] /\ t # << >>
    BY <1>1, <2>1 DEF CopiesInv, Typed, JobTyped
  <2> QED
    BY <2>1, <2>2
<1>3. PICK s, o, m : s = Target /\ o = job.obj /\ m = job.man
  OBVIOUS
<1>4. s \in Storages /\ o \in Objects /\ m \in Man
  BY <1>1, <1>2, <1>3, TargetIsStorage DEF CopiesInv, Typed
<1>5. Target' = Target /\ job' = job
  BY <1>1 DEF Target, First
<1>6. Copies(s, o) \subseteq OldRels(s, o)
  BY <1>1, <1>4 DEF CopiesInv, Findable, Unpublishing
<1>7. Copies(s, o)' = Copies(s, o)
  BY <1>1 DEF Copies
<1>12. (\A r : Mine(s, o, r)' <=> Mine(s, o, r)) /\ ManifestRels(s, o, m)' = ManifestRels(s, o, m)
       /\ Rel(s, o, o)' = Rel(s, o, o) /\ StorageRels(s, o, m)' = StorageRels(s, o, m)
  BY <1>1 DEF Mine, ManifestRels, StorageRels
<1>13. PICK rels, copies, first, old :
           /\ rels = ManifestRels(s, o, m) /\ copies = StorageRels(s, o, m)
           /\ first = {Rel(s, o, o)} /\ old = OldRels(s, o)
  OBVIOUS
<1>8. /\ \A r \in old \union rels \union copies : Mine(s, o, r)
      /\ \A r \in old : r.backend = None
      /\ \A r \in copies : r.backend # None
      /\ first \subseteq rels
  BY <1>4, <1>13, RelsAreMine, OldRelsAreMine DEF CopiesInv, Typed
<1>9. Working'
  <2>1. CASE job.mode = "unpublish"
    <3>4. todo' = << Removals(old \union rels \union copies) >>
      BY <1>1, <1>3, <1>13, <2>1 DEF UpdateChild
    <3>5. Removing(s, o, old \union rels \union copies)'
      BY <1>6, <1>7, <1>8, <1>12, <1>13, <3>4 DEF Removing
    <3>6. \E A : Removing(s, o, A)'
      BY <3>5
    <3> QED
      BY <1>2, <1>3, <1>5, <2>1, <3>6 DEF Working
  <2>2. CASE job.mode # "unpublish"
    <3>3. todo' = Left(o, m, old \ (rels \union copies), copies, first, rels \ first)
      BY <1>1, <1>3, <1>13, <2>2 DEF UpdateChild, Left
    <3>4. StorageRels(s, o, m)' = copies /\ ManifestRels(s, o, m)' = rels /\ {Rel(s, o, o)'} = first
      BY <1>12, <1>13
    <3>5. \A r \in Copies(s, o) : r \in old /\ r \notin copies
      BY <1>6, <1>8, <1>13
    <3>6. InOrder(s, o, m, old \ (rels \union copies), copies, first, rels \ first)'
      BY <1>8, <1>12, <3>4 DEF InOrder
    <3>7. Written(s, o, m, old \ (rels \union copies), copies, first, rels \ first)'
      BY <1>7, <3>4, <3>5 DEF Written
    <3>8. Writing(s, o, m, old \ (rels \union copies), copies, first, rels \ first)'
      BY <3>3, <3>6, <3>7 DEF Writing
    <3>9. \E A, B, C, D : Writing(s, o, m, A, B, C, D)'
      BY <3>8
    <3> QED
      BY <1>2, <1>3, <1>5, <2>2, <3>9 DEF Working
  <2> QED
    BY <2>1, <2>2
<1>10. Findable'
  BY <1>1, FindableStays DEF CopiesInv, Unpublishing
<1>11. Typed'
  BY PublisherTyped DEF CopiesInv
<1> QED
  BY <1>9, <1>10, <1>11 DEF CopiesInv

-----------------------------------------------------------------------------
(* An update of a storage goes on. *)

(* What an unpublish does next.                                               *)
LEMMA NextRemoval ==
    ASSUME NEW A, todo = << Removals(A) >>, NEW op, ChildStep(op)
    PROVE  \E r \in A : op = Removal(r) /\ todo' = << Removals(A \ {r}) >>
<1>1. PICK i \in DOMAIN todo : op \in todo[i] /\ todo' = [todo EXCEPT ![i] = @ \ {op}]
  BY Zenon DEF ChildStep
<1>2. i = 1 /\ op \in Removals(A) /\ todo' = << Removals(A) \ {op} >>
  BY <1>1
<1>3. PICK r \in A : op = Removal(r) /\ Removals(A) \ {op} = Removals(A \ {r})
  BY <1>2, OneLess
<1> QED
  BY <1>2, <1>3

(* What a publish does next: an operation of the first stage that is left.      *)
LEMMA NextOfLeft ==
    ASSUME NEW o, NEW m, NEW A, NEW B, NEW C, NEW D, todo = Left(o, m, A, B, C, D), NEW op, ChildStep(op)
    PROVE  \/ \E r \in A : /\ op = Removal(r)
                           /\ todo' = Left(o, m, A \ {r}, B, C, D)
           \/ \E r \in B : /\ A = {} /\ op = WriteOf(r, o, m)
                           /\ todo' = Left(o, m, A, B \ {r}, C, D)
           \/ \E r \in C : /\ A = {} /\ B = {} /\ op = WriteOf(r, o, m)
                           /\ todo' = Left(o, m, A, B, C \ {r}, D)
           \/ \E r \in D : /\ A = {} /\ B = {} /\ C = {} /\ op = WriteOf(r, o, m)
                           /\ todo' = Left(o, m, A, B, C, D \ {r})
<1>1. PICK a, b, c, d : a = Removals(A) /\ b = Writes(B, o, m) /\ c = Writes(C, o, m) /\ d = Writes(D, o, m)
  OBVIOUS
<1>2. todo = <<a, b, c, d>>
  BY <1>1 DEF Left
<1>3. PICK i \in DOMAIN todo : /\ op \in todo[i] /\ \A j \in 1..i-1 : todo[j] = {}
                             /\ todo' = [todo EXCEPT ![i] = @ \ {op}]
  BY Zenon DEF ChildStep
<1>4. \/ op \in a /\ todo' = <<a \ {op}, b, c, d>>
      \/ a = {} /\ op \in b /\ todo' = <<a, b \ {op}, c, d>>
      \/ a = {} /\ b = {} /\ op \in c /\ todo' = <<a, b, c \ {op}, d>>
      \/ a = {} /\ b = {} /\ c = {} /\ op \in d /\ todo' = <<a, b, c, d \ {op}>>
  BY <1>2, <1>3
<1>5. (a = {} <=> A = {}) /\ (b = {} <=> B = {}) /\ (c = {} <=> C = {})
  BY <1>1 DEF Removals, Writes
<1>6. CASE op \in a /\ todo' = <<a \ {op}, b, c, d>>
  <2>1. PICK r \in A : op = Removal(r) /\ Removals(A) \ {op} = Removals(A \ {r})
    BY <1>1, <1>6, OneLess
  <2> QED
    BY <1>1, <1>6, <2>1 DEF Left
<1>7. CASE a = {} /\ op \in b /\ todo' = <<a, b \ {op}, c, d>>
  <2>1. PICK r \in B : op = WriteOf(r, o, m) /\ Writes(B, o, m) \ {op} = Writes(B \ {r}, o, m)
    BY <1>1, <1>7, OneLess
  <2> QED
    BY <1>1, <1>5, <1>7, <2>1 DEF Left
<1>8. CASE a = {} /\ b = {} /\ op \in c /\ todo' = <<a, b, c \ {op}, d>>
  <2>1. PICK r \in C : op = WriteOf(r, o, m) /\ Writes(C, o, m) \ {op} = Writes(C \ {r}, o, m)
    BY <1>1, <1>8, OneLess
  <2> QED
    BY <1>1, <1>5, <1>8, <2>1 DEF Left
<1>9. CASE a = {} /\ b = {} /\ c = {} /\ op \in d /\ todo' = <<a, b, c, d \ {op}>>
  <2>1. PICK r \in D : op = WriteOf(r, o, m) /\ Writes(D, o, m) \ {op} = Writes(D \ {r}, o, m)
    BY <1>1, <1>9, OneLess
  <2> QED
    BY <1>1, <1>5, <1>9, <2>1 DEF Left
<1> QED
  BY <1>4, <1>6, <1>7, <1>8, <1>9

(* An update of one container in one storage disturbs nothing else.            *)
LEMMA OthersFindable ==
    ASSUME Findable, NEW s \in Storages, NEW o \in Objects,
           \A t \in Storages, x \in Objects : Unpublishing(t, x) => t = s /\ x = o,
           \A t \in Storages \ {s} : files'[t] = files[t],
           \A x \in Objects \ {o} : Copies(s, x)' \subseteq Copies(s, x) /\ OldRels(s, x)' = OldRels(s, x),
           Copies(s, o)' \subseteq OldRels(s, o)' \/ Unpublishing(s, o)'
    PROVE  Findable'
<1>1. ASSUME NEW t \in Storages \ {s}, NEW x \in Objects PROVE Copies(t, x)' \subseteq OldRels(t, x)'
  <2>1. Copies(t, x)' = Copies(t, x) /\ OldRels(t, x)' = OldRels(t, x)
    BY DEF Copies, OldRels, HasChild, ManifestRels
  <2>2. Copies(t, x) \subseteq OldRels(t, x)
    BY DEF Findable
  <2> QED
    BY <2>1, <2>2
<1>2. ASSUME NEW x \in Objects \ {o} PROVE Copies(s, x)' \subseteq OldRels(s, x)'
  <2>1. Copies(s, x) \subseteq OldRels(s, x)
    BY DEF Findable
  <2> QED
    BY <2>1
<1> QED
  BY <1>1, <1>2 DEF Findable

(* A file is removed: the list still has every copy that is left.              *)
LEMMA RemovingStep ==
    ASSUME CopiesInv, NEW op, ChildStep(op), job.mode = "unpublish"
    PROVE  CopiesInv'
<1>1. /\ pc = "child" /\ todo # << >> /\ UNCHANGED <<manifest, standalone, entries, pc, job>>
      /\ files' = [files EXCEPT ![Target] = Apply(@, op)]
  BY DEF ChildStep, local
<1>2. PICK s, o : s = Target /\ o = job.obj
  OBVIOUS
<1>3. DOMAIN job.targets # {} /\ \E A : Removing(s, o, A)
  BY <1>1, <1>2 DEF CopiesInv, Working
<1>4. s \in Storages /\ o \in Objects
  BY <1>1, <1>2, <1>3, TargetIsStorage DEF CopiesInv, Typed
<1>5. Target' = Target
  BY <1>1 DEF Target, First
<1>6. PICK A : Removing(s, o, A)
  BY <1>3
<1>7. PICK r \in A : op = Removal(r) /\ todo' = << Removals(A \ {r}) >>
  BY <1>6, NextRemoval DEF Removing
<1>8. files' = [files EXCEPT ![s] = Apply(@, op)] /\ Mine(s, o, r)
  BY <1>1, <1>2, <1>6 DEF Removing
<1>9. /\ FilesTyped' /\ \A t \in Storages \ {s} : files'[t] = files[t]
      /\ \A x \in Objects : Copies(s, x)' = Copies(s, x) \ {r}
      /\ \A x \in Objects \ {o} : OldRels(s, x)' = OldRels(s, x)
  BY <1>4, <1>7, <1>8, RemovalEffect DEF CopiesInv, Typed
<1>10. Removing(s, o, A \ {r})'
  <2>1. \A q : Mine(s, o, q)' <=> Mine(s, o, q)
    BY DEF Mine
  <2> QED
    BY <1>4, <1>6, <1>7, <1>9, <2>1 DEF Removing
<1>11. Working'
  <2>1. \E B : Removing(s, o, B)'
    BY <1>10
  <2> QED
    BY <1>1, <1>2, <1>3, <1>5, <2>1 DEF Working
<1>12. Findable'
  <2>1. \A t \in Storages, x \in Objects : Unpublishing(t, x) => t = s /\ x = o
    BY <1>2 DEF Unpublishing
  <2>2. Unpublishing(s, o)'
    BY <1>1, <1>2, <1>5, <1>7 DEF Unpublishing
  <2> QED
    BY <1>4, <1>9, <2>1, <2>2, OthersFindable DEF CopiesInv
<1>13. Typed'
  BY <1>1, <1>7, <1>9 DEF CopiesInv, Typed, LocalTyped, JobTyped
<1> QED
  BY <1>11, <1>12, <1>13 DEF CopiesInv

(* A stage of a publish, and the files of the container after it.               *)
LEMMA PublishEffect ==
    ASSUME FilesTyped, NEW s \in Storages, NEW o \in Objects, NEW m \in Man, NEW op,
           files' = [files EXCEPT ![s] = Apply(@, op)], UNCHANGED standalone,
           Copies(s, o) \subseteq OldRels(s, o),
           NEW A, NEW B, NEW C, NEW D, Writing(s, o, m, A, B, C, D), ChildStep(op)
    PROVE  /\ \E E, F, G, H : Writing(s, o, m, E, F, G, H)'
           /\ FilesTyped' /\ \A t \in Storages \ {s} : files'[t] = files[t]
           /\ \A x \in Objects \ {o} : Copies(s, x)' \subseteq Copies(s, x) /\ OldRels(s, x)' = OldRels(s, x)
           /\ Copies(s, o)' \subseteq OldRels(s, o)'
           /\ todo' # << >>
<1>1. PICK rels, copies, main :
          rels = ManifestRels(s, o, m) /\ copies = StorageRels(s, o, m) /\ main = Rel(s, o, o)
  OBVIOUS
<1>2. PICK v : v = Copy(o, m)
  OBVIOUS
<1>3. /\ \A r \in rels \union copies : Mine(s, o, r)
      /\ \A r \in rels : r.backend = None
      /\ \A r \in copies : r.backend # None
      /\ main \in rels
  BY <1>1, RelsAreMine
<1>4. /\ A \intersect (rels \union copies) = {}
      /\ B \subseteq copies /\ C \subseteq {main} /\ D \subseteq rels \ {main}
      /\ A # {} => B = copies
      /\ A # {} \/ B # {} => C = {main}
      /\ A # {} \/ B # {} \/ C # {} => D = rels \ {main}
      /\ \A r \in A : Mine(s, o, r)
  BY <1>1 DEF Writing, InOrder
<1>5. /\ Copies(s, o) \ rels \subseteq A
      /\ \A r \in (copies \ B) \union ({main} \ C) \union ((rels \ {main}) \ D) :
            r \in DOMAIN files[s] /\ files[s][r] = v
  BY <1>1, <1>2 DEF Writing, Written
<1>6. /\ StorageRels(s, o, m)' = copies /\ ManifestRels(s, o, m)' = rels /\ Rel(s, o, o)' = main
      /\ \A r : Mine(s, o, r)' <=> Mine(s, o, r)
  BY <1>1 DEF StorageRels, ManifestRels, Mine
<1>7. ASSUME NEW E, NEW F, NEW G, NEW H, todo' = Left(o, m, E, F, G, H),
             /\ E \subseteq A /\ F \subseteq B /\ G \subseteq C /\ H \subseteq D
             /\ E # {} => B = F
             /\ E # {} \/ F # {} => C = G
             /\ E # {} \/ F # {} \/ G # {} => D = H,
             Copies(s, o)' \ rels \subseteq E,
             \A r \in (copies \ F) \union ({main} \ G) \union ((rels \ {main}) \ H) :
                r \in DOMAIN files'[s] /\ files'[s][r] = v
      PROVE  (\E K, L, M, N : Writing(s, o, m, K, L, M, N)') /\ todo' # << >>
  <2>1. InOrder(s, o, m, E, F, G, H)'
    BY <1>4, <1>6, <1>7 DEF InOrder
  <2>2. Written(s, o, m, E, F, G, H)'
    BY <1>2, <1>6, <1>7 DEF Written
  <2>3. Writing(s, o, m, E, F, G, H)'
    BY <1>6, <1>7, <2>1, <2>2 DEF Writing, Left
  <2> QED
    BY <1>7, <2>3 DEF Left
<1>8. \/ \E r \in A : op = Removal(r) /\ todo' = Left(o, m, A \ {r}, B, C, D)
      \/ \E r \in B : A = {} /\ op = WriteOf(r, o, m) /\ todo' = Left(o, m, A, B \ {r}, C, D)
      \/ \E r \in C : A = {} /\ B = {} /\ op = WriteOf(r, o, m) /\ todo' = Left(o, m, A, B, C \ {r}, D)
      \/ \E r \in D : /\ A = {} /\ B = {} /\ C = {}
                      /\ op = WriteOf(r, o, m) /\ todo' = Left(o, m, A, B, C, D \ {r})
  <2>1. todo = Left(o, m, A, B, C, D)
    BY DEF Writing
  <2> QED
    BY <1>2, <2>1, NextOfLeft
<1>9. ASSUME NEW r \in A, op = Removal(r), todo' = Left(o, m, A \ {r}, B, C, D)
      PROVE  /\ \E E, F, G, H : Writing(s, o, m, E, F, G, H)'
             /\ FilesTyped' /\ \A t \in Storages \ {s} : files'[t] = files[t]
             /\ \A x \in Objects \ {o} : Copies(s, x)' \subseteq Copies(s, x) /\ OldRels(s, x)' = OldRels(s, x)
             /\ Copies(s, o)' \subseteq OldRels(s, o)'
             /\ todo' # << >>
  <2>1. Mine(s, o, r) /\ r \notin rels \union copies /\ r # main
    BY <1>3, <1>4
  <2>2. /\ FilesTyped' /\ \A t \in Storages \ {s} : files'[t] = files[t]
        /\ DOMAIN files'[s] = DOMAIN files[s] \ {r}
        /\ \A q \in DOMAIN files'[s] : files'[s][q] = files[s][q]
        /\ \A x \in Objects : Copies(s, x)' = Copies(s, x) \ {r}
        /\ \A x \in Objects \ {o} : OldRels(s, x)' = OldRels(s, x)
        /\ OldRels(s, o)' = OldRels(s, o)
    BY <1>1, <1>9, <2>1, RemovalEffect
  <2>3. \A q \in (copies \ B) \union ({main} \ C) \union ((rels \ {main}) \ D) :
            q \in DOMAIN files'[s] /\ files'[s][q] = v
    BY <1>3, <1>5, <2>1, <2>2
  <2>4. Copies(s, o)' \ rels \subseteq A \ {r}
    BY <1>5, <2>2
  <2>5. (\E E, F, G, H : Writing(s, o, m, E, F, G, H)') /\ todo' # << >>
    BY <1>7, <1>9, <2>3, <2>4
  <2> QED
    BY <2>2, <2>5
<1>10. ASSUME NEW r \in B, A = {}, op = WriteOf(r, o, m), todo' = Left(o, m, A, B \ {r}, C, D)
       PROVE  /\ \E E, F, G, H : Writing(s, o, m, E, F, G, H)'
              /\ FilesTyped' /\ \A t \in Storages \ {s} : files'[t] = files[t]
              /\ \A x \in Objects \ {o} : Copies(s, x)' \subseteq Copies(s, x) /\ OldRels(s, x)' = OldRels(s, x)
              /\ Copies(s, o)' \subseteq OldRels(s, o)'
              /\ todo' # << >>
  <2>1. Mine(s, o, r) /\ r.backend # None /\ r # main
    BY <1>3, <1>4
  <2>2. /\ FilesTyped' /\ \A t \in Storages \ {s} : files'[t] = files[t]
        /\ DOMAIN files'[s] = DOMAIN files[s] \union {r}
        /\ \A q \in DOMAIN files'[s] : files'[s][q] = IF q = r THEN v ELSE files[s][q]
        /\ \A x \in Objects \ {o} : Copies(s, x)' \subseteq Copies(s, x) /\ OldRels(s, x)' = OldRels(s, x)
        /\ r.backend = None => Copies(s, o)' = Copies(s, o) \union {r}
        /\ r.backend # None => Copies(s, o)' = Copies(s, o)
        /\ r # main => OldRels(s, o)' = OldRels(s, o)
        /\ r = main => OldRels(s, o)' = rels
    <3>1. Wrote(s, o, m, r)
      BY <1>10, <2>1, WriteEffect
    <3> QED
      BY <1>1, <1>2, <3>1 DEF Wrote
  <2>3. \A q \in (copies \ (B \ {r})) \union ({main} \ C) \union ((rels \ {main}) \ D) :
            q \in DOMAIN files'[s] /\ files'[s][q] = v
    BY <1>5, <2>2
  <2>4. Copies(s, o)' \ rels \subseteq A
    BY <1>5, <2>1, <2>2
  <2>5. (\E E, F, G, H : Writing(s, o, m, E, F, G, H)') /\ todo' # << >>
    BY <1>7, <1>10, <2>3, <2>4
  <2>6. Copies(s, o)' \subseteq OldRels(s, o)'
    BY <2>1, <2>2
  <2> QED
    BY <2>2, <2>5, <2>6
<1>11. ASSUME NEW r \in C, A = {}, B = {}, op = WriteOf(r, o, m), todo' = Left(o, m, A, B, C \ {r}, D)
       PROVE  /\ \E E, F, G, H : Writing(s, o, m, E, F, G, H)'
              /\ FilesTyped' /\ \A t \in Storages \ {s} : files'[t] = files[t]
              /\ \A x \in Objects \ {o} : Copies(s, x)' \subseteq Copies(s, x) /\ OldRels(s, x)' = OldRels(s, x)
              /\ Copies(s, o)' \subseteq OldRels(s, o)'
              /\ todo' # << >>
  <2>1. Mine(s, o, r) /\ r.backend = None /\ r = main
    BY <1>3, <1>4
  <2>2. /\ FilesTyped' /\ \A t \in Storages \ {s} : files'[t] = files[t]
        /\ DOMAIN files'[s] = DOMAIN files[s] \union {r}
        /\ \A q \in DOMAIN files'[s] : files'[s][q] = IF q = r THEN v ELSE files[s][q]
        /\ \A x \in Objects \ {o} : Copies(s, x)' \subseteq Copies(s, x) /\ OldRels(s, x)' = OldRels(s, x)
        /\ r.backend = None => Copies(s, o)' = Copies(s, o) \union {r}
        /\ r.backend # None => Copies(s, o)' = Copies(s, o)
        /\ r # main => OldRels(s, o)' = OldRels(s, o)
        /\ r = main => OldRels(s, o)' = rels
    <3>1. Wrote(s, o, m, r)
      BY <1>11, <2>1, WriteEffect
    <3> QED
      BY <1>1, <1>2, <3>1 DEF Wrote
  <2>3. \A q \in (copies \ B) \union ({main} \ (C \ {r})) \union ((rels \ {main}) \ D) :
            q \in DOMAIN files'[s] /\ files'[s][q] = v
    <3>1. ({main} \ (C \ {r})) \subseteq ({main} \ C) \union {r} /\ r \in DOMAIN files'[s] /\ files'[s][r] = v
      BY <2>2
    <3>2. \A q \in (copies \ B) \union ({main} \ C) \union ((rels \ {main}) \ D) :
             q \in DOMAIN files'[s] /\ files'[s][q] = v
      BY <1>5, <2>2
    <3> QED
      BY <3>1, <3>2
  <2>4. Copies(s, o)' \ rels \subseteq A
    BY <1>3, <1>5, <2>1, <2>2
  <2>5. (\E E, F, G, H : Writing(s, o, m, E, F, G, H)') /\ todo' # << >>
    BY <1>7, <1>11, <2>3, <2>4
  <2>6. Copies(s, o)' \subseteq OldRels(s, o)'
    BY <1>3, <1>5, <1>11, <2>1, <2>2
  <2> QED
    BY <2>2, <2>5, <2>6
<1>12. ASSUME NEW r \in D, A = {}, B = {}, C = {}, op = WriteOf(r, o, m), todo' = Left(o, m, A, B, C, D \ {r})
       PROVE  /\ \E E, F, G, H : Writing(s, o, m, E, F, G, H)'
              /\ FilesTyped' /\ \A t \in Storages \ {s} : files'[t] = files[t]
              /\ \A x \in Objects \ {o} : Copies(s, x)' \subseteq Copies(s, x) /\ OldRels(s, x)' = OldRels(s, x)
              /\ Copies(s, o)' \subseteq OldRels(s, o)'
              /\ todo' # << >>
  <2>1. Mine(s, o, r) /\ r.backend = None /\ r # main /\ r \in rels
    BY <1>3, <1>4
  <2>2. /\ FilesTyped' /\ \A t \in Storages \ {s} : files'[t] = files[t]
        /\ DOMAIN files'[s] = DOMAIN files[s] \union {r}
        /\ \A q \in DOMAIN files'[s] : files'[s][q] = IF q = r THEN v ELSE files[s][q]
        /\ \A x \in Objects \ {o} : Copies(s, x)' \subseteq Copies(s, x) /\ OldRels(s, x)' = OldRels(s, x)
        /\ r.backend = None => Copies(s, o)' = Copies(s, o) \union {r}
        /\ r.backend # None => Copies(s, o)' = Copies(s, o)
        /\ r # main => OldRels(s, o)' = OldRels(s, o)
        /\ r = main => OldRels(s, o)' = rels
    <3>1. Wrote(s, o, m, r)
      BY <1>12, <2>1, WriteEffect
    <3> QED
      BY <1>1, <1>2, <3>1 DEF Wrote
  <2>3. \A q \in (copies \ B) \union ({main} \ C) \union ((rels \ {main}) \ (D \ {r})) :
            q \in DOMAIN files'[s] /\ files'[s][q] = v
    BY <1>5, <2>2
  <2>4. Copies(s, o)' \ rels \subseteq A
    BY <1>5, <2>1, <2>2
  <2>5. (\E E, F, G, H : Writing(s, o, m, E, F, G, H)') /\ todo' # << >>
    BY <1>7, <1>12, <2>3, <2>4
  <2>7. main \in DOMAIN files[s] /\ files[s][main] = v
    BY <1>5, <1>12
  <2>8. OldRels(s, o) = rels
    BY <1>1, <1>2, <2>7 DEF OldRels, HasChild, Copy
  <2>6. Copies(s, o)' \subseteq OldRels(s, o)'
    BY <2>1, <2>2, <2>8
  <2> QED
    BY <2>2, <2>5, <2>6
<1> QED
  BY <1>8, <1>9, <1>10, <1>11, <1>12

(* A publish writes or removes a file.                                        *)
LEMMA WritingStep ==
    ASSUME CopiesInv, NEW op, ChildStep(op), job.mode # "unpublish"
    PROVE  CopiesInv'
<1>1. /\ pc = "child" /\ todo # << >> /\ UNCHANGED <<manifest, standalone, entries, pc, job>>
      /\ files' = [files EXCEPT ![Target] = Apply(@, op)]
  BY DEF ChildStep, local
<1>2. PICK s, o, m : s = Target /\ o = job.obj /\ m = job.man
  OBVIOUS
<1>3. DOMAIN job.targets # {} /\ \E A, B, C, D : Writing(s, o, m, A, B, C, D)
  BY <1>1, <1>2 DEF CopiesInv, Working
<1>4. s \in Storages /\ o \in Objects /\ m \in Man
  BY <1>1, <1>2, <1>3, TargetIsStorage DEF CopiesInv, Typed
<1>5. Target' = Target
  BY <1>1 DEF Target, First
<1>6. PICK A, B, C, D : Writing(s, o, m, A, B, C, D)
  BY <1>3
<1>7. \A t, x : ~Unpublishing(t, x)
  BY DEF Unpublishing
<1>8. files' = [files EXCEPT ![s] = Apply(@, op)] /\ Copies(s, o) \subseteq OldRels(s, o)
  BY <1>1, <1>2, <1>4, <1>7 DEF CopiesInv, Findable
<1>9. /\ \E E, F, G, H : Writing(s, o, m, E, F, G, H)'
      /\ FilesTyped' /\ \A t \in Storages \ {s} : files'[t] = files[t]
      /\ \A x \in Objects \ {o} : Copies(s, x)' \subseteq Copies(s, x) /\ OldRels(s, x)' = OldRels(s, x)
      /\ Copies(s, o)' \subseteq OldRels(s, o)'
  BY <1>1, <1>4, <1>6, <1>8, PublishEffect DEF CopiesInv, Typed
<1>10. Working'
  BY <1>1, <1>2, <1>3, <1>5, <1>9 DEF Working
<1>11. Findable'
  BY <1>4, <1>7, <1>9, OthersFindable DEF CopiesInv
<1>12. Typed'
  BY <1>1, <1>9 DEF CopiesInv, Typed, LocalTyped, JobTyped
<1> QED
  BY <1>10, <1>11, <1>12 DEF CopiesInv

(* A write that breaks off is one of the publish that is under way.             *)
LEMMA BrokenWrite ==
    ASSUME NEW s, NEW o, NEW m, NEW A, NEW B, NEW C, NEW D, Writing(s, o, m, A, B, C, D),
           NEW op, WriteBreaks(op)
    PROVE  \/ \E r \in B : A = {} /\ op = WriteOf(r, o, m)
           \/ \E r \in C : A = {} /\ B = {} /\ op = WriteOf(r, o, m)
           \/ \E r \in D : A = {} /\ B = {} /\ C = {} /\ op = WriteOf(r, o, m)
<1>1. PICK a, b, c, d : a = Removals(A) /\ b = Writes(B, o, m) /\ c = Writes(C, o, m) /\ d = Writes(D, o, m)
  OBVIOUS
<1>2. todo = <<a, b, c, d>>
  BY <1>1 DEF Writing, Left
<1>3. PICK i \in DOMAIN todo : op \in todo[i] /\ \A j \in 1..i-1 : todo[j] = {}
  BY Zenon DEF WriteBreaks
<1>4. \/ op \in a
      \/ a = {} /\ op \in b
      \/ a = {} /\ b = {} /\ op \in c
      \/ a = {} /\ b = {} /\ c = {} /\ op \in d
  BY <1>2, <1>3
<1>5. (a = {} <=> A = {}) /\ (b = {} <=> B = {}) /\ (c = {} <=> C = {})
  BY <1>1 DEF Removals, Writes
<1>6. op \notin a
  <2>1. op.write # None
    BY DEF WriteBreaks
  <2> QED
    BY <1>1, <2>1 DEF Removals
<1>7. /\ op \in b => \E r \in B : op = WriteOf(r, o, m)
      /\ op \in c => \E r \in C : op = WriteOf(r, o, m)
      /\ op \in d => \E r \in D : op = WriteOf(r, o, m)
  BY <1>1 DEF Writes, WriteOf, Copy
<1> QED
  BY <1>4, <1>5, <1>6, <1>7

(* What is not yet written is told by the copy at the uuid path, readable or not. *)
LEMMA BrokenEffect ==
    ASSUME CopiesInv, NEW op, WriteBreaks(op)
    PROVE  /\ pc = "child" /\ job.mode # "unpublish" /\ pc' = "idle"
           /\ Target \in Storages /\ First \in DOMAIN job.targets
           /\ \A t \in Storages \ {Target} : files'[t] = files[t]
           /\ \A x \in Objects, t \in Storages : HasChild(t, x) => HasChild(t, x)'
           /\ CopiesInv'
<1>1. /\ pc = "child" /\ UNCHANGED <<manifest, broken, newer, cache, standalone, entries>>
      /\ files' = [files EXCEPT ![Target] = Apply(@, op)]
      /\ pc' = "idle" /\ job' = Idle /\ todo' = << >>
  BY DEF WriteBreaks, local, Finish
<1>2. PICK i \in DOMAIN todo : op \in todo[i]
  BY Zenon DEF WriteBreaks
<1>3. todo # << >>
  BY <1>2
<1>4. PICK s, o, m : s = Target /\ o = job.obj /\ m = job.man
  OBVIOUS
<1>5. job.mode # "unpublish"
  <2>1. SUFFICES ASSUME job.mode = "unpublish" PROVE FALSE
    OBVIOUS
  <2>2. PICK A : Removing(s, o, A)
    BY <1>1, <1>3, <1>4, <2>1 DEF CopiesInv, Working
  <2>3. op \in Removals(A)
    BY <1>2, <2>2 DEF Removing
  <2>4. op.write # None
    BY DEF WriteBreaks
  <2> QED
    BY <2>3, <2>4 DEF Removals
<1>6. DOMAIN job.targets # {} /\ \E A, B, C, D : Writing(s, o, m, A, B, C, D)
  BY <1>1, <1>3, <1>4, <1>5 DEF CopiesInv, Working
<1>7. s \in Storages /\ o \in Objects /\ m \in Man /\ First \in DOMAIN job.targets
  BY <1>1, <1>4, <1>6, TargetIsStorage, MinIsLeast DEF First, CopiesInv, Typed, JobTyped
<1>8. PICK A, B, C, D : Writing(s, o, m, A, B, C, D)
  BY <1>6
<1>9. Copies(s, o) \subseteq OldRels(s, o)
  BY <1>4, <1>5, <1>7 DEF CopiesInv, Findable, Unpublishing
<1>10. PICK rels, main : rels = ManifestRels(s, o, m) /\ main = Rel(s, o, o)
  OBVIOUS
<1>11. PICK r \in rels \union StorageRels(s, o, m) :
           /\ op = WriteOf(r, o, m) /\ Mine(s, o, r) /\ Copies(s, o) \subseteq rels
           /\ r # main /\ r.backend = None => OldRels(s, o) = rels
           /\ r = main => r.backend = None
           /\ r.backend = None => r \in rels
  <2>1. /\ \A r \in rels : Mine(s, o, r) /\ r.backend = None
        /\ \A r \in StorageRels(s, o, m) : Mine(s, o, r) /\ r.backend # None
        /\ main \in rels
    BY <1>7, <1>10, RelsAreMine
  <2>2. B \subseteq StorageRels(s, o, m) /\ C \subseteq {main} /\ D \subseteq rels \ {main}
    BY <1>8, <1>10 DEF Writing, InOrder
  <2>3. Copies(s, o) \ rels \subseteq A
    BY <1>8, <1>10 DEF Writing, Written
  <2>4. \/ \E r \in B : A = {} /\ op = WriteOf(r, o, m)
        \/ \E r \in C : A = {} /\ B = {} /\ op = WriteOf(r, o, m)
        \/ \E r \in D : A = {} /\ B = {} /\ C = {} /\ op = WriteOf(r, o, m)
    BY <1>8, BrokenWrite
  <2>5. C = {} => OldRels(s, o) = rels
    <3>1. C = {} => main \in DOMAIN files[s] /\ files[s][main] = Copy(o, m)
      BY <1>8, <1>10 DEF Writing, Written
    <3> QED
      BY <1>10, <3>1 DEF OldRels, HasChild, Copy
  <2> QED
    BY <2>1, <2>2, <2>3, <2>4, <2>5
<1>12. Wrote(s, o, m, r)
  BY <1>1, <1>4, <1>7, <1>11, WriteEffect DEF CopiesInv, Typed
<1>13. /\ FilesTyped' /\ \A t \in Storages \ {s} : files'[t] = files[t]
       /\ DOMAIN files'[s] = DOMAIN files[s] \union {r}
       /\ \A x \in Objects \ {o} : Copies(s, x)' \subseteq Copies(s, x) /\ OldRels(s, x)' = OldRels(s, x)
       /\ r.backend = None => Copies(s, o)' = Copies(s, o) \union {r}
       /\ r.backend # None => Copies(s, o)' = Copies(s, o)
       /\ r # main => OldRels(s, o)' = OldRels(s, o)
       /\ r = main => OldRels(s, o)' = rels
  BY <1>10, <1>12 DEF Wrote
<1>14. Copies(s, o)' \subseteq OldRels(s, o)'
  BY <1>9, <1>11, <1>13
<1>15. \A t \in Storages, x \in Objects : Unpublishing(t, x) => t = s /\ x = o
  BY <1>4 DEF Unpublishing
<1>16. Findable'
  BY <1>7, <1>13, <1>14, <1>15, OthersFindable DEF CopiesInv
<1>17. Typed'
  BY <1>1, <1>13 DEF CopiesInv, Typed, LocalTyped, JobTyped, Places
<1>18. Working'
  BY <1>1 DEF Working
<1>19. \A x \in Objects, t \in Storages : HasChild(t, x) => HasChild(t, x)'
  BY <1>13 DEF HasChild
<1> QED
  BY <1>1, <1>4, <1>5, <1>7, <1>13, <1>16, <1>17, <1>18, <1>19 DEF CopiesInv

-----------------------------------------------------------------------------
(* An update of a storage ends, and the theorems. *)

(* What an update leaves in the storage.                                      *)
LEMMA UpdateEnds ==
    ASSUME CopiesInv, ChildDone
    PROVE  /\ job.mode = "unpublish" => Copies(Target, job.obj) = {}
           /\ job.mode # "unpublish" =>
                 /\ Copies(Target, job.obj) = ManifestRels(Target, job.obj, job.man)
                 /\ \A r \in Copies(Target, job.obj) : files[Target][r].man = job.man
                 /\ StorageRels(Target, job.obj, job.man) \subseteq DOMAIN files[Target]
<1>1. pc = "child" /\ todo # << >> /\ \A i \in DOMAIN todo : todo[i] = {}
  BY DEF ChildDone, Unfinished
<1>2. PICK s, o, m : s = Target /\ o = job.obj /\ m = job.man
  OBVIOUS
<1>3. /\ DOMAIN job.targets # {}
      /\ job.mode = "unpublish" => \E A : Removing(s, o, A)
      /\ job.mode # "unpublish" => \E A, B, C, D : Writing(s, o, m, A, B, C, D)
  BY <1>1, <1>2 DEF CopiesInv, Working
<1>4. s \in Storages /\ o \in Objects /\ m \in Man
  BY <1>1, <1>2, <1>3, TargetIsStorage DEF CopiesInv, Typed
<1>5. ASSUME job.mode = "unpublish" PROVE Copies(s, o) = {}
  <2>1. PICK A : Removing(s, o, A)
    BY <1>3, <1>5
  <2>2. todo = << Removals(A) >> /\ Copies(s, o) \subseteq A
    BY <2>1 DEF Removing
  <2>3. Removals(A) = {}
    BY <1>1, <2>2
  <2>4. A = {}
    BY <2>3 DEF Removals
  <2> QED
    BY <2>2, <2>4
<1>6. ASSUME job.mode # "unpublish"
      PROVE  /\ Copies(s, o) = ManifestRels(s, o, m)
             /\ \A r \in Copies(s, o) : files[s][r].man = m
             /\ StorageRels(s, o, m) \subseteq DOMAIN files[s]
  <2>1. PICK A, B, C, D : Writing(s, o, m, A, B, C, D)
    BY <1>3, <1>6
  <2>2. A = {} /\ B = {} /\ C = {} /\ D = {}
    <3>1. PICK a, b, c, d : a = Removals(A) /\ b = Writes(B, o, m) /\ c = Writes(C, o, m) /\ d = Writes(D, o, m)
      OBVIOUS
    <3>2. todo = <<a, b, c, d>>
      BY <2>1, <3>1 DEF Writing, Left
    <3>3. a = {} /\ b = {} /\ c = {} /\ d = {}
      BY <1>1, <3>2
    <3> QED
      BY <3>1, <3>3 DEF Removals, Writes
  <2>3. PICK rels, copies, main :
            rels = ManifestRels(s, o, m) /\ copies = StorageRels(s, o, m) /\ main = Rel(s, o, o)
    OBVIOUS
  <2>4. /\ Copies(s, o) \subseteq rels
        /\ \A r \in copies \union {main} \union (rels \ {main}) : r \in DOMAIN files[s] /\ files[s][r] = Copy(o, m)
    BY <2>1, <2>2, <2>3 DEF Writing, Written
  <2>5. \A r \in rels : r.backend = None
    BY <1>4, <2>3, RelsAreMine
  <2>6. Copy(o, m).obj = o /\ Copy(o, m).man = m
    BY DEF Copy
  <2>7. rels \subseteq Copies(s, o) /\ \A r \in rels : files[s][r].man = m
    BY <2>4, <2>5, <2>6 DEF Copies
  <2> QED
    BY <2>3, <2>4, <2>7
<1> QED
  BY <1>2, <1>5, <1>6

(* A step with no update under way before it, nor after it.                    *)
LEMMA QuietStep ==
    ASSUME CopiesInv, Typed', UNCHANGED files, todo = << >>, todo' = << >>
    PROVE  CopiesInv'
<1>1. Findable'
  BY FindableStays DEF CopiesInv, Unpublishing
<1>2. Working'
  BY DEF Working
<1> QED
  BY <1>1, <1>2 DEF CopiesInv

(* Every command of a user begins with the same bookkeeping, except that a manifest *)
(* may stop loading by itself.                                                 *)
LEMMA CommandsBegin ==
    ASSUME ContainerCommand \/ StorageCommand
    PROVE  Command \/ \E o \in Objects : Corrupt(o)
<1>1. \A o, u, v, w : Create(o, u, v, w) => Command
  BY DEF Create
<1>2. \A o, u, v : Duplicate(o, u, v) => Command
  BY DEF Duplicate
<1>3. \A o, u : Update(o, u) => Command
  BY DEF Update
<1>4. \A o, u : CreateFromTemplate(o, u) => Command
  BY DEF CreateFromTemplate
<1>5. \A o, u, v, w, z : Modify(o, u, v, w, z) => Command
  BY DEF Modify
<1>6. \A o, u, v : Edit(o, u, v) => Command
  BY DEF Edit
<1>7. \A o, u, v, w : ModifyRemote(o, u, v, w) => Command
  BY DEF ModifyRemote
<1>8. \A o : Publish(o) => Command
  BY DEF Publish
<1>9. \A o : Unpublish(o) => Command
  BY DEF Unpublish
<1>10. \A o, u, v, w : Delete(o, u, v, w) => Command
  BY DEF Delete
<1>11. \A o : DeleteForce(o) => Command
  BY DEF DeleteForce
<1>12. \A o : Mount(o) => Command
  BY DEF Mount
<1>13. \A o, u, v : CreateStorage(o, u, v) => Command
  BY DEF CreateStorage
<1>14. \A o, u, v, w : DeleteStorage(o, u, v, w) => Command
  BY DEF DeleteStorage
<1> QED
  BY <1>1, <1>2, <1>3, <1>4, <1>5, <1>6, <1>7, <1>8, <1>9,
     <1>10, <1>11, <1>12, <1>13, <1>14 DEF ContainerCommand, StorageCommand

(* Commands do not touch the storages.                                        *)
LEMMA CommandsAreQuiet ==
    ASSUME Typed, ContainerCommand \/ StorageCommand
    PROVE  UNCHANGED <<files, half>> /\ todo = << >> /\ todo' = << >>
<1>1. Command \/ \E o \in Objects : Corrupt(o)
  BY CommandsBegin
<1>2. pc = "idle" /\ UNCHANGED <<files, half, todo>>
  BY <1>1 DEF Command, Corrupt, control
<1> QED
  BY <1>2 DEF Typed, JobTyped

(* The steps of the publisher keep the invariant, unless a removal fails.       *)
LEMMA PublisherCopies ==
    ASSUME CopiesInv, faults \in Nat, faults' = 0 \/ "remove" \notin FaultKinds, PublisherStep
    PROVE  CopiesInv'
<1>1. ASSUME NEW down, CheckPublished(down) \/ Scan(down) \/ UpdateCache(down) \/ ListUnpublished(down)
                       \/ RemoveFromCache(down)
      PROVE  CopiesInv'
  <2>1. Typed'
    BY <1>1, CheckTyped, ScanTyped, PublisherTyped DEF CopiesInv
  <2>2. pc # "child" /\ UNCHANGED files /\ todo' \in {todo, << >>}
    BY <1>1 DEF CheckPublished, Scan, UpdateCache, ListUnpublished, RemoveFromCache
  <2> QED
    BY <2>1, <2>2, QuietStep DEF CopiesInv, Typed, JobTyped
<1>2. CASE StartChild
  BY <1>2, UpdateStarts
<1>3. ASSUME NEW op, ChildStep(op) PROVE CopiesInv'
  BY <1>3, RemovingStep, WritingStep
<1>4. CASE CommandFails
  <2>1. pc = "child" => job.mode # "unpublish"
    <3>1. "remove" \notin FaultKinds
      BY <1>4 DEF CommandFails
    <3> QED
      BY <1>4, <3>1 DEF CommandFails
  <2>2. todo' = << >> /\ UNCHANGED files
    BY <1>4 DEF CommandFails
  <2>3. Findable'
    BY <2>1, <2>2, FindableStays DEF CopiesInv, Unpublishing
  <2>4. Typed'
    BY <1>4, PublisherTyped DEF CopiesInv
  <2> QED
    BY <2>2, <2>3, <2>4 DEF CopiesInv, Working
<1>5. CASE ChildDone
  <2>1. todo' = << >> /\ UNCHANGED files
    BY <1>5 DEF ChildDone
  <2>2. Findable'
    BY <1>5, <2>1, UpdateEnds, FindableStays DEF CopiesInv, Unpublishing
  <2>3. Typed'
    BY <1>5, ChildDoneTyped DEF CopiesInv
  <2> QED
    BY <2>1, <2>2, <2>3 DEF CopiesInv, Working
<1>6. CASE Updated
  <2>1. Typed'
    BY <1>6, PublisherTyped DEF CopiesInv
  <2> QED
    BY <1>6, <2>1, QuietStep DEF Updated
<1>7. CASE RemoveCatalogEntry \/ Unlink
  <2>1. Typed'
    BY <1>7, DeletionTyped DEF CopiesInv
  <2>2. pc # "child" /\ UNCHANGED <<files, todo>>
    BY <1>7 DEF RemoveCatalogEntry, Unlink
  <2> QED
    BY <2>1, <2>2, QuietStep DEF CopiesInv, Typed, JobTyped
<1>8. ASSUME NEW op, WriteBreaks(op) PROVE CopiesInv'
  BY <1>8, BrokenEffect
<1>9. CASE ChildUnreadable
  <2>1. Typed'
    BY <1>9, PublisherTyped DEF CopiesInv
  <2> QED
    BY <1>9, <2>1, QuietStep DEF ChildUnreadable
<1> QED
  BY <1>1, <1>2, <1>3, <1>4, <1>5, <1>6, <1>7, <1>8, <1>9 DEF PublisherStep

(* So do all steps.                                                           *)
LEMMA NextKeepsCopies ==
    ASSUME CopiesInv, faults \in Nat, faults' = 0 \/ "remove" \notin FaultKinds, [Next]_vars
    PROVE  CopiesInv'
<1>1. CASE ContainerCommand \/ StorageCommand
  <2>1. Typed' /\ UNCHANGED files /\ todo = << >> /\ todo' = << >>
    BY <1>1, CommandsTyped, CommandsAreQuiet DEF CopiesInv
  <2> QED
    BY <2>1, QuietStep
<1>2. CASE PublisherStep
  BY <1>2, PublisherCopies
<1>3. CASE UNCHANGED vars
  <2>1. UNCHANGED <<manifest, standalone, entries, files, pc, job, todo>>
    BY <1>3 DEF vars, local, control
  <2>2. Typed'
    BY <2>1 DEF CopiesInv, Typed, LocalTyped, FilesTyped, JobTyped
  <2>3. Target' = Target /\ \A s, o : Copies(s, o)' = Copies(s, o) /\ OldRels(s, o)' = OldRels(s, o)
    BY <2>1 DEF Target, First, Copies, OldRels, HasChild, ManifestRels
  <2>4. Findable'
    BY <2>1, <2>3 DEF CopiesInv, Findable, Unpublishing
  <2>5. \A s, o, A : Removing(s, o, A)' <=> Removing(s, o, A)
    BY <2>1, <2>3 DEF Removing, Mine
  <2>6. \A s, o, m, A, B, C, D : Writing(s, o, m, A, B, C, D)' <=> Writing(s, o, m, A, B, C, D)
    BY <2>1, <2>3 DEF Writing, InOrder, Written, Left, Mine, ManifestRels, StorageRels
  <2>7. Working'
    BY <2>1, <2>3, <2>5, <2>6 DEF CopiesInv, Working
  <2> QED
    BY <2>2, <2>4, <2>7 DEF CopiesInv
<1> QED
  BY <1>1, <1>2, <1>3 DEF Next

(* What goes wrong is counted.                                                *)
LEMMA CostCounts ==
    ASSUME faults \in Nat, NEW down \in Outages, Cost(down)
    PROVE  faults' \in Nat /\ (faults' = 0 => faults = 0 /\ down = {})
<1>1. IsFiniteSet(down)
  BY CatalogAssumption, FS_Subset DEF Outages
<1>2. Cardinality(down) \in Nat /\ (Cardinality(down) = 0 <=> down = {})
  BY <1>1, FS_CardinalityType, FS_EmptySet
<1> QED
  BY <1>2 DEF Cost

(* It never becomes less.                                                     *)
LEMMA FaultsCounted ==
    ASSUME faults \in Nat, [Next]_vars
    PROVE  faults' \in Nat /\ (faults' = 0 => faults = 0)
<1>1. CASE ContainerCommand \/ StorageCommand
  <2>1. Command \/ \E o \in Objects : Corrupt(o)
    BY <1>1, CommandsBegin
  <2> QED
    BY <2>1 DEF Command, Corrupt
<1>2. CASE PublisherStep
  <2>1. ASSUME NEW down \in Outages, \/ CheckPublished(down) \/ Scan(down) \/ UpdateCache(down)
                                     \/ ListUnpublished(down) \/ RemoveFromCache(down)
        PROVE  faults' \in Nat /\ (faults' = 0 => faults = 0)
    BY <2>1, CostCounts DEF CheckPublished, Scan, UpdateCache, ListUnpublished, RemoveFromCache
  <2>2. ASSUME NEW op, CommandFails \/ WriteBreaks(op)
        PROVE  faults' \in Nat /\ faults' # 0
    BY <2>2 DEF CommandFails, WriteBreaks
  <2>3. ASSUME NEW op, \/ StartChild \/ ChildUnreadable \/ ChildStep(op) \/ ChildDone \/ Updated
                       \/ RemoveCatalogEntry \/ Unlink
        PROVE  faults' = faults
    BY <2>3 DEF StartChild, ChildUnreadable, ChildStep, ChildDone, Updated, RemoveCatalogEntry, Unlink, bounds
  <2> QED
    BY <1>2, <2>1, <2>2, <2>3 DEF PublisherStep
<1>3. CASE UNCHANGED vars
  BY <1>3 DEF vars, bounds
<1> QED
  BY <1>1, <1>2, <1>3 DEF Next

(* Unless removals fail, every update of a storage goes on as _update_child     *)
(* planned it, and no copy is lost.                                            *)
Calm == faults = 0 \/ "remove" \notin FaultKinds

CalmInv == faults \in Nat /\ (Calm => CopiesInv)

(* In the beginning there is no copy.                                         *)
LEMMA InitialCalm ==
    ASSUME Init
    PROVE  CalmInv
<1>1. LocalTyped /\ JobTyped
  BY CatalogAssumption DEF Init, LocalTyped, JobTyped, Places
<1>2. FilesTyped /\ \A s \in Storages : DOMAIN files[s] = {}
  BY DEF Init, FilesTyped
<1>3. Findable
  BY <1>2 DEF Findable, Copies
<1> QED
  BY <1>1, <1>2, <1>3 DEF Init, CalmInv, CopiesInv, Typed, Working

(* The invariant of the copies in the storages.                               *)
THEOREM CopiesInvariant == Spec => []CalmInv
<1>1. Init => CalmInv
  BY InitialCalm
<1>2. CalmInv /\ [Next]_vars => CalmInv'
  BY NextKeepsCopies, FaultsCounted DEF CalmInv, Calm
<1> QED
  BY <1>1, <1>2, PTL DEF Spec

(* Between commands, every copy of a manifest is among the paths of the copy at *)
(* the uuid path, where the next publish or unpublish looks for what to remove, *)
(* unless that copy itself is one whose write broke off: without failing        *)
(* removals, _remove_old_paths loses nothing else, wherever writes of           *)
(* _create_new_paths fail or break off.                                        *)
THEOREM NothingOrphaned ==
    ASSUME "remove" \notin FaultKinds
    PROVE  Spec => []NoOrphans
<1>1. CalmInv => NoOrphans
  BY DEF CalmInv, Calm, CopiesInv, Findable, Unpublishing, NoOrphans
<1> QED
  BY <1>1, CopiesInvariant, PTL

(* A file of the container that is half-written will be written by the update   *)
(* that is under way.                                                         *)
Rewrites ==
    pc = "child" /\ todo # << >> /\ job.mode # "unpublish" =>
        \A r \in ManifestRels(Target, job.obj, job.man) \union StorageRels(Target, job.obj, job.man) :
            <<Target, r>> \in half => \E i \in DOMAIN todo : WriteOf(r, job.obj, job.man) \in todo[i]

(* Every step keeps that.                                                     *)
LEMMA RewritesStay ==
    ASSUME Typed, Rewrites, [Next]_vars
    PROVE  Rewrites'
<1>1. CASE ContainerCommand \/ StorageCommand
  BY <1>1, CommandsAreQuiet DEF Rewrites
<1>2. ASSUME NEW down, CheckPublished(down) \/ Scan(down) \/ UpdateCache(down) \/ ListUnpublished(down)
                       \/ RemoveFromCache(down)
      PROVE  Rewrites'
  <2>1. todo' = << >>
    BY <1>2 DEF CheckPublished, Scan, UpdateCache, ListUnpublished, RemoveFromCache, Typed, JobTyped
  <2> QED
    BY <2>1 DEF Rewrites
<1>3. ASSUME NEW op, \/ ChildUnreadable \/ WriteBreaks(op) \/ CommandFails \/ ChildDone \/ Updated
                     \/ RemoveCatalogEntry \/ Unlink
      PROVE  Rewrites'
  <2>1. todo' = << >>
    BY <1>3 DEF ChildUnreadable, WriteBreaks, CommandFails, ChildDone, Updated, RemoveCatalogEntry, Unlink,
           Typed, JobTyped
  <2> QED
    BY <2>1 DEF Rewrites
<1>4. CASE StartChild
  <2>1. /\ UNCHANGED <<pc, job, standalone, half>>
        /\ todo' = UpdateChild(Target, job.obj, job.man, job.mode = "unpublish")
    BY <1>4, Zenon DEF StartChild, local
  <2>2. PICK s, o, m : s = Target /\ o = job.obj /\ m = job.man
    OBVIOUS
  <2>3. ASSUME job.mode # "unpublish", NEW r \in ManifestRels(s, o, m) \union StorageRels(s, o, m)
        PROVE  \E i \in DOMAIN todo' : WriteOf(r, o, m) \in todo'[i]
    <3>1. PICK a, b, c, d : /\ b = Writes(StorageRels(s, o, m), o, m) /\ c = Writes({Rel(s, o, o)}, o, m)
                            /\ d = Writes(ManifestRels(s, o, m) \ {Rel(s, o, o)}, o, m)
                            /\ todo' = <<a, b, c, d>>
      BY <2>1, <2>2, <2>3 DEF UpdateChild
    <3>2. WriteOf(r, o, m) \in b \/ WriteOf(r, o, m) \in c \/ WriteOf(r, o, m) \in d
      BY <3>1 DEF Writes, WriteOf, Copy
    <3> QED
      BY <3>1, <3>2
  <2>4. /\ Target' = Target /\ job' = job
        /\ ManifestRels(s, o, m)' = ManifestRels(s, o, m) /\ StorageRels(s, o, m)' = StorageRels(s, o, m)
    BY <2>1 DEF Target, First, ManifestRels, StorageRels
  <2> QED
    BY <2>2, <2>3, <2>4 DEF Rewrites
<1>5. ASSUME NEW op, ChildStep(op) PROVE Rewrites'
  <2>1. /\ pc = "child" /\ UNCHANGED <<pc, job, standalone>> /\ half' = half \ {<<Target, op.rel>>}
    BY <1>5 DEF ChildStep, local
  <2>2. PICK i \in DOMAIN todo : op \in todo[i] /\ todo' = [todo EXCEPT ![i] = @ \ {op}]
    BY <1>5, Zenon DEF ChildStep
  <2>3. PICK s, o, m : s = Target /\ o = job.obj /\ m = job.man
    OBVIOUS
  <2>4. /\ Target' = Target /\ job' = job
        /\ ManifestRels(s, o, m)' = ManifestRels(s, o, m) /\ StorageRels(s, o, m)' = StorageRels(s, o, m)
    BY <2>1 DEF Target, First, ManifestRels, StorageRels
  <2>5. ASSUME job.mode # "unpublish", NEW r \in ManifestRels(s, o, m) \union StorageRels(s, o, m),
               <<s, r>> \in half'
        PROVE  \E j \in DOMAIN todo' : WriteOf(r, o, m) \in todo'[j]
    <3>1. r # op.rel /\ <<s, r>> \in half
      BY <2>1, <2>3, <2>5
    <3>2. WriteOf(r, o, m).rel = r
      BY DEF WriteOf
    <3>3. todo # << >>
      BY <2>2
    <3>4. PICK j \in DOMAIN todo : WriteOf(r, o, m) \in todo[j]
      BY <2>1, <2>3, <2>5, <3>1, <3>3 DEF Rewrites
    <3>5. WriteOf(r, o, m) # op
      BY <3>1, <3>2
    <3>6. j \in DOMAIN todo' /\ WriteOf(r, o, m) \in todo'[j]
      BY <2>2, <3>4, <3>5
    <3> QED
      BY <3>6
  <2> QED
    BY <2>3, <2>4, <2>5 DEF Rewrites
<1>6. CASE UNCHANGED vars
  BY <1>6 DEF vars, local, control, Rewrites, Target, First, ManifestRels, StorageRels
<1> QED
  BY <1>1, <1>2, <1>3, <1>4, <1>5, <1>6 DEF Next, PublisherStep

(* An update of a storage that ends leaves exactly the copies that the manifest *)
(* asks for, whole ones, whichever publishes failed before, and wherever their   *)
(* writes broke off: what FileChildrenMixin's _update_child promises.           *)
THEOREM UpdatesAreExact ==
    ASSUME "remove" \notin FaultKinds
    PROVE  Spec => UpdateIsExact
<1>1. Init => Rewrites
  BY DEF Init, Rewrites
<1>2. CalmInv => Typed
  BY DEF CalmInv, Calm, CopiesInv
<1>3. Rewrites /\ Typed /\ [Next]_vars => Rewrites'
  BY RewritesStay
<1>4. CalmInv /\ Rewrites =>
        (ChildDone =>
          LET s == Target
              o == job.obj
          IN  IF job.mode = "unpublish"
              THEN Copies(s, o) = {}
              ELSE /\ Copies(s, o) = ManifestRels(s, o, job.man)
                   /\ \A r \in Copies(s, o) : files[s][r].man = job.man
                   /\ StorageRels(s, o, job.man) \subseteq DOMAIN files[s]
                   /\ \A r \in Copies(s, o) \union StorageRels(s, o, job.man) :
                         <<s, r>> \notin half)
  <2> SUFFICES ASSUME CalmInv, Rewrites, ChildDone
               PROVE  LET s == Target
                          o == job.obj
                      IN  IF job.mode = "unpublish"
                          THEN Copies(s, o) = {}
                          ELSE /\ Copies(s, o) = ManifestRels(s, o, job.man)
                               /\ \A r \in Copies(s, o) : files[s][r].man = job.man
                               /\ StorageRels(s, o, job.man) \subseteq DOMAIN files[s]
                               /\ \A r \in Copies(s, o) \union StorageRels(s, o, job.man) :
                                     <<s, r>> \notin half
    OBVIOUS
  <2>1. CopiesInv
    BY DEF CalmInv, Calm
  <2>2. pc = "child" /\ todo # << >> /\ \A i \in DOMAIN todo : todo[i] = {}
    BY DEF ChildDone, Unfinished
  <2>3. job.mode # "unpublish" =>
          \A r \in ManifestRels(Target, job.obj, job.man) \union StorageRels(Target, job.obj, job.man) :
              <<Target, r>> \notin half
    BY <2>2 DEF Rewrites
  <2> QED
    BY <2>1, <2>3, UpdateEnds
<1> QED
  BY <1>1, <1>2, <1>3, <1>4, CopiesInvariant, PTL DEF UpdateIsExact, Spec

-----------------------------------------------------------------------------
(* A deletion leaves no copy. *)

(* No container that a user has is in the catalog with storages of its own:     *)
(* otherwise what it offers is gone when its manifest is deleted first.         *)
RemoteCatalog == \A o \in Objects : StoragesOf[o] = << >>

(* The storages that the catalog offers when none is down.                    *)
Offering == {Offered(entries[i], {}, TRUE) : i \in DOMAIN entries} \ {None}

(* A copy lies where the next request looks for it.                           *)
Reached ==
    /\ half = {}
    /\ \A s \in Storages : DOMAIN files[s] # {} => s \in Offering
    /\ pc = "child" => \A i \in DOMAIN job.targets : job.targets[i] \in Offering
    /\ pc = "child" /\ job.mode = "unpublish" =>
          \A s \in Storages : Copies(s, job.obj) # {} => \E i \in DOMAIN job.targets : job.targets[i] = s
    /\ pc \in {"cache", "uncache", "disown", "unlink"} /\ job.mode = "unpublish" =>
          \A s \in Storages : Copies(s, job.obj) = {}

ReachedInv == CalmInv /\ (faults = 0 => Reached)

(* A request that finds no storage down goes to those.                         *)
LEMMA FoundIsOffering ==
    ASSUME Typed
    PROVE  LET found == CatalogStorages({}, TRUE)
           IN  /\ \A i \in DOMAIN found : found[i] \in Offering
               /\ \A s \in Offering : \E i \in DOMAIN found : found[i] = s
  BY DEF CatalogStorages, Offering

(* Entries of containers that the user has no manifest of are not removed.      *)
LEMMA EntriesStay ==
    ASSUME Typed, [Next]_vars, NEW i \in DOMAIN entries, entries[i] \in Remote
    PROVE  \E k \in DOMAIN entries' : entries'[k] = entries[i]
<1>1. UNCHANGED entries \/ (\E o \in Objects : entries' = Append(entries, o)) \/ RemoveCatalogEntry
  <2>1. CASE ContainerCommand
    <3>1. ASSUME NEW o \in Objects, NEW ps, NEW attach, NEW publish, Create(o, ps, attach, publish)
          PROVE  UNCHANGED entries \/ entries' = Append(entries, o)
      BY <3>1 DEF Create
    <3>2. ASSUME NEW o \in Objects,
                 \/ \E src \in Objects, bs \in SUBSET Backends : Duplicate(src, o, bs)
                 \/ \E b \in Backends : Update(o, b)
                 \/ \E publish \in BOOLEAN : CreateFromTemplate(o, publish)
                 \/ \E add, del \in SUBSET Paths, bs \in SUBSET Backends, flag \in Flags :
                        Modify(o, add, del, bs, flag)
                 \/ \E m \in Man, flag \in Flags : Edit(o, m, flag)
                 \/ \E old \in Fetched(o), m \in Man, flag \in Flags : ModifyRemote(o, old, m, flag)
                 \/ Publish(o)
                 \/ Unpublish(o)
                 \/ \E force, cascade, unpublish \in BOOLEAN : Delete(o, force, cascade, unpublish)
                 \/ DeleteForce(o)
                 \/ Mount(o)
                 \/ Corrupt(o)
          PROVE  UNCHANGED entries
      BY <3>2 DEF Duplicate, Update, CreateFromTemplate, Modify, Edit, ModifyRemote, Publish, Unpublish, Delete,
             DeleteForce, Mount, Corrupt, local
    <3> QED
      BY <2>1, <3>1, <3>2 DEF ContainerCommand
  <2>2. CASE StorageCommand
    BY <2>2 DEF StorageCommand, CreateStorage, DeleteStorage
  <2>3. CASE PublisherStep
    <3>1. ASSUME NEW down, CheckPublished(down) \/ Scan(down) \/ UpdateCache(down) \/ ListUnpublished(down)
                           \/ RemoveFromCache(down)
          PROVE  UNCHANGED entries
      BY <3>1 DEF CheckPublished, Scan, UpdateCache, ListUnpublished, RemoveFromCache, local
    <3>2. ASSUME NEW op, \/ StartChild \/ ChildUnreadable \/ ChildStep(op) \/ WriteBreaks(op)
                         \/ CommandFails \/ ChildDone \/ Updated \/ Unlink
          PROVE  UNCHANGED entries
      BY <3>2 DEF StartChild, ChildUnreadable, ChildStep, WriteBreaks, CommandFails, ChildDone, Updated,
             Unlink, local
    <3> QED
      BY <2>3, <3>1, <3>2 DEF PublisherStep
  <2>4. CASE UNCHANGED vars
    BY <2>4 DEF vars, local
  <2> QED
    BY <2>1, <2>2, <2>3, <2>4 DEF Next
<1>2. CASE UNCHANGED entries
  BY <1>2
<1>3. ASSUME NEW o \in Objects, entries' = Append(entries, o)
      PROVE  \E k \in DOMAIN entries' : entries'[k] = entries[i]
  BY <1>3 DEF Typed, LocalTyped
<1>4. CASE RemoveCatalogEntry
  <2>1. /\ pc = "disown"
        /\ LET at == {j \in DOMAIN entries : entries[j] = job.obj}
           IN  entries' = IF at = {} THEN entries ELSE RemoveAt(entries, Min(at))
    BY <1>4 DEF RemoveCatalogEntry
  <2>2. entries[i] # job.obj
    BY <2>1, CatalogAssumption DEF Typed, JobTyped
  <2> QED
    BY <2>1, <2>2, EntryGoes DEF Typed
<1> QED
  BY <1>1, <1>2, <1>3, <1>4

(* A storage that a container of the catalog offers stays offered.             *)
LEMMA OfferStays ==
    ASSUME RemoteCatalog, Typed, [Next]_vars, NEW writable, NEW i \in DOMAIN entries,
           Offered(entries[i], {}, writable) # None
    PROVE  \E k \in DOMAIN entries' : Offered(entries[k], {}, writable)' = Offered(entries[i], {}, writable)
<1>1. ASSUME NEW c \in Remote PROVE Offered(c, {}, writable)' = Offered(c, {}, writable)
  <2>1. c \notin Objects
    BY CatalogAssumption
  <2> QED
    BY <2>1 DEF Offered
<1>2. ASSUME NEW c \in Objects PROVE Offered(c, {}, writable) = None
  <2>1. StoragesOf[c] = << >> /\ DOMAIN StoragesOf[c] = {}
    BY DEF RemoteCatalog
  <2> QED
    BY <2>1 DEF Offered
<1>3. PICK c : c = entries[i]
  OBVIOUS
<1>4. entries[i] \in Objects \union Remote
  BY DEF Typed, LocalTyped
<1>5. c \in Remote
  BY <1>2, <1>3, <1>4
<1>6. PICK k \in DOMAIN entries' : entries'[k] = c
  BY <1>3, <1>5, EntriesStay
<1>7. Offered(c, {}, writable)' = Offered(entries[i], {}, writable)
  BY <1>1, <1>3, <1>5
<1>8. Offered(c, {}, writable)' = Offered(entries[k], {}, writable)'
  BY <1>6, Zenon
<1> QED
  BY <1>6, <1>7, <1>8

(* What is offered stays so.                                                  *)
LEMMA OfferingStays ==
    ASSUME RemoteCatalog, Typed, [Next]_vars
    PROVE  Offering \subseteq Offering'
BY OfferStays DEF Offering

(* A step that touches no file, and asks for nothing that is not asked already. *)
LEMMA ReachedStays ==
    ASSUME RemoteCatalog, Typed, [Next]_vars, Reached, UNCHANGED <<files, half>>, pc' # "child",
           \/ pc' \in {"idle", "check", "scan", "list"}
           \/ job'.mode # "unpublish"
           \/ /\ job'.obj = job.obj
              /\ \A s \in Storages : Copies(s, job.obj) = {}
    PROVE  Reached'
<1>1. \A s \in Storages : DOMAIN files'[s] # {} => s \in Offering'
  BY OfferingStays DEF Reached
<1>2. ASSUME job'.obj = job.obj, \A s \in Storages : Copies(s, job.obj) = {}
      PROVE  \A s \in Storages : Copies(s, job.obj)' = {}
  BY <1>2 DEF Copies
<1> QED
  BY <1>1, <1>2 DEF Reached

(* Commands ask for nothing that they have not looked for.                     *)
LEMMA CommandsReach ==
    ASSUME RemoteCatalog, Typed, Typed', faults \in Nat, faults' = 0, Reached, ContainerCommand \/ StorageCommand
    PROVE  Reached'
<1>1. UNCHANGED files /\ pc' # "child" /\ (pc' \in {"idle", "check", "scan", "list"} \/ job'.mode # "unpublish")
  <2>1. CASE StorageCommand
    BY <2>1 DEF StorageCommand, CreateStorage, DeleteStorage, StoragesFromTemplates, Ask, Finish, Command
  <2>2. CASE ContainerCommand
    <3>1. ASSUME NEW o \in Objects, NEW force, NEW cascade, NEW unpublish, Delete(o, force, cascade, unpublish)
          PROVE  /\ UNCHANGED files /\ pc' # "child"
                 /\ pc' \in {"idle", "check", "scan", "list"} \/ job'.mode # "unpublish"
      BY <3>1, NoneAssumption DEF Delete, Ask, Finish, Command, Idle
    <3>2. ASSUME NEW o \in Objects, Corrupt(o) PROVE FALSE
      BY <3>2 DEF Corrupt
    <3>3. ASSUME NEW o \in Objects,
                 \/ \E ps \in SUBSET Paths, attach, publish \in BOOLEAN : Create(o, ps, attach, publish)
                 \/ \E src \in Objects, bs \in SUBSET Backends : Duplicate(src, o, bs)
                 \/ \E b \in Backends : Update(o, b)
                 \/ \E publish \in BOOLEAN : CreateFromTemplate(o, publish)
                 \/ Publish(o)
                 \/ Unpublish(o)
                 \/ DeleteForce(o)
                 \/ Mount(o)
          PROVE  UNCHANGED files /\ pc' \in {"idle", "check", "scan", "list"}
      BY <3>3 DEF Create, Duplicate, Update, CreateFromTemplate, StoragesFromTemplates, Publish, Unpublish,
             AskPublishable, DeleteForce, Mount, Ask, AskFetched, Finish, Command
    <3>4. ASSUME NEW o \in Objects,
                 \/ \E add, del \in SUBSET Paths, bs \in SUBSET Backends, flag \in Flags :
                        Modify(o, add, del, bs, flag)
                 \/ \E m \in Man, flag \in Flags : Edit(o, m, flag)
                 \/ \E old \in Fetched(o), m \in Man, flag \in Flags : ModifyRemote(o, old, m, flag)
          PROVE  UNCHANGED files /\ pc' \in {"idle", "check", "scan", "list"}
      BY <3>4 DEF Modify, Edit, ModifyRemote, Ask, AskFetched, Finish, Command
    <3> QED
      BY <2>2, <3>1, <3>2, <3>3, <3>4 DEF ContainerCommand
  <2> QED
    BY <2>1, <2>2
<1>2. [Next]_vars /\ UNCHANGED half
  BY CommandsAreQuiet DEF Next
<1> QED
  BY <1>1, <1>2, ReachedStays

(* A request goes to every storage that may have a copy.                       *)
LEMMA ScanReaches ==
    ASSUME RemoteCatalog, Typed, faults \in Nat, faults' = 0, Reached, NEW down \in Outages, Scan(down)
    PROVE  Reached'
<1>1. [Next]_vars
  BY DEF Next, PublisherStep
<1>2. down = {}
  BY CostCounts DEF Scan
<1>3. PICK found : found = CatalogStorages({}, TRUE)
  OBVIOUS
<1>4. (\A i \in DOMAIN found : found[i] \in Offering) /\ (\A s \in Offering : \E i \in DOMAIN found : found[i] = s)
  BY <1>3, FoundIsOffering
<1>5. UNCHANGED <<files, half>> /\ pc = "scan" /\ job.mode \in {"publish", "unpublish", "republish"}
  BY DEF Scan, Typed, JobTyped
<1>6. \/ found = << >> /\ PublisherRaises
      \/ Finish
      \/ pc' = "child" /\ \E chosen :
            /\ job' = [job EXCEPT !.targets = chosen]
            /\ job.mode = "unpublish" => chosen = found
            /\ \A i \in DOMAIN chosen : i \in DOMAIN found /\ chosen[i] = found[i]
  <2>1. PICK chosen : chosen = CASE job.mode = "publish" -> PublishTargets(found)
                                 [] job.mode = "unpublish" -> UnpublishTargets(found)
                                 [] job.mode = "republish" -> RepublishTargets(found, job.obj)
    OBVIOUS
  <2>2. (CASE found = << >> /\ job.mode # "republish" -> PublisherRaises
           [] chosen = << >> /\ job.mode = "republish" -> Finish
           [] OTHER -> pc' = "child" /\ job' = [job EXCEPT !.targets = chosen])
    BY <1>2, <1>3, <2>1, Zenon DEF Scan
  <2>3. \/ found = << >> /\ PublisherRaises
        \/ Finish
        \/ /\ found # << >> \/ job.mode = "republish"
           /\ pc' = "child" /\ job' = [job EXCEPT !.targets = chosen]
    BY <2>2
  <2>4. job.mode = "unpublish" => chosen = found
    BY <2>1 DEF UnpublishTargets
  <2>5. ASSUME found # << >> \/ job.mode = "republish"
        PROVE  \A i \in DOMAIN chosen : i \in DOMAIN found /\ chosen[i] = found[i]
    <3>1. CASE job.mode = "publish"
      <4>1. DOMAIN found \subseteq Nat /\ found \in [DOMAIN found -> Storages]
        BY <1>3, FoundTyped DEF Typed
      <4>2. DOMAIN found # {}
        BY <2>5, <3>1, <4>1
      <4>3. Min(DOMAIN found) \in DOMAIN found
        BY <4>1, <4>2, MinIsLeast
      <4> QED
        BY <2>1, <3>1, <4>3 DEF PublishTargets, Restrict
    <3>2. CASE job.mode = "unpublish"
      BY <2>4, <3>2
    <3>3. CASE job.mode = "republish"
      BY <2>1, <3>3 DEF RepublishTargets, Restrict
    <3> QED
      BY <1>5, <3>1, <3>2, <3>3
  <2> QED
    BY <2>3, <2>4, <2>5
<1>7. CASE found = << >> /\ PublisherRaises
  <2>1. Offering = {}
    BY <1>4, <1>7
  <2>2. \A s \in Storages : Copies(s, job.obj) = {}
    BY <2>1 DEF Reached, Copies
  <2>3. pc' # "child" /\ (pc' = "idle" \/ job'.obj = job.obj)
    BY <1>7 DEF PublisherRaises, Finish
  <2> QED
    BY <1>1, <1>5, <2>2, <2>3, ReachedStays
<1>8. CASE Finish
  BY <1>1, <1>5, <1>8, ReachedStays DEF Finish
<1>9. ASSUME pc' = "child", NEW chosen, job' = [job EXCEPT !.targets = chosen],
             job.mode = "unpublish" => chosen = found,
             \A i \in DOMAIN chosen : i \in DOMAIN found /\ chosen[i] = found[i]
      PROVE  Reached'
  <2>1. job'.targets = chosen /\ job'.mode = job.mode /\ job'.obj = job.obj
    BY <1>5, <1>9 DEF Typed, JobTyped, Idle
  <2>2. Offering \subseteq Offering'
    BY <1>1, OfferingStays
  <2>3. \A s \in Storages : DOMAIN files'[s] # {} => s \in Offering'
    BY <1>5, <2>2 DEF Reached
  <2>4. \A i \in DOMAIN chosen : chosen[i] \in Offering'
    BY <1>4, <1>9, <2>2
  <2>5. ASSUME job.mode = "unpublish", NEW s \in Storages, Copies(s, job.obj)' # {}
        PROVE  \E i \in DOMAIN chosen : chosen[i] = s
    <3>1. DOMAIN files[s] # {}
      BY <1>5, <2>5 DEF Copies
    <3> QED
      BY <1>4, <1>9, <2>5, <3>1 DEF Reached
  <2>6. half' = {}
    BY <1>5 DEF Reached
  <2> QED
    BY <1>9, <2>1, <2>3, <2>4, <2>5, <2>6 DEF Reached
<1> QED
  BY <1>6, <1>7, <1>8, <1>9

(* An update touches the storage that is asked only, and an unpublish adds     *)
(* nothing.                                                                   *)
LEMMA ChildReaches ==
    ASSUME RemoteCatalog, CopiesInv, Reached, NEW op, ChildStep(op), [Next]_vars
    PROVE  Reached'
<1>1. /\ pc = "child" /\ todo # << >> /\ UNCHANGED <<pc, job>>
      /\ files' = [files EXCEPT ![Target] = Apply(@, op)]
      /\ half' = half \ {<<Target, op.rel>>}
  BY DEF ChildStep
<1>2. PICK s, o : s = Target /\ o = job.obj
  OBVIOUS
<1>3. DOMAIN job.targets # {} /\ (job.mode = "unpublish" => \E A : Removing(s, o, A))
  BY <1>1, <1>2 DEF CopiesInv, Working
<1>4. s \in Storages /\ o \in Objects
  BY <1>1, <1>2, <1>3, TargetIsStorage DEF CopiesInv, Typed
<1>5. \A t \in Storages \ {s} : files'[t] = files[t]
  BY <1>1, <1>2 DEF CopiesInv, Typed, FilesTyped
<1>6. First \in DOMAIN job.targets
  BY <1>1, <1>3, MinIsLeast DEF First, CopiesInv, Typed, JobTyped
<1>7. \E i \in DOMAIN job.targets : job.targets[i] = s
  BY <1>2, <1>6 DEF Target
<1>8. Offering \subseteq Offering'
  BY OfferingStays DEF CopiesInv
<1>9. \A t \in Storages : DOMAIN files'[t] # {} => t \in Offering'
  BY <1>1, <1>5, <1>7, <1>8 DEF Reached
<1>10. \A t \in Storages \ {s} : Copies(t, job.obj)' = Copies(t, job.obj)
  BY <1>1, <1>5 DEF Copies
<1> QED
  BY <1>1, <1>7, <1>8, <1>9, <1>10 DEF Reached

(* After an update, the copies are where the request goes next.                *)
LEMMA DoneReaches ==
    ASSUME RemoteCatalog, CopiesInv, Reached, ChildDone, [Next]_vars
    PROVE  Reached'
<1>1. /\ pc = "child" /\ pc' = pc /\ UNCHANGED <<files, half>>
      /\ job' = [job EXCEPT !.targets = Others]
  BY DEF ChildDone
<1>2. job'.targets = Others /\ job'.mode = job.mode /\ job'.obj = job.obj
  BY <1>1 DEF CopiesInv, Typed, JobTyped, Idle
<1>3. DOMAIN Others = DOMAIN job.targets \ {First} /\ \A i \in DOMAIN Others : Others[i] = job.targets[i]
  BY DEF Others, Restrict
<1>4. Offering \subseteq Offering'
  BY OfferingStays DEF CopiesInv
<1>5. \A s \in Storages : Copies(s, job.obj)' = Copies(s, job.obj)
  BY <1>1, <1>2 DEF Copies
<1>6. job.mode = "unpublish" => Copies(Target, job.obj) = {}
  BY UpdateEnds
<1>7. ASSUME job.mode = "unpublish", NEW s \in Storages, Copies(s, job.obj) # {}
      PROVE  \E i \in DOMAIN Others : Others[i] = s
  <2>1. PICK i \in DOMAIN job.targets : job.targets[i] = s
    BY <1>1, <1>7 DEF Reached
  <2>2. i # First
    BY <1>6, <1>7, <2>1 DEF Target
  <2> QED
    BY <1>3, <2>1, <2>2
<1>8. \A s \in Storages : DOMAIN files'[s] # {} => s \in Offering'
  BY <1>1, <1>4 DEF Reached
<1>9. \A i \in DOMAIN Others : Others[i] \in Offering'
  BY <1>1, <1>3, <1>4 DEF Reached
<1> QED
  BY <1>1, <1>2, <1>5, <1>7, <1>8, <1>9 DEF Reached

(* The publisher, as long as nothing fails.                                   *)
LEMMA PublisherReaches ==
    ASSUME RemoteCatalog, CopiesInv, faults \in Nat, faults' = 0, Reached, PublisherStep
    PROVE  Reached'
<1>0. [Next]_vars /\ Typed
  BY DEF Next, CopiesInv
<1>1. ASSUME NEW down \in Outages, CheckPublished(down) \/ ListUnpublished(down) PROVE Reached'
  <2>1. UNCHANGED <<files, half>> /\ pc' \in {"scan", "idle"}
    BY <1>1 DEF CheckPublished, RepublishObject, PublishObject, ListUnpublished, Finish
  <2> QED
    BY <1>0, <2>1, ReachedStays
<1>2. ASSUME NEW down \in Outages, Scan(down) PROVE Reached'
  BY <1>0, <1>2, ScanReaches
<1>3. ASSUME NEW down \in Outages, UpdateCache(down) \/ RemoveFromCache(down) PROVE Reached'
  <2>1. /\ UNCHANGED <<files, half>> /\ pc' # "child" /\ pc \in {"cache", "uncache"}
        /\ pc' = "idle" \/ job' = job
    BY <1>3 DEF UpdateCache, RemoveFromCache, Finish
  <2> QED
    BY <1>0, <2>1, ReachedStays DEF Reached
<1>4. CASE StartChild
  <2>1. UNCHANGED <<files, half, pc, job>> /\ pc = "child"
    BY <1>4 DEF StartChild
  <2>2. Offering \subseteq Offering'
    BY <1>0, OfferingStays
  <2>3. \A s \in Storages : Copies(s, job.obj)' = Copies(s, job.obj)
    BY <2>1 DEF Copies
  <2> QED
    BY <2>1, <2>2, <2>3 DEF Reached
<1>5. ASSUME NEW op, ChildStep(op) PROVE Reached'
  BY <1>0, <1>5, ChildReaches
<1>6. CASE CommandFails
  BY <1>6 DEF CommandFails
<1>7. CASE ChildDone
  BY <1>0, <1>7, DoneReaches
<1>8. CASE Updated
  <2>1. /\ UNCHANGED <<files, half, job>> /\ pc' # "child" /\ pc = "child" /\ job.targets = << >>
    BY <1>8 DEF Updated
  <2>2. DOMAIN job.targets = {}
    BY <2>1
  <2> QED
    BY <1>0, <2>1, <2>2, ReachedStays DEF Reached
<1>9. CASE RemoveCatalogEntry \/ Unlink
  <2>1. /\ UNCHANGED <<files, half>> /\ pc' # "child" /\ pc \in {"disown", "unlink"}
        /\ pc' = "idle" \/ job' = job
    BY <1>9 DEF RemoveCatalogEntry, Unlink, Finish
  <2> QED
    BY <1>0, <2>1, ReachedStays DEF Reached
<1>10. CASE ChildUnreadable
  BY <1>10 DEF ChildUnreadable, IsUnreadable, Reached
<1>11. ASSUME NEW op, WriteBreaks(op) PROVE Reached'
  BY <1>11 DEF WriteBreaks
<1> QED
  BY <1>1, <1>2, <1>3, <1>4, <1>5, <1>6, <1>7, <1>8, <1>9, <1>10, <1>11 DEF PublisherStep

(* Without failures, wl container delete takes a container out of every storage *)
(* that it was published in before it removes the local manifest.              *)
THEOREM DeletionIsComplete ==
    ASSUME RemoteCatalog
    PROVE  Spec => DeleteUnpublishes
<1>1. Init => ReachedInv
  <2> SUFFICES ASSUME Init PROVE ReachedInv
    OBVIOUS
  <2>1. CalmInv
    BY InitialCalm
  <2>2. Reached
    BY DEF Init, Reached
  <2> QED
    BY <2>1, <2>2 DEF ReachedInv
<1>2. ReachedInv /\ [Next]_vars => ReachedInv'
  <2> SUFFICES ASSUME ReachedInv, [Next]_vars PROVE ReachedInv'
    OBVIOUS
  <2>1. CalmInv' /\ faults \in Nat /\ faults' \in Nat /\ (faults' = 0 => faults = 0)
    BY NextKeepsCopies, FaultsCounted DEF ReachedInv, CalmInv, Calm
  <2>2. ASSUME faults' = 0 PROVE Reached'
    <3>1. Reached /\ CopiesInv /\ CopiesInv'
      BY <2>1, <2>2 DEF ReachedInv, CalmInv, Calm
    <3>2. CASE ContainerCommand \/ StorageCommand
      BY <2>1, <2>2, <3>1, <3>2, CommandsReach DEF CopiesInv
    <3>3. CASE PublisherStep
      BY <2>1, <2>2, <3>1, <3>3, PublisherReaches
    <3>4. CASE UNCHANGED vars
      <4>1. UNCHANGED <<files, half, pc, job>>
        BY <3>4 DEF vars, control
      <4>2. Offering \subseteq Offering'
        BY <3>1, OfferingStays DEF CopiesInv
      <4>3. \A s \in Storages : Copies(s, job.obj)' = Copies(s, job.obj)
        BY <4>1 DEF Copies
      <4> QED
        BY <3>1, <4>1, <4>2, <4>3 DEF Reached
    <3> QED
      BY <3>2, <3>3, <3>4 DEF Next
  <2> QED
    BY <2>1, <2>2 DEF ReachedInv
<1>3. ReachedInv =>
        (Unlink /\ job.mode = "unpublish" /\ faults = 0 =>
            \A s \in Storages \ ReadOnly : Copies(s, job.obj) = {})
  BY DEF ReachedInv, Reached, Unlink
<1> QED
  BY <1>1, <1>2, <1>3, PTL DEF Spec, DeleteUnpublishes

-----------------------------------------------------------------------------
(* Nothing that is not published is hidden. *)

(* Of each container's storages only the first that takes manifests can be      *)
(* written to: is_published and publish then speak of the same storage.         *)
OneWritable ==
    \A c \in Objects \union Remote : \A i, j \in DOMAIN StoragesOf[c] :
        /\ Pattern[StoragesOf[c][i]] # "none" /\ Pattern[StoragesOf[c][j]] # "none"
        /\ StoragesOf[c][j] \notin ReadOnly
        => j <= i

(* File times differ, and neither removals nor deletions fail half way: each of *)
(* the three hides a container.                                               *)
Reliable == Outcomes \subseteq {FALSE} /\ "remove" \notin FaultKinds /\ "delete" \notin FaultKinds

(* The storages that are asked whether a container is published.               *)
Shown == {Offered(entries[i], {}, FALSE) : i \in DOMAIN entries} \ {None}

(* What the cache promises of one container, whatever it promises of the others. *)
Noted(o) == cache # None /\ Loads(o) /\ ~newer[o] => o \in cache \/ IsPublished(o, {})

(* The container that the running command is taking away.                      *)
Unsettled(o) ==
    /\ o = job.obj
    /\ pc \in {"disown", "unlink"} \/ (pc \in {"child", "cache"} /\ job.mode = "unpublish")

(* Where copies are, and where they are being written.                         *)
Reachable ==
    /\ \E i \in DOMAIN entries : entries[i] \in Remote
    /\ \A s \in Storages : DOMAIN files[s] # {} => s \in Shown
    /\ pc = "child" => \A i \in DOMAIN job.targets : job.targets[i] \in Shown
    /\ pc = "child" /\ job.mode # "unpublish" => DOMAIN job.targets # {} \/ IsPublished(job.obj, {})
    /\ pc = "cache" /\ job.mode # "unpublish" => IsPublished(job.obj, {})

(* A fetched object that is unpublished is no local container.                 *)
FetchedOnly ==
    pc \in {"scan", "child", "cache"} /\ job.mode = "unpublish" /\ ~job.isLocal => ~Loads(job.obj)

Noting ==
    /\ newer \in [Objects -> BOOLEAN]
    /\ Reachable /\ FetchedOnly
    /\ \A o \in Objects : Unsettled(o) \/ Noted(o)

(* A storage that is asked stays asked.                                        *)
LEMMA ShownStays ==
    ASSUME RemoteCatalog, Typed, [Next]_vars
    PROVE  Shown \subseteq Shown'
BY OfferStays DEF Shown

(* A container is published where a storage that is asked has its copy.         *)
LEMMA PublishedIs ==
    ASSUME Typed, NEW o
    PROVE  IsPublished(o, {}) <=> \E s \in Shown : HasChild(s, o)
<1> DEFINE found == CatalogStorages({}, FALSE)
<1>1. DOMAIN found = {j \in DOMAIN entries : Offered(entries[j], {}, FALSE) # None}
      /\ \A i \in DOMAIN found : found[i] = Offered(entries[i], {}, FALSE)
  BY DEF CatalogStorages
<1>2. Range(found) = Shown
  BY <1>1 DEF Range, Shown
<1> QED
  BY <1>2 DEF IsPublished

(* Also when other storages are down: nothing else has copies.                 *)
LEMMA PublishedAnyway ==
    ASSUME Typed, Reachable, NEW o, NEW down, IsPublished(o, down)
    PROVE  IsPublished(o, {})
<1> DEFINE found == CatalogStorages(down, FALSE)
<1>1. DOMAIN found \subseteq Nat /\ found \in [DOMAIN found -> Storages]
  BY FoundTyped DEF Typed
<1>2. PICK s \in Range(found) : HasChild(s, o)
  BY DEF IsPublished
<1>3. s \in Storages
  BY <1>1, <1>2 DEF Range
<1>4. s \in Shown
  BY <1>2, <1>3 DEF Reachable, HasChild
<1> QED
  BY <1>2, <1>4, PublishedIs

(* Where something can be written, one is asked first.                         *)
LEMMA WritableIsShown ==
    ASSUME OneWritable, NEW c \in Objects \union Remote, NEW down, Offered(c, down, TRUE) # None
    PROVE  Offered(c, {}, FALSE) = Offered(c, down, TRUE)
<1> DEFINE takes == {i \in DOMAIN StoragesOf[c] : Pattern[StoragesOf[c][i]] # "none"}
           fit == {i \in DOMAIN StoragesOf[c] :
                      /\ StoragesOf[c][i] \notin ReadOnly
                      /\ StoragesOf[c][i] \notin down
                      /\ Pattern[StoragesOf[c][i]] # "none"}
<1>1. Offered(c, down, TRUE) = IF fit = {} \/ (c \in Objects /\ ~Loads(c)) THEN None ELSE StoragesOf[c][Min(fit)]
  BY DEF Offered
<1>2. Offered(c, {}, FALSE) = IF takes = {} \/ (c \in Objects /\ ~Loads(c)) THEN None ELSE StoragesOf[c][Min(takes)]
  BY DEF Offered
<1>3. DOMAIN StoragesOf[c] \subseteq Nat
  BY CatalogAssumption
<1>4. fit \subseteq takes /\ fit # {} /\ takes \subseteq Nat /\ fit \subseteq Nat
  BY <1>1, <1>3
<1>5. Min(fit) \in fit /\ Min(takes) \in takes /\ \A i \in takes : Min(takes) <= i
  BY <1>4, MinIsLeast
<1>6. Min(fit) <= Min(takes)
  BY <1>5 DEF OneWritable
<1> HIDE DEF fit, takes
<1>7. Min(fit) \in Nat /\ Min(takes) \in Nat /\ Min(takes) <= Min(fit)
  BY <1>4, <1>5
<1>8. Min(fit) = Min(takes)
  BY <1>6, <1>7
<1> QED
  BY <1>1, <1>2, <1>4, <1>8

(* What is published stays so, as long as its copies stay.                     *)
LEMMA PublishedStays ==
    ASSUME RemoteCatalog, Typed, [Next]_vars, NEW o, IsPublished(o, {}),
           \A s \in Storages : HasChild(s, o) => HasChild(s, o)'
    PROVE  IsPublished(o, {})'
<1>1. PICK s \in Shown : HasChild(s, o)
  BY PublishedIs
<1>2. PICK i \in DOMAIN entries : s = Offered(entries[i], {}, FALSE) /\ s # None
  BY DEF Shown
<1>3. s \in Storages
  <2>1. entries[i] \in Objects \union Remote
    BY DEF Typed, LocalTyped
  <2> QED
    BY <1>2, <2>1, OffersStorages
<1>4. PICK k \in DOMAIN entries' : Offered(entries[k], {}, FALSE)' = s
  BY <1>2, OfferStays
<1>5. s \in Range(CatalogStorages({}, FALSE))'
  BY <1>2, <1>4 DEF CatalogStorages, Range
<1>6. HasChild(s, o)'
  BY <1>1, <1>3
<1> QED
  BY <1>5, <1>6 DEF IsPublished

(* The cache as it is read keeps what it promised of the other containers, and  *)
(* one that is computed again promises the same.                              *)
LEMMA CacheForNotes ==
    ASSUME Typed, Reachable, NEW o, NEW down, NEW x \in Objects \ {o}, Noted(x), Loads(x)
    PROVE  x \in CacheFor(o, down) \/ IsPublished(x, {})
<1>1. CASE IsInvalid({o})
  <2>1. HasCatalog /\ x \in LoadAllManifests
    BY DEF Reachable, HasCatalog, LoadAllManifests
  <2>2. x \in Recomputed(down) \/ IsPublished(x, down)
    BY <2>1 DEF Recomputed
  <2>3. CacheFor(o, down) = Recomputed(down)
    BY <1>1 DEF CacheFor
  <2> QED
    BY <2>2, <2>3, PublishedAnyway
<1>2. CASE ~IsInvalid({o})
  <2>1. cache # None /\ ~newer[x] /\ CacheFor(o, down) = cache
    BY <1>2 DEF IsInvalid, Loads, CacheFor
  <2> QED
    BY <2>1 DEF Noted
<1> QED
  BY <1>1, <1>2

(* A step that leaves the cache alone.                                         *)
LEMMA NotedStays ==
    ASSUME RemoteCatalog, Typed, [Next]_vars, NEW x \in Objects, Noted(x), UNCHANGED cache,
           Loads(x)' /\ ~newer'[x] => Loads(x) /\ ~newer[x],
           \A s \in Storages : HasChild(s, x) => HasChild(s, x)'
    PROVE  Noted(x)'
<1> SUFFICES ASSUME cache' # None, Loads(x)', ~newer'[x], x \notin cache'
             PROVE  IsPublished(x, {})'
  BY DEF Noted
<1>1. IsPublished(x, {})
  BY DEF Noted
<1> QED
  BY <1>1, PublishedStays

(* A step that touches no file, and leaves or does not enter the update of one. *)
LEMMA ReachableStays ==
    ASSUME RemoteCatalog, Typed, [Next]_vars, Reachable, UNCHANGED files, pc' \notin {"child", "cache"}
    PROVE  Reachable'
<1>1. PICK i \in DOMAIN entries : entries[i] \in Remote
  BY DEF Reachable
<1>2. \E k \in DOMAIN entries' : entries'[k] \in Remote
  BY <1>1, EntriesStay
<1>3. Shown \subseteq Shown'
  BY ShownStays
<1> QED
  BY <1>2, <1>3 DEF Reachable

(* What a command of a user does to the cache's promise: the manifests that it  *)
(* writes are newer than the file.                                             *)
CommandNotes ==
    /\ UNCHANGED <<cache, files>> /\ newer' \in [Objects -> BOOLEAN]
    /\ \A x \in Objects : Loads(x)' /\ ~newer'[x] => Loads(x) /\ ~newer[x]
    /\ pc = "idle" /\ pc' \in {"idle", "check", "scan", "uncache"}
    /\ pc' = "scan" /\ job'.mode = "unpublish" /\ ~job'.isLocal => ~Loads(job.obj)'

(* A command that saves a manifest.                                            *)
LEMMA SavingNotes ==
    ASSUME Reliable, newer \in [Objects -> BOOLEAN], Command, NEW o \in Objects, NEW m, SaveManifest(o, m),
           manifest \in [Objects -> Man \union {None}],
           UNCHANGED <<broken, cache>>, pc' \in {"idle", "check", "scan"},
           pc' = "scan" => job'.isLocal \/ job'.mode # "unpublish"
    PROVE  CommandNotes
<1>1. newer' = [newer EXCEPT ![o] = TRUE]
  BY DEF SaveManifest, Reliable
<1>2. \A x \in Objects \ {o} : manifest'[x] = manifest[x]
  BY DEF SaveManifest
<1>3. newer' \in [Objects -> BOOLEAN] /\ newer'[o] /\ \A x \in Objects \ {o} : newer'[x] = newer[x]
  BY <1>1
<1>4. \A x \in Objects : Loads(x)' /\ ~newer'[x] => Loads(x) /\ ~newer[x]
  BY <1>2, <1>3 DEF Loads
<1> QED
  BY <1>3, <1>4 DEF CommandNotes, Command

(* All of them do that.                                                        *)
LEMMA CommandsNote ==
    ASSUME Typed, Reliable, newer \in [Objects -> BOOLEAN], ContainerCommand \/ StorageCommand
    PROVE  CommandNotes
<1>0. manifest \in [Objects -> Man \union {None}]
  BY DEF Typed, LocalTyped
<1>1. CASE ContainerCommand
  <2>1. ASSUME NEW o \in Objects, NEW ps, NEW attach, NEW publish, Create(o, ps, attach, publish)
        PROVE  CommandNotes
    <3>1. /\ Command /\ \E m : SaveManifest(o, m)
          /\ UNCHANGED <<broken, cache>>
          /\ Finish \/ \E m : Ask("scan", "create", o, m, "publish", FALSE)
      BY <2>1 DEF Create
    <3> QED
      BY <1>0, <3>1, SavingNotes DEF Finish, Ask, Idle
  <2>2. ASSUME NEW o \in Objects,
               \/ \E src \in Objects, bs \in SUBSET Backends : Duplicate(src, o, bs)
               \/ \E b \in Backends : Update(o, b)
        PROVE  CommandNotes
    <3>1. Command /\ (\E m : SaveManifest(o, m)) /\ UNCHANGED <<broken, cache>> /\ Finish
      BY <2>2 DEF Duplicate, Update
    <3> QED
      BY <1>0, <3>1, SavingNotes DEF Finish
  <2>3. ASSUME NEW o \in Objects, NEW publish, CreateFromTemplate(o, publish)
        PROVE  CommandNotes
    <3>1. /\ Command /\ \E m : SaveManifest(o, m)
          /\ UNCHANGED <<broken, cache>>
          /\ Finish \/ \E m : Ask("scan", "storage", o, m, "republish", FALSE)
      BY <2>3 DEF CreateFromTemplate, StoragesFromTemplates, AddStorageToContainer
    <3> QED
      BY <1>0, <3>1, SavingNotes DEF Finish, Ask, Idle
  <2>4. ASSUME NEW o \in Objects, NEW add, NEW del, NEW bs, NEW flag, Modify(o, add, del, bs, flag)
        PROVE  CommandNotes
    <3>1. Command /\ (\E m : SaveManifest(o, m)) /\ UNCHANGED <<broken, cache>> /\ pc' = "check"
      BY <2>4 DEF Modify, ModifyManifest, SignAndSave, Ask
    <3> QED
      BY <1>0, <3>1, SavingNotes
  <2>5. ASSUME NEW o \in Objects, NEW m, NEW flag, Edit(o, m, flag)
        PROVE  CommandNotes
    <3>1. Command /\ SaveManifest(o, m) /\ UNCHANGED <<broken, cache>> /\ pc' = "check"
      BY <2>5 DEF Edit, SignAndSave, Ask
    <3> QED
      BY <1>0, <3>1, SavingNotes
  <2>6. ASSUME NEW o \in Objects, NEW old, NEW m, NEW flag, ModifyRemote(o, old, m, flag)
        PROVE  CommandNotes
    <3>1. Command /\ SaveManifest(o, m) /\ UNCHANGED <<broken, cache>> /\ pc' \in {"idle", "check"}
      BY <2>6 DEF ModifyRemote, AskFetched, Finish
    <3> QED
      BY <1>0, <3>1, SavingNotes
  <2>7. ASSUME NEW o \in Objects, Publish(o) \/ Unpublish(o)
        PROVE  CommandNotes
    <3>1. PICK cmd \in {"publish", "unpublish"} : AskPublishable(o, cmd)
      BY <2>7 DEF Publish, Unpublish
    <3>2. pc = "idle" /\ UNCHANGED <<manifest, broken, newer, cache, files>>
      BY <2>7 DEF Publish, Unpublish, Command, local
    <3>3. pc' = "scan" /\ (job'.isLocal \/ (job'.obj = o /\ ~Loads(o)))
      BY <3>1 DEF AskPublishable, Ask, AskFetched, Idle
    <3>4. \A x \in Objects : Loads(x)' = Loads(x)
      BY <3>2 DEF Loads
    <3>5. job'.isLocal \/ ~Loads(job.obj)'
      BY <3>3, <3>4
    <3> QED
      BY <3>2, <3>3, <3>4, <3>5 DEF CommandNotes
  <2>8. ASSUME NEW o \in Objects, NEW force, NEW cascade, NEW unpublish, Delete(o, force, cascade, unpublish)
        PROVE  CommandNotes
    <3>1. pc = "idle" /\ UNCHANGED <<manifest, broken, newer, cache, files>>
      BY <2>8 DEF Delete, Command
    <3>2. pc' \in {"idle", "scan", "uncache"} /\ (pc' = "scan" => job'.isLocal)
      BY <2>8 DEF Delete, Ask, Finish, Idle
    <3>3. \A x \in Objects : Loads(x)' = Loads(x)
      BY <3>1 DEF Loads
    <3> QED
      BY <3>1, <3>2, <3>3 DEF CommandNotes
  <2>9. ASSUME NEW o \in Objects, DeleteForce(o) \/ Mount(o) \/ Corrupt(o)
        PROVE  CommandNotes
    <3>1. pc = "idle" /\ pc' = "idle" /\ UNCHANGED <<newer, cache, files>>
      BY <2>9 DEF DeleteForce, Mount, Corrupt, Command, Finish, control
    <3>2. \A x \in Objects : Loads(x)' => Loads(x)
      BY <1>0, <2>9 DEF DeleteForce, Mount, Corrupt, Loads
    <3> QED
      BY <3>1, <3>2 DEF CommandNotes
  <2>10. PICK o \in Objects :
             \/ \E ps \in SUBSET Paths, attach, publish \in BOOLEAN : Create(o, ps, attach, publish)
             \/ \E src \in Objects, bs \in SUBSET Backends : Duplicate(src, o, bs)
             \/ \E b \in Backends : Update(o, b)
             \/ \E publish \in BOOLEAN : CreateFromTemplate(o, publish)
             \/ \E add, del \in SUBSET Paths, bs \in SUBSET Backends, flag \in Flags :
                    Modify(o, add, del, bs, flag)
             \/ \E m \in Man, flag \in Flags : Edit(o, m, flag)
             \/ \E old \in Fetched(o), m \in Man, flag \in Flags : ModifyRemote(o, old, m, flag)
             \/ Publish(o)
             \/ Unpublish(o)
             \/ \E force, cascade, unpublish \in BOOLEAN : Delete(o, force, cascade, unpublish)
             \/ DeleteForce(o)
             \/ Mount(o)
             \/ Corrupt(o)
    BY <1>1 DEF ContainerCommand
  <2> QED
    BY <2>1, <2>2, <2>3, <2>4, <2>5, <2>6, <2>7, <2>8, <2>9, <2>10
<1>2. CASE StorageCommand
  <2>1. ASSUME NEW o \in Objects, NEW b, NEW publish, CreateStorage(o, b, publish)
        PROVE  CommandNotes
    <3>1. /\ Command /\ \E m : SaveManifest(o, m)
          /\ UNCHANGED <<broken, cache>>
          /\ Finish \/ \E m : Ask("scan", "storage", o, m, "republish", FALSE)
      BY <2>1 DEF CreateStorage, AddStorageToContainer
    <3> QED
      BY <1>0, <3>1, SavingNotes DEF Finish, Ask, Idle
  <2>2. ASSUME NEW b, NEW force, NEW cascade, NEW synced, DeleteStorage(b, force, cascade, synced)
        PROVE  CommandNotes
    <3>1. /\ pc = "idle" /\ pc' = "idle" /\ UNCHANGED <<broken, cache, files>>
          /\ DeleteCascade(b) \/ UNCHANGED <<manifest, newer>>
      BY <2>2 DEF DeleteStorage, Command, Finish
    <3>2. CASE UNCHANGED <<manifest, newer>>
      <4>1. \A x \in Objects : Loads(x)' = Loads(x)
        BY <3>1, <3>2 DEF Loads
      <4> QED
        BY <3>1, <3>2, <4>1 DEF CommandNotes
    <3>3. CASE DeleteCascade(b)
      <4>1. newer' \in [Objects -> BOOLEAN] /\ \A x \in Objects : ~newer'[x] => ~newer[x] /\ x \notin UsedBy(b)
        BY <3>3 DEF DeleteCascade
      <4>2. \A x \in Objects \ UsedBy(b) : manifest'[x] = manifest[x]
        BY <3>3 DEF DeleteCascade
      <4>3. \A x \in Objects \ UsedBy(b) : Loads(x)' = Loads(x)
        BY <3>1, <4>2 DEF Loads
      <4> QED
        BY <3>1, <4>1, <4>3 DEF CommandNotes
    <3> QED
      BY <3>1, <3>2, <3>3
  <2> QED
    BY <1>2, <2>1, <2>2 DEF StorageCommand
<1> QED
  BY <1>1, <1>2

(* The commands keep what is promised.                                         *)
LEMMA CommandsKeepNoting ==
    ASSUME RemoteCatalog, Reliable, Typed, Noting, ContainerCommand \/ StorageCommand
    PROVE  Noting'
<1>1. CommandNotes /\ [Next]_vars
  BY CommandsNote DEF Noting, Next
<1>2. Reachable'
  BY <1>1, ReachableStays DEF CommandNotes, Noting
<1>3. FetchedOnly'
  BY <1>1 DEF CommandNotes, FetchedOnly
<1>4. \A s, x : HasChild(s, x)' <=> HasChild(s, x)
  BY <1>1 DEF CommandNotes, HasChild
<1>5. ASSUME NEW x \in Objects PROVE Noted(x)'
  <2>1. Noted(x)
    BY <1>1 DEF CommandNotes, Noting, Unsettled
  <2>2. UNCHANGED cache /\ (Loads(x)' /\ ~newer'[x] => Loads(x) /\ ~newer[x])
    BY <1>1 DEF CommandNotes
  <2> QED
    BY <1>1, <1>4, <2>1, <2>2, NotedStays
<1> QED
  BY <1>1, <1>2, <1>3, <1>5 DEF CommandNotes, Noting

(* A step that reads files and manifests only, and leaves the storages alone.   *)
LEMMA QuietNoting ==
    ASSUME RemoteCatalog, Typed, [Next]_vars, Noting, UNCHANGED <<files, manifest, broken, newer, cache>>,
           pc' \notin {"scan", "child", "cache"} \/ (pc' = "scan" /\ job'.mode # "unpublish"),
           \A x \in Objects : Unsettled(x) => Unsettled(x)'
    PROVE  Noting'
<1>1. Reachable' /\ FetchedOnly'
  BY ReachableStays DEF Noting, FetchedOnly
<1>2. \A x : Loads(x)' = Loads(x) /\ \A s : HasChild(s, x)' = HasChild(s, x)
  BY DEF Loads, HasChild
<1>3. ASSUME NEW x \in Objects, Noted(x) PROVE Noted(x)'
  BY <1>2, <1>3, NotedStays
<1> QED
  BY <1>1, <1>3 DEF Noting

(* A step that leaves all of that alone, and what the command works on.         *)
LEMMA SameNoting ==
    ASSUME Noting, UNCHANGED <<files, manifest, broken, newer, cache, entries, pc, job>>
    PROVE  Noting'
<1>1. \A c, down, writable : Offered(c, down, writable)' = Offered(c, down, writable)
  BY DEF Offered, Loads
<1>2. \A down, writable : CatalogStorages(down, writable)' = CatalogStorages(down, writable)
  BY <1>1 DEF CatalogStorages
<1>3. \A x, down : IsPublished(x, down)' = IsPublished(x, down)
  BY <1>2 DEF IsPublished, HasChild
<1>4. Shown' = Shown
  BY <1>1 DEF Shown
<1>5. \A x : Loads(x)' = Loads(x) /\ Unsettled(x)' = Unsettled(x)
  BY DEF Loads, Unsettled
<1>6. \A x : Noted(x)' = Noted(x)
  BY <1>3, <1>5 DEF Noted
<1>7. Reachable'
  BY <1>3, <1>4 DEF Noting, Reachable
<1>8. FetchedOnly'
  BY <1>5 DEF Noting, FetchedOnly
<1> QED
  BY <1>5, <1>6, <1>7, <1>8 DEF Noting

(* What a request goes to: storages that were found, and one at least unless   *)
(* all copies are to go.                                                       *)
LEMMA ScanChooses ==
    ASSUME Typed, NEW down, Scan(down)
    PROVE  \/ PublisherRaises
           \/ Finish
           \/ pc' = "child" /\ \E chosen :
                 /\ job' = [job EXCEPT !.targets = chosen]
                 /\ job.mode # "unpublish" => DOMAIN chosen # {}
                 /\ \A i \in DOMAIN chosen : /\ i \in DOMAIN entries
                                             /\ Offered(entries[i], down, TRUE) # None
                                             /\ chosen[i] = Offered(entries[i], down, TRUE)
<1>1. PICK found : found = CatalogStorages(down, TRUE)
  OBVIOUS
<1>2. /\ DOMAIN found \subseteq Nat /\ found \in [DOMAIN found -> Storages]
      /\ \A i \in DOMAIN found : /\ i \in DOMAIN entries
                                 /\ Offered(entries[i], down, TRUE) # None
                                 /\ found[i] = Offered(entries[i], down, TRUE)
  <2>1. DOMAIN found \subseteq Nat /\ found \in [DOMAIN found -> Storages]
    BY <1>1, FoundTyped DEF Typed
  <2> QED
    BY <1>1, <2>1 DEF CatalogStorages
<1>3. job.mode \in {"publish", "unpublish", "republish"}
  BY DEF Scan, Typed, JobTyped
<1>4. PICK chosen : chosen = CASE job.mode = "publish" -> PublishTargets(found)
                               [] job.mode = "unpublish" -> UnpublishTargets(found)
                               [] job.mode = "republish" -> RepublishTargets(found, job.obj)
  OBVIOUS
<1>5. (CASE found = << >> /\ job.mode # "republish" -> PublisherRaises
         [] chosen = << >> /\ job.mode = "republish" -> Finish
         [] OTHER -> pc' = "child" /\ job' = [job EXCEPT !.targets = chosen])
  BY <1>1, <1>4, Zenon DEF Scan
<1>6. \/ PublisherRaises
      \/ Finish
      \/ /\ found # << >> \/ job.mode = "republish"
         /\ chosen # << >> \/ job.mode # "republish"
         /\ pc' = "child" /\ job' = [job EXCEPT !.targets = chosen]
  BY <1>5
<1>7. ASSUME found # << >> \/ job.mode = "republish", chosen # << >> \/ job.mode # "republish"
      PROVE  /\ \A i \in DOMAIN chosen : i \in DOMAIN found /\ chosen[i] = found[i]
             /\ job.mode # "unpublish" => DOMAIN chosen # {}
  <2>1. CASE job.mode = "publish"
    <3>1. DOMAIN found # {}
      BY <1>2, <1>7, <2>1
    <3>2. Min(DOMAIN found) \in DOMAIN found
      BY <1>2, <3>1, MinIsLeast
    <3>3. chosen = PublishTargets(found)
      BY <1>4, <2>1
    <3> QED
      BY <3>2, <3>3 DEF PublishTargets, Restrict
  <2>2. CASE job.mode = "unpublish"
    BY <1>4, <2>2 DEF UnpublishTargets
  <2>3. CASE job.mode = "republish"
    <3>1. chosen = [i \in {j \in DOMAIN found : HasChild(found[j], job.obj)} |-> found[i]]
      BY <1>4, <2>3 DEF RepublishTargets, Restrict
    <3>2. DOMAIN chosen # {}
      BY <1>7, <2>3, <3>1
    <3> QED
      BY <3>1, <3>2
  <2> QED
    BY <1>3, <2>1, <2>2, <2>3
<1> QED
  BY <1>2, <1>6, <1>7

(* A request goes to storages that are asked, because they can be written.      *)
LEMMA ScanNotes ==
    ASSUME RemoteCatalog, OneWritable, Typed, Noting, NEW down \in Outages, Scan(down)
    PROVE  Noting'
<1>1. [Next]_vars
  BY DEF Next, PublisherStep
<1>2. pc = "scan" /\ UNCHANGED <<manifest, broken, newer, cache, entries, files>>
  BY DEF Scan, local
<1>3. CASE PublisherRaises \/ Finish
  <2>1. pc' \in {"idle", "uncache"}
    BY <1>3 DEF PublisherRaises, Finish
  <2> QED
    BY <1>1, <1>2, <2>1, QuietNoting DEF Unsettled
<1>4. ASSUME pc' = "child", NEW chosen, job' = [job EXCEPT !.targets = chosen],
             job.mode # "unpublish" => DOMAIN chosen # {},
             \A i \in DOMAIN chosen : /\ i \in DOMAIN entries
                                      /\ Offered(entries[i], down, TRUE) # None
                                      /\ chosen[i] = Offered(entries[i], down, TRUE)
      PROVE  Noting'
  <2>1. job'.targets = chosen /\ job'.mode = job.mode /\ job'.obj = job.obj /\ job'.isLocal = job.isLocal
    BY <1>2, <1>4 DEF Typed, JobTyped, Idle
  <2>2. \A i \in DOMAIN entries : entries[i] \in Objects \union Remote
    BY DEF Typed, LocalTyped
  <2>3. \A i \in DOMAIN chosen : chosen[i] \in Shown
    <3>1. ASSUME NEW i \in DOMAIN chosen PROVE chosen[i] \in Shown
      <4>1. /\ i \in DOMAIN entries /\ Offered(entries[i], down, TRUE) # None
            /\ chosen[i] = Offered(entries[i], down, TRUE)
        BY <1>4
      <4>2. entries[i] \in Objects \union Remote
        BY <2>2, <4>1
      <4>3. Offered(entries[i], {}, FALSE) = Offered(entries[i], down, TRUE)
        BY <4>1, <4>2, WritableIsShown
      <4> QED
        BY <4>1, <4>3 DEF Shown
    <3> QED
      BY <3>1
  <2>4. Shown \subseteq Shown'
    BY <1>1, ShownStays
  <2>5. Reachable'
    BY <1>2, <1>4, <2>1, <2>3, <2>4 DEF Noting, Reachable
  <2>6. \A x : Loads(x)' = Loads(x) /\ \A s : HasChild(s, x)' = HasChild(s, x)
    BY <1>2 DEF Loads, HasChild
  <2>7. FetchedOnly'
    BY <1>2, <2>1, <2>6 DEF Noting, FetchedOnly
  <2>8. ASSUME NEW x \in Objects PROVE Noted(x)'
    <3>1. Noted(x)
      BY <1>2 DEF Noting, Unsettled
    <3> QED
      BY <1>1, <1>2, <2>6, <3>1, NotedStays
  <2> QED
    BY <1>2, <2>5, <2>7, <2>8 DEF Noting
<1> QED
  BY <1>3, <1>4, ScanChooses

(* The update of a storage takes no other container's copy away, and only an   *)
(* unpublish takes the container's own.                                        *)
LEMMA ChildKeeps ==
    ASSUME CopiesInv, NEW op, ChildStep(op)
    PROVE  /\ Target \in Storages /\ First \in DOMAIN job.targets
           /\ \A t \in Storages \ {Target} : files'[t] = files[t]
           /\ \A x \in Objects, t \in Storages :
                 (x # job.obj \/ job.mode # "unpublish") /\ HasChild(t, x) => HasChild(t, x)'
<1>1. /\ pc = "child" /\ todo # << >>
      /\ files' = [files EXCEPT ![Target] = Apply(@, op)]
  BY DEF ChildStep
<1>2. PICK s, o, m : s = Target /\ o = job.obj /\ m = job.man
  OBVIOUS
<1>3. /\ DOMAIN job.targets # {}
      /\ job.mode = "unpublish" => \E A : Removing(s, o, A)
      /\ job.mode # "unpublish" => \E A, B, C, D : Writing(s, o, m, A, B, C, D)
  BY <1>1, <1>2 DEF CopiesInv, Working
<1>4. s \in Storages /\ o \in Objects /\ m \in Man
  BY <1>1, <1>2, <1>3, TargetIsStorage DEF CopiesInv, Typed
<1>5. First \in DOMAIN job.targets
  BY <1>1, <1>3, MinIsLeast DEF First, CopiesInv, Typed, JobTyped
<1>6. /\ files'[s] = Apply(files[s], op)
      /\ \A t \in Storages \ {s} : files'[t] = files[t]
  BY <1>1, <1>2, <1>4 DEF CopiesInv, Typed, FilesTyped
<1>7. ASSUME NEW r, op = Removal(r) PROVE DOMAIN files'[s] = DOMAIN files[s] \ {r}
  <2>1. op.rel = r /\ op.write = None
    BY <1>7 DEF Removal
  <2> QED
    BY <1>6, <2>1 DEF Apply
<1>8. ASSUME NEW r, op = WriteOf(r, o, m) PROVE DOMAIN files[s] \subseteq DOMAIN files'[s]
  <2>1. op.write = Copy(o, m) /\ Copy(o, m) \in [obj : Objects, man : Man]
    BY <1>4, <1>8 DEF Copy, WriteOf
  <2>2. op.write # None
    BY <2>1, NoneAssumption
  <2> QED
    BY <1>6, <2>2 DEF Apply
<1>9. ASSUME NEW x \in Objects, x # o \/ job.mode # "unpublish", HasChild(s, x)
      PROVE  HasChild(s, x)'
  <2>1. CASE job.mode = "unpublish"
    <3>1. PICK A : Removing(s, o, A)
      BY <1>3, <2>1
    <3>2. PICK r \in A : op = Removal(r)
      BY <3>1, NextRemoval DEF Removing
    <3>3. r # Rel(s, x, x)
      BY <1>9, <2>1, <3>1, <3>2 DEF Removing, Mine
    <3> QED
      BY <1>7, <1>9, <3>2, <3>3 DEF HasChild
  <2>2. CASE job.mode # "unpublish"
    <3>1. PICK A, B, C, D : Writing(s, o, m, A, B, C, D)
      BY <1>3, <2>2
    <3>2. (\E r \in A : op = Removal(r)) \/ (\E r : op = WriteOf(r, o, m))
      <4>1. todo = Left(o, m, A, B, C, D)
        BY <3>1 DEF Writing
      <4>2. \/ \E r \in A : op = Removal(r) /\ todo' = Left(o, m, A \ {r}, B, C, D)
            \/ \E r \in B : A = {} /\ op = WriteOf(r, o, m) /\ todo' = Left(o, m, A, B \ {r}, C, D)
            \/ \E r \in C : A = {} /\ B = {} /\ op = WriteOf(r, o, m) /\ todo' = Left(o, m, A, B, C \ {r}, D)
            \/ \E r \in D : /\ A = {} /\ B = {} /\ C = {} /\ op = WriteOf(r, o, m)
                           /\ todo' = Left(o, m, A, B, C, D \ {r})
        BY <4>1, NextOfLeft
      <4> QED
        BY <4>2
    <3>3. \A r \in A : r # Rel(s, x, x)
      <4>1. \A r \in A : Mine(s, o, r) /\ r \notin ManifestRels(s, o, m)
        BY <3>1 DEF Writing, InOrder
      <4>2. Rel(s, o, o) \in ManifestRels(s, o, m)
        BY <1>4, RelsAreMine
      <4> QED
        BY <4>1, <4>2 DEF Mine
    <3> QED
      BY <1>7, <1>8, <1>9, <3>2, <3>3 DEF HasChild
  <2> QED
    BY <2>1, <2>2
<1>10. ASSUME NEW x \in Objects, NEW t \in Storages \ {s}, HasChild(t, x)
       PROVE  HasChild(t, x)'
  BY <1>6, <1>10 DEF HasChild
<1> QED
  BY <1>2, <1>4, <1>5, <1>6, <1>9, <1>10

(* So what is promised of the others stays.                                    *)
LEMMA ChildNotes ==
    ASSUME RemoteCatalog, CopiesInv, Noting, [Next]_vars, NEW op, ChildStep(op)
    PROVE  Noting'
<1>1. pc = "child" /\ UNCHANGED <<manifest, broken, newer, cache, entries, pc, job>>
  BY DEF ChildStep, local
<1>2. /\ Target \in Storages /\ First \in DOMAIN job.targets
      /\ \A t \in Storages \ {Target} : files'[t] = files[t]
      /\ \A x \in Objects, t \in Storages :
            (x # job.obj \/ job.mode # "unpublish") /\ HasChild(t, x) => HasChild(t, x)'
  BY ChildKeeps
<1>3. \A x : Loads(x)' = Loads(x) /\ Unsettled(x)' = Unsettled(x)
  BY <1>1 DEF Loads, Unsettled
<1>4. Shown \subseteq Shown'
  BY ShownStays DEF CopiesInv
<1>5. Target \in Shown
  BY <1>1, <1>2 DEF Noting, Reachable, Target
<1>6. Reachable'
  <2>1. \A s \in Storages : DOMAIN files'[s] # {} => s \in Shown'
    BY <1>2, <1>4, <1>5 DEF Noting, Reachable
  <2> QED
    BY <1>1, <1>2, <1>4, <2>1 DEF Noting, Reachable
<1>7. FetchedOnly'
  BY <1>1, <1>3 DEF Noting, FetchedOnly
<1>8. ASSUME NEW x \in Objects PROVE Unsettled(x)' \/ Noted(x)'
  <2>1. CASE x = job.obj /\ job.mode = "unpublish"
    BY <1>1, <2>1 DEF Unsettled
  <2>2. CASE x # job.obj \/ job.mode # "unpublish"
    <3>1. Noted(x)
      BY <1>1, <2>2 DEF Noting, Unsettled
    <3> QED
      BY <1>1, <1>2, <1>3, <2>2, <3>1, NotedStays DEF CopiesInv
  <2> QED
    BY <2>1, <2>2
<1> QED
  BY <1>1, <1>6, <1>7, <1>8 DEF Noting

(* A write that breaks off takes no copy away either.                           *)
LEMMA BreakNotes ==
    ASSUME RemoteCatalog, CopiesInv, Noting, [Next]_vars, NEW op, WriteBreaks(op)
    PROVE  Noting'
<1>1. UNCHANGED <<manifest, broken, newer, cache, entries>>
  BY DEF WriteBreaks, local
<1>2. /\ pc = "child" /\ job.mode # "unpublish" /\ pc' = "idle"
      /\ Target \in Storages /\ First \in DOMAIN job.targets
      /\ \A t \in Storages \ {Target} : files'[t] = files[t]
      /\ \A x \in Objects, t \in Storages : HasChild(t, x) => HasChild(t, x)'
  BY BrokenEffect
<1>3. \A x : Loads(x)' = Loads(x)
  BY <1>1 DEF Loads
<1>4. Shown \subseteq Shown'
  BY ShownStays DEF CopiesInv
<1>5. Target \in Shown
  BY <1>2 DEF Noting, Reachable, Target
<1>6. \A s \in Storages : DOMAIN files'[s] # {} => s \in Shown'
  BY <1>2, <1>4, <1>5 DEF Noting, Reachable
<1>7. \E k \in DOMAIN entries' : entries'[k] \in Remote
  BY <1>1 DEF Noting, Reachable
<1>8. Reachable' /\ FetchedOnly'
  BY <1>2, <1>6, <1>7 DEF Reachable, FetchedOnly
<1>9. ASSUME NEW x \in Objects PROVE Noted(x)'
  <2>1. Noted(x)
    BY <1>2 DEF Noting, Unsettled
  <2> QED
    BY <1>1, <1>2, <1>3, <2>1, NotedStays DEF CopiesInv
<1> QED
  BY <1>1, <1>8, <1>9 DEF Noting

(* A copy that cannot be loaded still counts as one.                            *)
LEMMA UnreadableNotes ==
    ASSUME RemoteCatalog, CopiesInv, Noting, [Next]_vars, ChildUnreadable
    PROVE  Noting'
<1>1. /\ pc = "child" /\ pc' \in {"idle", "uncache"} /\ job.targets # << >>
      /\ UNCHANGED <<files, manifest, broken, newer, cache>>
      /\ HasChild(Target, job.obj)
  BY DEF ChildUnreadable, PublisherRaises, Finish, IsUnreadable, local
<1>2. Typed
  BY DEF CopiesInv
<1>3. DOMAIN job.targets # {} /\ DOMAIN job.targets \subseteq Nat
  <2>1. job.targets \in [DOMAIN job.targets -> Storages] /\ DOMAIN job.targets \subseteq Nat
    BY <1>1, <1>2 DEF Typed, JobTyped
  <2>2. ASSUME DOMAIN job.targets = {} PROVE FALSE
    <3>1. job.targets = [i \in {} |-> i]
      BY <2>1, <2>2
    <3>2. << >> = [i \in {} |-> i]
      OBVIOUS
    <3> QED
      BY <1>1, <3>1, <3>2
  <2> QED
    BY <2>1, <2>2
<1>4. First \in DOMAIN job.targets
  BY <1>3, MinIsLeast DEF First
<1>5. Target \in Shown
  BY <1>1, <1>4 DEF Noting, Reachable, Target
<1>6. IsPublished(job.obj, {})
  BY <1>1, <1>2, <1>5, PublishedIs
<1>7. \A x \in Objects : Noted(x)
  BY <1>1, <1>6 DEF Noting, Unsettled, Noted
<1>8. Reachable' /\ FetchedOnly'
  BY <1>1, <1>2, ReachableStays DEF Noting, FetchedOnly
<1>9. \A x : Loads(x)' = Loads(x) /\ \A s : HasChild(s, x)' = HasChild(s, x)
  BY <1>1 DEF Loads, HasChild
<1>10. ASSUME NEW x \in Objects PROVE Noted(x)'
  BY <1>1, <1>2, <1>7, <1>9, NotedStays
<1> QED
  BY <1>1, <1>8, <1>10 DEF Noting

(* A storage has been updated: a container that is being published has a copy.  *)
LEMMA DoneNotes ==
    ASSUME RemoteCatalog, CopiesInv, Noting, [Next]_vars, ChildDone
    PROVE  Noting'
<1>1. /\ pc = "child" /\ pc' = pc /\ UNCHANGED <<manifest, broken, newer, cache, entries, files>>
      /\ job' = [job EXCEPT !.targets = Others]
  BY DEF ChildDone, local
<1>2. /\ job'.targets = Others /\ job'.mode = job.mode /\ job'.obj = job.obj
      /\ job'.isLocal = job.isLocal
  BY <1>1 DEF CopiesInv, Typed, JobTyped, Idle
<1>3. DOMAIN Others \subseteq DOMAIN job.targets /\ \A i \in DOMAIN Others : Others[i] = job.targets[i]
  BY DEF Others, Restrict
<1>4. DOMAIN job.targets # {}
  BY <1>1 DEF ChildDone, CopiesInv, Working
<1>5. Target \in Storages /\ job.obj \in Objects /\ job.man \in Man /\ First \in DOMAIN job.targets
  BY <1>1, <1>4, TargetIsStorage, MinIsLeast DEF First, CopiesInv, Typed, JobTyped
<1>6. Target \in Shown
  BY <1>1, <1>5 DEF Noting, Reachable, Target
<1>7. \A x : Loads(x)' = Loads(x) /\ \A s : HasChild(s, x)' = HasChild(s, x)
  BY <1>1 DEF Loads, HasChild
<1>8. ASSUME job.mode # "unpublish" PROVE IsPublished(job.obj, {})'
  <2>1. Rel(Target, job.obj, job.obj) \in Copies(Target, job.obj)
    BY <1>5, <1>8, UpdateEnds, RelsAreMine
  <2>2. HasChild(Target, job.obj)
    BY <2>1 DEF Copies, HasChild
  <2>3. IsPublished(job.obj, {})
    BY <1>6, <2>2, PublishedIs DEF CopiesInv
  <2>4. \A o : IsPublished(o, {}) => IsPublished(o, {})'
    BY <1>7, PublishedStays DEF CopiesInv
  <2>5. PICK o : o = job.obj
    OBVIOUS
  <2>6. IsPublished(o, {})' /\ o = job'.obj
    BY <1>2, <2>3, <2>4, <2>5
  <2> QED
    BY <2>6
<1>9. Shown \subseteq Shown'
  BY ShownStays DEF CopiesInv
<1>10. Reachable'
  BY <1>1, <1>2, <1>3, <1>8, <1>9 DEF Noting, Reachable
<1>11. FetchedOnly'
  BY <1>1, <1>2, <1>7 DEF Noting, FetchedOnly
<1>12. ASSUME NEW x \in Objects, Noted(x) PROVE Noted(x)'
  BY <1>1, <1>7, <1>12, NotedStays DEF CopiesInv
<1>13. \A x : Unsettled(x)' = Unsettled(x)
  BY <1>1, <1>2 DEF Unsettled
<1> QED
  BY <1>1, <1>10, <1>11, <1>12, <1>13 DEF Noting

(* The cache is written, and the container's name is what the command made of   *)
(* it.                                                                        *)
LEMMA SavedCacheNotes ==
    ASSUME RemoteCatalog, Typed, Noting, [Next]_vars, NEW down, NEW o \in Objects, NEW names,
           o = job.obj, pc \in {"cache", "uncache"}, CacheFor(o, down) \ {o} \subseteq names,
           SaveCache(names), UNCHANGED <<files, manifest, broken>>, pc' \notin {"scan", "child", "cache"},
           o \in names \/ IsPublished(o, {}) \/ Unsettled(o)'
    PROVE  Noting'
<1>1. Reachable' /\ FetchedOnly'
  BY ReachableStays DEF Noting, FetchedOnly
<1>2. \A x : Loads(x)' = Loads(x) /\ \A s : HasChild(s, x)' = HasChild(s, x)
  BY DEF Loads, HasChild
<1>3. \A x : IsPublished(x, {}) => IsPublished(x, {})'
  BY <1>2, PublishedStays
<1>4. cache' = names /\ newer' \in [Objects -> BOOLEAN]
  BY DEF SaveCache
<1>5. ASSUME NEW x \in Objects \ {o}, Loads(x) PROVE x \in names \/ IsPublished(x, {})'
  <2>1. Noted(x)
    BY DEF Noting, Unsettled
  <2>2. x \in CacheFor(o, down) \/ IsPublished(x, {})
    BY <1>5, <2>1, CacheForNotes DEF Noting
  <2> QED
    BY <1>3, <2>2
<1>6. \A x \in Objects \ {o} : Noted(x)'
  BY <1>2, <1>4, <1>5 DEF Noted
<1>7. Unsettled(o)' \/ Noted(o)'
  BY <1>3, <1>4 DEF Noted
<1> QED
  BY <1>1, <1>4, <1>6, <1>7 DEF Noting

(* At the end of a request, the name is in the file or there is a copy.         *)
LEMMA CacheNotes ==
    ASSUME RemoteCatalog, Typed, Noting, [Next]_vars, NEW down, UpdateCache(down)
    PROVE  Noting'
<1>1. /\ pc = "cache" /\ UNCHANGED <<files, manifest, broken>>
      /\ pc' \in {"list", "uncache", "idle"}
  BY DEF UpdateCache, Finish
<1>2. PICK o : o = job.obj
  OBVIOUS
<1>3. o \in Objects
  BY <1>1, <1>2 DEF Typed, JobTyped
<1>4. job.mode # "unpublish" => IsPublished(o, {})
  BY <1>1, <1>2 DEF Noting, Reachable
<1>5. CASE job.isLocal
  <2>1. CASE job.mode = "unpublish"
    <3>1. SaveCache(AddName(o, down))
      BY <1>2, <1>5, <2>1 DEF UpdateCache
    <3> QED
      BY <1>1, <1>2, <1>3, <3>1, SavedCacheNotes DEF AddName
  <2>2. CASE job.mode # "unpublish"
    <3>1. SaveCache(DropName(o, down))
      BY <1>2, <1>5, <2>2 DEF UpdateCache
    <3> QED
      BY <1>1, <1>2, <1>3, <1>4, <2>2, <3>1, SavedCacheNotes DEF DropName
  <2> QED
    BY <2>1, <2>2
<1>6. CASE ~job.isLocal
  <2>1. UNCHANGED <<cache, newer>>
    BY <1>6 DEF UpdateCache
  <2>2. Reachable' /\ FetchedOnly'
    BY <1>1, ReachableStays DEF Noting, FetchedOnly
  <2>3. \A x : Loads(x)' = Loads(x) /\ \A s : HasChild(s, x)' = HasChild(s, x)
    BY <1>1 DEF Loads, HasChild
  <2>4. ASSUME NEW x \in Objects, Noted(x) PROVE Noted(x)'
    BY <2>1, <2>3, <2>4, NotedStays
  <2>5. ASSUME NEW x \in Objects, Unsettled(x) PROVE Noted(x)'
    <3>1. ~Loads(x)
      BY <1>1, <1>6, <2>5 DEF Noting, FetchedOnly, Unsettled
    <3> QED
      BY <2>3, <3>1 DEF Noted
  <2> QED
    BY <2>1, <2>2, <2>4, <2>5 DEF Noting
<1> QED
  BY <1>5, <1>6

(* The list of what is not published is computed again if it may be out of date. *)
LEMMA ListNotes ==
    ASSUME RemoteCatalog, Typed, Noting, [Next]_vars, NEW down, ListUnpublished(down)
    PROVE  Noting'
<1>1. /\ pc = "list" /\ pc' = "idle" /\ UNCHANGED <<files, manifest, broken>>
  BY DEF ListUnpublished, Finish
<1>2. CASE UNCHANGED <<cache, newer>>
  BY <1>1, <1>2, QuietNoting DEF Unsettled
<1>3. CASE SaveCache(Recomputed(down))
  <2>1. Reachable' /\ FetchedOnly'
    BY <1>1, ReachableStays DEF Noting, FetchedOnly
  <2>2. \A x : Loads(x)' = Loads(x) /\ \A s : HasChild(s, x)' = HasChild(s, x)
    BY <1>1 DEF Loads, HasChild
  <2>3. cache' = Recomputed(down) /\ newer' \in [Objects -> BOOLEAN]
    BY <1>3 DEF SaveCache
  <2>4. ASSUME NEW x \in Objects, Loads(x) PROVE x \in Recomputed(down) \/ IsPublished(x, {})'
    <3>1. HasCatalog
      BY DEF Noting, Reachable, HasCatalog
    <3>2. x \in Recomputed(down) \/ IsPublished(x, down)
      BY <2>4, <3>1 DEF Recomputed, LoadAllManifests
    <3>3. IsPublished(x, down) => IsPublished(x, {})
      BY PublishedAnyway DEF Noting
    <3>4. IsPublished(x, {}) => IsPublished(x, {})'
      BY <2>2, PublishedStays
    <3> QED
      BY <3>2, <3>3, <3>4
  <2>5. \A x \in Objects : Noted(x)'
    BY <2>2, <2>3, <2>4 DEF Noted
  <2> QED
    BY <2>1, <2>3, <2>5 DEF Noting
<1> QED
  BY <1>2, <1>3 DEF ListUnpublished, LoadCache

(* The steps of the publisher keep what is promised.                           *)
LEMMA PublisherKeepsNoting ==
    ASSUME RemoteCatalog, OneWritable, Reliable, CopiesInv, Noting, PublisherStep
    PROVE  Noting'
<1>0. [Next]_vars /\ Typed
  BY DEF Next, CopiesInv
<1>1. ASSUME NEW down, CheckPublished(down) PROVE Noting'
  <2>1. /\ pc = "check" /\ UNCHANGED <<files, manifest, broken, newer, cache>>
        /\ RepublishObject \/ PublishObject \/ Finish
    BY <1>1 DEF CheckPublished, local
  <2>2. pc' = "idle" \/ (pc' = "scan" /\ job'.mode # "unpublish")
    BY <1>0, <2>1 DEF RepublishObject, PublishObject, Finish, Typed, JobTyped, Idle
  <2> QED
    BY <1>0, <2>1, <2>2, QuietNoting DEF Unsettled
<1>2. ASSUME NEW down \in Outages, Scan(down) PROVE Noting'
  BY <1>0, <1>2, ScanNotes
<1>3. ASSUME NEW down, UpdateCache(down) PROVE Noting'
  BY <1>0, <1>3, CacheNotes
<1>4. ASSUME NEW down, ListUnpublished(down) PROVE Noting'
  BY <1>0, <1>4, ListNotes
<1>5. ASSUME NEW down, RemoveFromCache(down) PROVE Noting'
  <2>1. PICK o : o = job.obj
    OBVIOUS
  <2>2. /\ pc = "uncache" /\ UNCHANGED <<files, manifest, broken, job>>
        /\ pc' \in {"disown", "unlink"} /\ SaveCache(DropName(o, down))
    BY <1>5, <2>1 DEF RemoveFromCache
  <2>3. o \in Objects /\ Unsettled(o)'
    BY <1>0, <2>1, <2>2 DEF Typed, JobTyped, Unsettled
  <2> QED
    BY <1>0, <2>1, <2>2, <2>3, SavedCacheNotes DEF DropName
<1>6. CASE StartChild
  BY <1>6, SameNoting DEF StartChild, local
<1>7. ASSUME NEW op, ChildStep(op) PROVE Noting'
  BY <1>0, <1>7, ChildNotes
<1>8. CASE CommandFails
  <2>1. /\ pc = "child" /\ job.mode # "unpublish" /\ pc' = "idle"
        /\ UNCHANGED <<files, manifest, broken, newer, cache>>
    BY <1>8 DEF CommandFails, Reliable, Finish, local
  <2> QED
    BY <1>0, <2>1, QuietNoting DEF Unsettled
<1>9. CASE ChildDone
  BY <1>0, <1>9, DoneNotes
<1>10. CASE Updated
  <2>1. /\ pc = "child" /\ pc' = "cache" /\ DOMAIN job.targets = {}
        /\ UNCHANGED <<files, manifest, broken, newer, cache, entries, job>>
    BY <1>10 DEF Updated, local
  <2>2. \A c, down, writable : Offered(c, down, writable)' = Offered(c, down, writable)
    BY <2>1 DEF Offered, Loads
  <2>3. \A down, writable : CatalogStorages(down, writable)' = CatalogStorages(down, writable)
    BY <2>1, <2>2 DEF CatalogStorages
  <2>4. \A x, down : IsPublished(x, down)' = IsPublished(x, down)
    BY <2>1, <2>3 DEF IsPublished, HasChild
  <2>5. Shown' = Shown
    BY <2>1, <2>2 DEF Shown
  <2>6. Reachable'
    BY <2>1, <2>4, <2>5 DEF Noting, Reachable
  <2>7. \A x : Loads(x)' = Loads(x) /\ (Unsettled(x) => Unsettled(x)')
    BY <2>1 DEF Loads, Unsettled
  <2>8. FetchedOnly'
    BY <2>1, <2>7 DEF Noting, FetchedOnly
  <2>9. \A x : Noted(x)' = Noted(x)
    BY <2>1, <2>4, <2>7 DEF Noted
  <2> QED
    BY <2>1, <2>6, <2>7, <2>8, <2>9 DEF Noting
<1>11. CASE RemoveCatalogEntry
  <2>1. /\ pc = "disown" /\ pc' = "unlink" /\ UNCHANGED <<files, manifest, broken, newer, cache, job>>
    BY <1>11 DEF RemoveCatalogEntry
  <2> QED
    BY <1>0, <2>1, QuietNoting DEF Unsettled
<1>12. CASE Unlink
  <2>1. PICK o : o = job.obj
    OBVIOUS
  <2>2. /\ pc = "unlink" /\ pc' = "idle" /\ UNCHANGED <<files, broken, newer, cache>>
        /\ manifest' = [manifest EXCEPT ![o] = None]
    BY <1>12, <2>1 DEF Unlink, Finish
  <2>3. o \in Objects /\ manifest \in [Objects -> Man \union {None}]
    BY <1>0, <2>1, <2>2 DEF Typed, LocalTyped, JobTyped
  <2>4. ~Loads(o)' /\ \A x \in Objects \ {o} : Loads(x)' = Loads(x)
    BY <2>2, <2>3 DEF Loads
  <2>5. Reachable' /\ FetchedOnly'
    BY <1>0, <2>2, ReachableStays DEF Noting, FetchedOnly
  <2>6. \A s, x : HasChild(s, x)' = HasChild(s, x)
    BY <2>2 DEF HasChild
  <2>7. ASSUME NEW x \in Objects \ {o} PROVE Noted(x)'
    <3>1. Noted(x)
      BY <2>1 DEF Noting, Unsettled
    <3> QED
      BY <1>0, <2>2, <2>4, <2>6, <3>1, NotedStays
  <2>8. Noted(o)'
    BY <2>4 DEF Noted
  <2> QED
    BY <2>2, <2>5, <2>7, <2>8 DEF Noting
<1>13. ASSUME NEW op, WriteBreaks(op) PROVE Noting'
  BY <1>0, <1>13, BreakNotes
<1>14. CASE ChildUnreadable
  BY <1>0, <1>14, UnreadableNotes
<1> QED
  BY <1>1, <1>2, <1>3, <1>4, <1>5, <1>6, <1>7, <1>8, <1>9, <1>10, <1>11, <1>12, <1>13, <1>14, Zenon
     DEF PublisherStep

(* A container without a copy in the catalog is on publish's list of those that *)
(* are not published, whichever storages were out of reach and whichever        *)
(* publishes failed before: the file ".unpublished" that Publisher keeps from   *)
(* one command to the next misses nothing.                                     *)
THEOREM NothingIsHidden ==
    ASSUME RemoteCatalog, OneWritable, Reliable, FirstEntries # << >>
    PROVE  Spec => []NothingHidden
<1>1. Init => CalmInv /\ Noting
  <2> SUFFICES ASSUME Init PROVE CalmInv /\ Noting
    OBVIOUS
  <2>1. \E i \in DOMAIN entries : entries[i] \in Remote
    <3>1. FirstEntries \in Seq(Remote)
      BY CatalogAssumption
    <3> QED
      BY <3>1 DEF Init
  <2>2. Reachable
    BY <2>1 DEF Init, Reachable
  <2>3. Noting
    BY <2>2 DEF Init, Noting, FetchedOnly, Noted
  <2> QED
    BY <2>3, InitialCalm
<1>2. CalmInv /\ Noting /\ [Next]_vars => CalmInv' /\ Noting'
  <2> SUFFICES ASSUME CalmInv, Noting, [Next]_vars PROVE CalmInv' /\ Noting'
    OBVIOUS
  <2>1. CalmInv'
    BY NextKeepsCopies, FaultsCounted DEF CalmInv, Calm
  <2>2. CopiesInv /\ Typed
    BY DEF CalmInv, Calm, Reliable, CopiesInv
  <2>3. ASSUME ContainerCommand \/ StorageCommand PROVE Noting'
    BY <2>2, <2>3, CommandsKeepNoting
  <2>4. ASSUME PublisherStep PROVE Noting'
    BY <2>2, <2>4, PublisherKeepsNoting
  <2>5. ASSUME UNCHANGED vars PROVE Noting'
    BY <2>5, SameNoting DEF vars, local, control
  <2> QED
    BY <2>1, <2>3, <2>4, <2>5 DEF Next
<1>3. CalmInv /\ Noting => NothingHidden
  BY DEF Noting, Noted, Unsettled, NothingHidden, IsInvalid, Loads
<1> QED
  BY <1>1, <1>2, <1>3, PTL DEF Spec
=============================================================================
