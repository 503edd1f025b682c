--------------------------- MODULE AccountsProofs ---------------------------
(***************************************************************************)
(* Proofs about Accounts, for any users, names, requests and numbers of    *)
(* commands, failures and published versions.                              *)
(***************************************************************************)
EXTENDS Accounts, WellFoundedInduction, TLAPS

-----------------------------------------------------------------------------
(* The invariant: types, and what a command remembers at each step. *)

Created == {"create_default", "create_owner", "create_locals", "created"}
ForestPlaces == {"forest_modify", "forest_copy", "forest_publish", "forest_clean"}

(* The command that each step belongs to.                                     *)
PlacesOf(op) ==
    CASE op = "create" -> {"create", "create_save", "clean"} \cup Created
      [] op = "delete" -> {"delete", "delete_keys", "delete_default", "delete_owner",
                           "delete_locals", "delete_file"}
      [] op = "import" -> {"import", "import_save", "import_bridge", "bridge_created", "clean"}
      [] op = "bridge_create" -> {"bridge_create", "bridge_created", "clean"}
      [] op = "bridge_import" -> {"bridge_import", "bridge_read", "bridge_save", "refresh",
                                  "refresh_next", "clean"}
      [] op = "refresh" -> {"refresh", "refresh_next"}
      [] op = "forest_mount" -> {"forest_mount", "refresh", "refresh_next"}
      [] op = "forest" -> {"forest"} \cup ForestPlaces
      [] OTHER -> {op}

Places ==
    /\ pc = "idle" => job = None
    /\ pc # "idle" => job \in Requests /\ pc \in PlacesOf(job.op) /\ outcome = "none"
    /\ pc = "import_key" => job.user \in generated
    /\ outcome \in {"none", "ok", "failed", "crashed"}

(* What a bridge says of its target.                                          *)
BridgeFine(b) ==
    /\ b.at = "url" => b.target \in Theirs
    /\ b.at = "file" => b.file \in Files

Disk ==
    /\ users \in [Files -> Manifests \cup {None}]
    /\ bridges \in [Files -> Bridges \cup {None}]
    /\ \A f \in Files : bridges[f] # None => BridgeFine(bridges[f])
    /\ pub \subseteq Users /\ sec \subseteq generated /\ generated \subseteq Mine /\ half \subseteq Torn
    /\ conf \in [default : Users \cup {None}, owner : Users \cup {None}, locals : SUBSET Users]
    /\ containers \subseteq Users \X {"own", "catalog"}
    /\ store \in [Users -> [copy : Manifests \cup {None}, published : BOOLEAN]]
    /\ remote \in [Theirs -> Manifests]
    /\ commands \in 0..MaxCommands /\ faults \in 0..MaxFaults

(* The fields of a command's memory.                                          *)
MemFields == {"keys", "priv", "owns", "cache", "made", "todo", "fetched", "failed", "user",
              "name", "old"}

MemoryOf(m) ==
    /\ DOMAIN m = MemFields
    /\ m.keys \subseteq Users /\ m.priv \subseteq m.keys /\ m.priv \subseteq Mine
    /\ m.owns \in [Users -> SUBSET Users]
    /\ m.cache \in [Files -> Users \cup {None, Broken}]
    /\ \A x \in m.made : x[1] \in {"user", "bridge", "key"} /\ x = <<x[1], x[2]>>
    /\ m.fetched \subseteq Manifests
    /\ m.user \in Users \cup {None}

Memory ==
    pc # "idle" =>
        /\ MemoryOf(mem)
        /\ pc \in {"create_save"} \cup Created => mem.user \in Users
        /\ pc \in ForestPlaces => mem.user \in Mine
        /\ pc = "bridge_save" => mem.todo \subseteq Theirs
        /\ pc = "refresh_next" =>
              \A x \in mem.todo : x[1] \in Files /\ bridges[x[1]] # None /\ x[2] \in Nat

Typed == Disk /\ Places /\ Memory

-----------------------------------------------------------------------------
(* The invariant: what holds of the files. *)

(* What a command has loaded as a user is that user's manifest, until it        *)
(* cleans up.                                                                 *)
CacheRight ==
    pc \notin {"idle", "clean"} /\ job.op # "forest_mount" =>
        \A f \in Files : mem.cache[f] \in Users => users[f] # None /\ users[f].owner = mem.cache[f]

(* What is there besides what the command has made was there when it began.    *)
Undoable(kind, dir, before) ==
    \A f \in Files : IF <<kind, f>> \in mem.made THEN before[f] = None ELSE dir[f] = before[f]
KeysMade == {k \in Users : <<"key", k>> \in mem.made}

(* Of the files that broke off since then there is one at most, whose write     *)
(* ended the command.                                                         *)
OneMore(before) == half = before \/ \E x \in Torn : half = before \cup {x}
BrokeOff == IF pc = "clean" THEN OneMore(mem.old.half) ELSE half = mem.old.half

Restorable ==
    pc # "idle" /\ job.op \in CleaningOps =>
        /\ mem.old.users \in [Files -> Manifests \cup {None}]
        /\ mem.old.bridges \in [Files -> Bridges \cup {None}]
        /\ job.op # "bridge_import" => Undoable("user", users, mem.old.users)
        /\ Undoable("bridge", bridges, mem.old.bridges)
        /\ mem.old.sec \subseteq sec /\ sec \ mem.old.sec \subseteq KeysMade
        /\ KeysMade \cap mem.old.sec = {}
        /\ pc = "create_save" /\ job.user = None => mem.user \in KeysMade
        /\ BrokeOff

(* A user whom the configuration names has a manifest that no failure of the   *)
(* running command will take away.                                            *)
Lasting(u) ==
    \E f \in Files : /\ users[f] # None /\ users[f].owner = u
                     /\ pc \notin Created \cup {"idle"} => <<"user", f>> \notin mem.made
Configured == ({conf.default, conf.owner} \cup conf.locals) \ {None}

Forgotten ==
    /\ pc \in {"delete_owner", "delete_locals", "delete_file"} => conf.default # job.user
    /\ pc \in {"delete_locals", "delete_file"} => conf.owner # job.user
    /\ pc = "delete_file" => job.user \notin conf.locals

ConfInv ==
    /\ \A u \in Configured : Lasting(u)
    /\ pc \in Created => HasManifest(mem.user)
    /\ Forgotten

(* How far wl forest create has come.                                         *)
ForestMade ==
    LET f == Seen(mem.user)
    IN  /\ pc \in ForestPlaces => f # None
        /\ pc \in {"forest_copy", "forest_publish"} \/ (pc = "forest_clean" /\ ~mem.failed)
              => users[f].catalog
        /\ pc = "forest_publish" \/ (pc = "forest_clean" /\ ~mem.failed)
              => store[mem.user].copy = users[f]
        /\ pc = "forest_clean" /\ ~mem.failed => store[mem.user].published

FilesInv == Typed /\ CacheRight /\ Restorable /\ ForestMade

-----------------------------------------------------------------------------
(* Files and names. *)

(* Every nonempty set of numbers has a least element.                         *)
LEMMA Least ==
    ASSUME NEW T, T \subseteq Nat, T # {}
    PROVE  \E x \in T : \A y \in T : x <= y
<1> DEFINE R == OpToRel(<, Nat)
<1>1. \E x \in T : \A y \in T : ~ (<<y, x>> \in R)
  BY NatLessThanWellFounded, WFMin
<1>2. \A x, y \in Nat : y < x => <<y, x>> \in R
  BY DEF OpToRel
<1> HIDE DEF R
<1>3. PICK x \in T : \A y \in T : ~ (<<y, x>> \in R)
  BY <1>1
<1>4. \A y \in T : ~ (y < x)
  BY <1>2, <1>3
<1> QED
  BY <1>3, <1>4

(* glob() puts every file at a place of its own.                              *)
LEMMA RankIsNumber ==
    ASSUME NEW f \in Files
    PROVE  Rank(f) \in Nat /\ Rank(f) <= 3 * Len(NameSeq) + 3
<1>1. Len(NameSeq) \in Nat
  BY ConstantsAssumption
<1>2. PICK k \in 1..Len(NameSeq) : NameSeq[k] = f[1]
  BY DEF Files, Names
<1>3. Index(f[1]) \in 1..Len(NameSeq)
  BY <1>2 DEF Index
<1>4. f[2] \in 0..2
  BY DEF Files
<1> QED
  BY <1>1, <1>3, <1>4 DEF Rank

(* The first and the last of some files (sorted(glob())) are among them.       *)
LEMMA FirstAndLast ==
    ASSUME NEW fs, fs \subseteq Files, fs # {}
    PROVE  First(fs) \in fs /\ Last(fs) \in fs
<1>1. \E f \in fs : \A g \in fs : Rank(f) <= Rank(g)
  <2>1. PICK x \in {Rank(f) : f \in fs} : \A y \in {Rank(f) : f \in fs} : x <= y
    BY Least, RankIsNumber
  <2> QED
    BY <2>1
<1>2. \E f \in fs : \A g \in fs : Rank(f) >= Rank(g)
  <2> DEFINE top == 3 * Len(NameSeq) + 3
             rest(f) == top - Rank(f)
  <2>1. top \in Nat
    BY ConstantsAssumption
  <2>2. \A f \in fs : rest(f) \in Nat /\ rest(f) = top - Rank(f) /\ Rank(f) \in Nat
    BY <2>1, RankIsNumber
  <2> HIDE DEF rest, top
  <2>3. PICK x \in {rest(f) : f \in fs} : \A y \in {rest(f) : f \in fs} : x <= y
    BY <2>2, Least
  <2>4. PICK f \in fs : x = rest(f)
    BY <2>3
  <2>5. \A g \in fs : rest(f) <= rest(g)
    BY <2>3, <2>4
  <2>6. \A g \in fs : Rank(f) >= Rank(g)
    BY <2>1, <2>2, <2>5
  <2> QED
    BY <2>6
<1> QED
  BY <1>1, <1>2 DEF First, Last

(* The file under which client.users has a user is one that was loaded as his.   *)
LEMMA SeenIsLoaded ==
    ASSUME NEW u, Seen(u) # None
    PROVE  Seen(u) \in Files /\ mem.cache[Seen(u)] = u
<1> DEFINE fs == {f \in Files : mem.cache[f] = u}
<1>1. fs # {} /\ Seen(u) = Last(fs)
  BY DEF Seen
<1> HIDE DEF fs
<1>2. Last(fs) \in fs
  BY <1>1, FirstAndLast DEF fs
<1> QED
  BY <1>1, <1>2 DEF fs

(* new_path gives a file that is not there.                                   *)
LEMMA NewPathIsFree ==
    ASSUME NEW dir, NEW n, Free(dir, n)
    PROVE  /\ dir[NewPath(dir, n)] = None
           /\ n \in Names => NewPath(dir, n) \in Files
<1>1. \E k \in 0..2 : dir[<<n, k>>] = None /\ \A i \in 0..(k - 1) : dir[<<n, i>>] # None
  <2>1. CASE dir[<<n, 0>>] = None
    BY <2>1
  <2>2. CASE dir[<<n, 0>>] # None /\ dir[<<n, 1>>] = None
    BY <2>2
  <2>3. CASE dir[<<n, 0>>] # None /\ dir[<<n, 1>>] # None
    <3>1. dir[<<n, 2>>] = None
      BY <2>3 DEF Free
    <3>2. \A i \in 0..(2 - 1) : i = 0 \/ i = 1
      OBVIOUS
    <3> QED
      BY <2>3, <3>1, <3>2
  <2> QED
    BY <2>1, <2>2, <2>3
<1> DEFINE j == CHOOSE k \in 0..2 : dir[<<n, k>>] = None /\ \A i \in 0..(k - 1) : dir[<<n, i>>] # None
<1>2. j \in 0..2 /\ dir[<<n, j>>] = None
  BY <1>1
<1>3. NewPath(dir, n) = <<n, j>>
  BY DEF NewPath
<1> HIDE DEF j
<1> QED
  BY <1>2, <1>3 DEF Files

(* A new user manifest gets a file that is not there.                          *)
LEMMA UserPathIsFree ==
    ASSUME NEW n \in Names, Free(Dir("user"), n)
    PROVE  LET f == NewPath(Dir("user"), n) IN f \in Files /\ users[f] = None
<1>1. NewPath(Dir("user"), n) \in Files /\ Dir("user")[NewPath(Dir("user"), n)] = None
  BY NewPathIsFree
<1> QED
  BY <1>1, ConstantsAssumption DEF Dir

(* For bridges, too.                                                          *)
LEMMA BridgePathIsFree ==
    ASSUME NEW n \in Names, Free(Dir("bridge"), n)
    PROVE  LET f == NewPath(Dir("bridge"), n) IN f \in Files /\ bridges[f] = None
<1>1. NewPath(Dir("bridge"), n) \in Files /\ Dir("bridge")[NewPath(Dir("bridge"), n)] = None
  BY NewPathIsFree
<1> QED
  BY <1>1, ConstantsAssumption DEF Dir

(* A write of a new file that breaks off leaves one file at most.               *)
TornOnce == half' = half \/ \E x \in Torn : half' = half \cup {x}

(* The path is one of the directory's.                                        *)
LEMMA TearsOnce ==
    ASSUME NEW kind \in {"user", "bridge"}, NEW n \in Names, TearsNew(kind, n)
    PROVE  TornOnce
<1>1. CASE UNCHANGED half
  BY <1>1 DEF TornOnce
<1>2. CASE Free(Dir(kind), n) /\ half' = half \cup {<<kind, NewPath(Dir(kind), n)>>}
  <2>1. NewPath(Dir(kind), n) \in Files
    BY <1>2, NewPathIsFree
  <2>2. <<kind, NewPath(Dir(kind), n)>> \in Torn
    BY <2>1 DEF Torn
  <2> QED
    BY <1>2, <2>2 DEF TornOnce
<1> QED
  BY <1>1, <1>2 DEF TearsNew

(* It keeps its type.                                                         *)
LEMMA TornOnceTyped == ASSUME half \subseteq Torn, TornOnce PROVE half' \subseteq Torn
  BY DEF TornOnce

-----------------------------------------------------------------------------
(* Commands and their steps. *)

(* What the options of a command may be (cli_user, cli_bridge, cli_forest).     *)
LEMMA Options ==
    ASSUME job \in Requests
    PROVE  /\ job.op \in {"create", "delete", "import", "bridge_import", "bridge_create",
                          "bridge_delete", "refresh", "forest_mount", "modify", "import_key",
                          "forest", "container"}
           /\ job.op = "create" => /\ job.user \in Users \cup {None} /\ job.extra \subseteq Users
                                   /\ job.name \in Names /\ job.path \in Names
           /\ job.op = "delete" => job.user \in Users
           /\ job.op = "import" => job.user \in Theirs /\ job.owner \in Users \cup {None}
           /\ job.op = "bridge_import" => job.targets \subseteq Theirs /\ job.owner \in Users \cup {None}
           /\ job.op = "bridge_create" => job.user \in Users /\ job.owner \in Users \cup {None}
           /\ job.op = "modify" => job.user \in Users /\ job.add \subseteq Users /\ job.of \subseteq Users
           /\ job.op = "import_key" => job.user \in Users
           /\ job.op = "forest" => job.user \in Users \cup {None}
           /\ job.op = "container" => job.user \in Users
<1>1. job \in AllRequests
  BY RequestsAssumption
<1> QED
  BY <1>1 DEF AllRequests

(* Each step belongs to a command (the functions of cli/ and core/).            *)
LEMMA OpAt ==
    ASSUME Places
    PROVE  /\ pc \in {"create", "create_save"} \cup Created => job.op = "create"
           /\ pc \in {"delete", "delete_keys", "delete_default", "delete_owner", "delete_locals",
                      "delete_file"} => job.op = "delete"
           /\ pc \in {"import", "import_save", "import_bridge"} => job.op = "import"
           /\ pc = "bridge_created" => job.op \in {"import", "bridge_create"}
           /\ pc = "bridge_create" => job.op = "bridge_create"
           /\ pc \in {"bridge_import", "bridge_read", "bridge_save"} => job.op = "bridge_import"
           /\ pc \in {"refresh", "refresh_next"} => job.op \in {"bridge_import", "refresh", "forest_mount"}
           /\ pc = "forest_mount" => job.op = "forest_mount"
           /\ pc \in {"forest"} \cup ForestPlaces => job.op = "forest"
           /\ pc = "bridge_delete" => job.op = "bridge_delete"
           /\ pc = "modify" => job.op = "modify"
           /\ pc = "import_key" => job.op = "import_key"
           /\ pc = "container" => job.op = "container"
           /\ pc = "clean" => job.op \in CleaningOps
           /\ pc # "idle" => job \in Requests
<1>1. CASE pc = "idle"
  BY <1>1 DEF Created, ForestPlaces
<1>2. CASE pc # "idle"
  <2>1. job \in Requests /\ pc \in PlacesOf(job.op)
    BY <1>2 DEF Places
  <2>2. job.op \in {"create", "delete", "import", "bridge_import", "bridge_create",
                    "bridge_delete", "refresh", "forest_mount", "modify", "import_key",
                    "forest", "container"}
    BY <2>1, Options
  <2> QED
    BY <2>1, <2>2 DEF PlacesOf, Created, ForestPlaces, CleaningOps
<1> QED
  BY <1>1, <1>2

-----------------------------------------------------------------------------
(* Types. *)

(* The types of the parts are those of TypeOK.                                *)
LEMMA TypedIsTypeOK == Typed => TypeOK
  BY RequestsAssumption DEF Typed, Disk, Places, Memory, MemoryOf, TypeOK

(* With nothing written, no key and no command.                               *)
LEMMA TypedStarts == Init => Typed
  BY ConstantsAssumption, RequestsAssumption DEF Init, Typed, Disk, Places, Memory, NoConf

(* A command that ends leaves no memory.                                      *)
LEMMA Ends ==
    ASSUME NEW how \in {"ok", "failed", "crashed"}, End(how)
    PROVE  Places' /\ Memory'
  BY DEF End, Places, Memory

(* A command goes on with one of its own steps.                               *)
LEMMA GoesOn ==
    ASSUME Places, pc # "idle", NEW p, Goto(p), p \in PlacesOf(job.op), p # "import_key"
    PROVE  Places'
<1>1. pc' = p /\ job' = job /\ outcome' = outcome
  BY DEF Goto
<1>2. p # "idle"
  BY Options DEF Places, PlacesOf, Created, ForestPlaces
<1> QED
  BY <1>1, <1>2 DEF Places, PlacesOf

(* It keeps what it knows when it goes to a step that asks no more of it.       *)
LEMMA Remembers ==
    ASSUME Memory, pc # "idle", UNCHANGED mem, UNCHANGED bridges,
           pc' \notin {"create_save", "bridge_save", "refresh_next"} \cup Created \cup ForestPlaces
    PROVE  Memory'
  BY DEF Memory

(* A command that fails cleans up or ends.                                    *)
LEMMA FailsTyped ==
    ASSUME Places, Memory, pc # "idle", Fails, UNCHANGED bridges
    PROVE  Places' /\ Memory'
<1>1. CASE job.op \in CleaningOps
  <2>1. Goto("clean") /\ UNCHANGED mem
    BY <1>1 DEF Fails
  <2>2. "clean" \in PlacesOf(job.op)
    BY <1>1 DEF CleaningOps, PlacesOf
  <2>3. pc' = "clean"
    BY <2>1 DEF Goto
  <2> QED
    BY <2>1, <2>2, <2>3, GoesOn, Remembers DEF Created, ForestPlaces
<1>2. CASE job.op \notin CleaningOps
  BY <1>2, Ends DEF Fails
<1> QED
  BY <1>1, <1>2

(* A counted fault stays within the bound.                                    *)
LEMMA Counts ==
    ASSUME faults \in 0..MaxFaults, NEW kind, NEW bad \in Faulty(kind), Count(bad)
    PROVE  bad \in BOOLEAN /\ faults' \in 0..MaxFaults
<1>1. bad = FALSE \/ (bad \in BOOLEAN /\ faults < MaxFaults)
  <2>1. CASE kind \in Faults /\ faults < MaxFaults
    <3>1. Faulty(kind) = BOOLEAN
      BY <2>1 DEF Faulty
    <3> QED
      BY <2>1, <3>1
  <2>2. CASE ~(kind \in Faults /\ faults < MaxFaults)
    <3>1. Faulty(kind) = {FALSE}
      BY <2>2 DEF Faulty
    <3> QED
      BY <3>1
  <2> QED
    BY <2>1, <2>2
<1>2. CASE bad = FALSE
  <2>1. ~bad
    BY <1>2
  <2>2. faults' = faults + 0
    BY <2>1 DEF Count
  <2>3. faults' \in 0..MaxFaults
    BY <2>2, ConstantsAssumption
  <2>4. bad \in BOOLEAN
    BY <1>2
  <2> QED
    BY <2>3, <2>4
<1>3. CASE bad \in BOOLEAN /\ faults < MaxFaults
  <2>1. faults' = faults \/ faults' = faults + 1
    BY <1>3 DEF Count
  <2> QED
    BY <1>3, <2>1, ConstantsAssumption
<1> QED
  BY <1>1, <1>2, <1>3

(* wl user create: the key.                                                   *)
LEMMA CreateKeyTyped == ASSUME Typed, CreateKey PROVE Typed'
<1>0. pc = "create" /\ pc # "idle" /\ job.op = "create" /\ job.user \in Users \cup {None}
  BY OpAt, Options DEF Typed, CreateKey, At, Created
<1>1. UNCHANGED <<users, bridges, conf, containers, store, remote, commands>>
  BY DEF CreateKey
<1>2. CASE job.user \in pub /\ mem' = [mem EXCEPT !.user = job.user] /\ Goto("create_save")
           /\ UNCHANGED <<pub, sec, half, generated, faults>>
  <2>1. Places'
    BY <1>0, <1>2, GoesOn DEF Typed, PlacesOf
  <2>2. Disk'
    BY <1>1, <1>2 DEF Typed, Disk, BridgeFine
  <2>3. Memory'
    BY <1>0, <1>1, <1>2 DEF Typed, Disk, Memory, MemoryOf, MemFields, Goto, Created, ForestPlaces
  <2> QED
    BY <2>1, <2>2, <2>3 DEF Typed
<1>3. CASE job.user \notin pub \cup {None} /\ Fails /\ UNCHANGED <<pub, sec, half, generated, faults>>
  <2>1. Disk'
    BY <1>1, <1>3 DEF Typed, Disk, BridgeFine
  <2> QED
    BY <1>0, <1>1, <1>3, <2>1, FailsTyped DEF Typed
<1>4. ASSUME job.user = None, NEW k \in Mine \ generated, NEW bad \in Faulty("write"),
             Count(bad), generated' = generated \cup {k},
             NEW wrote \in IF bad THEN {"none", "pub"} ELSE {"both"}, PutKey(k, wrote),
             Goto(IF bad THEN "clean" ELSE "create_save")
      PROVE  Typed'
  <2>1. Places'
    BY <1>0, <1>4, GoesOn DEF Typed, PlacesOf
  <2>4. k \in Users /\ half' \subseteq Torn
    <3>1. <<"key", k>> \in Torn
      BY DEF Torn
    <3> QED
      BY <1>4, <3>1 DEF PutKey, Tears, Typed, Disk, Users
  <2>5. pub' \subseteq Users /\ sec' \subseteq generated' /\ generated' \subseteq Mine
    BY <1>4, <2>4 DEF PutKey, Typed, Disk
  <2>2. Disk'
    BY <1>1, <1>4, <2>4, <2>5, Counts DEF Typed, Disk, BridgeFine
  <2>6. MemoryOf(mem) /\ MemoryOf(mem') /\ mem'.user = k
    <3>1. MemoryOf(mem)
      BY <1>0 DEF Typed, Memory
    <3>2. /\ DOMAIN mem' = MemFields /\ mem'.user = k
          /\ mem'.keys = mem.keys \cup (IF wrote = "none" THEN {} ELSE {k})
          /\ mem'.priv = IF wrote = "both" THEN mem.priv \cup {k} ELSE mem.priv
          /\ mem'.made = mem.made \cup {<<"key", x>> : x \in IF wrote = "none" THEN {} ELSE {k}}
          /\ \A x \in {"owns", "cache", "fetched"} : mem'[x] = mem[x]
      BY <1>4, <3>1 DEF PutKey, MemoryOf, MemFields
    <3>3. mem'.owns = mem.owns /\ mem'.cache = mem.cache /\ mem'.fetched = mem.fetched
      BY <3>2
    <3>4. \A x \in mem'.made : x[1] \in {"user", "bridge", "key"} /\ x = <<x[1], x[2]>>
      BY <3>1, <3>2 DEF MemoryOf
    <3> QED
      BY <1>4, <2>4, <3>1, <3>2, <3>3, <3>4 DEF MemoryOf
  <2>3. Memory'
    BY <1>4, <2>4, <2>6 DEF Memory, Goto, Created, ForestPlaces
  <2> QED
    BY <2>1, <2>2, <2>3 DEF Typed
<1> QED
  <2>1. CASE /\ job.user = None
             /\ \E k \in Mine \ generated, bad \in Faulty("write") :
                   /\ Count(bad) /\ generated' = generated \cup {k}
                   /\ \E wrote \in IF bad THEN {"none", "pub"} ELSE {"both"} : PutKey(k, wrote)
                   /\ Goto(IF bad THEN "clean" ELSE "create_save")
    BY <1>4, <2>1
  <2> QED
    BY <1>2, <1>3, <2>1 DEF CreateKey

(* What the config file may hold.                                             *)
ConfType == [default : Users \cup {None}, owner : Users \cup {None}, locals : SUBSET Users]

(* Config.update_and_save leaves a configuration.                            *)
LEMMA SaveConfTyped ==
    ASSUME Typed, pc # "idle", NEW c \in ConfType, NEW then, SaveConf(c, then),
           then \in PlacesOf(job.op), then \notin {"create_save", "bridge_save", "refresh_next", "import_key"} \cup ForestPlaces,
           then \in Created => pc \in Created
    PROVE  Typed'
<1>1. Goto(then) /\ UNCHANGED <<users, bridges, pub, sec, containers, store, mem, world>>
  BY DEF SaveConf
<1>2. conf' \in ConfType /\ faults' \in 0..MaxFaults
  <2>1. PICK bad \in (IF c = conf THEN {FALSE} ELSE Faulty("config")) :
              conf' = (IF bad THEN conf ELSE c) /\ Count(bad)
    BY DEF SaveConf
  <2>2. conf' = conf \/ conf' = c
    BY <2>1
  <2>3. bad \in Faulty("config")
    <3>1. FALSE \in Faulty("config")
      BY DEF Faulty
    <3> QED
      BY <3>1, <2>1
  <2> QED
    BY <2>1, <2>2, <2>3, Counts DEF Typed, Disk, ConfType
<1>3. Disk'
  BY <1>1, <1>2 DEF Typed, Disk, BridgeFine, world, ConfType
<1>4. Places'
  BY <1>1, GoesOn DEF Typed
<1>5. Memory'
  BY <1>1 DEF Typed, Memory, Goto
<1> QED
  BY <1>3, <1>4, <1>5 DEF Typed

(* The running command writes a user manifest (save_new_object).               *)
LEMMA PutUserTyped ==
    ASSUME Disk, MemoryOf(mem), NEW f, NEW m \in Manifests, NEW isMade \in BOOLEAN, PutUser(f, m, isMade)
    PROVE  /\ users' \in [Files -> Manifests \cup {None}]
           /\ MemoryOf(mem') /\ mem'.user = mem.user /\ mem'.todo = mem.todo
           /\ mem'.made = mem.made \/ mem'.made = mem.made \cup {<<"user", f>>}
<1>1. users' \in [Files -> Manifests \cup {None}]
  BY DEF Disk, PutUser
<1>2. m.owner \in Users
  BY DEF Manifests
<1>3. mem'.made = mem.made \/ mem'.made = mem.made \cup {<<"user", f>>}
  BY DEF PutUser, MemoryOf, MemFields
<1>4. mem'.cache = [mem.cache EXCEPT ![f] = m.owner]
  BY DEF PutUser, MemoryOf, MemFields
<1>5. /\ DOMAIN mem' = MemFields
      /\ \A x \in MemFields \ {"made", "cache"} : mem'[x] = mem[x]
  BY DEF PutUser, MemoryOf, MemFields
<1>6. /\ mem'.keys = mem.keys /\ mem'.priv = mem.priv /\ mem'.owns = mem.owns
      /\ mem'.fetched = mem.fetched /\ mem'.user = mem.user /\ mem'.todo = mem.todo
  BY <1>5 DEF MemFields
<1>7. mem'.cache \in [Files -> Users \cup {None, Broken}]
  BY <1>2, <1>4 DEF MemoryOf
<1>8. \A x \in mem'.made : x[1] \in {"user", "bridge", "key"} /\ x = <<x[1], x[2]>>
  BY <1>3 DEF MemoryOf
<1>9. MemoryOf(mem')
  BY <1>5, <1>6, <1>7, <1>8 DEF MemoryOf
<1> QED
  BY <1>1, <1>3, <1>6, <1>9

(* add_pubkey keeps the types of what is known of keys.                       *)
LEMMA AddPubkeysTyped ==
    ASSUME Disk, MemoryOf(mem), NEW ks \in SUBSET Users, NEW o \in Users
    PROVE  LET m == AddPubkeys(ks, o)
           IN  /\ MemoryOf(m)
               /\ \A x \in MemFields \ {"keys", "priv", "owns"} : m[x] = mem[x]
<1> DEFINE m == AddPubkeys(ks, o)
<1>1. /\ DOMAIN m = MemFields
      /\ \A x \in MemFields \ {"keys", "priv", "owns"} : m[x] = mem[x]
  BY DEF AddPubkeys, MemoryOf, MemFields
<1>2. m.keys = mem.keys \cup ks /\ m.priv = mem.priv \cup (ks \cap sec)
      /\ m.owns = [k \in Users |-> mem.owns[k] \cup (IF k \in ks THEN {o} ELSE {})]
  BY DEF AddPubkeys, MemoryOf, MemFields
<1> HIDE DEF m
<1>3. /\ m.cache = mem.cache /\ m.made = mem.made
      /\ m.fetched = mem.fetched /\ m.user = mem.user
  BY <1>1 DEF MemFields
<1>4. sec \subseteq Mine /\ sec \subseteq Users
  BY DEF Disk, Users
<1>5. MemoryOf(m)
  BY <1>1, <1>2, <1>3, <1>4 DEF MemoryOf
<1> QED
  BY <1>1, <1>5 DEF m

(* The running command writes a bridge, or fails (save_new_object).            *)
LEMMA PutBridgeTyped ==
    ASSUME Typed, pc # "idle", NEW o \in Users \cup {None}, NEW u \in Users, NEW at \in {"link", "url", "file"},
           NEW file \in Files \cup {None}, NEW then,
           at = "url" => u \in Theirs, at = "file" => file \in Files,
           PutBridge(o, u, at, file, then), then \in PlacesOf(job.op),
           then = "bridge_created" \/ (then = "bridge_save" /\ pc = "bridge_save"),
           UNCHANGED <<users, pub, sec, conf, containers, store, remote, commands, generated>>
    PROVE  Typed'
<1>1. ASSUME Fails, UNCHANGED bridges, faults' \in 0..MaxFaults, TornOnce
      PROVE  Typed'
  <2>2. half' \subseteq Torn
    BY <1>1, TornOnceTyped DEF Typed, Disk
  <2>1. Disk'
    BY <1>1, <2>2 DEF Typed, Disk, BridgeFine
  <2> QED
    BY <1>1, <2>1, FailsTyped DEF Typed
<1>2. CASE Fails /\ UNCHANGED <<bridges, half, faults>>
  BY <1>1, <1>2 DEF Typed, Disk, TornOnce
<1>4. NameOf[u] \in Names
  BY ConstantsAssumption
<1>3. ASSUME NEW k \in Signers(o), NEW bad \in Faulty("write"), Count(bad),
             IF bad
             THEN Fails /\ TearsNew("bridge", NameOf[u]) /\ UNCHANGED bridges
             ELSE LET b == NewPath(Dir("bridge"), NameOf[u])
                  IN  /\ Free(Dir("bridge"), NameOf[u]) /\ UNCHANGED half
                      /\ bridges' = [bridges EXCEPT ![b] =
                             [owner |-> o, signer |-> k, target |-> u, at |-> at, file |-> file]]
                      /\ mem' = [mem EXCEPT !.made = @ \cup {<<"bridge", b>>}, !.todo = @ \ {u}]
                      /\ Goto(then)
      PROVE  Typed'
  <2>1. bad \in BOOLEAN /\ faults' \in 0..MaxFaults
    BY <1>3, Counts DEF Typed, Disk
  <2>2. CASE bad
    BY <1>1, <1>3, <1>4, <2>1, <2>2, TearsOnce
  <2>3. CASE ~bad
    <3> DEFINE b == NewPath(Dir("bridge"), NameOf[u])
               new == [owner |-> o, signer |-> k, target |-> u, at |-> at, file |-> file]
    <3>1. /\ Free(Dir("bridge"), NameOf[u]) /\ UNCHANGED half
          /\ bridges' = [bridges EXCEPT ![b] = new]
          /\ mem' = [mem EXCEPT !.made = @ \cup {<<"bridge", b>>}, !.todo = @ \ {u}]
          /\ Goto(then)
      BY <1>3, <2>3
    <3>2. k \in Users
      BY DEF Signers, Typed, Memory, MemoryOf
    <3>9. o \in Users
      BY ConstantsAssumption DEF Signers, Typed, Memory, MemoryOf
    <3>3. new \in Bridges /\ BridgeFine(new)
      BY <3>2, <3>9 DEF Bridges, BridgeFine
    <3>5. b \in Files /\ bridges[b] = None
      BY <1>4, <3>1, BridgePathIsFree
    <3> HIDE DEF b, new
    <3>6. Disk'
      BY <2>1, <3>1, <3>3, <3>5 DEF Typed, Disk, BridgeFine
    <3>7. Places'
      BY <3>1, GoesOn DEF Typed
    <3>8. MemoryOf(mem') /\ mem'.user = mem.user /\ mem'.todo = mem.todo \ {u}
      BY <3>1 DEF Typed, Memory, MemoryOf, MemFields
    <3>10. Memory'
      BY <3>1, <3>8 DEF Typed, Memory, Goto, Created, ForestPlaces
    <3> QED
      BY <3>6, <3>7, <3>10 DEF Typed
  <2> QED
    BY <2>1, <2>2, <2>3
<1> QED
  BY <1>2, <1>3 DEF PutBridge

(* wl user create: the manifest and the configuration.                        *)
LEMMA CreateSaveTyped == ASSUME Typed, CreateSave PROVE Typed'
<1> DEFINE k == mem.user
<1>0. /\ pc = "create_save" /\ pc # "idle" /\ job.op = "create" /\ k \in Users
      /\ job.extra \subseteq Users /\ job.name \in Names /\ job.path \in Names
      /\ MemoryOf(mem)
  BY OpAt, Options DEF Typed, Memory, CreateSave, At
<1>1. UNCHANGED <<bridges, conf, containers, store, remote, commands, generated>>
  BY DEF CreateSave, world
<1>2. PICK bad \in IF k \in sec THEN Faulty("write") ELSE {TRUE} :
         LET gone == IF bad /\ job.user = None THEN {k} ELSE {}
         IN  /\ Count(bad /\ k \in sec)
             /\ pub' = (pub \cup {k} \cup job.extra) \ gone
             /\ sec' = sec \ gone
             /\ IF bad /\ k \in sec THEN TearsNew("user", job.name) ELSE UNCHANGED half
             /\ IF bad
                THEN Fails /\ UNCHANGED users
                ELSE /\ Free(Dir("user"), job.name)
                     /\ PutUser(NewPath(Dir("user"), job.name),
                                [owner |-> k, extra |-> job.extra, path |-> job.path,
                                 catalog |-> FALSE, version |-> 0], TRUE)
                     /\ Goto("create_default")
  BY DEF CreateSave
<1>3. bad \in BOOLEAN /\ faults' \in 0..MaxFaults
  <2>1. CASE k \in sec
    <3>1. bad \in Faulty("write")
      BY <2>1
    <3>2. bad \in BOOLEAN
      BY <3>1 DEF Faulty
    <3>3. Count(bad)
      BY <1>2, <2>1, <3>2 DEF Count
    <3> QED
      BY <3>1, <3>3, Counts DEF Typed, Disk
  <2>2. CASE k \notin sec
    <3>1. faults' = faults + 0
      BY <1>2, <2>2 DEF Count
    <3>2. faults' \in 0..MaxFaults
      BY <3>1, ConstantsAssumption DEF Typed, Disk
    <3>3. bad \in BOOLEAN
      BY <2>2
    <3> QED
      BY <3>2, <3>3
  <2> QED
    BY <2>1, <2>2
<1>4. pub' \subseteq Users /\ sec' \subseteq generated
  BY <1>0, <1>2 DEF Typed, Disk
<1>7. half' \subseteq Torn
  <2>1. TornOnce
    BY <1>0, <1>2, TearsOnce DEF TornOnce
  <2> QED
    BY <2>1, TornOnceTyped DEF Typed, Disk
<1>5. CASE bad
  <2>1. Fails /\ UNCHANGED users
    BY <1>2, <1>5
  <2>2. Disk'
    BY <1>1, <1>3, <1>4, <1>7, <2>1 DEF Typed, Disk, BridgeFine
  <2> QED
    BY <1>0, <1>1, <2>1, <2>2, FailsTyped DEF Typed
<1>6. CASE ~bad
  <2> DEFINE m == [owner |-> k, extra |-> job.extra, path |-> job.path, catalog |-> FALSE, version |-> 0]
  <2>1. PutUser(NewPath(Dir("user"), job.name), m, TRUE) /\ Goto("create_default")
    BY <1>2, <1>6
  <2>2. m \in Manifests
    BY <1>0, ConstantsAssumption DEF Manifests
  <2> HIDE DEF m
  <2>3. users' \in [Files -> Manifests \cup {None}] /\ MemoryOf(mem') /\ mem'.user = k
    BY <1>0, <2>1, <2>2, PutUserTyped DEF Typed
  <2>4. Disk'
    BY <1>1, <1>3, <1>4, <1>7, <2>3 DEF Typed, Disk, BridgeFine
  <2>5. Places'
    BY <1>0, <2>1, GoesOn DEF Typed, PlacesOf, Created
  <2>6. Memory'
    BY <1>0, <2>1, <2>3 DEF Memory, Goto, Created, ForestPlaces
  <2> QED
    BY <2>4, <2>5, <2>6 DEF Typed
<1> QED
  BY <1>3, <1>5, <1>6

(* What a command ends with when nothing is written.                          *)
LEMMA DoneTyped ==
    ASSUME Typed, NEW p, Done(p)
    PROVE  Typed'
<1>1. Disk'
  BY DEF Done, disk, world, Typed, Disk, BridgeFine
<1>2. End("ok")
  BY DEF Done
<1> QED
  BY <1>1, <1>2, Ends DEF Typed

(* wl user create: the three values of the configuration (_user_create).     *)
LEMMA CreateConfTyped == ASSUME Typed, CreateConf PROVE Typed'
<1>0. conf \in ConfType
  BY DEF Typed, Disk, ConfType
<1>1. CASE Done("created")
  BY <1>1, DoneTyped
<1>2. CASE pc \in Created \ {"created"}
  <2>1. job.op = "create" /\ mem.user \in Users /\ pc # "idle"
    BY <1>2, OpAt DEF Typed, Memory, Created
  <2>2. /\ conf \in ConfType /\ DefaultUser(mem.user) \in ConfType /\ DefaultOwner(mem.user) \in ConfType
        /\ LocalOwners(conf.locals \cup {mem.user}) \in ConfType
    BY <1>0, <2>1 DEF ConfType, DefaultUser, DefaultOwner, LocalOwners
  <2>3. PICK c \in ConfType, then \in Created : SaveConf(c, then)
    BY <1>2, <2>2 DEF CreateConf, At, Created, Done
  <2>4. then \in PlacesOf(job.op)
    BY <2>1, <2>3 DEF PlacesOf
  <2> QED
    BY <1>2, <2>1, <2>3, <2>4, SaveConfTyped DEF Created, ForestPlaces
<1> QED
  BY <1>1, <1>2 DEF CreateConf, At, Created

(* wl user delete *)
LEMMA DeleteUsagesTyped == ASSUME Typed, DeleteUsages PROVE Typed'
<1>0. pc = "delete" /\ pc # "idle" /\ job.op = "delete"
  BY OpAt DEF Typed, DeleteUsages, At
<1>1. UNCHANGED <<users, bridges, pub, sec, half, conf, store, remote, commands, generated>>
  BY DEF DeleteUsages, world
<1>2. ASSUME containers' \subseteq containers, faults' \in 0..MaxFaults PROVE Disk'
  BY <1>1, <1>2 DEF Typed, Disk, BridgeFine
<1>3. ASSUME NEW p \in {"delete", "delete_keys"}, Goto(p), UNCHANGED mem
      PROVE  Places' /\ Memory'
  <2>1. p \in PlacesOf(job.op)
    BY <1>0 DEF PlacesOf
  <2>2. pc' = p
    BY <1>3 DEF Goto
  <2> QED
    BY <1>0, <1>1, <1>3, <2>1, <2>2, GoesOn, Remembers DEF Typed, Created, ForestPlaces
<1>4. CASE Fails /\ UNCHANGED <<containers, faults>>
  BY <1>0, <1>1, <1>2, <1>4, FailsTyped DEF Typed, Disk
<1>5. ASSUME NEW x \in Owned(job.user), NEW bad \in Faulty("write"), Count(bad),
             IF bad THEN Fails /\ UNCHANGED containers
                    ELSE containers' = containers \ {x} /\ Goto("delete") /\ UNCHANGED mem
      PROVE  Typed'
  <2>1. bad \in BOOLEAN /\ faults' \in 0..MaxFaults
    BY <1>5, Counts DEF Typed, Disk
  <2>2. containers' \subseteq containers /\ (Fails \/ (Goto("delete") /\ UNCHANGED mem))
    BY <1>5, <2>1
  <2> QED
    BY <1>0, <1>1, <1>2, <1>3, <2>1, <2>2, FailsTyped DEF Typed
<1>6. CASE Goto("delete_keys") /\ UNCHANGED <<containers, mem, faults>>
  BY <1>2, <1>3, <1>6 DEF Typed, Disk
<1> QED
  BY <1>4, <1>5, <1>6 DEF DeleteUsages

(* wl user delete: the keys (__user_remove_key).                             *)
LEMMA DeleteKeysTyped == ASSUME Typed, DeleteKeys PROVE Typed'
<1>0. pc = "delete_keys" /\ pc # "idle" /\ job.op = "delete"
  BY OpAt DEF Typed, DeleteKeys, At
<1>1. Disk'
  BY DEF DeleteKeys, Typed, Disk, BridgeFine, world
<1>2. Fails \/ (Goto("delete_default") /\ UNCHANGED mem)
  BY DEF DeleteKeys
<1>3. UNCHANGED bridges
  BY DEF DeleteKeys
<1>4. CASE Fails
  BY <1>0, <1>1, <1>3, <1>4, FailsTyped DEF Typed
<1>5. CASE Goto("delete_default") /\ UNCHANGED mem
  <2>1. "delete_default" \in PlacesOf(job.op)
    BY <1>0 DEF PlacesOf
  <2>2. pc' = "delete_default"
    BY <1>5 DEF Goto
  <2> QED
    BY <1>0, <1>1, <1>3, <1>5, <2>1, <2>2, GoesOn, Remembers DEF Typed, Created, ForestPlaces
<1> QED
  BY <1>2, <1>4, <1>5

(* wl user delete: the configuration (_delete).                              *)
LEMMA DeleteConfTyped == ASSUME Typed, DeleteConf PROVE Typed'
<1>0. /\ pc \in {"delete_default", "delete_owner", "delete_locals"} /\ job.op = "delete" /\ pc # "idle"
      /\ conf \in ConfType
  BY OpAt DEF Typed, DeleteConf, At, Disk, ConfType
<1>1. /\ conf \in ConfType /\ DefaultUser(None) \in ConfType /\ DefaultOwner(None) \in ConfType
      /\ LocalOwners(conf.locals \ {job.user}) \in ConfType
  BY <1>0 DEF ConfType, DefaultUser, DefaultOwner, LocalOwners
<1>2. PICK c \in ConfType, then \in {"delete_owner", "delete_locals", "delete_file"} : SaveConf(c, then)
  BY <1>1 DEF DeleteConf
<1>3. then \in PlacesOf(job.op)
  BY <1>0, <1>2 DEF PlacesOf
<1> QED
  BY <1>0, <1>2, <1>3, SaveConfTyped DEF Created, ForestPlaces

(* wl user delete: the manifest (__user_delete).                             *)
LEMMA DeleteFileTyped == ASSUME Typed, DeleteFile PROVE Typed'
<1>1. PICK bad \in Faulty("write") :
          /\ Count(bad)
          /\ IF bad THEN End("failed") /\ UNCHANGED users
                    ELSE End("ok") /\ users' = [users EXCEPT ![Seen(job.user)] = None]
  BY DEF DeleteFile
<1>2. bad \in BOOLEAN /\ faults' \in 0..MaxFaults
  BY <1>1, Counts DEF Typed, Disk
<1>3. Disk'
  <2>1. users' \in [Files -> Manifests \cup {None}]
    BY <1>1, <1>2 DEF Typed, Disk
  <2> QED
    BY <1>2, <2>1 DEF DeleteFile, Typed, Disk, BridgeFine, world
<1>4. Places' /\ Memory'
  BY <1>1, <1>2, Ends
<1> QED
  BY <1>3, <1>4 DEF Typed

(* A step to another place that asks no more of what is known, with nothing     *)
(* written.                                                                   *)
LEMMA MovesTyped ==
    ASSUME Typed, pc # "idle", NEW p, Goto(p), UNCHANGED <<mem, disk, world>>,
           faults' \in 0..MaxFaults, p \in PlacesOf(job.op),
           p \notin {"create_save", "bridge_save", "refresh_next", "import_key"} \cup Created \cup ForestPlaces
    PROVE  Typed'
<1>1. Disk'
  BY DEF Typed, Disk, BridgeFine, disk, world
<1>2. pc' = p /\ UNCHANGED bridges
  BY DEF Goto, disk
<1> QED
  BY <1>1, <1>2, GoesOn, Remembers DEF Typed

(* Where a command fails with nothing written.                                *)
LEMMA GivesUpTyped ==
    ASSUME Typed, pc # "idle", Fails, UNCHANGED <<disk, world>>, faults' \in 0..MaxFaults
    PROVE  Typed'
<1>1. Disk' /\ UNCHANGED bridges
  BY DEF Typed, Disk, BridgeFine, disk, world
<1> QED
  BY <1>1, FailsTyped DEF Typed

(* wl user import *)
LEMMA ImportFetchTyped == ASSUME Typed, ImportFetch PROVE Typed'
<1>0. /\ pc = "import" /\ pc # "idle" /\ job.op = "import" /\ job.user \in Theirs
      /\ MemoryOf(mem)
  BY OpAt, Options DEF Typed, Memory, ImportFetch, At
<1>1. PICK bad \in Faulty("remote") :
          /\ Count(bad)
          /\ IF bad THEN Fails /\ UNCHANGED pub
                    ELSE Learns(remote[job.user]) /\ Goto("import_save")
  BY DEF ImportFetch
<1>2. bad \in BOOLEAN /\ faults' \in 0..MaxFaults
  BY <1>1, Counts DEF Typed, Disk
<1>3. UNCHANGED <<users, bridges, sec, conf, containers, store, world>>
  BY DEF ImportFetch
<1>4. CASE bad
  BY <1>0, <1>1, <1>2, <1>3, <1>4, GivesUpTyped DEF disk
<1>5. CASE ~bad
  <2> DEFINE m == remote[job.user]
  <2>1. m \in Manifests /\ m.owner \in Users /\ KeysOf(m) \subseteq Users
    BY <1>0 DEF Typed, Disk, Manifests, KeysOf
  <2>2. Learns(m) /\ Goto("import_save")
    BY <1>1, <1>5
  <2> HIDE DEF m
  <2> DEFINE r == AddPubkeys(KeysOf(m), m.owner)
  <2>3. MemoryOf(r)
    BY <1>0, <2>1, AddPubkeysTyped DEF Typed
  <2>4. pub' = pub \cup KeysOf(m) /\ mem' = [r EXCEPT !.fetched = @ \cup {m}]
    BY <2>2 DEF Learns
  <2> HIDE DEF r
  <2>5. MemoryOf(mem')
    BY <2>1, <2>3, <2>4 DEF MemoryOf, MemFields
  <2>6. Disk'
    BY <1>2, <1>3, <2>1, <2>4 DEF Typed, Disk, BridgeFine, world
  <2>7. Places'
    BY <1>0, <2>2, GoesOn DEF Typed, PlacesOf
  <2>8. Memory'
    BY <2>2, <2>5 DEF Memory, Goto, Created, ForestPlaces
  <2> QED
    BY <2>6, <2>7, <2>8 DEF Typed
<1> QED
  BY <1>2, <1>4, <1>5

(* wl user import: the manifest is written (_do_import).                     *)
LEMMA ImportSaveTyped == ASSUME Typed, ImportSave PROVE Typed'
<1>0. /\ pc = "import_save" /\ pc # "idle" /\ job.op = "import" /\ job.user \in Theirs
      /\ MemoryOf(mem)
  BY OpAt, Options DEF Typed, Memory, ImportSave, At
<1>1. PICK bad \in Faulty("write"), m \in {x \in mem.fetched : x.owner = job.user} :
          /\ Count(bad)
          /\ IF bad THEN Fails /\ TearsNew("user", NameOf[job.user]) /\ UNCHANGED users
                    ELSE /\ Free(Dir("user"), NameOf[job.user]) /\ UNCHANGED half
                         /\ PutUser(NewPath(Dir("user"), NameOf[job.user]), m, TRUE)
                         /\ Goto("import_bridge")
  BY DEF ImportSave
<1>2. bad \in BOOLEAN /\ faults' \in 0..MaxFaults
  BY <1>1, Counts DEF Typed, Disk
<1>3. UNCHANGED <<bridges, pub, sec, conf, containers, store, remote, commands, generated>>
  BY DEF ImportSave
<1>6. half' \subseteq Torn
  <2>1. NameOf[job.user] \in Names
    BY <1>0, ConstantsAssumption DEF Users
  <2>2. TornOnce
    BY <1>1, <2>1, TearsOnce DEF TornOnce
  <2> QED
    BY <2>2, TornOnceTyped DEF Typed, Disk
<1>4. CASE bad
  <2>1. Fails /\ UNCHANGED users
    BY <1>1, <1>4
  <2>2. Disk'
    BY <1>2, <1>3, <1>6, <2>1 DEF Typed, Disk, BridgeFine
  <2> QED
    BY <1>0, <1>3, <2>1, <2>2, FailsTyped DEF Typed
<1>5. CASE ~bad
  <2>1. PutUser(NewPath(Dir("user"), NameOf[job.user]), m, TRUE) /\ Goto("import_bridge")
    BY <1>1, <1>5
  <2>2. m \in Manifests
    BY <1>0, <1>1 DEF MemoryOf
  <2>3. users' \in [Files -> Manifests \cup {None}] /\ MemoryOf(mem')
    BY <1>0, <2>1, <2>2, PutUserTyped DEF Typed
  <2>4. Disk'
    BY <1>2, <1>3, <1>6, <2>3 DEF Typed, Disk, BridgeFine
  <2>5. Places'
    BY <1>0, <2>1, GoesOn DEF Typed, PlacesOf
  <2>6. Memory'
    BY <2>1, <2>3 DEF Memory, Goto, Created, ForestPlaces
  <2> QED
    BY <2>4, <2>5, <2>6 DEF Typed
<1> QED
  BY <1>2, <1>4, <1>5

(* wl user import: nothing is left to do (_user_import).                     *)
LEMMA ImportKnownTyped == ASSUME Typed, ImportKnown PROVE Typed'
<1>0. pc \in {"import_save", "import_bridge"} /\ job.op = "import" /\ pc # "idle"
  BY OpAt DEF Typed, ImportKnown, At
<1>1. UNCHANGED <<disk, world, faults>> /\ faults' \in 0..MaxFaults
  BY DEF ImportKnown, Typed, Disk
<1>2. CASE Fails
  BY <1>0, <1>1, <1>2, GivesUpTyped
<1>3. CASE Goto("import_bridge") /\ UNCHANGED mem
  <2>1. "import_bridge" \in PlacesOf(job.op)
    BY <1>0 DEF PlacesOf
  <2> QED
    BY <1>0, <1>1, <1>3, <2>1, MovesTyped DEF Created, ForestPlaces
<1>4. CASE End("ok")
  <2>1. Disk'
    BY <1>1 DEF Typed, Disk, BridgeFine, disk, world
  <2> QED
    BY <1>4, <2>1, Ends DEF Typed
<1> QED
  BY <1>2, <1>3, <1>4 DEF ImportKnown

(* Whom a bridge is made for is a user.                                       *)
LEMMA BridgeOwnerTyped ==
    ASSUME Typed, pc # "idle", job.op \in {"import", "bridge_import", "bridge_create"}
    PROVE  BridgeOwner \in Users \cup {None}
<1>1. job.owner \in Users \cup {None}
  BY Options DEF Typed, Places
<1> QED
  BY <1>1 DEF BridgeOwner, Typed, Disk

(* wl bridge create, wl user import: the bridge (__bridge_create).           *)
LEMMA BridgeCreateTyped == ASSUME Typed, BridgeCreate PROVE Typed'
<1>0. /\ pc \in {"bridge_create", "import_bridge"} /\ pc # "idle"
      /\ job.op \in {"import", "bridge_create"} /\ job.user \in Users
      /\ pc = "import_bridge" => job.user \in Theirs
  BY OpAt, Options DEF Typed, BridgeCreate, At, Users
<1>1. UNCHANGED <<users, pub, sec, conf, containers, store, remote, commands, generated>>
  BY DEF BridgeCreate
<1>2. CASE CannotBridge
  <2>1. Fails /\ UNCHANGED <<bridges, half, faults>>
    BY <1>2 DEF BridgeCreate
  <2> QED
    BY <1>0, <1>1, <2>1, GivesUpTyped DEF disk, world, Typed, Disk
<1>3. CASE ~CannotBridge
  <2>1. PICK at \in {"link", "url", "file"} :
           /\ at # "link" => (at = "url" <=> At("import_bridge"))
           /\ PutBridge(BridgeOwner, job.user, at, IF at = "file" THEN Seen(job.user) ELSE None,
                        "bridge_created")
    BY <1>3, Zenon DEF BridgeCreate
  <2>2. BridgeOwner \in Users /\ Seen(job.user) # None
    BY <1>0, <1>3, BridgeOwnerTyped DEF CannotBridge
  <2>3. Seen(job.user) \in Files
    BY <2>2, SeenIsLoaded
  <2> DEFINE file == IF at = "file" THEN Seen(job.user) ELSE None
  <2>4. file \in Files \cup {None} /\ (at = "file" => file \in Files)
    BY <2>3
  <2>5. at = "url" => job.user \in Theirs
    BY <1>0, <2>1 DEF At
  <2>7. PutBridge(BridgeOwner, job.user, at, file, "bridge_created")
    BY <2>1, Zenon
  <2>6. "bridge_created" \in PlacesOf(job.op)
    BY <1>0 DEF PlacesOf
  <2> HIDE DEF file
  <2> QED
    BY <1>0, <1>1, <2>2, <2>4, <2>5, <2>6, <2>7, PutBridgeTyped
<1> QED
  BY <1>2, <1>3

(* wl bridge import *)
LEMMA BridgeImportTyped == ASSUME Typed, BridgeImport PROVE Typed'
<1>0. pc = "bridge_import" /\ job.op = "bridge_import" /\ pc # "idle"
  BY OpAt DEF Typed, BridgeImport, At
<1>1. UNCHANGED <<disk, world, faults>> /\ faults' \in 0..MaxFaults
  BY DEF BridgeImport, Typed, Disk
<1>2. "bridge_read" \in PlacesOf(job.op)
  BY <1>0 DEF PlacesOf
<1>3. Fails \/ (Goto("bridge_read") /\ UNCHANGED mem)
  BY DEF BridgeImport
<1> QED
  BY <1>0, <1>1, <1>2, <1>3, GivesUpTyped, MovesTyped DEF Created, ForestPlaces

(* wl bridge import: the bridges are read (_bridge_import_from_url).         *)
LEMMA BridgeReadTyped == ASSUME Typed, BridgeRead PROVE Typed'
<1>0. /\ pc = "bridge_read" /\ job.op = "bridge_import" /\ pc # "idle"
      /\ job.targets \subseteq Theirs /\ MemoryOf(mem)
  BY OpAt, Options DEF Typed, Memory, BridgeRead, At
<1>1. PICK lost \in Faulty("remote") :
          /\ Count(lost)
          /\ IF lost THEN Fails ELSE mem' = [mem EXCEPT !.todo = job.targets] /\ Goto("bridge_save")
  BY DEF BridgeRead
<1>2. lost \in BOOLEAN /\ faults' \in 0..MaxFaults /\ UNCHANGED <<disk, world>>
  BY <1>1, Counts DEF Typed, Disk, BridgeRead
<1>3. CASE lost
  BY <1>0, <1>1, <1>2, <1>3, GivesUpTyped
<1>4. CASE ~lost
  <2>1. mem' = [mem EXCEPT !.todo = job.targets] /\ Goto("bridge_save")
    BY <1>1, <1>4
  <2>2. MemoryOf(mem') /\ mem'.todo = job.targets
    BY <1>0, <2>1 DEF MemoryOf, MemFields
  <2>3. Disk'
    BY <1>2 DEF Typed, Disk, BridgeFine, disk, world
  <2>4. Places'
    BY <1>0, <2>1, GoesOn DEF Typed, PlacesOf
  <2>5. Memory'
    BY <1>0, <2>1, <2>2 DEF Memory, Goto, Created, ForestPlaces
  <2> QED
    BY <2>3, <2>4, <2>5 DEF Typed
<1> QED
  BY <1>2, <1>3, <1>4

(* wl bridge import: the bridges are written (_do_import_bridge).            *)
LEMMA BridgeCopyTyped == ASSUME Typed, BridgeCopy PROVE Typed'
<1>0. pc = "bridge_save" /\ job.op = "bridge_import" /\ pc # "idle" /\ mem.todo \subseteq Theirs
  BY OpAt DEF Typed, Memory, BridgeCopy, At
<1>1. UNCHANGED <<users, pub, sec, conf, containers, store, remote, commands, generated>>
  BY DEF BridgeCopy
<1>2. CASE Goto("refresh") /\ UNCHANGED <<bridges, half, mem, faults>>
  <2>1. "refresh" \in PlacesOf(job.op)
    BY <1>0 DEF PlacesOf
  <2> QED
    BY <1>0, <1>1, <1>2, <2>1, MovesTyped DEF Typed, Disk, disk, world, Created, ForestPlaces
<1>3. ASSUME NEW u \in mem.todo, PutBridge(BridgeOwner, u, "url", None, "bridge_save")
      PROVE  Typed'
  <2>1. u \in Theirs /\ u \in Users
    BY <1>0, <1>3 DEF Users
  <2>2. "bridge_save" \in PlacesOf(job.op)
    BY <1>0 DEF PlacesOf
  <2>3. BridgeOwner \in Users \cup {None}
    BY <1>0, BridgeOwnerTyped
  <2> QED
    BY <1>0, <1>1, <1>3, <2>1, <2>2, <2>3, PutBridgeTyped
<1> QED
  BY <1>2, <1>3 DEF BridgeCopy

(* wl bridge delete (__bridge_delete).                                       *)
LEMMA BridgeDeleteTyped == ASSUME Typed, BridgeDelete PROVE Typed'
<1>1. bridges' = bridges \/ bridges' = [bridges EXCEPT ![First(BridgesTo(job.user))] = None]
  BY DEF BridgeDelete
<1>2. Disk'
  BY <1>1 DEF BridgeDelete, Typed, Disk, BridgeFine, world
<1>3. End("failed") \/ End("ok")
  BY DEF BridgeDelete
<1> QED
  BY <1>2, <1>3, Ends DEF Typed

-----------------------------------------------------------------------------
(* Refreshing users. *)

(* Where a manifest may be had.                                               *)
LEMMA LocationsTyped ==
    ASSUME Typed, NEW x \in ToRefresh
    PROVE  x[1] \in Files /\ bridges[x[1]] # None /\ x[2] \in Nat
<1> DEFINE matching(o) == {b \in Files : BridgeLoads(b) /\ bridges[b].owner = o
                                         /\ bridges[b].target \in Wanted}
           links(o) == {b \in matching(o) : bridges[b].at = "link"}
<1>1. PICK o \in Users : /\ matching(o) # {}
                         /\ x = <<IF links(o) # {} THEN First(links(o)) ELSE First(matching(o)),
                                  Rank(First(matching(o)))>>
  BY DEF ToRefresh
<1>2. matching(o) \subseteq Files /\ links(o) \subseteq matching(o)
  OBVIOUS
<1>3. \A b \in matching(o) : bridges[b] # None
  BY DEF BridgeLoads
<1> HIDE DEF matching, links
<1>4. First(matching(o)) \in matching(o)
  BY <1>1, <1>2, FirstAndLast
<1>5. links(o) # {} => First(links(o)) \in matching(o)
  BY <1>2, FirstAndLast
<1>6. Rank(First(matching(o))) \in Nat
  BY <1>2, <1>4, RankIsNumber
<1> QED
  BY <1>1, <1>2, <1>3, <1>4, <1>5, <1>6

(* user_refresh begins.                                                       *)
LEMMA StartRefreshTyped == ASSUME Typed, StartRefresh PROVE Typed'
<1>0. /\ pc = "refresh" /\ pc # "idle" /\ job.op \in {"bridge_import", "refresh", "forest_mount"}
      /\ MemoryOf(mem)
  BY OpAt DEF Typed, Memory, StartRefresh, At
<1>1. /\ mem' = [mem EXCEPT !.todo = ToRefresh, !.fetched = {}]
      /\ Goto("refresh_next") /\ UNCHANGED <<disk, world, faults>>
  BY DEF StartRefresh
<1>2. Disk'
  BY <1>1 DEF Typed, Disk, BridgeFine, disk, world
<1>3. Places'
  BY <1>0, <1>1, GoesOn DEF Typed, PlacesOf
<1>4. MemoryOf(mem') /\ mem'.todo = ToRefresh
  BY <1>0, <1>1 DEF MemoryOf, MemFields
<1>5. bridges' = bridges /\ pc' = "refresh_next"
  BY <1>1 DEF disk, Goto
<1>6. \A x \in mem'.todo : x[1] \in Files /\ bridges'[x[1]] # None /\ x[2] \in Nat
  BY <1>4, <1>5, LocationsTyped
<1>7. Memory'
  BY <1>4, <1>5, <1>6 DEF Memory, Created, ForestPlaces
<1> QED
  BY <1>2, <1>3, <1>7 DEF Typed

(* The next location is a bridge that is there.                               *)
LEMMA NextIsThere ==
    ASSUME Typed, pc = "refresh_next", mem.todo # {}
    PROVE  NextLocation \in Files /\ bridges[NextLocation] \in Bridges /\ BridgeFine(bridges[NextLocation])
<1>1. \A x \in mem.todo : x[1] \in Files /\ bridges[x[1]] # None /\ x[2] \in Nat
  BY DEF Typed, Memory
<1>2. PICK n \in {x[2] : x \in mem.todo} : \A i \in {x[2] : x \in mem.todo} : n <= i
  BY <1>1, Least
<1>3. \E x \in mem.todo : \A y \in mem.todo : x[2] <= y[2]
  BY <1>2
<1> DEFINE z == CHOOSE x \in mem.todo : \A y \in mem.todo : x[2] <= y[2]
<1>4. z \in mem.todo /\ NextLocation = z[1]
  BY <1>3 DEF NextLocation
<1> HIDE DEF z
<1> QED
  BY <1>1, <1>4 DEF Typed, Disk

(* What a location gives is a user manifest, or nothing.                       *)
LEMMA ContentTyped ==
    ASSUME Typed, NEW b \in Bridges, BridgeFine(b)
    PROVE  Content(b) \in Manifests \cup {None}
<1>1. b.target \in Users /\ b.at \in {"link", "url", "file"}
  BY DEF Bridges
<1>2. CASE b.at = "url"
  BY <1>2 DEF Content, BridgeFine, Typed, Disk
<1>3. CASE b.at = "link"
  BY <1>1, <1>3 DEF Content, LinkTarget, Typed, Disk
<1>4. CASE b.at = "file"
  BY <1>4 DEF Content, BridgeFine, Typed, Disk
<1> QED
  BY <1>1, <1>2, <1>3, <1>4

(* The name of a location, and the file its manifest is written to.             *)
LEMMA NameIsName == ASSUME NEW b \in Bridges, BridgeFine(b) PROVE LocationName(b) \in Names
<1>1. b.at \in {"link", "url", "file"} /\ b.target \in Users
  BY DEF Bridges
<1>2. CASE b.at = "url"
  BY <1>1, <1>2, ConstantsAssumption DEF LocationName
<1>3. CASE b.at = "link"
  BY <1>3, ConstantsAssumption DEF LocationName
<1>4. CASE b.at = "file"
  BY <1>4 DEF LocationName, BridgeFine, Files
<1> QED
  BY <1>1, <1>2, <1>3, <1>4

(* It is a file of the user directory.                                         *)
LEMMA TargetIsFile ==
    ASSUME NEW b \in Bridges, BridgeFine(b), NEW u, Free(Dir("user"), LocationName(b))
    PROVE  TargetFile(b, u) \in Files
<1> DEFINE loaded == {f \in Files : mem.cache[f] = u}
           same == {f \in Files : users[f] # None /\ users[f].owner = u}
           new == NewPath(Dir("user"), LocationName(b))
<1>1. new \in Files /\ <<LocationName(b), 0>> \in Files
  BY NameIsName, UserPathIsFree DEF Files
<1>2. /\ loaded # {} => First(loaded) \in Files
      /\ same # {} => First(same) \in Files
  <2>1. loaded \subseteq Files /\ same \subseteq Files
    OBVIOUS
  <2> HIDE DEF loaded, same
  <2> QED
    BY <2>1, FirstAndLast
<1>3. TargetFile(b, u) = IF job.op = "forest_mount"
                         THEN IF loaded = {} THEN <<LocationName(b), 0>> ELSE First(loaded)
                         ELSE IF same = {} THEN new ELSE First(same)
  BY DEF TargetFile, ImportedFile
<1> QED
  BY <1>1, <1>2, <1>3

(* One location of user_refresh: it is skipped, or ends the command, or its     *)
(* manifest is written.                                                       *)
LEMMA RefreshCases ==
    ASSUME Typed, Refresh
    PROVE  /\ pc = "refresh_next" /\ job.op \in {"bridge_import", "refresh", "forest_mount"} /\ MemoryOf(mem)
           /\ UNCHANGED <<bridges, sec, conf, containers, store, remote, commands, generated>>
           /\ faults' \in 0..MaxFaults /\ half' \subseteq Torn
           /\ \/ /\ mem' = [mem EXCEPT !.todo = {x \in mem.todo : x[1] # NextLocation}, !.failed = TRUE]
                 /\ Goto("refresh_next") /\ UNCHANGED <<users, pub, half>>
              \/ Fails /\ users' = users /\ pub' \subseteq Users /\ TornOnce
              \/ \E m \in Manifests :
                    /\ Free(Dir("user"), LocationName(bridges[NextLocation]))
                    /\ users' = [users EXCEPT ![TargetFile(bridges[NextLocation], m.owner)] = m]
                    /\ half' = IF users[TargetFile(bridges[NextLocation], m.owner)] = None
                               THEN half \ {<<"user", TargetFile(bridges[NextLocation], m.owner)>>} ELSE half
                    /\ pub' \subseteq Users
                    /\ mem' = [AddPubkeys(KeysOf(m), m.owner)
                                 EXCEPT !.todo = {x \in mem.todo : x[1] # NextLocation},
                                        !.fetched = @ \cup {m}]
                    /\ Goto("refresh_next")
<1> DEFINE b == bridges[NextLocation]
           rest == {x \in mem.todo : x[1] # NextLocation}
           alien == b.at = "file" /\ LocalOwner(b) \notin conf.locals
<1>0. /\ pc = "refresh_next" /\ mem.todo # {} /\ job.op \in {"bridge_import", "refresh", "forest_mount"}
      /\ MemoryOf(mem)
  BY OpAt DEF Typed, Memory, Refresh, At
<1>1. /\ UNCHANGED <<bridges, sec, conf, containers, store, remote, commands, generated>>
      /\ pub \subseteq Users /\ faults \in 0..MaxFaults /\ half \subseteq Torn
  BY DEF Refresh, Typed, Disk
<1>2. b \in Bridges /\ BridgeFine(b) /\ Content(b) \in Manifests \cup {None}
  BY <1>0, NextIsThere, ContentTyped
<1>3. PICK lost \in (IF b.at = "file" THEN {FALSE} ELSE Faulty("remote")) :
           IF (alien /\ job.op = "forest_mount") \/ (~alien /\ (lost \/ Content(b) = None))
           THEN /\ mem' = [mem EXCEPT !.todo = rest, !.failed = TRUE]
                /\ Count(lost)
                /\ Goto("refresh_next")
                /\ UNCHANGED <<users, pub, half>>
           ELSE IF alien
           THEN Fails /\ Count(FALSE) /\ UNCHANGED <<users, pub, half>>
           ELSE LET m == Content(b)
                    f == TargetFile(b, m.owner)
                IN  \E bad \in Faulty("write") :
                      /\ Count(bad)
                      /\ pub' = pub \cup KeysOf(m)
                      /\ IF bad
                         THEN /\ Fails /\ UNCHANGED users
                              /\ \/ UNCHANGED half
                                 \/ /\ Free(Dir("user"), LocationName(b)) /\ users[f] = None
                                    /\ half' = half \cup {<<"user", f>>}
                         ELSE /\ Free(Dir("user"), LocationName(b))
                              /\ users' = [users EXCEPT ![f] = m]
                              /\ half' = IF users[f] = None THEN half \ {<<"user", f>>} ELSE half
                              /\ mem' = [AddPubkeys(KeysOf(m), m.owner)
                                            EXCEPT !.todo = rest, !.fetched = @ \cup {m}]
                              /\ Goto("refresh_next")
  BY DEF Refresh
<1>4. lost \in Faulty("remote") /\ FALSE \in Faulty("write")
  <2>1. FALSE \in Faulty("remote") /\ FALSE \in Faulty("write")
    BY DEF Faulty
  <2> QED
    BY <1>3, <2>1
<1> HIDE DEF b, rest, alien
<1>5. CASE (alien /\ job.op = "forest_mount") \/ (~alien /\ (lost \/ Content(b) = None))
  <2>1. /\ mem' = [mem EXCEPT !.todo = rest, !.failed = TRUE]
        /\ Count(lost)
        /\ Goto("refresh_next")
        /\ UNCHANGED <<users, pub, half>>
    BY <1>3, <1>5
  <2> QED
    BY <1>0, <1>1, <1>4, <2>1, Counts DEF rest
<1>6. CASE ~((alien /\ job.op = "forest_mount") \/ (~alien /\ (lost \/ Content(b) = None))) /\ alien
  <2>1. Fails /\ Count(FALSE) /\ UNCHANGED <<users, pub, half>>
    BY <1>3, <1>6
  <2> QED
    BY <1>0, <1>1, <1>4, <2>1, Counts DEF TornOnce
<1>7. CASE ~((alien /\ job.op = "forest_mount") \/ (~alien /\ (lost \/ Content(b) = None))) /\ ~alien
  <2> DEFINE m == Content(b)
             f == TargetFile(b, m.owner)
  <2>1. m \in Manifests
    BY <1>2, <1>7
  <2>7. Free(Dir("user"), LocationName(b)) => f \in Files
    BY <1>0, <1>2, TargetIsFile
  <2>2. KeysOf(m) \subseteq Users
    BY <2>1 DEF KeysOf, Manifests
  <2>3. PICK bad \in Faulty("write") :
                      /\ Count(bad)
                      /\ pub' = pub \cup KeysOf(m)
                      /\ IF bad
                         THEN /\ Fails /\ UNCHANGED users
                              /\ \/ UNCHANGED half
                                 \/ /\ Free(Dir("user"), LocationName(b)) /\ users[f] = None
                                    /\ half' = half \cup {<<"user", f>>}
                         ELSE /\ Free(Dir("user"), LocationName(b))
                              /\ users' = [users EXCEPT ![f] = m]
                              /\ half' = IF users[f] = None THEN half \ {<<"user", f>>} ELSE half
                              /\ mem' = [AddPubkeys(KeysOf(m), m.owner)
                                            EXCEPT !.todo = rest, !.fetched = @ \cup {m}]
                              /\ Goto("refresh_next")
    BY <1>3, <1>7
  <2>4. bad \in BOOLEAN /\ faults' \in 0..MaxFaults /\ pub' \subseteq Users
    BY <1>1, <2>2, <2>3, Counts
  <2>8. f = TargetFile(b, m.owner)
    OBVIOUS
  <2> HIDE DEF m, f
  <2>5. CASE bad
    <3>1. TornOnce
      <4>1. CASE UNCHANGED half
        BY <4>1 DEF TornOnce
      <4>2. CASE Free(Dir("user"), LocationName(b)) /\ half' = half \cup {<<"user", f>>}
        <5>1. <<"user", f>> \in Torn
          BY <2>7, <4>2 DEF Torn
        <5> QED
          BY <4>2, <5>1 DEF TornOnce
      <4> QED
        BY <2>3, <2>5, <4>1, <4>2
    <3> QED
      BY <1>0, <1>1, <2>3, <2>4, <2>5, <3>1, TornOnceTyped
  <2>6. CASE ~bad
    BY <1>0, <1>1, <2>1, <2>3, <2>4, <2>6, <2>8 DEF b, rest
  <2> QED
    BY <2>4, <2>5, <2>6
<1> QED
  BY <1>5, <1>6, <1>7

(* One location of user_refresh.                                             *)
LEMMA RefreshTyped == ASSUME Typed, Refresh PROVE Typed'
<1> DEFINE rest == {x \in mem.todo : x[1] # NextLocation}
<1>0. /\ pc = "refresh_next" /\ pc # "idle" /\ job.op \in {"bridge_import", "refresh", "forest_mount"}
      /\ MemoryOf(mem)
      /\ UNCHANGED <<bridges, sec, conf, containers, store, remote, commands, generated>>
      /\ faults' \in 0..MaxFaults /\ half' \subseteq Torn
  BY RefreshCases
<1>1. ASSUME users' \in [Files -> Manifests \cup {None}], pub' \subseteq Users
      PROVE  Disk'
  BY <1>0, <1>1 DEF Typed, Disk, BridgeFine
<1>2. ASSUME Goto("refresh_next"), MemoryOf(mem'), mem'.todo = rest
      PROVE  Places' /\ Memory'
  <2>1. Places'
    BY <1>0, <1>2, GoesOn DEF Typed, PlacesOf
  <2>2. pc' = "refresh_next"
    BY <1>2 DEF Goto
  <2>3. \A x \in mem'.todo : x[1] \in Files /\ bridges'[x[1]] # None /\ x[2] \in Nat
    BY <1>0, <1>2 DEF Typed, Memory
  <2>4. Memory'
    BY <1>2, <2>2, <2>3 DEF Memory, Created, ForestPlaces
  <2> QED
    BY <2>1, <2>4
<1>3. CASE /\ mem' = [mem EXCEPT !.todo = rest, !.failed = TRUE]
           /\ Goto("refresh_next") /\ UNCHANGED <<users, pub, half>>
  <2>1. MemoryOf(mem') /\ mem'.todo = rest
    BY <1>0, <1>3 DEF MemoryOf, MemFields
  <2> QED
    BY <1>1, <1>2, <1>3, <2>1 DEF Typed, Disk
<1>4. CASE Fails /\ users' = users /\ pub' \subseteq Users
  BY <1>0, <1>1, <1>4, FailsTyped DEF Typed, Disk
<1>5. ASSUME NEW m \in Manifests, NEW f, users' = [users EXCEPT ![f] = m], pub' \subseteq Users,
             mem' = [AddPubkeys(KeysOf(m), m.owner) EXCEPT !.todo = rest, !.fetched = @ \cup {m}],
             Goto("refresh_next")
      PROVE  Typed'
  <2> DEFINE r == AddPubkeys(KeysOf(m), m.owner)
  <2>1. KeysOf(m) \subseteq Users /\ m.owner \in Users
    BY DEF KeysOf, Manifests
  <2>2. MemoryOf(r)
    BY <1>0, <2>1, AddPubkeysTyped DEF Typed
  <2> HIDE DEF r
  <2>3. mem' = [r EXCEPT !.todo = rest, !.fetched = @ \cup {m}]
    BY <1>5 DEF r
  <2>4. MemoryOf(mem') /\ mem'.todo = rest
    BY <2>2, <2>3 DEF MemoryOf, MemFields
  <2>5. users' \in [Files -> Manifests \cup {None}]
    BY <1>5 DEF Typed, Disk
  <2> QED
    BY <1>1, <1>2, <1>5, <2>4, <2>5 DEF Typed
<1> QED
  BY <1>3, <1>4, <1>5, RefreshCases

(* The end of user_refresh.                                                  *)
LEMMA EndRefreshTyped == ASSUME Typed, EndRefresh PROVE Typed'
<1>0. pc = "refresh_next" /\ pc # "idle" /\ UNCHANGED <<disk, world, faults>> /\ faults' \in 0..MaxFaults
  BY DEF EndRefresh, At, Typed, Disk
<1>1. CASE Fails
  BY <1>0, <1>1, GivesUpTyped
<1>2. CASE End("ok")
  <2>1. Disk'
    BY <1>0 DEF Typed, Disk, BridgeFine, disk, world
  <2> QED
    BY <1>2, <2>1, Ends DEF Typed
<1> QED
  BY <1>1, <1>2 DEF EndRefresh

-----------------------------------------------------------------------------
(* Changing users, and forests. *)

(* The file under which a loaded user is known holds the user's manifest.       *)
LEMMA SeenIsThere ==
    ASSUME Typed, CacheRight, pc \notin {"idle", "clean"}, job.op # "forest_mount",
           NEW u \in Users, Seen(u) # None
    PROVE  /\ Seen(u) \in Files /\ users[Seen(u)] \in Manifests
           /\ users[Seen(u)].owner = u /\ KeysOf(users[Seen(u)]) \subseteq Users
<1>1. Seen(u) \in Files /\ mem.cache[Seen(u)] = u
  BY SeenIsLoaded
<1>2. users[Seen(u)] # None /\ users[Seen(u)].owner = u
  BY <1>1 DEF CacheRight
<1>3. users[Seen(u)] \in Manifests
  BY <1>1, <1>2 DEF Typed, Disk
<1> QED
  BY <1>1, <1>2, <1>3 DEF KeysOf, Manifests

(* wl user modify: refused, failed, or a new version of the user's manifest.    *)
LEMMA ModifyCases ==
    ASSUME Typed, CacheRight, Modify
    PROVE  /\ pc = "modify" /\ job.op = "modify"
           /\ Forget /\ UNCHANGED <<bridges, sec, conf, containers, store, world>> /\ faults' \in 0..MaxFaults
           /\ pub' \subseteq Users
           /\ \/ End("failed") /\ users' = users
              \/ /\ End("ok")
                 /\ \E f \in Files, m \in Manifests :
                       /\ users[f] # None /\ users[f].owner = m.owner
                       /\ users' = [users EXCEPT ![f] = m]
<1> DEFINE f == Seen(job.user)
           m == users[f]
           new == [m EXCEPT !.extra = (@ \cup (KeysToAdd \ {m.owner})) \ job.del]
           refused == Unknown(job.of \cup {job.user}) \/ job.user \notin sec
                       \/ (~Unknown(job.of) /\ KeysToAdd \cap job.del # {})
<1>0. /\ pc = "modify" /\ job.op = "modify" /\ job.user \in Users /\ job.add \subseteq Users
      /\ job.of \subseteq Users
  BY OpAt, Options DEF Typed, Modify, At
<1>1. /\ Forget /\ UNCHANGED <<bridges, sec, conf, containers, store, world>>
      /\ pub \subseteq Users /\ faults \in 0..MaxFaults
  BY DEF Modify, Typed, Disk
<1>2. IF refused THEN End("failed") /\ Count(FALSE) /\ UNCHANGED <<users, pub>>
      ELSE \E bad \in Faulty("write") :
                   /\ Count(bad)
                   /\ pub' = pub \cup KeysOf(new)
                   /\ IF bad THEN End("failed") /\ UNCHANGED users
                             ELSE End("ok") /\ users' = [users EXCEPT ![f] = new]
  BY DEF Modify
<1>3. CASE refused
  <2>1. End("failed") /\ Count(FALSE) /\ UNCHANGED <<users, pub>>
    BY <1>2, <1>3
  <2>2. FALSE \in Faulty("write")
    BY DEF Faulty
  <2> QED
    BY <1>0, <1>1, <2>1, <2>2, Counts
<1>4. CASE ~refused
  <2>1. f # None /\ \A u \in job.of : Seen(u) # None
    BY <1>4 DEF Unknown
  <2>2. f \in Files /\ m \in Manifests /\ m.owner = job.user
    BY <1>0, <2>1, SeenIsThere
  <2>3. \A u \in job.of : KeysOf(users[Seen(u)]) \subseteq Users
    BY <1>0, <2>1, SeenIsThere
  <2>4. KeysToAdd \subseteq Users
    BY <1>0, <2>3 DEF KeysToAdd
  <2>5. new \in Manifests /\ new.owner = m.owner
    BY <2>2, <2>4 DEF Manifests
  <2>6. PICK bad \in Faulty("write") :
                   /\ Count(bad)
                   /\ pub' = pub \cup KeysOf(new)
                   /\ IF bad THEN End("failed") /\ UNCHANGED users
                             ELSE End("ok") /\ users' = [users EXCEPT ![f] = new]
    BY <1>2, <1>4
  <2>7. m # None
    BY <1>0, <2>1, SeenIsLoaded DEF CacheRight
  <2> HIDE DEF f, new, refused
  <2>8. KeysOf(new) \subseteq Users
    BY <2>5 DEF KeysOf, Manifests
  <2>9. bad \in BOOLEAN /\ faults' \in 0..MaxFaults /\ pub' \subseteq Users
    BY <1>1, <2>6, <2>8, Counts
  <2>10. CASE bad
    BY <1>0, <1>1, <2>6, <2>9, <2>10
  <2>11. CASE ~bad
    BY <1>0, <1>1, <2>2, <2>5, <2>6, <2>7, <2>9, <2>11
  <2> QED
    BY <2>9, <2>10, <2>11
<1> QED
  BY <1>3, <1>4

(* wl user modify (modify).                                                  *)
LEMMA ModifyTyped == ASSUME Typed, CacheRight, Modify PROVE Typed'
<1>1. /\ UNCHANGED <<bridges, sec, conf, containers, store, world>> /\ faults' \in 0..MaxFaults
      /\ pub' \subseteq Users
  BY ModifyCases
<1>2. users' \in [Files -> Manifests \cup {None}]
  BY ModifyCases DEF Typed, Disk
<1>3. Disk'
  BY <1>1, <1>2 DEF Typed, Disk, BridgeFine, world
<1>4. End("failed") \/ End("ok")
  BY ModifyCases
<1> QED
  BY <1>3, <1>4, Ends DEF Typed

(* wl container create *)
LEMMA CreateContainerTyped == ASSUME Typed, CreateContainer PROVE Typed'
<1>0. job.op = "container" /\ job.user \in Users
  BY OpAt, Options DEF Typed, CreateContainer, At
<1>1. PICK bad \in Faulty("write") :
          /\ Count(bad)
          /\ IF bad \/ Seen(job.user) = None \/ Signers(job.user) = {}
             THEN End("failed") /\ UNCHANGED containers
             ELSE End("ok") /\ containers' = containers \cup {<<job.user, "own">>}
  BY DEF CreateContainer
<1>2. faults' \in 0..MaxFaults
  BY <1>1, Counts DEF Typed, Disk
<1>3. /\ End("failed") \/ End("ok")
      /\ containers' = containers \/ containers' = containers \cup {<<job.user, "own">>}
  BY <1>1
<1>4. containers' \subseteq Users \X {"own", "catalog"}
  BY <1>0, <1>3 DEF Typed, Disk
<1>5. Disk'
  BY <1>2, <1>4 DEF CreateContainer, Typed, Disk, BridgeFine, world
<1> QED
  BY <1>3, <1>5, Ends DEF Typed

(* wl user import-key *)
LEMMA ImportKeyTyped == ASSUME Typed, ImportKey PROVE Typed'
<1>0. job.op = "import_key" /\ job.user \in Users /\ job.user \in generated
  BY OpAt, Options DEF Typed, Places, ImportKey, At
<1>1. /\ pub' = pub \/ pub' = pub \cup {job.user}
      /\ sec' = sec \/ sec' = sec \cup {job.user}
      /\ End("failed") \/ End("ok")
  BY DEF ImportKey
<1>2. Disk'
  BY <1>0, <1>1 DEF ImportKey, Typed, Disk, BridgeFine, world
<1> QED
  BY <1>1, <1>2, Ends DEF Typed

(* wl forest mount: the caller may go on to refresh the users.                  *)
LEMMA ForestMountTyped == ASSUME Typed, ForestMount PROVE Typed'
<1>0. pc = "forest_mount" /\ job.op = "forest_mount" /\ pc # "idle"
  BY OpAt DEF Typed, ForestMount, At
<1>1. UNCHANGED <<disk, world, faults>> /\ faults' \in 0..MaxFaults
  BY DEF ForestMount, Typed, Disk
<1>2. "refresh" \in PlacesOf(job.op)
  BY <1>0 DEF PlacesOf
<1>3. Fails \/ (Goto("refresh") /\ UNCHANGED mem)
  BY DEF ForestMount
<1> QED
  BY <1>0, <1>1, <1>2, <1>3, GivesUpTyped, MovesTyped DEF Created, ForestPlaces

(* wl forest create, first step: the container of the catalog.                 *)
LEMMA ForestContainerCases ==
    ASSUME Typed, ForestContainer
    PROVE  /\ pc = "forest" /\ job.op = "forest" /\ MemoryOf(mem) /\ faults' \in 0..MaxFaults
           /\ containers' \subseteq Users \X {"own", "catalog"}
           /\ UNCHANGED <<users, bridges, pub, sec, conf, store, world>>
           /\ \/ End("failed") /\ Forget
              \/ \E u \in mem.priv : /\ Seen(u) # None
                                     /\ mem' = [mem EXCEPT !.user = u, !.name = users[Seen(u)].path]
                                     /\ Goto("forest_modify")
<1> DEFINE u == ForestOwner
<1>0. pc = "forest" /\ job.op = "forest" /\ MemoryOf(mem)
  BY OpAt DEF Typed, Memory, ForestContainer, At
<1>1. UNCHANGED <<users, bridges, pub, sec, conf, store, world>>
  BY DEF ForestContainer
<1>2. IF Unknown({u}) \/ u \notin mem.priv
           THEN End("failed") /\ Forget /\ UNCHANGED <<containers, faults>>
           ELSE \E bad \in Faulty("write") :
                   /\ containers' = containers \cup {<<u, "catalog">>}
                   /\ Count(bad)
                   /\ IF bad THEN End("failed") /\ Forget
                             ELSE /\ mem' = [mem EXCEPT !.user = u, !.name = users[Seen(u)].path]
                                  /\ Goto("forest_modify")
  BY DEF ForestContainer
<1> HIDE DEF u
<1>3. CASE Unknown({u}) \/ u \notin mem.priv
  BY <1>0, <1>1, <1>2, <1>3 DEF Typed, Disk
<1>4. CASE ~(Unknown({u}) \/ u \notin mem.priv)
  <2>1. u \in mem.priv /\ Seen(u) # None /\ u \in Users
    BY <1>0, <1>4 DEF Unknown, MemoryOf
  <2>2. PICK bad \in Faulty("write") :
                   /\ containers' = containers \cup {<<u, "catalog">>}
                   /\ Count(bad)
                   /\ IF bad THEN End("failed") /\ Forget
                             ELSE /\ mem' = [mem EXCEPT !.user = u, !.name = users[Seen(u)].path]
                                  /\ Goto("forest_modify")
    BY <1>2, <1>4
  <2>3. bad \in BOOLEAN /\ faults' \in 0..MaxFaults
    BY <2>2, Counts DEF Typed, Disk
  <2>4. containers' \subseteq Users \X {"own", "catalog"}
    BY <2>1, <2>2 DEF Typed, Disk
  <2> QED
    BY <1>0, <1>1, <2>1, <2>2, <2>3, <2>4
<1> QED
  BY <1>3, <1>4

(* wl forest create: the container (_create_container).                      *)
LEMMA ForestContainerTyped == ASSUME Typed, ForestContainer PROVE Typed'
<1>0. /\ pc = "forest" /\ pc # "idle" /\ job.op = "forest" /\ MemoryOf(mem) /\ faults' \in 0..MaxFaults
      /\ containers' \subseteq Users \X {"own", "catalog"}
      /\ UNCHANGED <<users, bridges, pub, sec, conf, store, world>>
  BY ForestContainerCases
<1>1. Disk'
  BY <1>0 DEF Typed, Disk, BridgeFine, world
<1>2. CASE End("failed") /\ Forget
  BY <1>1, <1>2, Ends DEF Typed
<1>3. ASSUME NEW u \in mem.priv, mem' = [mem EXCEPT !.user = u, !.name = users[Seen(u)].path],
             Goto("forest_modify")
      PROVE  Typed'
  <2>1. MemoryOf(mem') /\ mem'.user = u /\ u \in Mine
    BY <1>0, <1>3 DEF MemoryOf, MemFields, Users
  <2>2. Places'
    BY <1>0, <1>3, GoesOn DEF Typed, PlacesOf, ForestPlaces
  <2>3. Memory'
    BY <1>3, <2>1 DEF Memory, Goto, Created, ForestPlaces
  <2> QED
    BY <1>1, <2>2, <2>3 DEF Typed
<1> QED
  BY <1>2, <1>3, ForestContainerCases

(* A later step of wl forest create fails, and goes on to clean up, or does      *)
(* what it is for.                                                            *)
LEMMA ForestSteps ==
    ASSUME Typed, NEW p \in ForestPlaces, NEW kind, NEW then, ForestStep(p, kind, then)
    PROVE  /\ pc = p /\ pc # "idle" /\ job.op = "forest" /\ MemoryOf(mem) /\ mem.user \in Mine
           /\ faults' \in 0..MaxFaults /\ UNCHANGED <<bridges, sec, conf, containers, world>>
           /\ \/ /\ Goto("forest_clean") /\ mem' = [mem EXCEPT !.failed = TRUE]
                 /\ UNCHANGED <<users, pub, store>>
              \/ then
<1>0. pc = p /\ pc # "idle" /\ job.op = "forest" /\ MemoryOf(mem) /\ mem.user \in Mine
  BY OpAt DEF Typed, Memory, ForestStep, At, ForestPlaces
<1>1. PICK bad \in Faulty(kind) :
          /\ Count(bad)
          /\ IF bad
             THEN Goto("forest_clean") /\ mem' = [mem EXCEPT !.failed = TRUE] /\ UNCHANGED <<users, pub, store>>
             ELSE then
  BY DEF ForestStep
<1>2. bad \in BOOLEAN /\ faults' \in 0..MaxFaults
  BY <1>1, Counts DEF Typed, Disk
<1>3. UNCHANGED <<bridges, sec, conf, containers, world>>
  BY DEF ForestStep
<1>4. CASE bad
  BY <1>0, <1>1, <1>2, <1>3, <1>4
<1>5. CASE ~bad
  BY <1>0, <1>1, <1>2, <1>3, <1>5
<1> QED
  BY <1>2, <1>4, <1>5

(* wl forest create goes on with the same user.                              *)
LEMMA ForestGoesOn ==
    ASSUME Typed, pc \in ForestPlaces, job.op = "forest", MemoryOf(mem), mem.user \in Mine,
           faults' \in 0..MaxFaults, UNCHANGED <<bridges, sec, conf, containers, world>>,
           users' \in [Files -> Manifests \cup {None}], pub' \subseteq Users,
           store' \in [Users -> [copy : Manifests \cup {None}, published : BOOLEAN]],
           NEW p \in ForestPlaces, Goto(p), MemoryOf(mem'), mem'.user = mem.user
    PROVE  Typed'
<1>1. Disk'
  BY DEF Typed, Disk, BridgeFine, world
<1>2. Places'
  BY GoesOn DEF Typed, PlacesOf, ForestPlaces
<1>4. Memory'
  BY DEF Memory, Goto, Created, ForestPlaces
<1> QED
  BY <1>1, <1>2, <1>4 DEF Typed

(* wl forest create: the link in the user's manifest (_bootstrap_forest).    *)
LEMMA ForestModifyTyped == ASSUME Typed, CacheRight, ForestMade, ForestModify PROVE Typed'
<1> DEFINE f == Seen(mem.user)
           then == /\ users' = [users EXCEPT ![f].catalog = TRUE]
                   /\ pub' = pub \cup KeysOf(users[f])
                   /\ Goto("forest_copy") /\ UNCHANGED <<mem, store>>
<1>1. ForestStep("forest_modify", "write", then)
  BY DEF ForestModify
<1> HIDE DEF then
<1>2. /\ pc = "forest_modify" /\ pc # "idle" /\ job.op = "forest" /\ MemoryOf(mem) /\ mem.user \in Mine
      /\ faults' \in 0..MaxFaults /\ UNCHANGED <<bridges, sec, conf, containers, world>>
      /\ \/ /\ Goto("forest_clean") /\ mem' = [mem EXCEPT !.failed = TRUE]
            /\ UNCHANGED <<users, pub, store>>
         \/ then
  BY <1>1, ForestSteps DEF ForestPlaces
<1>3. f \in Files /\ users[f] \in Manifests /\ KeysOf(users[f]) \subseteq Users
  BY <1>2, SeenIsThere DEF ForestMade, ForestPlaces, Users
<1>4. CASE Goto("forest_clean") /\ mem' = [mem EXCEPT !.failed = TRUE] /\ UNCHANGED <<users, pub, store>>
  <2>1. MemoryOf(mem') /\ mem'.user = mem.user
    BY <1>2, <1>4 DEF MemoryOf, MemFields
  <2> QED
    BY <1>2, <1>4, <2>1, ForestGoesOn DEF Typed, Disk, ForestPlaces
<1>5. CASE then
  <2>1. [users[f] EXCEPT !.catalog = TRUE] \in Manifests
    BY <1>3 DEF Manifests
  <2>2. users' \in [Files -> Manifests \cup {None}]
    BY <1>3, <1>5, <2>1 DEF then, Typed, Disk
  <2>3. pub' \subseteq Users /\ Goto("forest_copy") /\ UNCHANGED <<mem, store>>
    BY <1>3, <1>5 DEF then, Typed, Disk
  <2> QED
    BY <1>2, <2>2, <2>3, ForestGoesOn DEF Typed, Disk, ForestPlaces
<1> QED
  BY <1>2, <1>4, <1>5

(* wl forest create: the copy of the manifest (_bootstrap_manifest).         *)
LEMMA ForestCopyTyped == ASSUME Typed, CacheRight, ForestMade, ForestCopy PROVE Typed'
<1> DEFINE then == /\ store' = [store EXCEPT ![mem.user].copy = users[Seen(mem.user)]]
                   /\ Goto("forest_publish") /\ UNCHANGED <<mem, users, pub>>
<1>1. ForestStep("forest_copy", "remote", then)
  BY DEF ForestCopy
<1> HIDE DEF then
<1>2. /\ pc = "forest_copy" /\ pc # "idle" /\ job.op = "forest" /\ MemoryOf(mem) /\ mem.user \in Mine
      /\ faults' \in 0..MaxFaults /\ UNCHANGED <<bridges, sec, conf, containers, world>>
      /\ \/ /\ Goto("forest_clean") /\ mem' = [mem EXCEPT !.failed = TRUE]
            /\ UNCHANGED <<users, pub, store>>
         \/ then
  BY <1>1, ForestSteps DEF ForestPlaces
<1>3. users[Seen(mem.user)] \in Manifests
  BY <1>2, SeenIsThere DEF ForestMade, ForestPlaces, Users
<1>4. CASE Goto("forest_clean") /\ mem' = [mem EXCEPT !.failed = TRUE] /\ UNCHANGED <<users, pub, store>>
  <2>1. MemoryOf(mem') /\ mem'.user = mem.user
    BY <1>2, <1>4 DEF MemoryOf, MemFields
  <2> QED
    BY <1>2, <1>4, <2>1, ForestGoesOn DEF Typed, Disk, ForestPlaces
<1>5. CASE then
  <2>1. store' \in [Users -> [copy : Manifests \cup {None}, published : BOOLEAN]]
    BY <1>3, <1>5 DEF then, Typed, Disk
  <2>2. Goto("forest_publish") /\ UNCHANGED <<mem, users, pub>>
    BY <1>5 DEF then
  <2> QED
    BY <1>2, <2>1, <2>2, ForestGoesOn DEF Typed, Disk, ForestPlaces
<1> QED
  BY <1>2, <1>4, <1>5

(* wl forest create: the container is published (_bootstrap_forest).         *)
LEMMA ForestPublishTyped == ASSUME Typed, ForestPublish PROVE Typed'
<1> DEFINE then == /\ mem' = [mem EXCEPT !.failed = ~ForestReloads]
                   /\ store' = IF ForestReloads THEN [store EXCEPT ![mem.user].published = TRUE] ELSE store
                   /\ Goto("forest_clean") /\ UNCHANGED <<users, pub>>
<1>1. ForestStep("forest_publish", "remote", then)
  BY DEF ForestPublish
<1> HIDE DEF then
<1>2. /\ pc = "forest_publish" /\ pc # "idle" /\ job.op = "forest" /\ MemoryOf(mem) /\ mem.user \in Mine
      /\ faults' \in 0..MaxFaults /\ UNCHANGED <<bridges, sec, conf, containers, world>>
      /\ \/ /\ Goto("forest_clean") /\ mem' = [mem EXCEPT !.failed = TRUE]
            /\ UNCHANGED <<users, pub, store>>
         \/ then
  BY <1>1, ForestSteps DEF ForestPlaces
<1>4. CASE Goto("forest_clean") /\ mem' = [mem EXCEPT !.failed = TRUE] /\ UNCHANGED <<users, pub, store>>
  <2>1. MemoryOf(mem') /\ mem'.user = mem.user
    BY <1>2, <1>4 DEF MemoryOf, MemFields
  <2> QED
    BY <1>2, <1>4, <2>1, ForestGoesOn DEF Typed, Disk, ForestPlaces
<1>5. CASE then
  <2>1. store' = store \/ store' = [store EXCEPT ![mem.user].published = TRUE]
    BY <1>5 DEF then
  <2>2. store' \in [Users -> [copy : Manifests \cup {None}, published : BOOLEAN]]
    <3>1. store \in [Users -> [copy : Manifests \cup {None}, published : BOOLEAN]]
      BY DEF Typed, Disk
    <3>2. \A u \in Users : [store[u] EXCEPT !.published = TRUE] \in [copy : Manifests \cup {None}, published : BOOLEAN]
      BY <3>1
    <3>3. CASE store' = store
      BY <3>1, <3>3
    <3>4. CASE store' = [store EXCEPT ![mem.user].published = TRUE]
      <4>1. store' = [u \in Users |-> IF u = mem.user THEN [store[u] EXCEPT !.published = TRUE] ELSE store[u]]
        BY <3>1, <3>4
      <4>2. \A u \in Users : store[u] \in [copy : Manifests \cup {None}, published : BOOLEAN]
        BY <3>1
      <4> QED
        BY <3>2, <4>1, <4>2
    <3> QED
      BY <2>1, <3>3, <3>4
  <2>3. mem' = [mem EXCEPT !.failed = ~ForestReloads] /\ Goto("forest_clean") /\ UNCHANGED <<users, pub>>
    BY <1>5 DEF then
  <2>4. MemoryOf(mem') /\ mem'.user = mem.user
    BY <1>2, <2>3 DEF MemoryOf, MemFields
  <2>5. users' \in [Files -> Manifests \cup {None}] /\ pub' \subseteq Users
    BY <2>3 DEF Typed, Disk
  <2>6. "forest_clean" \in ForestPlaces /\ pc \in ForestPlaces
    BY <1>2 DEF ForestPlaces
  <2>7. Goto("forest_clean")
    BY <2>3
  <2>8. /\ pc \in ForestPlaces /\ job.op = "forest" /\ mem.user \in Mine /\ faults' \in 0..MaxFaults
        /\ UNCHANGED <<bridges, sec, conf, containers, world>> /\ MemoryOf(mem)
    BY <1>2, <2>6
  <2> QED
    BY <2>2, <2>4, <2>5, <2>6, <2>7, <2>8, ForestGoesOn
<1> QED
  BY <1>2, <1>4, <1>5

(* wl forest create: the file of the container goes (_bootstrap_forest).     *)
LEMMA ForestCleanTyped == ASSUME Typed, ForestClean PROVE Typed'
<1>1. containers' \subseteq containers
  BY DEF ForestClean
<1>2. Disk'
  BY <1>1 DEF ForestClean, Typed, Disk, BridgeFine, world
<1>3. End("failed") \/ End("ok")
  BY DEF ForestClean
<1> QED
  BY <1>2, <1>3, Ends DEF Typed

-----------------------------------------------------------------------------
(* The frame: commands begin, clean up and are killed; others publish. *)

(* Cleaner.clean_up ends, or removes one thing that the command made.            *)
LEMMA CleanUpCases ==
    ASSUME Typed, CleanUp
    PROVE  /\ pc = "clean" /\ pc # "idle" /\ job.op \in CleaningOps /\ MemoryOf(mem)
           /\ UNCHANGED <<half, conf, containers, store, remote, commands, generated, faults>>
           /\ \/ mem.made = {} /\ End("failed") /\ Forget /\ UNCHANGED <<users, bridges, pub, sec>>
              \/ \E x \in mem.made :
                    /\ users' = IF x[1] = "user" THEN [users EXCEPT ![x[2]] = None] ELSE users
                    /\ bridges' = IF x[1] = "bridge" THEN [bridges EXCEPT ![x[2]] = None] ELSE bridges
                    /\ pub' = IF x[1] = "key" THEN pub \ {x[2]} ELSE pub
                    /\ sec' = IF x[1] = "key" THEN sec \ {x[2]} ELSE sec
                    /\ mem' = [mem EXCEPT !.made = mem.made \ {x}]
                    /\ UNCHANGED <<job, pc, outcome>>
<1>1. pc = "clean" /\ pc # "idle" /\ job.op \in CleaningOps /\ MemoryOf(mem)
  BY OpAt DEF Typed, Memory, CleanUp, At
<1>2. UNCHANGED <<half, conf, containers, store, remote, commands, generated, faults>>
  BY DEF CleanUp, disk, world
<1>3. CASE mem.made = {} /\ End("failed") /\ Forget /\ UNCHANGED <<disk, faults>>
  BY <1>1, <1>2, <1>3 DEF disk
<1>4. ASSUME NEW x \in mem.made,
             /\ users' = IF x[1] = "user" THEN [users EXCEPT ![x[2]] = None] ELSE users
             /\ bridges' = IF x[1] = "bridge" THEN [bridges EXCEPT ![x[2]] = None] ELSE bridges
             /\ pub' = IF x[1] = "key" THEN pub \ {x[2]} ELSE pub
             /\ sec' = IF x[1] = "key" THEN sec \ {x[2]} ELSE sec
             /\ mem' = [mem EXCEPT !.made = @ \ {x}]
             /\ UNCHANGED <<conf, containers, store, job, pc, outcome, faults>>
      PROVE  \E y \in mem.made :
                    /\ users' = IF y[1] = "user" THEN [users EXCEPT ![y[2]] = None] ELSE users
                    /\ bridges' = IF y[1] = "bridge" THEN [bridges EXCEPT ![y[2]] = None] ELSE bridges
                    /\ pub' = IF y[1] = "key" THEN pub \ {y[2]} ELSE pub
                    /\ sec' = IF y[1] = "key" THEN sec \ {y[2]} ELSE sec
                    /\ mem' = [mem EXCEPT !.made = mem.made \ {y}]
                    /\ UNCHANGED <<job, pc, outcome>>
  BY <1>4
<1> QED
  BY <1>1, <1>2, <1>3, <1>4 DEF CleanUp

(* Cleaner.clean_up leaves directories.                                      *)
LEMMA CleanUpTyped == ASSUME Typed, CleanUp PROVE Typed'
<1>0. /\ pc = "clean" /\ pc # "idle" /\ MemoryOf(mem)
      /\ UNCHANGED <<half, conf, containers, store, remote, commands, generated, faults>>
  BY CleanUpCases
<1>1. /\ users' \in [Files -> Manifests \cup {None}] /\ bridges' \in [Files -> Bridges \cup {None}]
      /\ \A f \in Files : bridges'[f] # None => bridges'[f] = bridges[f]
      /\ pub' \subseteq pub /\ sec' \subseteq sec
  <2>1. CASE UNCHANGED <<users, bridges, pub, sec>>
    BY <2>1 DEF Typed, Disk
  <2>2. ASSUME NEW x,
               users' = IF x[1] = "user" THEN [users EXCEPT ![x[2]] = None] ELSE users,
               bridges' = IF x[1] = "bridge" THEN [bridges EXCEPT ![x[2]] = None] ELSE bridges,
               pub' = IF x[1] = "key" THEN pub \ {x[2]} ELSE pub,
               sec' = IF x[1] = "key" THEN sec \ {x[2]} ELSE sec
        PROVE  /\ users' \in [Files -> Manifests \cup {None}] /\ bridges' \in [Files -> Bridges \cup {None}]
               /\ \A f \in Files : bridges'[f] # None => bridges'[f] = bridges[f]
               /\ pub' \subseteq pub /\ sec' \subseteq sec
    BY <2>2 DEF Typed, Disk
  <2> QED
    BY <2>1, <2>2, CleanUpCases
<1>2. Disk'
  BY <1>0, <1>1 DEF Typed, Disk, BridgeFine
<1>3. CASE End("failed")
  BY <1>2, <1>3, Ends DEF Typed
<1>4. ASSUME NEW x \in mem.made, mem' = [mem EXCEPT !.made = mem.made \ {x}], UNCHANGED <<job, pc, outcome>>
      PROVE  Places' /\ Memory'
  <2>1. Places'
    BY <1>0, <1>4 DEF Typed, Places
  <2>2. MemoryOf(mem')
    BY <1>0, <1>4 DEF MemoryOf, MemFields
  <2>3. Memory'
    BY <1>0, <1>4, <2>2 DEF Memory, Created, ForestPlaces
  <2> QED
    BY <2>1, <2>3
<1> QED
  BY <1>2, <1>3, <1>4, CleanUpCases DEF Typed

(* Client.__init__: what a command remembers when it begins.                   *)
LEMMA BeginTyped == ASSUME Typed, NEW r \in Requests, Begin(r) PROVE Typed'
<1> DEFINE loaded == {f \in Files : Loadable(f)}
           keys == UNION {KeysOf(users[f]) : f \in loaded}
           owns == [k \in Users |-> {users[f].owner : f \in {g \in loaded : k \in users[g].extra}}]
<1>1. \A f \in loaded : users[f] \in Manifests
  BY DEF Loadable, Typed, Disk
<1>2. keys \subseteq Users
  BY <1>1 DEF KeysOf, Manifests
<1>3. owns \in [Users -> SUBSET Users]
  BY <1>1 DEF Manifests
<1>4. LoadAll \in [Files -> Users \cup {None, Broken}]
  BY DEF LoadAll, Loadable, Typed, Disk, Manifests
<1>5. /\ pub' = pub \cup keys /\ commands < MaxCommands
      /\ mem' = [keys |-> keys, priv |-> keys \cap sec, owns |-> owns, cache |-> LoadAll,
                 made |-> {}, todo |-> {}, fetched |-> {}, failed |-> FALSE, user |-> None, name |-> None,
                 old |-> [users |-> users, bridges |-> bridges, sec |-> sec, half |-> half]]
      /\ job' = r /\ pc' = r.op /\ outcome' = "none" /\ commands' = commands + 1
      /\ r.op = "import_key" => r.user \in generated
      /\ UNCHANGED <<users, bridges, sec, half, conf, containers, store, remote, generated, faults>>
  BY DEF Begin, Shown
<1> HIDE DEF keys, owns
<1>6. commands' \in 0..MaxCommands
  BY <1>5, ConstantsAssumption DEF Typed, Disk
<1>7. Disk'
  BY <1>2, <1>5, <1>6 DEF Typed, Disk, BridgeFine
<1>8. r \in AllRequests
  BY RequestsAssumption
<1>9. /\ r.op \in {"create", "delete", "import", "bridge_import", "bridge_create", "bridge_delete",
                   "refresh", "forest_mount", "modify", "import_key", "forest", "container"}
      /\ r.op \in PlacesOf(r.op)
  BY <1>8 DEF AllRequests, PlacesOf, ForestPlaces
<1>10. Places'
  BY <1>5, <1>9 DEF Places
<1>11. MemoryOf(mem')
  <2>1. mem'.priv \subseteq mem'.keys /\ mem'.priv \subseteq Mine /\ mem'.keys \subseteq Users
    BY <1>2, <1>5 DEF Typed, Disk
  <2>2. DOMAIN mem' = MemFields
    BY <1>5 DEF MemFields
  <2> QED
    BY <1>3, <1>4, <1>5, <2>1, <2>2 DEF MemoryOf
<1>12. Memory'
  BY <1>5, <1>9, <1>11 DEF Memory, Created, ForestPlaces
<1> QED
  BY <1>7, <1>10, <1>12 DEF Typed

(* A command is killed.                                                      *)
LEMMA CrashTyped == ASSUME Typed, Crash PROVE Typed'
<1>1. faults' \in 0..MaxFaults
  <2>1. faults < MaxFaults /\ faults \in 0..MaxFaults
    BY DEF Crash, Typed, Disk
  <2>2. faults' = faults + 1
    BY DEF Crash, Count
  <2> QED
    BY <2>1, <2>2, ConstantsAssumption
<1>2. Disk'
  BY <1>1 DEF Crash, Typed, Disk, BridgeFine, disk, world
<1>3. End("crashed")
  BY DEF Crash
<1> QED
  BY <1>2, <1>3, Ends DEF Typed

(* Somebody else publishes a new version.                                     *)
LEMMA RemoteChangesTyped == ASSUME Typed, NEW u \in Theirs, RemoteChanges(u) PROVE Typed'
<1>1. remote[u] \in Manifests /\ remote[u].version < MaxVersion
  BY DEF RemoteChanges, Typed, Disk
<1>2. [remote[u] EXCEPT !.version = @ + 1] \in Manifests
  <2>1. remote[u].version + 1 \in 0..MaxVersion
    BY <1>1, ConstantsAssumption DEF Manifests
  <2>2. \A m \in Manifests, v \in 0..MaxVersion : [m EXCEPT !.version = v] \in Manifests
    BY DEF Manifests
  <2> QED
    BY <1>1, <2>1, <2>2
<1>3. remote' = [remote EXCEPT ![u] = [remote[u] EXCEPT !.version = @ + 1]]
  BY DEF RemoteChanges, Typed, Disk
<1>4. remote' \in [Theirs -> Manifests] /\ remote'[u] \in Manifests
  BY <1>2, <1>3 DEF Typed, Disk
<1>5. store' = store \/ store' = [store EXCEPT ![u].copy = remote'[u]]
  BY DEF RemoteChanges
<1>6. store' \in [Users -> [copy : Manifests \cup {None}, published : BOOLEAN]]
  BY <1>4, <1>5 DEF Typed, Disk
<1>7. UNCHANGED <<users, bridges, pub, sec, half, conf, containers, job, pc, mem, outcome, generated,
                  commands, faults>>
  BY DEF RemoteChanges
<1>8. Disk'
  BY <1>4, <1>6, <1>7 DEF Typed, Disk, BridgeFine
<1>9. Places' /\ Memory'
  BY <1>7 DEF Typed, Places, Memory
<1> QED
  BY <1>8, <1>9 DEF Typed

-----------------------------------------------------------------------------
(* Steps that write neither manifests nor private keys. *)

Rest == {"cache", "made", "old", "user"}      \* what such a step remembers
Quiet ==
    /\ pc \notin {"idle", "clean"} /\ UNCHANGED <<users, bridges, sec>>
    /\ \/ pc' = "idle"
       \/ /\ job' = job /\ \A x \in Rest : mem'[x] = mem[x]
          /\ pc' \notin {"create_save"} \cup ForestPlaces
          /\ IF pc' = "clean" THEN TornOnce ELSE half' = half

(* A failure writes nothing by itself.                                        *)
LEMMA FailsIsQuiet ==
    ASSUME Fails, UNCHANGED <<users, bridges, sec>>, TornOnce, pc \notin {"idle", "clean"}
    PROVE  Quiet
  BY DEF Fails, Quiet, Goto, End, ForestPlaces

(* Neither does going to another step.                                        *)
LEMMA GoesQuietly ==
    ASSUME NEW p, Goto(p), UNCHANGED <<users, bridges, sec, half, mem>>, pc \notin {"idle", "clean"},
           p \notin {"create_save"} \cup ForestPlaces
    PROVE  Quiet
  BY DEF Quiet, Goto, TornOnce

(* The steps of that kind: the configuration, what is only read, what deletes    *)
(* containers.                                                                *)
LEMMA QuietSteps ==
    ASSUME Typed,
           \/ CreateConf \/ DeleteUsages \/ DeleteConf \/ ImportFetch \/ ImportKnown
           \/ Done("bridge_created") \/ BridgeImport \/ BridgeRead \/ StartRefresh \/ EndRefresh
           \/ CreateContainer \/ ForestMount \/ ForestClean
    PROVE  Quiet
<1>0. half' = half /\ TornOnce
  BY DEF CreateConf, SaveConf, Done, DeleteUsages, DeleteConf, ImportFetch, ImportKnown, BridgeImport,
         BridgeRead, StartRefresh, EndRefresh, CreateContainer, ForestMount, ForestClean, world, TornOnce
<1>1. ASSUME NEW c, NEW then \in Created \cup {"delete_owner", "delete_locals", "delete_file"},
             SaveConf(c, then), pc \notin {"idle", "clean"}
      PROVE  Quiet
  BY <1>0, <1>1, GoesQuietly DEF SaveConf, Created, ForestPlaces
<1>2. CASE CreateConf
  BY <1>1, <1>2 DEF CreateConf, At, Created, Done, End, Quiet, disk
<1>3. CASE DeleteConf
  BY <1>1, <1>3 DEF DeleteConf, At
<1>4. CASE DeleteUsages
  <2>1. UNCHANGED <<users, bridges, sec>> /\ pc \notin {"idle", "clean"}
    BY <1>4 DEF DeleteUsages, At
  <2>2. Fails \/ (Goto("delete") /\ UNCHANGED mem) \/ (Goto("delete_keys") /\ UNCHANGED mem)
    BY <1>4 DEF DeleteUsages
  <2> QED
    BY <1>0, <2>1, <2>2, FailsIsQuiet, GoesQuietly DEF ForestPlaces
<1>5. CASE ImportFetch
  <2>1. UNCHANGED <<users, bridges, sec>> /\ pc \notin {"idle", "clean"} /\ MemoryOf(mem)
    BY <1>5 DEF ImportFetch, At, Typed, Memory
  <2>2. Fails \/ (Goto("import_save") /\ Learns(remote[job.user]))
    BY <1>5 DEF ImportFetch
  <2>3. ASSUME Learns(remote[job.user]) PROVE \A x \in Rest : mem'[x] = mem[x]
    <3> DEFINE m == remote[job.user]
    <3>1. mem' = [AddPubkeys(KeysOf(m), m.owner) EXCEPT !.fetched = @ \cup {m}]
      BY <2>3 DEF Learns
    <3> QED
      BY <2>1, <3>1 DEF AddPubkeys, MemoryOf, MemFields, Rest
  <2> QED
    BY <1>0, <2>1, <2>2, <2>3, FailsIsQuiet DEF Quiet, Goto, ForestPlaces
<1>6. CASE ImportKnown
  <2>1. UNCHANGED <<users, bridges, sec>> /\ pc \notin {"idle", "clean"}
    BY <1>6 DEF ImportKnown, At, disk
  <2>2. Fails \/ (Goto("import_bridge") /\ UNCHANGED mem) \/ End("ok")
    BY <1>6 DEF ImportKnown
  <2> QED
    BY <1>0, <2>1, <2>2, FailsIsQuiet, GoesQuietly DEF ForestPlaces, End, Quiet
<1>7. CASE Done("bridge_created")
  BY <1>7 DEF Done, End, At, Quiet, disk
<1>8. CASE BridgeImport
  <2>1. UNCHANGED <<users, bridges, sec>> /\ pc \notin {"idle", "clean"}
    BY <1>8 DEF BridgeImport, At, disk
  <2>2. Fails \/ (Goto("bridge_read") /\ UNCHANGED mem)
    BY <1>8 DEF BridgeImport
  <2> QED
    BY <1>0, <2>1, <2>2, FailsIsQuiet, GoesQuietly DEF ForestPlaces
<1>9. CASE BridgeRead
  <2>1. UNCHANGED <<users, bridges, sec>> /\ pc \notin {"idle", "clean"} /\ MemoryOf(mem)
    BY <1>9 DEF BridgeRead, At, disk, Typed, Memory
  <2>2. Fails \/ (Goto("bridge_save") /\ mem' = [mem EXCEPT !.todo = job.targets])
    BY <1>9 DEF BridgeRead
  <2>3. mem' = [mem EXCEPT !.todo = job.targets] => \A x \in Rest : mem'[x] = mem[x]
    BY <2>1 DEF MemoryOf, MemFields, Rest
  <2> QED
    BY <1>0, <2>1, <2>2, <2>3, FailsIsQuiet DEF Quiet, Goto, ForestPlaces
<1>10. CASE StartRefresh
  <2>1. UNCHANGED <<users, bridges, sec>> /\ pc \notin {"idle", "clean"} /\ MemoryOf(mem)
    BY <1>10 DEF StartRefresh, At, disk, Typed, Memory
  <2>2. \A x \in Rest : mem'[x] = mem[x]
    BY <1>10, <2>1 DEF StartRefresh, MemoryOf, MemFields, Rest
  <2> QED
    BY <1>0, <1>10, <2>1, <2>2 DEF StartRefresh, Quiet, Goto, ForestPlaces
<1>11. CASE EndRefresh
  <2>1. UNCHANGED <<users, bridges, sec>> /\ pc \notin {"idle", "clean"}
    BY <1>11 DEF EndRefresh, At, disk
  <2>2. Fails \/ End("ok")
    BY <1>11 DEF EndRefresh
  <2> QED
    BY <1>0, <2>1, <2>2, FailsIsQuiet DEF Quiet, End
<1>12. CASE CreateContainer
  BY <1>12 DEF CreateContainer, At, End, Quiet
<1>13. CASE ForestMount
  <2>1. UNCHANGED <<users, bridges, sec>> /\ pc \notin {"idle", "clean"}
    BY <1>13 DEF ForestMount, At, disk
  <2>2. Fails \/ (Goto("refresh") /\ UNCHANGED mem)
    BY <1>13 DEF ForestMount
  <2> QED
    BY <1>0, <2>1, <2>2, FailsIsQuiet, GoesQuietly DEF ForestPlaces
<1>14. CASE ForestClean
  BY <1>14 DEF ForestClean, At, End, Quiet
<1> QED
  BY <1>2, <1>3, <1>4, <1>5, <1>6, <1>7, <1>8, <1>9, <1>10, <1>11, <1>12, <1>13, <1>14

-----------------------------------------------------------------------------
(* What holds of the files. *)

Fine == CacheRight /\ Restorable /\ ForestMade

(* When no command runs, the files are as they are.                           *)
LEMMA IdleIsFine == ASSUME pc' = "idle" PROVE Fine'
  BY DEF Fine, CacheRight, Restorable, ForestMade, ForestPlaces

(* A quiet step leaves the files and what is remembered of them.               *)
LEMMA QuietIsFine == ASSUME Fine, Quiet PROVE Fine'
<1>1. CASE pc' = "idle"
  BY <1>1, IdleIsFine
<1>2. CASE pc' # "idle"
  <2>1. /\ pc \notin {"idle", "clean"} /\ users' = users /\ bridges' = bridges /\ sec' = sec /\ job' = job
        /\ mem'.cache = mem.cache /\ mem'.made = mem.made /\ mem'.old = mem.old
        /\ pc' \notin {"create_save"} \cup ForestPlaces
        /\ IF pc' = "clean" THEN TornOnce ELSE half' = half
    BY <1>2 DEF Quiet, Rest
  <2>2. CacheRight'
    BY <2>1 DEF Fine, CacheRight
  <2>3. Restorable'
    <3>1. KeysMade' = KeysMade
      BY <2>1 DEF KeysMade
    <3>2. Undoable("user", users, mem.old.users)' = Undoable("user", users, mem.old.users)
      BY <2>1 DEF Undoable
    <3>3. Undoable("bridge", bridges, mem.old.bridges)' = Undoable("bridge", bridges, mem.old.bridges)
      BY <2>1 DEF Undoable
    <3>4. job.op \in CleaningOps => BrokeOff'
      BY <2>1 DEF Fine, Restorable, BrokeOff, OneMore, TornOnce
    <3> QED
      BY <2>1, <3>1, <3>2, <3>3, <3>4 DEF Fine, Restorable
  <2>4. ForestMade'
    BY <2>1 DEF ForestMade, ForestPlaces
  <2> QED
    BY <2>2, <2>3, <2>4 DEF Fine
<1> QED
  BY <1>1, <1>2

(* Outside of the commands that clean up, and of forests, only what was loaded   *)
(* matters.                                                                   *)
LEMMA OthersAreFine ==
    ASSUME Fine, pc \notin {"idle", "clean"}, job' = job, mem'.cache = mem.cache, users' = users,
           job.op \notin CleaningOps, pc' \notin ForestPlaces
    PROVE  Fine'
<1>1. CacheRight'
  BY DEF Fine, CacheRight
<1>2. Restorable'
  BY DEF Restorable
<1>3. ForestMade'
  BY DEF ForestMade, ForestPlaces
<1> QED
  BY <1>1, <1>2, <1>3 DEF Fine

(* A manifest that is put at a new path is known to the cleaner and to the       *)
(* client.                                                                    *)
LEMMA PutUserIsFine ==
    ASSUME Typed, Fine, pc \notin {"idle", "clean"}, job.op \in CleaningOps \ {"bridge_import"},
           NEW f \in Files, users[f] = None, NEW m \in Manifests, PutUser(f, m, TRUE), job' = job,
           UNCHANGED <<bridges, sec, half>>, pc' \notin {"create_save"} \cup ForestPlaces
    PROVE  Fine'
<1>1. /\ users' = [users EXCEPT ![f] = m]
      /\ mem'.made = mem.made \cup {<<"user", f>>} /\ mem'.old = mem.old
      /\ mem'.cache = [mem.cache EXCEPT ![f] = m.owner]
  BY DEF PutUser, Typed, Memory, MemoryOf, MemFields
<1>2. m # None
  BY RequestsAssumption
<1>3. users \in [Files -> Manifests \cup {None}] /\ mem.cache \in [Files -> Users \cup {None, Broken}]
  BY DEF Typed, Disk, Memory, MemoryOf
<1>4. CacheRight'
  BY <1>1, <1>2, <1>3 DEF Fine, CacheRight
<1>5. Restorable'
  <2>1. KeysMade' = KeysMade
    BY <1>1 DEF KeysMade
  <2>2. Undoable("user", users, mem.old.users)'
    BY <1>1, <1>3 DEF Fine, Restorable, Undoable, CleaningOps
  <2>3. Undoable("bridge", bridges, mem.old.bridges)'
    BY <1>1 DEF Fine, Restorable, Undoable, CleaningOps
  <2>4. BrokeOff'
    BY <1>1 DEF Fine, Restorable, BrokeOff, OneMore, CleaningOps
  <2> QED
    BY <1>1, <2>1, <2>2, <2>3, <2>4 DEF Fine, Restorable
<1>6. ForestMade'
  BY DEF ForestMade, ForestPlaces
<1> QED
  BY <1>4, <1>5, <1>6 DEF Fine

(* wl user create: a key that is generated is new, and is known to the cleaner.  *)
LEMMA CreateKeyIsFine == ASSUME Typed, Fine, CreateKey PROVE Fine'
<1>0. /\ pc = "create" /\ pc \notin {"idle", "clean"} /\ job.op = "create" /\ MemoryOf(mem)
      /\ users' = users /\ bridges' = bridges
  BY OpAt DEF Typed, Memory, CreateKey, At, Created
<1>1. CASE job.user \in pub /\ mem' = [mem EXCEPT !.user = job.user] /\ Goto("create_save")
           /\ UNCHANGED <<pub, sec, half, generated, faults>>
  <2>1. mem'.cache = mem.cache /\ mem'.made = mem.made /\ mem'.old = mem.old
    BY <1>0, <1>1 DEF MemoryOf, MemFields
  <2>2. pc' = "create_save" /\ job' = job /\ sec' = sec /\ job.user # None
    BY <1>1, ConstantsAssumption DEF Goto, Typed, Disk
  <2>3. CacheRight'
    BY <1>0, <2>1, <2>2 DEF Fine, CacheRight
  <2>4. Restorable'
    <3>1. KeysMade' = KeysMade
      BY <2>1 DEF KeysMade
    <3>2. Undoable("user", users, mem.old.users)' /\ Undoable("bridge", bridges, mem.old.bridges)'
      BY <1>0, <2>1 DEF Fine, Restorable, Undoable, CleaningOps
    <3>3. BrokeOff'
      BY <1>0, <1>1, <2>1, <2>2 DEF Fine, Restorable, BrokeOff, CleaningOps
    <3> QED
      BY <1>0, <2>1, <2>2, <3>1, <3>2, <3>3 DEF Fine, Restorable
  <2>5. ForestMade'
    BY <2>2 DEF ForestMade, ForestPlaces
  <2> QED
    BY <2>3, <2>4, <2>5 DEF Fine
<1>2. CASE Fails /\ UNCHANGED <<pub, sec, half, generated, faults>>
  BY <1>0, <1>2, FailsIsQuiet, QuietIsFine DEF TornOnce
<1>3. ASSUME NEW k \in Mine \ generated, NEW bad \in Faulty("write"),
             NEW wrote \in IF bad THEN {"none", "pub"} ELSE {"both"}, PutKey(k, wrote),
             Goto(IF bad THEN "clean" ELSE "create_save")
      PROVE  Fine'
  <2> DEFINE told == IF wrote = "none" THEN {} ELSE {k}
  <2>1. /\ mem'.cache = mem.cache /\ mem'.made = mem.made \cup {<<"key", x>> : x \in told} /\ mem'.old = mem.old
        /\ mem'.user = k /\ sec' = IF wrote = "both" THEN sec \cup {k} ELSE sec
    BY <1>0, <1>3 DEF PutKey, MemoryOf, MemFields
  <2>2. /\ pc' = (IF wrote = "both" THEN "create_save" ELSE "clean") /\ job' = job
        /\ k \in Users /\ k \notin sec /\ wrote \in {"none", "pub", "both"}
    BY <1>3 DEF Goto, Typed, Disk, Users, Faulty
  <2>3. CacheRight'
    BY <1>0, <2>1, <2>2 DEF Fine, CacheRight
  <2>4. Restorable'
    <3>1. KeysMade' = KeysMade \cup told
      BY <2>1, <2>2 DEF KeysMade
    <3>2. Undoable("user", users, mem.old.users)' /\ Undoable("bridge", bridges, mem.old.bridges)'
      BY <1>0, <2>1 DEF Fine, Restorable, Undoable, CleaningOps
    <3>3. mem.old.sec \subseteq sec /\ sec \ mem.old.sec \subseteq KeysMade /\ KeysMade \cap mem.old.sec = {}
      BY <1>0 DEF Fine, Restorable, CleaningOps
    <3>4. mem.old.sec \subseteq sec' /\ sec' \ mem.old.sec \subseteq KeysMade' /\ KeysMade' \cap mem.old.sec = {}
      BY <2>1, <2>2, <3>1, <3>3
    <3>5. BrokeOff'
      <4>1. half = mem.old.half
        BY <1>0 DEF Fine, Restorable, BrokeOff, CleaningOps
      <4>2. CASE wrote = "both"
        BY <1>3, <2>1, <2>2, <4>1, <4>2 DEF PutKey, BrokeOff
      <4>3. CASE wrote # "both"
        <5>1. half' \in {half, half \cup {<<"key", k>>}} /\ <<"key", k>> \in Torn
          BY <1>3, <4>3 DEF PutKey, Tears, Torn
        <5> QED
          BY <2>1, <2>2, <4>1, <4>3, <5>1 DEF BrokeOff, OneMore
      <4> QED
        BY <4>2, <4>3
    <3>6. pc' = "create_save" => mem'.user \in KeysMade'
      BY <2>1, <2>2, <3>1
    <3> QED
      BY <1>0, <2>1, <2>2, <3>1, <3>2, <3>4, <3>5, <3>6 DEF Fine, Restorable, CleaningOps
  <2>5. ForestMade'
    BY <2>2 DEF ForestMade, ForestPlaces
  <2> QED
    BY <2>3, <2>4, <2>5 DEF Fine
<1> QED
  <2>1. CASE \E k \in Mine \ generated, bad \in Faulty("write") :
                /\ \E wrote \in IF bad THEN {"none", "pub"} ELSE {"both"} : PutKey(k, wrote)
                /\ Goto(IF bad THEN "clean" ELSE "create_save")
    BY <1>3, <2>1
  <2> QED
    BY <1>1, <1>2, <2>1 DEF CreateKey

(* The manifest; when it cannot be written, a key that was generated goes.       *)
LEMMA CreateSaveIsFine == ASSUME Typed, Fine, CreateSave PROVE Fine'
<1> DEFINE k == mem.user
           m == [owner |-> k, extra |-> job.extra, path |-> job.path, catalog |-> FALSE, version |-> 0]
<1>0. /\ pc = "create_save" /\ pc \notin {"idle", "clean"} /\ job.op = "create" /\ k \in Users
      /\ job.extra \subseteq Users /\ job.name \in Names /\ job.path \in Names
      /\ bridges' = bridges
  BY OpAt, Options DEF Typed, Memory, CreateSave, At
<1>1. PICK bad \in IF k \in sec THEN Faulty("write") ELSE {TRUE} :
         LET gone == IF bad /\ job.user = None THEN {k} ELSE {}
         IN  /\ sec' = sec \ gone
             /\ IF bad /\ k \in sec THEN TearsNew("user", job.name) ELSE UNCHANGED half
             /\ IF bad
                THEN Fails /\ UNCHANGED users
                ELSE /\ Free(Dir("user"), job.name)
                     /\ PutUser(NewPath(Dir("user"), job.name), m, TRUE)
                     /\ Goto("create_default")
  BY DEF CreateSave
<1>2. m \in Manifests
  BY <1>0, ConstantsAssumption DEF Manifests
<1> HIDE DEF m
<1>3. CASE bad
  <2>1. users' = users /\ (job.user # None => sec' = sec) /\ (job.user = None => sec' = sec \ {k})
    BY <1>1, <1>3
  <2>2. Goto("clean") /\ UNCHANGED mem
    BY <1>0, <1>1, <1>3 DEF Fails, CleaningOps
  <2>3. pc' = "clean" /\ job' = job /\ mem' = mem
    BY <2>2 DEF Goto
  <2>4. CacheRight' /\ ForestMade'
    BY <2>3 DEF CacheRight, ForestMade, ForestPlaces
  <2>5. Restorable'
    <3>1. KeysMade' = KeysMade
      BY <2>3 DEF KeysMade
    <3>2. Undoable("user", users, mem.old.users)' /\ Undoable("bridge", bridges, mem.old.bridges)'
      BY <1>0, <2>1, <2>3 DEF Fine, Restorable, Undoable, CleaningOps
    <3>3. /\ mem.old.sec \subseteq sec /\ sec \ mem.old.sec \subseteq KeysMade /\ KeysMade \cap mem.old.sec = {}
          /\ job.user = None => k \in KeysMade
      BY <1>0 DEF Fine, Restorable, CleaningOps
    <3>4. mem.old.sec \subseteq sec' /\ sec' \ mem.old.sec \subseteq KeysMade
      BY <2>1, <3>3
    <3>5. BrokeOff'
      <4>1. half = mem.old.half
        BY <1>0 DEF Fine, Restorable, BrokeOff, CleaningOps
      <4>2. TornOnce
        BY <1>0, <1>1, TearsOnce DEF TornOnce
      <4> QED
        BY <2>3, <4>1, <4>2 DEF BrokeOff, OneMore, TornOnce
    <3> QED
      BY <1>0, <2>1, <2>3, <3>1, <3>2, <3>3, <3>4, <3>5 DEF Fine, Restorable, CleaningOps
  <2> QED
    BY <2>4, <2>5 DEF Fine
<1>4. CASE ~bad
  <2>1. /\ Free(Dir("user"), job.name) /\ PutUser(NewPath(Dir("user"), job.name), m, TRUE)
        /\ Goto("create_default") /\ sec' = sec /\ half' = half
    BY <1>1, <1>4
  <2>2. NewPath(Dir("user"), job.name) \in Files /\ users[NewPath(Dir("user"), job.name)] = None
    BY <1>0, <2>1, UserPathIsFree
  <2>3. pc' = "create_default" /\ job' = job
    BY <2>1 DEF Goto
  <2> QED
    BY <1>0, <1>2, <2>1, <2>2, <2>3, PutUserIsFine DEF CleaningOps, ForestPlaces
<1> QED
  BY <1>3, <1>4

(* wl user delete: keys.                                                      *)
LEMMA DeleteKeysIsFine == ASSUME Typed, Fine, DeleteKeys PROVE Fine'
<1>0. pc = "delete_keys" /\ job.op = "delete" /\ job.op \notin CleaningOps /\ users' = users
  BY OpAt DEF Typed, DeleteKeys, At, CleaningOps
<1>1. CASE Fails
  BY <1>0, <1>1, IdleIsFine DEF Fails, End
<1>2. CASE Goto("delete_default") /\ UNCHANGED mem
  BY <1>0, <1>2, OthersAreFine DEF Goto, ForestPlaces
<1> QED
  BY <1>1, <1>2 DEF DeleteKeys

(* wl user import: the manifest that was fetched.                              *)
LEMMA ImportSaveIsFine == ASSUME Typed, Fine, ImportSave PROVE Fine'
<1>0. /\ pc = "import_save" /\ pc \notin {"idle", "clean"} /\ job.op = "import" /\ job.user \in Users
      /\ MemoryOf(mem) /\ UNCHANGED <<bridges, sec>>
  BY OpAt, Options DEF Typed, Memory, ImportSave, At, Users
<1>1. PICK bad \in Faulty("write"), m \in {x \in mem.fetched : x.owner = job.user} :
          IF bad THEN Fails /\ TearsNew("user", NameOf[job.user]) /\ UNCHANGED users
                 ELSE /\ Free(Dir("user"), NameOf[job.user]) /\ UNCHANGED half
                      /\ PutUser(NewPath(Dir("user"), NameOf[job.user]), m, TRUE)
                      /\ Goto("import_bridge")
  BY DEF ImportSave
<1>4. NameOf[job.user] \in Names
  BY <1>0, ConstantsAssumption
<1>2. CASE Fails /\ TearsNew("user", NameOf[job.user]) /\ UNCHANGED users
  BY <1>0, <1>2, <1>4, TearsOnce, FailsIsQuiet, QuietIsFine
<1>3. CASE /\ Free(Dir("user"), NameOf[job.user]) /\ UNCHANGED half
           /\ PutUser(NewPath(Dir("user"), NameOf[job.user]), m, TRUE)
           /\ Goto("import_bridge")
  <2>1. m \in Manifests /\ NameOf[job.user] \in Names
    BY <1>0, <1>1, ConstantsAssumption DEF MemoryOf
  <2>2. NewPath(Dir("user"), NameOf[job.user]) \in Files /\ users[NewPath(Dir("user"), NameOf[job.user])] = None
    BY <1>3, <2>1, UserPathIsFree
  <2>3. pc' = "import_bridge" /\ job' = job
    BY <1>3 DEF Goto
  <2> QED
    BY <1>0, <1>3, <2>1, <2>2, <2>3, PutUserIsFine DEF CleaningOps, ForestPlaces
<1> QED
  BY <1>1, <1>2, <1>3

(* A bridge that is put at a new path is known to the cleaner.                  *)
LEMMA PutBridgeIsFine ==
    ASSUME Typed, Fine, pc \notin {"idle", "clean"}, NEW o, NEW u \in Users,
           NEW at, NEW file, NEW then, then \notin {"create_save"} \cup ForestPlaces,
           PutBridge(o, u, at, file, then), UNCHANGED <<users, sec>>
    PROVE  Fine'
<1>0. NameOf[u] \in Names
  BY ConstantsAssumption
<1>1. CASE Fails /\ UNCHANGED <<bridges, half, faults>>
  BY <1>1, FailsIsQuiet, QuietIsFine DEF TornOnce
<1>2. ASSUME NEW k, NEW bad \in Faulty("write"),
             IF bad
             THEN Fails /\ TearsNew("bridge", NameOf[u]) /\ UNCHANGED bridges
             ELSE LET b == NewPath(Dir("bridge"), NameOf[u])
                  IN  /\ Free(Dir("bridge"), NameOf[u]) /\ UNCHANGED half
                      /\ bridges' = [bridges EXCEPT ![b] =
                             [owner |-> o, signer |-> k, target |-> u, at |-> at, file |-> file]]
                      /\ mem' = [mem EXCEPT !.made = @ \cup {<<"bridge", b>>}, !.todo = @ \ {u}]
                      /\ Goto(then)
      PROVE  Fine'
  <2>1. CASE Fails /\ TearsNew("bridge", NameOf[u]) /\ UNCHANGED bridges
    BY <1>0, <2>1, TearsOnce, FailsIsQuiet, QuietIsFine
  <2>2. CASE ~bad
    <3> DEFINE b == NewPath(Dir("bridge"), NameOf[u])
               new == [owner |-> o, signer |-> k, target |-> u, at |-> at, file |-> file]
    <3>1. /\ Free(Dir("bridge"), NameOf[u]) /\ UNCHANGED half
          /\ bridges' = [bridges EXCEPT ![b] = new]
          /\ mem' = [mem EXCEPT !.made = @ \cup {<<"bridge", b>>}, !.todo = @ \ {u}]
          /\ Goto(then)
      BY <1>2, <2>2
    <3>2. b \in Files /\ bridges[b] = None /\ bridges \in [Files -> Bridges \cup {None}] /\ MemoryOf(mem)
      BY <1>0, <3>1, BridgePathIsFree DEF Typed, Disk, Memory
    <3> HIDE DEF b, new
    <3>3. /\ mem'.made = mem.made \cup {<<"bridge", b>>} /\ mem'.old = mem.old
          /\ mem'.cache = mem.cache /\ mem'.user = mem.user
      BY <3>1, <3>2 DEF MemoryOf, MemFields
    <3>4. pc' = then /\ job' = job
      BY <3>1 DEF Goto
    <3>5. CacheRight'
      BY <3>3, <3>4 DEF Fine, CacheRight
    <3>6. Restorable'
      <4>1. KeysMade' = KeysMade
        BY <3>3 DEF KeysMade
      <4>2. (job.op \in CleaningOps /\ job.op # "bridge_import") => Undoable("user", users, mem.old.users)'
        BY <3>3 DEF Fine, Restorable, Undoable
      <4>3. job.op \in CleaningOps => Undoable("bridge", bridges, mem.old.bridges)'
        BY <3>1, <3>2, <3>3 DEF Fine, Restorable, Undoable
      <4>4. job.op \in CleaningOps => BrokeOff'
        BY <3>1, <3>3, <3>4 DEF Fine, Restorable, BrokeOff, OneMore
      <4> QED
        BY <3>3, <3>4, <4>1, <4>2, <4>3, <4>4 DEF Fine, Restorable
    <3>7. ForestMade'
      BY <3>4 DEF ForestMade, ForestPlaces
    <3> QED
      BY <3>5, <3>6, <3>7 DEF Fine
  <2> QED
    BY <1>2, <2>1, <2>2
<1> QED
  BY <1>1, <1>2 DEF PutBridge

(* wl bridge create, wl user import: one bridge.                               *)
LEMMA BridgeCreateIsFine == ASSUME Typed, Fine, BridgeCreate PROVE Fine'
<1>0. /\ pc \notin {"idle", "clean"} /\ job.user \in Users /\ UNCHANGED <<users, sec>>
  BY OpAt, Options DEF Typed, BridgeCreate, At, Users
<1>1. CASE Fails /\ UNCHANGED <<bridges, half, faults>>
  BY <1>0, <1>1, FailsIsQuiet, QuietIsFine DEF TornOnce
<1>2. ASSUME NEW at,
             PutBridge(BridgeOwner, job.user, at, IF at = "file" THEN Seen(job.user) ELSE None, "bridge_created")
      PROVE  Fine'
  BY <1>0, <1>2, PutBridgeIsFine DEF ForestPlaces
<1> QED
  BY <1>1, <1>2 DEF BridgeCreate

(* wl bridge import: several.                                                  *)
LEMMA BridgeCopyIsFine == ASSUME Typed, Fine, BridgeCopy PROVE Fine'
<1>0. pc \notin {"idle", "clean"} /\ UNCHANGED <<users, sec>> /\ mem.todo \subseteq Users
  BY DEF Typed, Memory, BridgeCopy, At, Users
<1>1. CASE Goto("refresh") /\ UNCHANGED <<bridges, half, mem, faults>>
  BY <1>0, <1>1, GoesQuietly, QuietIsFine DEF ForestPlaces
<1>2. ASSUME NEW u \in mem.todo, PutBridge(BridgeOwner, u, "url", None, "bridge_save")
      PROVE  Fine'
  BY <1>0, <1>2, PutBridgeIsFine DEF ForestPlaces
<1> QED
  BY <1>1, <1>2 DEF BridgeCopy

(* user_refresh writes at a new path, or over a manifest of the same user.       *)
LEMMA TargetIsSameUser ==
    ASSUME NEW b \in Bridges, BridgeFine(b), NEW u, job.op # "forest_mount", Free(Dir("user"), LocationName(b)),
           users[TargetFile(b, u)] # None
    PROVE  users[TargetFile(b, u)].owner = u
<1> DEFINE same == {f \in Files : users[f] # None /\ users[f].owner = u}
<1>1. TargetFile(b, u) = IF same = {} THEN NewPath(Dir("user"), LocationName(b)) ELSE First(same)
  BY DEF TargetFile, ImportedFile
<1>2. CASE same = {}
  <2>1. users[NewPath(Dir("user"), LocationName(b))] = None
    BY NameIsName, UserPathIsFree
  <2> QED
    BY <1>1, <1>2, <2>1
<1>3. CASE same # {}
  <2>1. TargetFile(b, u) = First(same)
    BY <1>1, <1>3
  <2> HIDE DEF same
  <2>2. First(same) \in same
    <3>1. same \subseteq Files
      BY DEF same
    <3> QED
      BY <1>3, <3>1, FirstAndLast
  <2> QED
    BY <2>1, <2>2 DEF same
<1> QED
  BY <1>2, <1>3

(* It does not write over a file that broke off.                               *)
LEMMA TargetIsWhole ==
    ASSUME NEW b \in Bridges, BridgeFine(b), NEW u, job.op # "forest_mount",
           Free(Dir("user"), LocationName(b))
    PROVE  users[TargetFile(b, u)] = None => half \ {<<"user", TargetFile(b, u)>>} = half
<1> DEFINE same == {f \in Files : users[f] # None /\ users[f].owner = u}
<1>1. TargetFile(b, u) = IF same = {} THEN NewPath(Dir("user"), LocationName(b)) ELSE First(same)
  BY DEF TargetFile, ImportedFile
<1>2. CASE same # {}
  BY <1>1, <1>2, FirstAndLast
<1>3. CASE same = {}
  <2>1. /\ Dir("user")[NewPath(Dir("user"), LocationName(b))] = None
        /\ NewPath(Dir("user"), LocationName(b)) \in Files
    BY NewPathIsFree, NameIsName
  <2> QED
    BY <1>1, <1>3, <2>1, ConstantsAssumption DEF Dir
<1> QED
  BY <1>2, <1>3

(* One location of user_refresh: what was loaded keeps its owner.            *)
LEMMA RefreshIsFine == ASSUME Typed, Fine, Refresh PROVE Fine'
<1> DEFINE rest == {x \in mem.todo : x[1] # NextLocation}
<1>0. /\ pc \notin {"idle", "clean"} /\ job.op \in {"bridge_import", "refresh", "forest_mount"}
      /\ MemoryOf(mem) /\ UNCHANGED <<bridges, sec>>
  BY RefreshCases
<1>4. bridges[NextLocation] \in Bridges /\ BridgeFine(bridges[NextLocation])
  BY NextIsThere DEF Refresh, At
<1>1. CASE /\ mem' = [mem EXCEPT !.todo = rest, !.failed = TRUE]
           /\ Goto("refresh_next") /\ UNCHANGED <<users, pub, half>>
  <2>1. \A x \in Rest : mem'[x] = mem[x]
    BY <1>0, <1>1 DEF MemoryOf, MemFields, Rest
  <2>2. Quiet
    BY <1>0, <1>1, <2>1 DEF Quiet, Goto, ForestPlaces
  <2> QED
    BY <2>2, QuietIsFine
<1>2. CASE Fails /\ users' = users /\ TornOnce
  BY <1>0, <1>2, FailsIsQuiet, QuietIsFine
<1>3. ASSUME NEW m \in Manifests, Free(Dir("user"), LocationName(bridges[NextLocation])),
             users' = [users EXCEPT ![TargetFile(bridges[NextLocation], m.owner)] = m],
             half' = IF users[TargetFile(bridges[NextLocation], m.owner)] = None
                     THEN half \ {<<"user", TargetFile(bridges[NextLocation], m.owner)>>} ELSE half,
             mem' = [AddPubkeys(KeysOf(m), m.owner) EXCEPT !.todo = rest, !.fetched = @ \cup {m}],
             Goto("refresh_next")
      PROVE  Fine'
  <2> DEFINE f == TargetFile(bridges[NextLocation], m.owner)
  <2>1. \A x \in Rest : mem'[x] = mem[x]
    BY <1>0, <1>3 DEF AddPubkeys, MemoryOf, MemFields, Rest
  <2>2. mem'.cache = mem.cache /\ mem'.made = mem.made /\ mem'.old = mem.old /\ mem'.user = mem.user
    BY <2>1 DEF Rest
  <2>3. pc' = "refresh_next" /\ job' = job
    BY <1>3 DEF Goto
  <2>4. users' = [users EXCEPT ![f] = m] /\ users \in [Files -> Manifests \cup {None}] /\ m # None
    BY <1>3, RequestsAssumption DEF Typed, Disk
  <2>5. job.op # "forest_mount" => (users[f] # None => users[f].owner = m.owner)
    BY <1>3, <1>4, TargetIsSameUser
  <2>9. job.op # "forest_mount" => half' = half
    BY <1>0, <1>3, <1>4, TargetIsWhole
  <2> HIDE DEF f
  <2>6. CacheRight'
    BY <1>0, <2>2, <2>3, <2>4, <2>5 DEF Fine, CacheRight
  <2>7. Restorable'
    <3>1. KeysMade' = KeysMade
      BY <2>2 DEF KeysMade
    <3>2. job.op \in CleaningOps => Undoable("bridge", bridges, mem.old.bridges)'
      BY <1>0, <2>2 DEF Fine, Restorable, Undoable
    <3>3. job.op \in CleaningOps => job.op = "bridge_import"
      BY <1>0 DEF CleaningOps
    <3>4. job.op \in CleaningOps => BrokeOff'
      BY <1>0, <2>2, <2>3, <2>9, <3>3 DEF Fine, Restorable, BrokeOff
    <3> QED
      BY <1>0, <2>2, <2>3, <3>1, <3>2, <3>3, <3>4 DEF Fine, Restorable
  <2>8. ForestMade'
    BY <2>3 DEF ForestMade, ForestPlaces
  <2> QED
    BY <2>6, <2>7, <2>8 DEF Fine
<1> QED
  BY <1>1, <1>2, <1>3, RefreshCases

(* wl forest create: the owner is one of the users that were loaded.             *)
LEMMA ForestContainerIsFine == ASSUME Typed, Fine, ForestContainer PROVE Fine'
<1>0. /\ pc = "forest" /\ job.op = "forest" /\ job.op \notin CleaningOps /\ MemoryOf(mem)
      /\ users' = users
  BY ForestContainerCases DEF CleaningOps
<1>1. CASE End("failed")
  BY <1>1, IdleIsFine DEF End
<1>2. ASSUME NEW u \in mem.priv, Seen(u) # None, Goto("forest_modify"),
             mem' = [mem EXCEPT !.user = u, !.name = users[Seen(u)].path]
      PROVE  Fine'
  <2>1. mem'.cache = mem.cache /\ mem'.user = u /\ pc' = "forest_modify" /\ job' = job
    BY <1>0, <1>2 DEF Goto, MemoryOf, MemFields
  <2>2. CacheRight'
    BY <1>0, <2>1 DEF Fine, CacheRight
  <2>3. Restorable'
    BY <1>0, <2>1 DEF Restorable
  <2>4. Seen(mem.user)' = Seen(u)
    BY <2>1 DEF Seen
  <2>5. ForestMade'
    BY <1>2, <2>1, <2>4 DEF ForestMade
  <2> QED
    BY <2>2, <2>3, <2>5 DEF Fine
<1> QED
  BY <1>1, <1>2, ForestContainerCases

(* A step of wl forest create that fails goes on to clean up.                    *)
LEMMA ForestFailureIsFine ==
    ASSUME Typed, Fine, pc \in ForestPlaces, job.op = "forest", MemoryOf(mem), Goto("forest_clean"),
           mem' = [mem EXCEPT !.failed = TRUE], users' = users
    PROVE  Fine'
<1>1. mem'.cache = mem.cache /\ mem'.user = mem.user /\ mem'.failed /\ pc' = "forest_clean" /\ job' = job
  BY DEF Goto, MemoryOf, MemFields
<1>2. CacheRight'
  BY <1>1 DEF Fine, CacheRight, ForestPlaces
<1>3. Restorable'
  BY <1>1 DEF Restorable, CleaningOps
<1>4. Seen(mem.user)' = Seen(mem.user)
  BY <1>1 DEF Seen
<1>5. ForestMade'
  BY <1>1, <1>4 DEF Fine, ForestMade, ForestPlaces
<1> QED
  BY <1>2, <1>3, <1>5 DEF Fine

(* The user's manifest says from now on where the catalog is.                *)
LEMMA ForestModifyIsFine == ASSUME Typed, Fine, ForestModify PROVE Fine'
<1> DEFINE f == Seen(mem.user)
           then == /\ users' = [users EXCEPT ![f].catalog = TRUE]
                   /\ pub' = pub \cup KeysOf(users[f])
                   /\ Goto("forest_copy") /\ UNCHANGED <<mem, store>>
<1>1. ForestStep("forest_modify", "write", then)
  BY DEF ForestModify
<1> HIDE DEF then
<1>2. /\ pc = "forest_modify" /\ job.op = "forest" /\ MemoryOf(mem) /\ mem.user \in Mine
      /\ \/ /\ Goto("forest_clean") /\ mem' = [mem EXCEPT !.failed = TRUE]
            /\ UNCHANGED <<users, pub, store>>
         \/ then
  BY <1>1, ForestSteps DEF ForestPlaces
<1>3. f \in Files /\ users[f] \in Manifests /\ f # None
  BY <1>2, SeenIsThere DEF Fine, ForestMade, ForestPlaces, Users
<1>4. CASE Goto("forest_clean") /\ mem' = [mem EXCEPT !.failed = TRUE] /\ UNCHANGED <<users, pub, store>>
  BY <1>2, <1>4, ForestFailureIsFine DEF ForestPlaces
<1>5. CASE then
  <2>1. /\ users' = [users EXCEPT ![f] = [users[f] EXCEPT !.catalog = TRUE]]
        /\ pc' = "forest_copy" /\ job' = job /\ mem' = mem
    BY <1>3, <1>5 DEF then, Goto, Typed, Disk
  <2>2. [users[f] EXCEPT !.catalog = TRUE] \in Manifests /\ [users[f] EXCEPT !.catalog = TRUE].catalog
        /\ [users[f] EXCEPT !.catalog = TRUE].owner = users[f].owner
    BY <1>3 DEF Manifests
  <2>3. users' \in [Files -> Manifests \cup {None}] /\ users \in [Files -> Manifests \cup {None}]
        /\ users'[f].catalog /\ users'[f].owner = users[f].owner /\ users'[f] # None
        /\ \A g \in Files \ {f} : users'[g] = users[g]
    BY <1>3, <2>1, <2>2, RequestsAssumption DEF Typed, Disk
  <2>4. Seen(mem.user)' = f
    BY <2>1 DEF Seen
  <2>5. CacheRight'
    BY <1>2, <2>1, <2>3 DEF Fine, CacheRight
  <2>6. Restorable'
    BY <1>2, <2>1 DEF Restorable, CleaningOps
  <2>7. ForestMade'
    BY <1>3, <2>1, <2>3, <2>4 DEF ForestMade, ForestPlaces
  <2> QED
    BY <2>5, <2>6, <2>7 DEF Fine
<1> QED
  BY <1>2, <1>4, <1>5

(* The catalog holds that manifest.                                          *)
LEMMA ForestCopyIsFine == ASSUME Typed, Fine, ForestCopy PROVE Fine'
<1> DEFINE f == Seen(mem.user)
           then == /\ store' = [store EXCEPT ![mem.user].copy = users[f]]
                   /\ Goto("forest_publish") /\ UNCHANGED <<mem, users, pub>>
<1>1. ForestStep("forest_copy", "remote", then)
  BY DEF ForestCopy
<1> HIDE DEF then
<1>2. /\ pc = "forest_copy" /\ job.op = "forest" /\ MemoryOf(mem) /\ mem.user \in Mine
      /\ \/ /\ Goto("forest_clean") /\ mem' = [mem EXCEPT !.failed = TRUE]
            /\ UNCHANGED <<users, pub, store>>
         \/ then
  BY <1>1, ForestSteps DEF ForestPlaces
<1>3. f # None /\ users[f].catalog
  BY <1>2 DEF Fine, ForestMade, ForestPlaces
<1>4. CASE Goto("forest_clean") /\ mem' = [mem EXCEPT !.failed = TRUE] /\ UNCHANGED <<users, pub, store>>
  BY <1>2, <1>4, ForestFailureIsFine DEF ForestPlaces
<1>5. CASE then
  <2>1. /\ store' = [store EXCEPT ![mem.user].copy = users[f]] /\ users' = users
        /\ pc' = "forest_publish" /\ job' = job /\ mem' = mem
    BY <1>5 DEF then, Goto
  <2>2. store'[mem.user].copy = users[f]
    BY <1>2, <2>1 DEF Typed, Disk, Users
  <2>3. Seen(mem.user)' = f
    BY <2>1 DEF Seen
  <2>4. CacheRight'
    BY <1>2, <2>1 DEF Fine, CacheRight
  <2>5. Restorable'
    BY <1>2, <2>1 DEF Restorable, CleaningOps
  <2>6. ForestMade'
    BY <1>3, <2>1, <2>2, <2>3 DEF ForestMade, ForestPlaces
  <2> QED
    BY <2>4, <2>5, <2>6 DEF Fine
<1> QED
  BY <1>2, <1>4, <1>5

(* The catalog's own container is published, or the command fails.           *)
LEMMA ForestPublishIsFine == ASSUME Typed, Fine, ForestPublish PROVE Fine'
<1> DEFINE f == Seen(mem.user)
           then == /\ mem' = [mem EXCEPT !.failed = ~ForestReloads]
                   /\ store' = IF ForestReloads THEN [store EXCEPT ![mem.user].published = TRUE] ELSE store
                   /\ Goto("forest_clean") /\ UNCHANGED <<users, pub>>
<1>1. ForestStep("forest_publish", "remote", then)
  BY DEF ForestPublish
<1> HIDE DEF then
<1>2. /\ pc = "forest_publish" /\ job.op = "forest" /\ MemoryOf(mem) /\ mem.user \in Mine
      /\ \/ /\ Goto("forest_clean") /\ mem' = [mem EXCEPT !.failed = TRUE]
            /\ UNCHANGED <<users, pub, store>>
         \/ then
  BY <1>1, ForestSteps DEF ForestPlaces
<1>3. f # None /\ users[f].catalog /\ store[mem.user].copy = users[f]
  BY <1>2 DEF Fine, ForestMade, ForestPlaces
<1>4. CASE Goto("forest_clean") /\ mem' = [mem EXCEPT !.failed = TRUE] /\ UNCHANGED <<users, pub, store>>
  BY <1>2, <1>4, ForestFailureIsFine DEF ForestPlaces
<1>5. CASE then /\ ~ForestReloads
  <2>1. mem' = [mem EXCEPT !.failed = TRUE] /\ Goto("forest_clean") /\ users' = users
    BY <1>5 DEF then
  <2> QED
    BY <1>2, <2>1, ForestFailureIsFine DEF ForestPlaces
<1>6. CASE then /\ ForestReloads
  <2>1. /\ store' = [store EXCEPT ![mem.user].published = TRUE] /\ users' = users
        /\ pc' = "forest_clean" /\ job' = job /\ mem' = [mem EXCEPT !.failed = FALSE]
    BY <1>6 DEF then, Goto
  <2>2. store'[mem.user].copy = users[f] /\ store'[mem.user].published
    BY <1>2, <1>3, <2>1 DEF Typed, Disk, Users
  <2>3. mem'.cache = mem.cache /\ mem'.user = mem.user
    BY <1>2, <2>1 DEF MemoryOf, MemFields
  <2>4. Seen(mem.user)' = f
    BY <2>3 DEF Seen
  <2>5. CacheRight'
    BY <1>2, <2>1, <2>3 DEF Fine, CacheRight
  <2>6. Restorable'
    BY <1>2, <2>1 DEF Restorable, CleaningOps
  <2>7. ForestMade'
    BY <1>3, <2>1, <2>2, <2>3, <2>4 DEF ForestMade, ForestPlaces
  <2> QED
    BY <2>5, <2>6, <2>7 DEF Fine
<1> QED
  BY <1>2, <1>4, <1>5, <1>6

(* What the cleaner removes is what the command made.                          *)
LEMMA CleanUpIsFine == ASSUME Typed, Fine, CleanUp PROVE Fine'
<1>0. pc = "clean" /\ pc # "idle" /\ job.op \in CleaningOps /\ MemoryOf(mem) /\ half' = half
  BY CleanUpCases
<1>1. CASE End("failed")
  BY <1>1, IdleIsFine DEF End
<1>2. ASSUME NEW x \in mem.made,
             users' = IF x[1] = "user" THEN [users EXCEPT ![x[2]] = None] ELSE users,
             bridges' = IF x[1] = "bridge" THEN [bridges EXCEPT ![x[2]] = None] ELSE bridges,
             sec' = IF x[1] = "key" THEN sec \ {x[2]} ELSE sec,
             mem' = [mem EXCEPT !.made = mem.made \ {x}], UNCHANGED <<job, pc>>
      PROVE  Fine'
  <2>1. mem'.made = mem.made \ {x} /\ mem'.old = mem.old /\ mem'.user = mem.user
    BY <1>0, <1>2 DEF MemoryOf, MemFields
  <2>2. CacheRight' /\ ForestMade'
    BY <1>0, <1>2 DEF CacheRight, ForestMade, ForestPlaces
  <2>3. x = <<x[1], x[2]>> /\ x[1] \in {"user", "bridge", "key"}
    BY <1>0 DEF MemoryOf
  <2>4. users \in [Files -> Manifests \cup {None}] /\ bridges \in [Files -> Bridges \cup {None}]
        /\ sec \subseteq Users
    BY DEF Typed, Disk, Users
  <2>5. ASSUME job.op # "bridge_import" PROVE Undoable("user", users, mem.old.users)'
    <3>1. Undoable("user", users, mem.old.users)
      BY <1>0, <2>5 DEF Fine, Restorable
    <3>2. SUFFICES ASSUME NEW f \in Files
                   PROVE  IF <<"user", f>> \in mem'.made THEN mem.old.users[f] = None
                          ELSE users'[f] = mem.old.users[f]
      BY <2>1 DEF Undoable
    <3>3. CASE <<"user", f>> = x
      <4>1. x[1] = "user" /\ x[2] = f
        BY <3>3
      <4> QED
        BY <1>2, <2>1, <2>4, <3>1, <3>3, <4>1 DEF Undoable
    <3>4. CASE <<"user", f>> # x
      <4>1. x[1] = "user" => x[2] # f
        BY <2>3, <3>4
      <4>2. users'[f] = users[f]
        BY <1>2, <2>4, <4>1
      <4> QED
        BY <2>1, <3>1, <3>4, <4>2 DEF Undoable
    <3> QED
      BY <3>3, <3>4
  <2>6. Undoable("bridge", bridges, mem.old.bridges)'
    <3>1. Undoable("bridge", bridges, mem.old.bridges)
      BY <1>0 DEF Fine, Restorable
    <3>2. SUFFICES ASSUME NEW f \in Files
                   PROVE  IF <<"bridge", f>> \in mem'.made THEN mem.old.bridges[f] = None
                          ELSE bridges'[f] = mem.old.bridges[f]
      BY <2>1 DEF Undoable
    <3>3. CASE <<"bridge", f>> = x
      <4>1. x[1] = "bridge" /\ x[2] = f
        BY <3>3
      <4> QED
        BY <1>2, <2>1, <2>4, <3>1, <3>3, <4>1 DEF Undoable
    <3>4. CASE <<"bridge", f>> # x
      <4>1. x[1] = "bridge" => x[2] # f
        BY <2>3, <3>4
      <4>2. bridges'[f] = bridges[f]
        BY <1>2, <2>4, <4>1
      <4> QED
        BY <2>1, <3>1, <3>4, <4>2 DEF Undoable
    <3> QED
      BY <3>3, <3>4
  <2>7. mem.old.sec \subseteq sec' /\ sec' \ mem.old.sec \subseteq KeysMade' /\ KeysMade' \cap mem.old.sec = {}
    <3>1. mem.old.sec \subseteq sec /\ sec \ mem.old.sec \subseteq KeysMade /\ KeysMade \cap mem.old.sec = {}
      BY <1>0 DEF Fine, Restorable
    <3>2. CASE x[1] = "key"
      <4>1. x = <<"key", x[2]>> /\ sec' = sec \ {x[2]}
        BY <1>2, <2>3, <3>2
      <4>2. KeysMade' = KeysMade \ {x[2]}
        BY <2>1, <4>1 DEF KeysMade
      <4>3. x[2] \in Users => x[2] \in KeysMade
        BY <1>2, <4>1 DEF KeysMade
      <4> QED
        BY <2>4, <3>1, <4>1, <4>2, <4>3
    <3>3. CASE x[1] # "key"
      <4>1. \A k \in Users : <<"key", k>> # x
        BY <3>3
      <4>2. KeysMade' = KeysMade /\ sec' = sec
        BY <1>2, <2>1, <3>3, <4>1 DEF KeysMade
      <4> QED
        BY <3>1, <4>2
    <3> QED
      BY <3>2, <3>3
  <2>9. BrokeOff'
    BY <1>0, <1>2, <2>1 DEF Fine, Restorable, BrokeOff, OneMore
  <2>8. Restorable'
    BY <1>0, <1>2, <2>1, <2>5, <2>6, <2>7, <2>9 DEF Fine, Restorable
  <2> QED
    BY <2>2, <2>8 DEF Fine
<1> QED
  BY <1>1, <1>2, CleanUpCases

(* A command begins with the files as they are.                               *)
LEMMA BeginIsFine == ASSUME Typed, NEW r \in Requests, Begin(r) PROVE Fine'
<1>1. /\ mem'.cache = LoadAll /\ mem'.made = {}
      /\ mem'.old = [users |-> users, bridges |-> bridges, sec |-> sec, half |-> half]
      /\ job' = r /\ pc' = r.op /\ UNCHANGED <<users, bridges, sec, half>>
  BY DEF Begin
<1>2. pc' \notin {"create_save", "clean"} /\ pc' \notin ForestPlaces
  <2>1. r \in AllRequests
    BY RequestsAssumption
  <2> QED
    BY <1>1, <2>1 DEF AllRequests, ForestPlaces
<1>3. CacheRight'
  <2>1. ASSUME NEW f \in Files, LoadAll[f] \in Users
        PROVE  users[f] # None /\ users[f].owner = LoadAll[f]
    BY <2>1, ConstantsAssumption DEF LoadAll, Loadable
  <2> QED
    BY <1>1, <2>1 DEF CacheRight
<1>4. Restorable'
  <2>1. KeysMade' = {}
    BY <1>1 DEF KeysMade
  <2>2. Undoable("user", users, mem.old.users)' /\ Undoable("bridge", bridges, mem.old.bridges)'
    BY <1>1 DEF Undoable
  <2>3. BrokeOff'
    BY <1>1, <1>2 DEF BrokeOff
  <2> QED
    BY <1>1, <1>2, <2>1, <2>2, <2>3 DEF Restorable, Typed, Disk
<1>5. ForestMade'
  BY <1>2 DEF ForestMade, ForestPlaces
<1> QED
  BY <1>3, <1>4, <1>5 DEF Fine

(* The catalogs of others are not the one that wl forest create fills.           *)
LEMMA RemoteChangesIsFine == ASSUME Typed, Fine, NEW u \in Theirs, RemoteChanges(u) PROVE Fine'
<1>1. UNCHANGED <<users, bridges, sec, half, job, pc, mem>>
  BY DEF RemoteChanges
<1>2. pc \in ForestPlaces => store'[mem.user] = store[mem.user]
  <2>1. store' = store \/ store' = [store EXCEPT ![u].copy = remote'[u]]
    BY DEF RemoteChanges
  <2>2. pc \in ForestPlaces => mem.user # u
    BY ConstantsAssumption DEF Typed, Memory, ForestPlaces
  <2> QED
    BY <2>1, <2>2 DEF Typed, Disk, Memory, Users, ForestPlaces
<1>3. CacheRight'
  BY <1>1 DEF Fine, CacheRight
<1>4. Restorable'
  <2>1. KeysMade' = KeysMade
    BY <1>1 DEF KeysMade
  <2>2. Undoable("user", users, mem.old.users)' = Undoable("user", users, mem.old.users)
    BY <1>1 DEF Undoable
  <2>3. Undoable("bridge", bridges, mem.old.bridges)' = Undoable("bridge", bridges, mem.old.bridges)
    BY <1>1 DEF Undoable
  <2>4. BrokeOff' = BrokeOff
    BY <1>1 DEF BrokeOff, OneMore
  <2> QED
    BY <1>1, <2>1, <2>2, <2>3, <2>4 DEF Fine, Restorable
<1>5. ForestMade'
  <2>1. Seen(mem.user)' = Seen(mem.user)
    BY <1>1 DEF Seen
  <2> QED
    BY <1>1, <1>2, <2>1 DEF Fine, ForestMade, ForestPlaces
<1> QED
  BY <1>3, <1>4, <1>5 DEF Fine

-----------------------------------------------------------------------------
(* The invariant of the files. *)

(* Nothing is there at first.                                                 *)
LEMMA FilesStart == Init => FilesInv
  BY TypedStarts DEF Init, FilesInv, CacheRight, Restorable, ForestMade, ForestPlaces

(* The steps of commands keep the invariant.                                 *)
LEMMA StepKeepsFiles == ASSUME FilesInv, Step PROVE FilesInv'
<1>1. Typed /\ Fine /\ CacheRight /\ ForestMade
  BY DEF FilesInv, Fine
<1>2. ASSUME Typed', Fine' PROVE FilesInv'
  BY <1>2 DEF FilesInv, Fine
<1>3. CASE CreateKey
  BY <1>1, <1>2, <1>3, CreateKeyTyped, CreateKeyIsFine
<1>4. CASE CreateSave
  BY <1>1, <1>2, <1>4, CreateSaveTyped, CreateSaveIsFine
<1>5. CASE CreateConf
  BY <1>1, <1>2, <1>5, CreateConfTyped, QuietSteps, QuietIsFine
<1>6. CASE DeleteUsages
  BY <1>1, <1>2, <1>6, DeleteUsagesTyped, QuietSteps, QuietIsFine
<1>7. CASE DeleteKeys
  BY <1>1, <1>2, <1>7, DeleteKeysTyped, DeleteKeysIsFine
<1>8. CASE DeleteConf
  BY <1>1, <1>2, <1>8, DeleteConfTyped, QuietSteps, QuietIsFine
<1>9. CASE DeleteFile
  <2>1. pc' = "idle"
    BY <1>9 DEF DeleteFile, End
  <2> QED
    BY <1>1, <1>2, <1>9, <2>1, DeleteFileTyped, IdleIsFine
<1>10. CASE ImportFetch
  BY <1>1, <1>2, <1>10, ImportFetchTyped, QuietSteps, QuietIsFine
<1>11. CASE ImportSave
  BY <1>1, <1>2, <1>11, ImportSaveTyped, ImportSaveIsFine
<1>12. CASE ImportKnown
  BY <1>1, <1>2, <1>12, ImportKnownTyped, QuietSteps, QuietIsFine
<1>13. CASE BridgeCreate
  BY <1>1, <1>2, <1>13, BridgeCreateTyped, BridgeCreateIsFine
<1>14. CASE Done("bridge_created")
  BY <1>1, <1>2, <1>14, DoneTyped, QuietSteps, QuietIsFine
<1>15. CASE BridgeImport
  BY <1>1, <1>2, <1>15, BridgeImportTyped, QuietSteps, QuietIsFine
<1>16. CASE BridgeRead
  BY <1>1, <1>2, <1>16, BridgeReadTyped, QuietSteps, QuietIsFine
<1>17. CASE BridgeCopy
  BY <1>1, <1>2, <1>17, BridgeCopyTyped, BridgeCopyIsFine
<1>18. CASE BridgeDelete
  <2>1. pc' = "idle"
    BY <1>18 DEF BridgeDelete, End
  <2> QED
    BY <1>1, <1>2, <1>18, <2>1, BridgeDeleteTyped, IdleIsFine
<1>19. CASE StartRefresh
  BY <1>1, <1>2, <1>19, StartRefreshTyped, QuietSteps, QuietIsFine
<1>20. CASE Refresh
  BY <1>1, <1>2, <1>20, RefreshTyped, RefreshIsFine
<1>21. CASE EndRefresh
  BY <1>1, <1>2, <1>21, EndRefreshTyped, QuietSteps, QuietIsFine
<1>22. CASE Modify
  <2>1. pc' = "idle"
    BY <1>1, <1>22, ModifyCases DEF End
  <2> QED
    BY <1>1, <1>2, <1>22, <2>1, ModifyTyped, IdleIsFine
<1>23. CASE CreateContainer
  BY <1>1, <1>2, <1>23, CreateContainerTyped, QuietSteps, QuietIsFine
<1>24. CASE ImportKey
  <2>1. pc' = "idle"
    BY <1>24 DEF ImportKey, End
  <2> QED
    BY <1>1, <1>2, <1>24, <2>1, ImportKeyTyped, IdleIsFine
<1>25. CASE ForestMount
  BY <1>1, <1>2, <1>25, ForestMountTyped, QuietSteps, QuietIsFine
<1>26. CASE ForestContainer
  BY <1>1, <1>2, <1>26, ForestContainerTyped, ForestContainerIsFine
<1>27. CASE ForestModify
  BY <1>1, <1>2, <1>27, ForestModifyTyped, ForestModifyIsFine
<1>28. CASE ForestCopy
  BY <1>1, <1>2, <1>28, ForestCopyTyped, ForestCopyIsFine
<1>29. CASE ForestPublish
  BY <1>1, <1>2, <1>29, ForestPublishTyped, ForestPublishIsFine
<1>30. CASE ForestClean
  BY <1>1, <1>2, <1>30, ForestCleanTyped, QuietSteps, QuietIsFine
<1>31. CASE CleanUp
  BY <1>1, <1>2, <1>31, CleanUpTyped, CleanUpIsFine
<1> QED
  BY <1>3, <1>4, <1>5, <1>6, <1>7, <1>8, <1>9, <1>10, <1>11, <1>12, <1>13, <1>14, <1>15, <1>16,
     <1>17, <1>18, <1>19, <1>20, <1>21, <1>22, <1>23, <1>24, <1>25, <1>26, <1>27, <1>28, <1>29,
     <1>30, <1>31 DEF Step

(* So does every step.                                                       *)
LEMMA NextKeepsFiles == ASSUME FilesInv, [Next]_vars PROVE FilesInv'
<1>1. Typed /\ Fine
  BY DEF FilesInv, Fine
<1>2. ASSUME Typed', Fine' PROVE FilesInv'
  BY <1>2 DEF FilesInv, Fine
<1>3. ASSUME NEW r \in Requests, Begin(r) PROVE FilesInv'
  BY <1>1, <1>2, <1>3, BeginTyped, BeginIsFine
<1>4. CASE Step
  BY <1>4, StepKeepsFiles
<1>5. CASE Crash
  <2>1. pc' = "idle"
    BY <1>5 DEF Crash, End
  <2> QED
    BY <1>1, <1>2, <1>5, <2>1, CrashTyped, IdleIsFine
<1>6. ASSUME NEW u \in Theirs, RemoteChanges(u) PROVE FilesInv'
  BY <1>1, <1>2, <1>6, RemoteChangesTyped, RemoteChangesIsFine
<1>7. CASE UNCHANGED vars
  <2>1. Typed'
    BY <1>1, <1>7 DEF vars, Typed, Disk, BridgeFine, Places, Memory
  <2>2. KeysMade' = KeysMade
    BY <1>7 DEF vars, KeysMade
  <2>3. /\ Undoable("user", users, mem.old.users)' = Undoable("user", users, mem.old.users)
        /\ Undoable("bridge", bridges, mem.old.bridges)' = Undoable("bridge", bridges, mem.old.bridges)
    BY <1>7 DEF vars, Undoable
  <2>4. Seen(mem.user)' = Seen(mem.user)
    BY <1>7 DEF vars, Seen
  <2>5. CacheRight'
    BY <1>1, <1>7 DEF vars, Fine, CacheRight
  <2>8. BrokeOff' = BrokeOff
    BY <1>7 DEF vars, BrokeOff, OneMore
  <2>6. Restorable'
    BY <1>1, <1>7, <2>2, <2>3, <2>8 DEF vars, Fine, Restorable
  <2>7. ForestMade'
    BY <1>1, <1>7, <2>4 DEF vars, Fine, ForestMade, ForestPlaces
  <2> QED
    BY <1>2, <2>1, <2>5, <2>6, <2>7 DEF Fine
<1> QED
  BY <1>3, <1>4, <1>5, <1>6, <1>7 DEF Next

(* The invariant of the files holds for ever.                                 *)
THEOREM FilesAlways == Spec => []FilesInv
  BY FilesStart, NextKeepsFiles, PTL DEF Spec

(* What the directories, the configuration and a command's memory hold is of     *)
(* its type, whatever the commands were.                                      *)
THEOREM TypeCorrect == Spec => []TypeOK
<1>1. FilesInv => TypeOK
  BY TypedIsTypeOK DEF FilesInv
<1> QED
  BY <1>1, FilesAlways, PTL

-----------------------------------------------------------------------------
(* A command that fails. *)

(* Only the cleaner ends a command that cleans up as failed.                    *)
LEMMA OnlyCleanerFails ==
    ASSUME Typed, Step, ~CleanUp, job.op \in CleaningOps
    PROVE  outcome' # "failed"
<1>0. outcome = "none"
  <2>1. pc # "idle"
    BY DEF Step, CreateKey, CreateSave, CreateConf, SaveConf, Done, DeleteUsages, DeleteKeys, DeleteConf,
           DeleteFile, ImportFetch, ImportSave, ImportKnown, BridgeCreate, BridgeImport, BridgeRead,
           BridgeCopy, BridgeDelete, StartRefresh, Refresh, EndRefresh, Modify, CreateContainer,
           ImportKey, ForestMount, ForestContainer, ForestModify, ForestCopy, ForestPublish, ForestStep,
           ForestClean, At
  <2> QED
    BY <2>1 DEF Typed, Places
<1>1. Fails => outcome' = "none"
  BY <1>0 DEF Fails, Goto
<1>2. \A p : Goto(p) => outcome' = "none"
  BY <1>0 DEF Goto
<1>3. End("ok") => outcome' # "failed"
  BY DEF End
<1>4. CASE CreateKey
  BY <1>1, <1>2, <1>4 DEF CreateKey
<1>5. CASE CreateSave
  <2>1. Fails \/ Goto("create_default")
    BY <1>5 DEF CreateSave
  <2> QED
    BY <1>1, <1>2, <2>1
<1>6. CASE CreateConf
  BY <1>2, <1>3, <1>6 DEF CreateConf, SaveConf, Done
<1>7. CASE DeleteConf
  BY <1>2, <1>7 DEF DeleteConf, SaveConf
<1>8. CASE ImportFetch
  <2>1. Fails \/ Goto("import_save")
    BY <1>8 DEF ImportFetch
  <2> QED
    BY <1>1, <1>2, <2>1
<1>9. CASE ImportSave
  <2>1. Fails \/ Goto("import_bridge")
    BY <1>9 DEF ImportSave
  <2> QED
    BY <1>1, <1>2, <2>1
<1>10. CASE ImportKnown
  <2>1. Fails \/ Goto("import_bridge") \/ End("ok")
    BY <1>10 DEF ImportKnown
  <2> QED
    BY <1>1, <1>2, <1>3, <2>1
<1>11. ASSUME NEW o, NEW u, NEW at, NEW file, NEW then, PutBridge(o, u, at, file, then)
       PROVE  outcome' = "none"
  <2>1. Fails \/ Goto(then)
    BY <1>11 DEF PutBridge
  <2> QED
    BY <1>1, <1>2, <2>1
<1>12. CASE BridgeCreate
  BY <1>1, <1>11, <1>12 DEF BridgeCreate
<1>13. CASE BridgeCopy
  BY <1>2, <1>11, <1>13 DEF BridgeCopy
<1>14. CASE BridgeImport
  <2>1. Fails \/ Goto("bridge_read")
    BY <1>14 DEF BridgeImport
  <2> QED
    BY <1>1, <1>2, <2>1
<1>15. CASE BridgeRead
  <2>1. Fails \/ Goto("bridge_save")
    BY <1>15 DEF BridgeRead
  <2> QED
    BY <1>1, <1>2, <2>1
<1>16. CASE Refresh
  <2>1. Fails \/ Goto("refresh_next")
    BY <1>16, RefreshCases
  <2> QED
    BY <1>1, <1>2, <2>1
<1>17. CASE EndRefresh
  <2>1. Fails \/ End("ok")
    BY <1>17 DEF EndRefresh
  <2> QED
    BY <1>1, <1>3, <2>1
<1>18. CASE StartRefresh
  BY <1>2, <1>18 DEF StartRefresh
<1>19. CASE Done("bridge_created")
  BY <1>3, <1>19 DEF Done
<1>20. CASE \/ DeleteUsages \/ DeleteKeys \/ DeleteFile \/ BridgeDelete \/ Modify \/ CreateContainer
            \/ ImportKey \/ ForestMount \/ ForestContainer \/ ForestModify \/ ForestCopy
            \/ ForestPublish \/ ForestClean
  <2>1. pc \in {"delete", "delete_keys", "delete_file", "bridge_delete", "modify", "container", "import_key",
                "forest_mount", "forest"} \cup ForestPlaces
    BY <1>20 DEF DeleteUsages, DeleteKeys, DeleteFile, BridgeDelete, Modify, CreateContainer, ImportKey,
                 ForestMount, ForestContainer, ForestModify, ForestCopy, ForestPublish, ForestStep,
                 ForestClean, At, ForestPlaces
  <2> QED
    BY <2>1, OpAt DEF Typed, CleaningOps
<1> QED
  BY <1>4, <1>5, <1>6, <1>7, <1>8, <1>9, <1>10, <1>12, <1>13, <1>14, <1>15, <1>16, <1>17, <1>18,
     <1>19, <1>20 DEF Step

(* When the cleaner has done its work, the files are those of the beginning, but   *)
(* for one that broke off.                                                    *)
LEMMA CleanedIsAsBefore ==
    ASSUME FilesInv, pc # "idle", job.op \in CleaningOps, mem.made = {}
    PROVE  /\ bridges = mem.old.bridges /\ sec = mem.old.sec
           /\ job.op # "bridge_import" => users = mem.old.users
           /\ pc = "clean" => OneMore(mem.old.half)
<1>1. /\ mem.old.users \in [Files -> Manifests \cup {None}] /\ users \in [Files -> Manifests \cup {None}]
      /\ mem.old.bridges \in [Files -> Bridges \cup {None}] /\ bridges \in [Files -> Bridges \cup {None}]
  BY DEF FilesInv, Restorable, Typed, Disk
<1>2. \A f \in Files : bridges[f] = mem.old.bridges[f]
  BY DEF FilesInv, Restorable, Undoable
<1>3. job.op # "bridge_import" => \A f \in Files : users[f] = mem.old.users[f]
  BY DEF FilesInv, Restorable, Undoable
<1>4. sec = mem.old.sec
  BY DEF FilesInv, Restorable, KeysMade
<1>5. pc = "clean" => OneMore(mem.old.half)
  BY DEF FilesInv, Restorable, BrokeOff
<1> QED
  BY <1>1, <1>2, <1>3, <1>4, <1>5

(* A create or an import that fails leaves no manifest that loads and no whole   *)
(* private key behind, and a failed import of a bridge no bridge; besides what *)
(* was there, at most the one file is left whose own write broke off, which    *)
(* the cleaner was not told of (cleaner.clean_up, sig.py:405-407).            *)
THEOREM CleanerRestores == Spec => FailedLeavesNothing
<1> DEFINE A == (job # None /\ job.op \in CleaningOps /\ outcome' = "failed") =>
                   /\ bridges' = mem.old.bridges
                   /\ sec' = mem.old.sec
                   /\ job.op # "bridge_import" => users' = mem.old.users
                   /\ half' = mem.old.half \/ \E x \in Torn : half' = mem.old.half \cup {x}
<1>1. ASSUME FilesInv, Next PROVE A
  <2> SUFFICES ASSUME job # None, job.op \in CleaningOps, outcome' = "failed"
               PROVE  /\ bridges' = mem.old.bridges
                      /\ sec' = mem.old.sec
                      /\ job.op # "bridge_import" => users' = mem.old.users
                      /\ half' = mem.old.half \/ \E x \in Torn : half' = mem.old.half \cup {x}
    OBVIOUS
  <2>1. Typed /\ pc # "idle" /\ outcome = "none"
    BY <1>1 DEF FilesInv, Typed, Places
  <2>2. CASE CleanUp
    <3>1. mem.made = {} /\ UNCHANGED <<users, bridges, sec>>
      BY <2>1, <2>2, CleanUpCases
    <3>2. UNCHANGED half /\ pc = "clean"
      BY <2>2 DEF CleanUp, At, world
    <3> QED
      BY <1>1, <2>1, <3>1, <3>2, CleanedIsAsBefore DEF OneMore
  <2>3. CASE Step /\ ~CleanUp
    BY <2>1, <2>3, OnlyCleanerFails
  <2>4. CASE Crash \/ \E r \in Requests : Begin(r)
    BY <2>4 DEF Crash, End, Begin
  <2>5. CASE \E u \in Theirs : RemoteChanges(u)
    BY <2>1, <2>5 DEF RemoteChanges
  <2> QED
    BY <1>1, <2>2, <2>3, <2>4, <2>5 DEF Next
<1>2. FilesInv /\ [Next]_vars => [A]_vars
  BY <1>1
<1>3. Spec => [][A]_vars
  BY <1>2, FilesAlways, PTL DEF Spec
<1> QED
  BY <1>3 DEF FailedLeavesNothing

-----------------------------------------------------------------------------
(* Forests. *)

(* Only the last step of wl forest create ends well.                           *)
LEMMA ForestEndsClean ==
    ASSUME Typed, Step, ~ForestClean, job.op = "forest"
    PROVE  outcome' # "ok"
<1>1. pc \in {"forest"} \cup ForestPlaces
  <2>1. pc # "idle"
    BY DEF Step, CreateKey, CreateSave, CreateConf, SaveConf, Done, DeleteUsages, DeleteKeys, DeleteConf,
           DeleteFile, ImportFetch, ImportSave, ImportKnown, BridgeCreate, BridgeImport, BridgeRead,
           BridgeCopy, BridgeDelete, StartRefresh, Refresh, EndRefresh, Modify, CreateContainer,
           ImportKey, ForestMount, ForestContainer, ForestModify, ForestCopy, ForestPublish, ForestStep,
           ForestClean, CleanUp, At
  <2> QED
    BY <2>1 DEF Typed, Places, PlacesOf
<1>2. outcome = "none"
  BY <1>1 DEF Typed, Places, ForestPlaces
<1>3. \A p : Goto(p) => outcome' = "none"
  BY <1>2 DEF Goto
<1>4. ForestContainer \/ ForestModify \/ ForestCopy \/ ForestPublish
  BY <1>1 DEF Step, CreateKey, CreateSave, CreateConf, SaveConf, Done, DeleteUsages, DeleteKeys, DeleteConf,
           DeleteFile, ImportFetch, ImportSave, ImportKnown, BridgeCreate, BridgeImport, BridgeRead,
           BridgeCopy, BridgeDelete, StartRefresh, Refresh, EndRefresh, Modify, CreateContainer,
           ImportKey, ForestMount, CleanUp, At, ForestPlaces
<1>5. CASE ForestContainer
  <2>1. End("failed") \/ Goto("forest_modify")
    BY <1>5, ForestContainerCases
  <2> QED
    BY <1>3, <2>1 DEF End
<1>6. CASE ForestModify
  <2>1. Goto("forest_clean") \/ Goto("forest_copy")
    BY <1>6 DEF ForestModify, ForestStep
  <2> QED
    BY <1>3, <2>1
<1>7. CASE ForestCopy
  <2>1. Goto("forest_clean") \/ Goto("forest_publish")
    BY <1>7 DEF ForestCopy, ForestStep
  <2> QED
    BY <1>3, <2>1
<1>8. CASE ForestPublish
  <2>1. Goto("forest_clean")
    BY <1>8 DEF ForestPublish, ForestStep
  <2> QED
    BY <1>3, <2>1
<1> QED
  BY <1>4, <1>5, <1>6, <1>7, <1>8

(* A forest that was created is complete: the manifest of its owner says where   *)
(* the catalog is, and the catalog holds this very manifest and its own        *)
(* container (_bootstrap_forest).                                             *)
THEOREM ForestsAreComplete == Spec => ForestComplete
<1> DEFINE A == (job # None /\ job.op = "forest" /\ outcome' = "ok") =>
                   LET m == users[Seen(mem.user)]
                   IN  m.catalog /\ store[mem.user] = [copy |-> m, published |-> TRUE]
<1>1. ASSUME FilesInv, Next PROVE A
  <2> DEFINE m == users[Seen(mem.user)]
  <2> SUFFICES ASSUME job # None, job.op = "forest", outcome' = "ok"
               PROVE  m.catalog /\ store[mem.user] = [copy |-> m, published |-> TRUE]
    OBVIOUS
  <2>1. Typed /\ ForestMade /\ pc # "idle" /\ outcome = "none"
    BY <1>1 DEF FilesInv, Typed, Places
  <2>2. CASE ForestClean
    <3>1. pc = "forest_clean" /\ ~mem.failed
      BY <2>2 DEF ForestClean, End, At
    <3>2. m.catalog /\ store[mem.user].copy = m /\ store[mem.user].published
      BY <2>1, <3>1 DEF ForestMade
    <3>3. store[mem.user] \in [copy : Manifests \cup {None}, published : BOOLEAN]
      BY <2>1, <3>1 DEF Typed, Disk, Memory, ForestPlaces, Users
    <3> HIDE DEF m
    <3>4. store[mem.user].published = TRUE
      BY <3>2, <3>3
    <3> QED
      BY <3>2, <3>3, <3>4
  <2>3. CASE Step /\ ~ForestClean
    BY <2>1, <2>3, ForestEndsClean
  <2>4. CASE Crash \/ \E r \in Requests : Begin(r)
    BY <2>4 DEF Crash, End, Begin
  <2>5. CASE \E u \in Theirs : RemoteChanges(u)
    BY <2>1, <2>5 DEF RemoteChanges
  <2> QED
    BY <1>1, <2>2, <2>3, <2>4, <2>5 DEF Next
<1>2. FilesInv /\ [Next]_vars => [A]_vars
  BY <1>1
<1>3. Spec => [][A]_vars
  BY <1>2, FilesAlways, PTL DEF Spec
<1> QED
  BY <1>3 DEF ForestComplete

-----------------------------------------------------------------------------
(* Manifests of users stay. *)

(* A step leaves a user manifest to its owner, deletes it for wl user delete, or  *)
(* takes back what the command had made.                                      *)
OwnersKept ==
    \A f \in Files : users[f] # None =>
        \/ users'[f] # None /\ users'[f].owner = users[f].owner
        \/ users'[f] = None /\ job.op = "delete" /\ job.user = users[f].owner
        \/ users'[f] = None /\ pc = "clean" /\ <<"user", f>> \in mem.made

(* Nothing happens to users when no user manifest is written.                *)
LEMMA NothingWritten == ASSUME users' = users PROVE OwnersKept
  BY DEF OwnersKept

(* A new version by the same owner, or a file that was free.                    *)
LEMMA SameOwnerWrites ==
    ASSUME Disk, NEW f, NEW m \in Manifests, users' = [users EXCEPT ![f] = m],
           users[f] # None => users[f].owner = m.owner
    PROVE  \A g \in Files : users[g] # None => users'[g] # None /\ users'[g].owner = users[g].owner
  BY RequestsAssumption DEF Disk

(* wl user create writes to a new path (save_new_object).                    *)
LEMMA CreateSaveOwners == ASSUME Typed, CreateSave PROVE OwnersKept
<1> DEFINE m == [owner |-> mem.user, extra |-> job.extra, path |-> job.path, catalog |-> FALSE, version |-> 0]
           f == NewPath(Dir("user"), job.name)
<1>0. mem.user \in Users /\ job.extra \subseteq Users /\ job.path \in Names /\ job.name \in Names
  BY OpAt, Options DEF Typed, Memory, CreateSave, At
<1>1. \/ users' = users
      \/ Free(Dir("user"), job.name) /\ PutUser(f, m, TRUE)
  BY DEF CreateSave
<1>2. m \in Manifests
  BY <1>0, ConstantsAssumption DEF Manifests
<1> HIDE DEF m
<1>3. CASE Free(Dir("user"), job.name) /\ PutUser(f, m, TRUE)
  <2>1. users' = [users EXCEPT ![f] = m] /\ users[f] = None
    BY <1>0, <1>3, UserPathIsFree DEF PutUser
  <2> HIDE DEF f
  <2> QED
    BY <1>2, <2>1, SameOwnerWrites DEF OwnersKept, Typed
<1> QED
  BY <1>1, <1>3, NothingWritten

(* So does wl user import (_do_import).                                      *)
LEMMA ImportSaveOwners == ASSUME Typed, ImportSave PROVE OwnersKept
<1> DEFINE f == NewPath(Dir("user"), NameOf[job.user])
<1>9. MemoryOf(mem)
  BY DEF Typed, Memory, ImportSave, At
<1>0. NameOf[job.user] \in Names
  BY OpAt, Options, ConstantsAssumption DEF Typed, ImportSave, At, Users
<1>1. PICK m \in {x \in mem.fetched : x.owner = job.user} :
         \/ users' = users
         \/ Free(Dir("user"), NameOf[job.user]) /\ PutUser(f, m, TRUE)
  BY DEF ImportSave
<1>2. m \in Manifests
  BY <1>9, <1>1 DEF MemoryOf
<1>3. CASE Free(Dir("user"), NameOf[job.user]) /\ PutUser(f, m, TRUE)
  <2>1. users' = [users EXCEPT ![f] = m] /\ users[f] = None
    BY <1>0, <1>3, UserPathIsFree DEF PutUser
  <2> HIDE DEF f
  <2> QED
    BY <1>2, <2>1, SameOwnerWrites DEF OwnersKept, Typed
<1> QED
  BY <1>1, <1>3, NothingWritten

(* The file that is deleted is one of the user's.                              *)
LEMMA DeleteFileOwners == ASSUME Typed, CacheRight, DeleteFile PROVE OwnersKept /\ job.op = "delete"
<1>0. pc = "delete_file" /\ job.op = "delete" /\ job.user \in Users
  BY OpAt, Options DEF Typed, DeleteFile, At
<1>1. users' = users \/ users' = [users EXCEPT ![Seen(job.user)] = None]
  BY DEF DeleteFile
<1>2. CASE users' = [users EXCEPT ![Seen(job.user)] = None]
  <2>1. CASE Seen(job.user) = None
    <3>1. \A g \in Files : users'[g] = users[g]
      BY <1>2, <2>1, ConstantsAssumption DEF Typed, Disk
    <3> QED
      BY <1>0, <3>1 DEF OwnersKept
  <2>2. CASE Seen(job.user) # None
    <3>1. users[Seen(job.user)].owner = job.user
      BY <1>0, <2>2, SeenIsThere
    <3> QED
      BY <1>0, <1>2, <3>1 DEF OwnersKept, Typed, Disk
  <2> QED
    BY <2>1, <2>2
<1> QED
  BY <1>0, <1>1, <1>2, NothingWritten

(* user_refresh writes over the same user's manifest.                        *)
LEMMA RefreshOwners ==
    ASSUME Typed, Refresh, job.op # "forest_mount"
    PROVE  \A g \in Files : users[g] # None => users'[g] # None /\ users'[g].owner = users[g].owner
<1>1. CASE users' = users
  BY <1>1
<1>0. bridges[NextLocation] \in Bridges /\ BridgeFine(bridges[NextLocation])
  BY NextIsThere DEF Refresh, At
<1>2. ASSUME NEW m \in Manifests, Free(Dir("user"), LocationName(bridges[NextLocation])),
             users' = [users EXCEPT ![TargetFile(bridges[NextLocation], m.owner)] = m]
      PROVE  \A g \in Files : users[g] # None => users'[g] # None /\ users'[g].owner = users[g].owner
  <2> DEFINE f == TargetFile(bridges[NextLocation], m.owner)
  <2>1. users[f] # None => users[f].owner = m.owner
    BY <1>0, <1>2, TargetIsSameUser
  <2>2. users' = [users EXCEPT ![f] = m]
    BY <1>2
  <2> HIDE DEF f
  <2> QED
    BY <2>1, <2>2, SameOwnerWrites DEF Typed
<1> QED
  BY <1>1, <1>2, RefreshCases

(* wl user modify writes over the manifest it has loaded.                    *)
LEMMA ModifyOwners ==
    ASSUME Typed, CacheRight, Modify
    PROVE  \A g \in Files : users[g] # None => users'[g] # None /\ users'[g].owner = users[g].owner
<1>1. ASSUME NEW f \in Files, NEW m \in Manifests, users[f] # None, users[f].owner = m.owner,
             users' = [users EXCEPT ![f] = m]
      PROVE  \A g \in Files : users[g] # None => users'[g] # None /\ users'[g].owner = users[g].owner
  BY <1>1, SameOwnerWrites DEF Typed
<1>2. CASE users' = users
  BY <1>2
<1> QED
  BY <1>1, <1>2, ModifyCases

(* So does wl forest create.                                                 *)
LEMMA ForestModifyOwners ==
    ASSUME Typed, CacheRight, ForestMade, ForestModify
    PROVE  \A g \in Files : users[g] # None => users'[g] # None /\ users'[g].owner = users[g].owner
<1> DEFINE f == Seen(mem.user)
<1>1. pc = "forest_modify" /\ job.op = "forest" /\ mem.user \in Users
  BY OpAt DEF Typed, Memory, ForestModify, ForestStep, At, ForestPlaces, Users
<1>2. f \in Files /\ users[f] \in Manifests
  BY <1>1, SeenIsThere DEF ForestMade, ForestPlaces
<1>3. users' = users \/ users' = [users EXCEPT ![f].catalog = TRUE]
  BY DEF ForestModify, ForestStep
<1> HIDE DEF f
<1>4. CASE users' = [users EXCEPT ![f].catalog = TRUE]
  <2> DEFINE m == [users[f] EXCEPT !.catalog = TRUE]
  <2>1. m \in Manifests /\ m.owner = users[f].owner
    BY <1>2 DEF Manifests
  <2>2. users' = [users EXCEPT ![f] = m]
    BY <1>4
  <2> HIDE DEF m
  <2> QED
    BY <2>1, <2>2, SameOwnerWrites DEF Typed
<1> QED
  BY <1>3, <1>4

(* Cleaner.clean_up deletes what it was told of.                             *)
LEMMA CleanUpOwners == ASSUME Typed, CleanUp PROVE OwnersKept
<1>0. pc = "clean" /\ MemoryOf(mem)
  BY CleanUpCases
<1>1. CASE users' = users
  BY <1>1, NothingWritten
<1>2. ASSUME NEW x \in mem.made, users' = IF x[1] = "user" THEN [users EXCEPT ![x[2]] = None] ELSE users
      PROVE  OwnersKept
  <2>1. CASE x[1] # "user"
    BY <1>2, <2>1, NothingWritten
  <2>2. CASE x[1] = "user"
    <3>1. <<"user", x[2]>> \in mem.made
      BY <1>0, <1>2, <2>2 DEF MemoryOf
    <3>2. users' = [users EXCEPT ![x[2]] = None]
      BY <1>2, <2>2
    <3> QED
      BY <1>0, <3>1, <3>2 DEF OwnersKept, Typed, Disk
  <2> QED
    BY <2>1, <2>2
<1> QED
  BY <1>1, <1>2, CleanUpCases

(* Every step but those of wl forest mount.                                    *)
LEMMA NextKeepsOwners == ASSUME FilesInv, Next, job # None => job.op # "forest_mount" PROVE OwnersKept
<1>1. Typed /\ CacheRight /\ ForestMade
  BY DEF FilesInv
<1>2. ASSUME \A g \in Files : users[g] # None => users'[g] # None /\ users'[g].owner = users[g].owner
      PROVE  OwnersKept
  BY <1>2 DEF OwnersKept
<1>3. CASE CreateSave
  BY <1>1, <1>3, CreateSaveOwners
<1>4. CASE ImportSave
  BY <1>1, <1>4, ImportSaveOwners
<1>5. CASE DeleteFile
  BY <1>1, <1>5, DeleteFileOwners
<1>6. CASE Refresh
  <2>1. job.op # "forest_mount"
    BY <1>1, <1>6, RefreshCases, RequestsAssumption DEF Typed, Places
  <2> QED
    BY <1>1, <1>2, <1>6, <2>1, RefreshOwners
<1>7. CASE Modify
  BY <1>1, <1>2, <1>7, ModifyOwners
<1>8. CASE ForestModify
  BY <1>1, <1>2, <1>8, ForestModifyOwners
<1>9. CASE CleanUp
  BY <1>1, <1>9, CleanUpOwners
<1>10. CASE \/ CreateConf \/ DeleteUsages \/ DeleteConf \/ ImportFetch \/ ImportKnown
            \/ Done("bridge_created") \/ BridgeImport \/ BridgeRead \/ StartRefresh \/ EndRefresh
            \/ CreateContainer \/ ForestMount \/ ForestClean
  <2>1. Quiet
    BY <1>1, <1>10, QuietSteps
  <2> QED
    BY <2>1, NothingWritten DEF Quiet
<1>11. CASE CreateKey \/ DeleteKeys \/ BridgeCreate \/ BridgeCopy \/ BridgeDelete \/ ImportKey \/ ForestContainer
  BY <1>11, NothingWritten DEF CreateKey, DeleteKeys, BridgeCreate, BridgeCopy, BridgeDelete, ImportKey,
                              ForestContainer
<1>12. CASE ForestCopy \/ ForestPublish
  BY <1>12, NothingWritten DEF ForestCopy, ForestPublish, ForestStep
<1>13. CASE Crash \/ (\E r \in Requests : Begin(r)) \/ (\E u \in Theirs : RemoteChanges(u))
  BY <1>13, NothingWritten DEF Crash, disk, Begin, RemoteChanges
<1> QED
  BY <1>3, <1>4, <1>5, <1>6, <1>7, <1>8, <1>9, <1>10, <1>11, <1>12, <1>13 DEF Next, Step

(* Only wl forest mount, which looks for the user among the manifests that were  *)
(* loaded when it began and does not number names (_do_import_manifest), may    *)
(* write over the manifest of another user.                                   *)
THEOREM OnlyMountOverwrites == Spec => [][(job # None => job.op # "forest_mount") => OwnersKept]_vars
<1> DEFINE A == (job # None => job.op # "forest_mount") => OwnersKept
<1>1. FilesInv /\ [Next]_vars => [A]_vars
  BY NextKeepsOwners
<1> QED
  BY <1>1, FilesAlways, PTL DEF Spec

(* A user manifest disappears only when its owner is deleted or the command     *)
(* that made it cleans up, and a file never comes to hold another user, when    *)
(* nobody uses wl forest mount.                                               *)
THEOREM UsersAreKept == ASSUME \A r \in Requests : r.op # "forest_mount" PROVE Spec => UsersStay
<1> DEFINE A == \A f \in Files : users[f] # None =>
                  \/ users'[f] # None /\ users'[f].owner = users[f].owner
                  \/ users'[f] = None /\ job.op = "delete" /\ job.user = users[f].owner
                  \/ users'[f] = None /\ pc = "clean" /\ <<"user", f>> \in mem.made
<1>1. ASSUME FilesInv, Next PROVE A
  <2>1. job # None => job \in Requests
    BY <1>1 DEF FilesInv, Typed, Places
  <2>2. OwnersKept
    BY <1>1, <2>1, NextKeepsOwners
  <2> QED
    BY <2>2 DEF OwnersKept
<1>2. FilesInv /\ [Next]_vars => [A]_vars
  BY <1>1
<1>3. Spec => [][A]_vars
  BY <1>2, FilesAlways, PTL DEF Spec
<1> QED
  BY <1>3 DEF UsersStay

-----------------------------------------------------------------------------
(* The configuration. *)

(* What a step adds to what the cleaner knows of was not there.                 *)
Modest ==
    \/ pc' = "idle"
    \/ /\ job' = job
       /\ \A g \in Files : <<"user", g>> \in mem'.made => <<"user", g>> \in mem.made \/ users[g] = None

(* A command that fails makes nothing.                                       *)
LEMMA FailsModestly == ASSUME Fails PROVE Modest
  BY DEF Fails, End, Goto, Modest

(* Neither does a step that writes no manifests.                             *)
LEMMA QuietIsModest == ASSUME Quiet PROVE Modest
  BY DEF Quiet, Modest, Rest

(* The configuration names nobody at first.                                  *)
LEMMA ConfStarts == Init => ConfInv
  BY DEF Init, ConfInv, Configured, NoConf, Forgotten, Created

(* A step that takes no manifest away from a user, except those that the cleaner *)
(* knows of, leaves those whom the configuration names.                       *)
Kept ==
    \A f \in Files :
        (users[f] # None /\ (pc \notin Created \cup {"idle"} => <<"user", f>> \notin mem.made)) =>
            /\ users'[f] # None /\ users'[f].owner = users[f].owner
            /\ pc' \notin Created \cup {"idle"} => <<"user", f>> \notin mem'.made

(* Whom the configuration names is kept by such a step.                      *)
LEMMA KeptConf ==
    ASSUME ConfInv, Kept, conf' = conf, pc' \notin Created \cup {"delete_owner", "delete_locals", "delete_file"}
    PROVE  ConfInv'
<1>1. Configured' = Configured
  BY DEF Configured
<1>2. ASSUME NEW u \in Configured PROVE Lasting(u)'
  <2>1. Lasting(u)
    BY DEF ConfInv
  <2> QED
    BY <2>1 DEF Lasting, Kept
<1> QED
  BY <1>1, <1>2 DEF ConfInv, Forgotten

(* Commands other than wl user create and wl user delete.                      *)
LEMMA OthersConf ==
    ASSUME ConfInv, Places', conf' = conf, pc # "idle", pc \notin Created, job.op \notin {"create", "delete"},
           \A g \in Files : users[g] # None => users'[g] # None /\ users'[g].owner = users[g].owner, Modest
    PROVE  ConfInv'
<1>1. Kept
  BY DEF Kept, Modest
<1>2. pc' \notin Created \cup {"delete_owner", "delete_locals", "delete_file"}
  <2>1. CASE pc' = "idle"
    BY <2>1 DEF Created
  <2>2. CASE pc' # "idle"
    <3>1. job' = job /\ pc' \in PlacesOf(job.op) /\ job \in Requests
      BY <2>2 DEF Modest, Places
    <3>2. job.op \in {"import", "bridge_import", "bridge_create", "bridge_delete", "refresh",
                      "forest_mount", "modify", "import_key", "forest", "container"}
      BY <3>1, Options
    <3> QED
      BY <3>1, <3>2 DEF PlacesOf, Created, ForestPlaces
  <2> QED
    BY <2>1, <2>2
<1> QED
  BY <1>1, <1>2, KeptConf

(* wl user create: the key.                                                   *)
LEMMA CreateKeyConf == ASSUME Typed, ConfInv, CreateKey PROVE ConfInv'
<1>0. pc = "create" /\ job.op = "create" /\ MemoryOf(mem) /\ users' = users /\ conf' = conf
  BY OpAt DEF Typed, Memory, CreateKey, At, Created
<1>1. pc' \in {"clean", "create_save"}
  BY <1>0 DEF CreateKey, Goto, Fails, CleaningOps
<1>2. \A g : <<"user", g>> \in mem'.made => <<"user", g>> \in mem.made
  <2>1. CASE mem' = [mem EXCEPT !.user = job.user]
    BY <1>0, <2>1 DEF MemoryOf, MemFields
  <2>2. CASE Fails
    BY <1>0, <2>2 DEF Fails, CleaningOps
  <2>3. ASSUME NEW k, NEW wrote, PutKey(k, wrote)
        PROVE  \A g : <<"user", g>> \in mem'.made => <<"user", g>> \in mem.made
    <3>1. \E told : mem'.made = mem.made \cup {<<"key", x>> : x \in told}
      BY <1>0, <2>3 DEF PutKey, MemoryOf, MemFields
    <3> QED
      BY <3>1
  <2> QED
    BY <2>1, <2>2, <2>3 DEF CreateKey
<1>3. Kept
  BY <1>0, <1>1, <1>2 DEF Kept, Created
<1> QED
  BY <1>0, <1>1, <1>3, KeptConf DEF Created

(* The manifest is there before the configuration names the user.               *)
LEMMA CreateSaveConf == ASSUME Typed, ConfInv, CreateSave PROVE ConfInv'
<1> DEFINE m == [owner |-> mem.user, extra |-> job.extra, path |-> job.path, catalog |-> FALSE, version |-> 0]
           f == NewPath(Dir("user"), job.name)
<1>0. /\ pc = "create_save" /\ job.op = "create" /\ conf' = conf /\ mem.user \in Users /\ job.extra \subseteq Users
      /\ job.name \in Names /\ job.path \in Names /\ MemoryOf(mem)
  BY OpAt, Options DEF Typed, Memory, CreateSave, At
<1>1. \/ Fails /\ users' = users
      \/ Free(Dir("user"), job.name) /\ PutUser(f, m, TRUE) /\ Goto("create_default")
  BY DEF CreateSave
<1>2. CASE Fails /\ users' = users
  <2>1. pc' = "clean" /\ mem' = mem
    BY <1>0, <1>2 DEF Fails, Goto, CleaningOps
  <2>2. Kept
    BY <1>0, <1>2, <2>1 DEF Kept, Created
  <2> QED
    BY <1>0, <2>1, <2>2, KeptConf DEF Created
<1>3. CASE Free(Dir("user"), job.name) /\ PutUser(f, m, TRUE) /\ Goto("create_default")
  <2>1. m \in Manifests /\ m.owner = mem.user
    BY <1>0, ConstantsAssumption DEF Manifests
  <2>2. f \in Files /\ users[f] = None
    BY <1>0, <1>3, UserPathIsFree
  <2>3. users' = [users EXCEPT ![f] = m]
    BY <1>3 DEF PutUser
  <2>4. mem'.user = mem.user /\ pc' = "create_default"
    BY <1>0, <1>3 DEF PutUser, MemoryOf, MemFields, Goto
  <2> HIDE DEF f, m
  <2>5. HasManifest(mem.user)'
    BY <2>1, <2>2, <2>3, <2>4, RequestsAssumption DEF HasManifest, Typed, Disk
  <2>6. \A g \in Files : users[g] # None => users'[g] = users[g]
    BY <2>2, <2>3 DEF Typed, Disk
  <2>7. Configured' = Configured
    BY <1>0 DEF Configured
  <2>8. ASSUME NEW u \in Configured PROVE Lasting(u)'
    <3>1. Lasting(u)
      BY DEF ConfInv
    <3> QED
      BY <2>4, <2>6, <3>1 DEF Lasting, Created
  <2> QED
    BY <2>4, <2>5, <2>7, <2>8 DEF ConfInv, Forgotten
<1> QED
  BY <1>1, <1>2, <1>3

(* The configuration is given the new user.                                    *)
LEMMA CreateConfConf == ASSUME Typed, ConfInv, CreateConf PROVE ConfInv'
<1>0. pc \in Created /\ users' = users
  BY DEF CreateConf, At, Created, SaveConf, Done, disk
<1>1. CASE Done("created")
  <2>1. pc' = "idle" /\ conf' = conf
    BY <1>1 DEF Done, End, disk
  <2>2. Kept
    BY <1>0, <2>1 DEF Kept
  <2> QED
    BY <2>1, <2>2, KeptConf DEF Created
<1>2. ASSUME NEW c \in ConfType, NEW then \in Created, SaveConf(c, then),
             {c.default, c.owner} \cup c.locals \subseteq Configured \cup {mem.user, None}
      PROVE  ConfInv'
  <2>1. /\ conf' = conf \/ conf' = c
        /\ pc' = then /\ mem' = mem
    BY <1>2 DEF SaveConf, Goto
  <2>2. Configured' \subseteq Configured \cup {mem.user}
    BY <1>2, <2>1 DEF Configured
  <2>3. HasManifest(mem.user) /\ HasManifest(mem.user)'
    BY <1>0, <2>1 DEF ConfInv, HasManifest
  <2>4. ASSUME NEW u \in Configured' PROVE Lasting(u)'
    <3>1. HasManifest(u)
      BY <2>2, <2>3 DEF ConfInv, Lasting, HasManifest
    <3> QED
      BY <1>0, <1>2, <2>1, <3>1 DEF Lasting, HasManifest
  <2> QED
    BY <1>2, <2>1, <2>3, <2>4 DEF ConfInv, Forgotten, Created
<1>3. CASE ~Done("created")
  <2>1. job.op = "create" /\ mem.user \in Users
    BY <1>0, OpAt DEF Typed, Memory, Created
  <2>2. conf \in ConfType /\ {conf.default, conf.owner} \cup conf.locals \subseteq Configured \cup {None}
    BY DEF Typed, Disk, ConfType, Configured
  <2>3. PICK c \in {conf, DefaultUser(mem.user), DefaultOwner(mem.user),
                    LocalOwners(conf.locals \cup {mem.user})}, then \in Created : SaveConf(c, then)
    BY <1>3 DEF CreateConf, Created
  <2>4. c \in ConfType /\ {c.default, c.owner} \cup c.locals \subseteq Configured \cup {mem.user, None}
    BY <2>1, <2>2, <2>3 DEF ConfType, DefaultUser, DefaultOwner, LocalOwners
  <2> QED
    BY <1>2, <2>3, <2>4
<1> QED
  BY <1>1, <1>3

(* wl user delete: what names the user there is forgotten, one value at a time.  *)
LEMMA DeleteConfConf == ASSUME Typed, ConfInv, DeleteConf, "config" \notin Faults PROVE ConfInv'
<1> DEFINE u == job.user
<1>0. /\ pc \in {"delete_default", "delete_owner", "delete_locals"} /\ job.op = "delete" /\ u \in Users
      /\ users' = users /\ conf \in ConfType
  BY OpAt, Options DEF Typed, DeleteConf, At, SaveConf, Disk, ConfType
<1>1. ASSUME NEW c, NEW then, SaveConf(c, then)
      PROVE  conf' = c /\ pc' = then /\ mem' = mem /\ job' = job
  <2>1. Faulty("config") = {FALSE}
    BY DEF Faulty
  <2>2. conf' = c
    BY <1>1, <2>1 DEF SaveConf
  <2> QED
    BY <1>1, <2>2 DEF SaveConf, Goto
<1>2. ASSUME conf' \in ConfType, Configured' \subseteq Configured, mem' = mem,
             pc' \in {"delete_owner", "delete_locals", "delete_file"}, Forgotten'
      PROVE  ConfInv'
  <2>1. ASSUME NEW v \in Configured' PROVE Lasting(v)'
    <3>1. Lasting(v)
      BY <1>2, <2>1 DEF ConfInv
    <3> QED
      BY <1>0, <1>2, <3>1 DEF Lasting, Created
  <2> QED
    BY <1>2, <2>1 DEF ConfInv, Created
<1>3. u # None
  BY <1>0, ConstantsAssumption
<1>4. CASE pc = "delete_default"
  <2> DEFINE c == IF conf.default = u THEN DefaultUser(None) ELSE conf
  <2>1. SaveConf(c, "delete_owner")
    BY <1>4 DEF DeleteConf, At
  <2>2. conf' = c /\ pc' = "delete_owner" /\ mem' = mem /\ job' = job
    BY <1>1, <2>1
  <2>3. conf' \in ConfType /\ conf'.default # u /\ conf'.default \in {conf.default, None}
        /\ conf'.owner = conf.owner /\ conf'.locals = conf.locals
    BY <1>0, <1>3, <2>2 DEF DefaultUser, ConfType
  <2> QED
    BY <1>2, <2>2, <2>3 DEF Configured, Forgotten
<1>5. CASE pc = "delete_owner"
  <2> DEFINE c == IF conf.owner = u THEN DefaultOwner(None) ELSE conf
  <2>1. SaveConf(c, "delete_locals")
    BY <1>5 DEF DeleteConf, At
  <2>2. conf' = c /\ pc' = "delete_locals" /\ mem' = mem /\ job' = job
    BY <1>1, <2>1
  <2>3. conf' \in ConfType /\ conf'.owner # u /\ conf'.owner \in {conf.owner, None}
        /\ conf'.default = conf.default /\ conf'.locals = conf.locals
    BY <1>0, <1>3, <2>2 DEF DefaultOwner, ConfType
  <2>4. conf.default # u
    BY <1>5 DEF ConfInv, Forgotten
  <2> QED
    BY <1>2, <2>2, <2>3, <2>4 DEF Configured, Forgotten
<1>6. CASE pc = "delete_locals"
  <2>1. SaveConf(LocalOwners(conf.locals \ {u}), "delete_file")
    BY <1>6 DEF DeleteConf, At
  <2>2. conf' = LocalOwners(conf.locals \ {u}) /\ pc' = "delete_file" /\ mem' = mem /\ job' = job
    BY <1>1, <2>1
  <2>3. conf' \in ConfType /\ conf'.owner = conf.owner /\ conf'.default = conf.default
        /\ conf'.locals = conf.locals \ {u}
    BY <1>0, <2>2 DEF LocalOwners, ConfType
  <2>4. conf.default # u /\ conf.owner # u
    BY <1>6 DEF ConfInv, Forgotten
  <2> QED
    BY <1>2, <2>2, <2>3, <2>4 DEF Configured, Forgotten
<1> QED
  BY <1>0, <1>4, <1>5, <1>6

(* The manifest goes when nothing names its owner.                              *)
LEMMA DeleteFileConf == ASSUME Typed, CacheRight, ConfInv, DeleteFile PROVE ConfInv'
<1>0. /\ pc = "delete_file" /\ pc' = "idle" /\ conf' = conf
      /\ job.user \notin Configured
  BY DEF DeleteFile, End, At, ConfInv, Forgotten, Configured
<1>1. OwnersKept
  BY DeleteFileOwners
<1>2. Configured' = Configured
  BY <1>0 DEF Configured
<1>3. ASSUME NEW u \in Configured PROVE Lasting(u)'
  <2>1. PICK f \in Files : users[f] # None /\ users[f].owner = u
    BY DEF ConfInv, Lasting
  <2>2. job.user # u
    BY <1>0
  <2>3. users'[f] # None /\ users'[f].owner = u
    BY <1>0, <1>1, <2>1, <2>2 DEF OwnersKept
  <2> QED
    BY <1>0, <2>3 DEF Lasting
<1> QED
  BY <1>0, <1>2, <1>3 DEF ConfInv, Forgotten, Created

(* The first steps of wl user delete.                                          *)
LEMMA DeleteStartsConf ==
    ASSUME Typed, ConfInv, DeleteUsages \/ DeleteKeys
    PROVE  ConfInv'
<1>0. pc \in {"delete", "delete_keys"} /\ job.op = "delete" /\ users' = users /\ conf' = conf
  BY OpAt DEF Typed, DeleteUsages, DeleteKeys, At
<1>1. pc' = "idle" \/ (pc' \in {"delete", "delete_keys", "delete_default"} /\ mem' = mem)
  BY <1>0 DEF DeleteUsages, DeleteKeys, Fails, Goto, End, CleaningOps
<1>2. Kept
  BY <1>0, <1>1 DEF Kept, Created
<1> QED
  BY <1>1, <1>2, <1>0, KeptConf DEF Created

(* A bridge that is written is no user manifest.                               *)
LEMMA PutBridgeIsModest ==
    ASSUME MemoryOf(mem), NEW o, NEW u, NEW at, NEW file, NEW then, PutBridge(o, u, at, file, then)
    PROVE  Modest
<1>1. CASE Fails
  BY <1>1, FailsModestly
<1>2. ASSUME NEW b, mem' = [mem EXCEPT !.made = @ \cup {<<"bridge", b>>}, !.todo = @ \ {u}], Goto(then)
      PROVE  Modest
  <2>1. mem'.made = mem.made \cup {<<"bridge", b>>}
    BY <1>2 DEF MemoryOf, MemFields
  <2> QED
    BY <1>2, <2>1 DEF Modest, Goto
<1> QED
  BY <1>1, <1>2 DEF PutBridge

(* The steps of the other commands.                                            *)
LEMMA OtherSteps ==
    ASSUME FilesInv, ConfInv, Places', Step, ~CleanUp, job.op \notin {"create", "delete", "forest_mount"}
    PROVE  ConfInv'
<1>0. /\ Typed /\ CacheRight /\ ForestMade /\ Fine /\ OwnersKept
  BY NextKeepsOwners DEF FilesInv, Fine, Next
<1>1. ASSUME pc \notin Created \cup {"idle", "clean"}, conf' = conf, Modest
      PROVE  ConfInv'
  <2>1. \A g \in Files : users[g] # None => users'[g] # None /\ users'[g].owner = users[g].owner
    BY <1>0, <1>1 DEF OwnersKept
  <2> QED
    BY <1>1, <2>1, OthersConf
<1>2. pc # "idle" => MemoryOf(mem)
  BY <1>0 DEF Typed, Memory
<1>3. ASSUME pc \in {"create", "create_save", "delete", "delete_keys", "delete_default", "delete_owner",
                     "delete_locals", "delete_file"} \cup Created
      PROVE  FALSE
  BY <1>0, <1>3, OpAt DEF Typed
<1>4. CASE CreateKey \/ CreateSave \/ CreateConf \/ DeleteUsages \/ DeleteKeys \/ DeleteConf \/ DeleteFile
  BY <1>3, <1>4 DEF CreateKey, CreateSave, CreateConf, DeleteUsages, DeleteKeys, DeleteConf, DeleteFile,
                    Done, At, Created
<1>5. CASE \/ ImportFetch \/ ImportKnown \/ Done("bridge_created") \/ BridgeImport \/ BridgeRead
           \/ StartRefresh \/ EndRefresh \/ CreateContainer \/ ForestMount \/ ForestClean
  <2>1. Modest
    BY <1>0, <1>5, QuietSteps, QuietIsModest
  <2>2. pc \notin Created \cup {"idle", "clean"} /\ conf' = conf
    BY <1>5 DEF ImportFetch, ImportKnown, Done, BridgeImport, BridgeRead, StartRefresh, EndRefresh,
                CreateContainer, ForestMount, ForestClean, At, Created, disk
  <2> QED
    BY <1>1, <2>1, <2>2
<1>6. CASE ImportSave
  <2>1. pc \notin Created \cup {"idle", "clean"} /\ conf' = conf
    BY <1>6 DEF ImportSave, At, Created
  <2>2. ASSUME NEW m, Free(Dir("user"), NameOf[job.user]), PutUser(NewPath(Dir("user"), NameOf[job.user]), m, TRUE),
               Goto("import_bridge")
        PROVE  Modest
    <3>1. mem'.made = mem.made \cup {<<"user", NewPath(Dir("user"), NameOf[job.user])>>}
      BY <1>2, <2>1, <2>2 DEF PutUser, MemoryOf, MemFields
    <3>2. users[NewPath(Dir("user"), NameOf[job.user])] = None
      <4>1. NameOf[job.user] \in Names
        BY <1>0, <1>6, OpAt, Options, ConstantsAssumption DEF Typed, ImportSave, At, Users
      <4> QED
        BY <2>2, <4>1, UserPathIsFree
    <3> QED
      BY <2>2, <3>1, <3>2 DEF Modest, Goto
  <2>3. Modest
    BY <1>6, <2>2, FailsModestly DEF ImportSave
  <2> QED
    BY <1>1, <2>1, <2>3
<1>7. CASE BridgeCreate \/ BridgeCopy
  <2>1. pc \notin Created \cup {"idle", "clean"} /\ conf' = conf
    BY <1>7 DEF BridgeCreate, BridgeCopy, At, Created
  <2>2. \A o, u, at, file, then : PutBridge(o, u, at, file, then) => Modest
    BY <1>2, <2>1, PutBridgeIsModest
  <2>3. (Goto("refresh") /\ UNCHANGED mem) => Modest
    BY DEF Modest, Goto
  <2>4. Modest
    BY <1>7, <2>2, <2>3, FailsModestly DEF BridgeCreate, BridgeCopy
  <2> QED
    BY <1>1, <2>1, <2>4
<1>8. CASE BridgeDelete \/ Modify \/ ImportKey
  <2>1. pc \notin Created \cup {"idle", "clean"} /\ conf' = conf
    BY <1>8 DEF BridgeDelete, Modify, ImportKey, At, Created
  <2>2. pc' = "idle"
    BY <1>0, <1>8, ModifyCases DEF BridgeDelete, ImportKey, End
  <2> QED
    BY <1>1, <2>1, <2>2 DEF Modest
<1>9. CASE Refresh
  <2>1. pc \notin Created \cup {"idle", "clean"} /\ conf' = conf
    BY <1>0, <1>9, RefreshCases DEF Created
  <2>2. ASSUME mem'.made = mem.made, Goto("refresh_next") PROVE Modest
    BY <2>2 DEF Modest, Goto
  <2>3. ASSUME NEW ks, NEW o, NEW t, NEW m,
               mem' = [AddPubkeys(ks, o) EXCEPT !.todo = t, !.fetched = @ \cup {m}]
        PROVE  mem'.made = mem.made
    BY <1>2, <2>1, <2>3 DEF AddPubkeys, MemoryOf, MemFields
  <2>4. ASSUME NEW t, mem' = [mem EXCEPT !.todo = t, !.failed = TRUE]
        PROVE  mem'.made = mem.made
    BY <1>2, <2>1, <2>4 DEF MemoryOf, MemFields
  <2>5. Modest
    <3>1. CASE Fails
      BY <3>1, FailsModestly
    <3>2. CASE /\ mem' = [mem EXCEPT !.todo = {x \in mem.todo : x[1] # NextLocation}, !.failed = TRUE]
               /\ Goto("refresh_next")
      BY <2>2, <2>4, <3>2
    <3>3. ASSUME NEW m \in Manifests,
                 mem' = [AddPubkeys(KeysOf(m), m.owner)
                           EXCEPT !.todo = {x \in mem.todo : x[1] # NextLocation}, !.fetched = @ \cup {m}],
                 Goto("refresh_next")
          PROVE  Modest
      <4>1. mem'.made = mem.made
        BY <2>3, <3>3
      <4> QED
        BY <2>2, <3>3, <4>1
    <3> QED
      BY <1>0, <1>9, <3>1, <3>2, <3>3, RefreshCases
  <2> QED
    BY <1>1, <2>1, <2>5
<1>10. CASE ForestContainer
  <2>1. pc \notin Created \cup {"idle", "clean"} /\ conf' = conf
    BY <1>0, <1>10, ForestContainerCases DEF Created
  <2>2. ASSUME NEW u, NEW n, mem' = [mem EXCEPT !.user = u, !.name = n], Goto("forest_modify") PROVE Modest
    <3>1. mem'.made = mem.made
      BY <1>2, <2>1, <2>2 DEF MemoryOf, MemFields
    <3> QED
      BY <2>2, <3>1 DEF Modest, Goto
  <2>3. End("failed") => Modest
    BY DEF End, Modest
  <2>4. Modest
    BY <1>0, <1>10, <2>2, <2>3, ForestContainerCases
  <2> QED
    BY <1>1, <2>1, <2>4
<1>11. CASE ForestModify \/ ForestCopy \/ ForestPublish
  <2>1. pc \notin Created \cup {"idle", "clean"} /\ conf' = conf
    BY <1>11 DEF ForestModify, ForestCopy, ForestPublish, ForestStep, At, Created
  <2>2. job' = job
    BY <1>11 DEF ForestModify, ForestCopy, ForestPublish, ForestStep, Goto
  <2>3. mem' = mem \/ \E b : mem' = [mem EXCEPT !.failed = b]
    BY <1>11 DEF ForestModify, ForestCopy, ForestPublish, ForestStep
  <2>4. mem'.made = mem.made
    BY <1>2, <2>1, <2>3 DEF MemoryOf, MemFields
  <2> QED
    BY <1>1, <2>1, <2>2, <2>4 DEF Modest
<1> QED
  BY <1>4, <1>5, <1>6, <1>7, <1>8, <1>9, <1>10, <1>11 DEF Step

(* The cleaner takes back what only this command knows of.                      *)
LEMMA CleanUpConf == ASSUME Typed, ConfInv, CleanUp PROVE ConfInv'
<1>0. pc = "clean" /\ MemoryOf(mem) /\ conf' = conf /\ OwnersKept
  BY CleanUpCases, CleanUpOwners
<1>1. pc' = "idle" \/ (pc' = "clean" /\ mem'.made \subseteq mem.made)
  <2>1. ASSUME NEW x, mem' = [mem EXCEPT !.made = mem.made \ {x}]
        PROVE  mem'.made \subseteq mem.made
    BY <1>0, <2>1 DEF MemoryOf, MemFields
  <2> QED
    BY <1>0, <2>1, CleanUpCases DEF End
<1>2. job.op # "delete"
  BY <1>0, OpAt DEF Typed, CleaningOps
<1>3. Kept
  BY <1>0, <1>1, <1>2 DEF Kept, OwnersKept, Created
<1> QED
  BY <1>0, <1>1, <1>3, KeptConf DEF Created

(* Every step keeps those whom the configuration names, when it can be written. *)
LEMMA NextKeepsConf ==
    ASSUME FilesInv, FilesInv', ConfInv, [Next]_vars, "config" \notin Faults,
           \A r \in Requests : r.op # "forest_mount"
    PROVE  ConfInv'
<1>0. Typed /\ CacheRight /\ Places' /\ (pc # "idle" => job \in Requests)
  BY DEF FilesInv, Typed, Places
<1>1. CASE Step
  <2>1. CASE CreateKey
    BY <1>0, <2>1, CreateKeyConf
  <2>2. CASE CreateSave
    BY <1>0, <2>2, CreateSaveConf
  <2>3. CASE CreateConf
    BY <1>0, <2>3, CreateConfConf
  <2>4. CASE DeleteUsages \/ DeleteKeys
    BY <1>0, <2>4, DeleteStartsConf
  <2>5. CASE DeleteConf
    BY <1>0, <2>5, DeleteConfConf
  <2>6. CASE DeleteFile
    BY <1>0, <2>6, DeleteFileConf
  <2>7. CASE CleanUp
    BY <1>0, <2>7, CleanUpConf
  <2>8. CASE ~(CreateKey \/ CreateSave \/ CreateConf \/ DeleteUsages \/ DeleteKeys \/ DeleteConf \/ DeleteFile
               \/ CleanUp)
    <3>1. pc \notin {"idle", "create", "create_save", "delete", "delete_keys", "delete_default", "delete_owner",
                     "delete_locals", "delete_file", "clean"} \cup Created
      BY <1>1, <2>8 DEF Step, ImportFetch, ImportSave, ImportKnown, BridgeCreate, Done, BridgeImport,
           BridgeRead, BridgeCopy, BridgeDelete, StartRefresh, Refresh, EndRefresh, Modify, CreateContainer,
           ImportKey, ForestMount, ForestContainer, ForestModify, ForestCopy, ForestPublish, ForestStep,
           ForestClean, At, Created
    <3>2. job.op \notin {"create", "delete", "forest_mount"}
      BY <1>0, <3>1 DEF Typed, Places, PlacesOf
    <3> QED
      BY <1>0, <1>1, <2>8, <3>2, OtherSteps
  <2> QED
    BY <2>1, <2>2, <2>3, <2>4, <2>5, <2>6, <2>7, <2>8
<1>2. ASSUME NEW r \in Requests, Begin(r) PROVE ConfInv'
  <2>1. pc = "idle" /\ mem'.made = {} /\ users' = users /\ conf' = conf /\ pc' = r.op
    BY <1>2 DEF Begin
  <2>2. pc' \notin Created \cup {"delete_owner", "delete_locals", "delete_file"}
    <3>1. r \in AllRequests
      BY RequestsAssumption
    <3> QED
      BY <2>1, <3>1 DEF AllRequests, Created
  <2>3. Kept
    BY <2>1 DEF Kept
  <2> QED
    BY <2>1, <2>2, <2>3, KeptConf
<1>3. CASE Crash
  <2>1. pc' = "idle" /\ users' = users /\ conf' = conf
    BY <1>3 DEF Crash, End, disk
  <2>2. Kept
    BY <2>1 DEF Kept
  <2> QED
    BY <2>1, <2>2, KeptConf DEF Created
<1>4. CASE UNCHANGED vars \/ \E u \in Theirs : RemoteChanges(u)
  <2>1. UNCHANGED <<users, conf, job, pc, mem>>
    BY <1>4 DEF vars, RemoteChanges
  <2>2. Configured' = Configured
    BY <2>1 DEF Configured
  <2>3. ASSUME NEW u \in Configured PROVE Lasting(u)'
    BY <2>1 DEF ConfInv, Lasting
  <2> QED
    BY <2>1, <2>2, <2>3 DEF ConfInv, HasManifest, Forgotten
<1> QED
  BY <1>1, <1>2, <1>3, <1>4 DEF Next

(* Whom @default, @default-owner and local-owners name has a manifest in the    *)
(* user directory, whatever commands failed or were killed half-way, as long   *)
(* as the configuration file can be written (its errors are results that       *)
(* nobody looks at) and nobody uses wl forest mount.                          *)
THEOREM ConfigIsTrue ==
    ASSUME "config" \notin Faults, \A r \in Requests : r.op # "forest_mount"
    PROVE  Spec => []ConfigDenotesUsers
<1>1. FilesInv /\ FilesInv' /\ ConfInv /\ [Next]_vars => ConfInv'
  BY NextKeepsConf
<1>2. ConfInv => ConfigDenotesUsers
  BY DEF ConfInv, ConfigDenotesUsers, Configured, Lasting, HasManifest
<1> QED
  BY <1>1, <1>2, ConfStarts, FilesAlways, PTL DEF Spec
=============================================================================
