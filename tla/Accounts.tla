------------------------------ MODULE Accounts ------------------------------
(***************************************************************************)
(* Users, keys, bridges and forests on one machine: the commands of        *)
(* `wl user`, `wl bridge` and `wl forest` (wildland/cli, wildland/core),   *)
(* the directories of manifests and keys they leave behind, the defaults   *)
(* in the configuration file, and other people who publish new versions of *)
(* their own manifests meanwhile.                                          *)
(*                                                                         *)
(* Every command is a process of its own: it loads what the directories    *)
(* hold (Begin), goes on with what it remembers, mem, and writes one file  *)
(* per step.  Between two steps it may crash; a step may fail, and a write *)
(* that fails may leave a file that is there but is not whole.  A user is  *)
(* known by the fingerprint of the primary key, so a user is a key.        *)
(***************************************************************************)
EXTENDS Naturals, Sequences, FiniteSets

CONSTANTS
    Mine,         \* keys that may be generated here
    Theirs,       \* users who live elsewhere
    NameSeq,      \* names of manifest files, in the order of glob()
    NameOf,       \* the name under which a user's manifest is served
    ForestName,   \* "forest-owner", its name in the user's catalog
    Requests,     \* the commands
    Served,       \* what the others serve at first: Theirs -> Manifests
    MaxCommands,  \* bound: commands during a behaviour
    MaxVersion,   \* bound: versions others publish
    MaxFaults,    \* bound: failures and crashes
    Faults,       \* subset of {"write", "config", "remote", "crash"}
    None

Users == Mine \cup Theirs
Names == {NameSeq[k] : k \in 1..Len(NameSeq)}
Files == Names \X (0..2)      \* name.user.yaml, name.1.user.yaml, ...

Broken == "broken"        \* a manifest that could not be loaded, in the client's cache

ASSUME ConstantsAssumption ==
    /\ Mine \cap Theirs = {} /\ {None, Broken} \cap Users = {} /\ None # Broken
    /\ NameSeq \in Seq(Names) /\ None \notin Files
    /\ NameOf \in [Users -> Names] /\ ForestName \in Names
    /\ MaxCommands \in Nat /\ MaxVersion \in Nat /\ MaxFaults \in Nat
    /\ Faults \subseteq {"write", "config", "remote", "crash"}

(* What a write that broke off may leave: a manifest that never loads and whose  *)
(* name is taken, or one of the two files of a key.                           *)
Torn == ({"user", "bridge"} \X Files) \cup ({"key"} \X Mine)

(* A user manifest is signed by its owner's primary key (dump_user); path     *)
(* stands for the last part of its first path.                                *)
Manifests == [owner : Users, extra : SUBSET Users, path : Names, catalog : BOOLEAN,
              version : 0..MaxVersion]
(* Where a bridge finds its target: a link into the target's catalog, a URL,   *)
(* or a file of this machine.                                                  *)
Bridges == [owner : Users, signer : Users, target : Users, at : {"link", "url", "file"},
            file : Files \cup {None}]

AllRequests ==
    [op : {"create"}, user : Users \cup {None}, extra : SUBSET Users, name : Names, path : Names]
    \cup [op : {"delete"}, user : Users, force : BOOLEAN, cascade : BOOLEAN, keys : BOOLEAN]
    \cup [op : {"import"}, user : Theirs, owner : Users \cup {None}]
    \cup [op : {"bridge_import"}, targets : SUBSET Theirs, owner : Users \cup {None}]
    \cup [op : {"bridge_create"}, user : Users, owner : Users \cup {None}]
    \cup [op : {"bridge_delete"}, user : Users]
    \cup [op : {"refresh"}, user : Users \cup {None}]
    \cup [op : {"forest_mount"}, user : Users]
    \cup [op : {"modify"}, user : Users, add : SUBSET Users, of : SUBSET Users, del : SUBSET Users]
    \cup [op : {"import_key"}, user : Users, private : {"right", "wrong", "none"}]
    \cup [op : {"forest"}, user : Users \cup {None}]
    \cup [op : {"container"}, user : Users]

ASSUME RequestsAssumption ==
    /\ Requests \subseteq AllRequests /\ None \notin Requests /\ None \notin Manifests
    /\ Served \in [Theirs -> Manifests] /\ \A u \in Theirs : Served[u].owner = u

VARIABLES
    users,       \* the directory of user manifests
    bridges,     \* the directory of bridge manifests
    pub, sec,    \* the key directory
    half,        \* files of these three that broke off (containers' are left out)
    conf,        \* the configuration file: default, owner, locals
    containers,  \* container manifests: their owner, and whether they are a catalog
    store,       \* what each user's catalog storage holds
    remote,      \* what others serve
    job, pc,     \* the running command and its next step
    mem,         \* what it remembers
    outcome,     \* how the last command ended
    generated,   \* keys generated so far: no two are the same
    commands, faults

disk == <<users, bridges, pub, sec, conf, containers, store>>
world == <<remote, commands, generated, half>>      \* what most steps leave alone
vars == <<users, bridges, pub, sec, half, conf, containers, store, remote, job, pc, mem, outcome,
          generated, commands, faults>>

TypeOK ==
    /\ users \in [Files -> Manifests \cup {None}]
    /\ bridges \in [Files -> Bridges \cup {None}]
    /\ pub \subseteq Users /\ sec \subseteq Mine /\ half \subseteq Torn
    /\ conf \in [default : Users \cup {None}, owner : Users \cup {None}, locals : SUBSET Users]
    /\ containers \subseteq Users \X {"own", "catalog"}
    /\ store \in [Users -> [copy : Manifests \cup {None}, published : BOOLEAN]]
    /\ remote \in [Theirs -> Manifests]
    /\ generated \subseteq Mine /\ sec \subseteq generated
    /\ job \in Requests \cup {None} /\ (job = None <=> pc = "idle")
    /\ outcome \in {"none", "ok", "failed", "crashed"}
    /\ commands \in 0..MaxCommands /\ faults \in 0..MaxFaults
    /\ pc # "idle" =>
        /\ mem.keys \subseteq Users /\ mem.priv \subseteq mem.keys
        /\ mem.owns \in [Users -> SUBSET Users]
        /\ mem.cache \in [Files -> Users \cup {None, Broken}]
        /\ \A x \in mem.made : x[1] \in {"user", "bridge", "key"}

NoCommand == [none |-> TRUE]

(* The configuration before anything is set, and with one setting changed.     *)
NoConf == [default |-> None, owner |-> None, locals |-> {}]
DefaultUser(v) == [conf EXCEPT !.default = v]
DefaultOwner(v) == [conf EXCEPT !.owner = v]
LocalOwners(us) == [conf EXCEPT !.locals = us]

Init ==
    /\ users = [f \in Files |-> None] /\ bridges = [f \in Files |-> None]
    /\ pub = {} /\ sec = {} /\ half = {}
    /\ conf = NoConf
    /\ containers = {}
    /\ store = [u \in Users |->
                   IF u \in Theirs /\ Served[u].catalog
                   THEN [copy |-> Served[u], published |-> TRUE]
                   ELSE [copy |-> None, published |-> FALSE]]
    /\ remote = Served
    /\ job = None /\ pc = "idle" /\ mem = NoCommand
    /\ outcome = "none" /\ generated = {} /\ commands = 0 /\ faults = 0

-----------------------------------------------------------------------------
(* Files and names. *)

Index(n) == CHOOSE k \in 1..Len(NameSeq) : NameSeq[k] = n
(* The order of sorted(glob()): "a.1.user.yaml" comes before "a.user.yaml".   *)
Rank(f) == 3 * Index(f[1]) + (IF f[2] = 0 THEN 3 ELSE f[2])
First(fs) == CHOOSE f \in fs : \A g \in fs : Rank(f) <= Rank(g)
Last(fs) == CHOOSE f \in fs : \A g \in fs : Rank(f) >= Rank(g)

(* Mutant: the numeric suffix is left out. *)
NewPathSame(dir, n) == <<n, 0>>

NewPath(dir, n) == <<n, CHOOSE k \in 0..2 : /\ dir[<<n, k>>] = None
                                            /\ \A i \in 0..(k - 1) : dir[<<n, i>>] # None>>

(* The files of a directory, whole or not (path.exists()).                     *)
Dir(kind) == [f \in Files |-> IF <<kind, f>> \in half THEN Broken
                              ELSE IF kind = "user" THEN users[f] ELSE bridges[f]]

(* A command finds room for its files (bound). *)
Free(dir, n) == \E k \in 0..2 : dir[<<n, k>>] = None
Room == \A n \in Names : Dir("user")[<<n, 2>>] = None /\ Dir("bridge")[<<n, 2>>] = None

(* A write of a new file fails: nothing is there, or a file that is not whole    *)
(* (write_bytes truncates it first).                                          *)
Tears(x) == half' \in {half, half \cup {x}}
TearsNew(kind, n) ==
    \/ UNCHANGED half
    \/ Free(Dir(kind), n) /\ half' = half \cup {<<kind, NewPath(Dir(kind), n)>>}

-----------------------------------------------------------------------------
(* Keys: SigContext. *)

(* A user manifest loads when its owner's public key can be found: among the   *)
(* keys, or in the key directory, which sub-clients may use.                  *)
Loadable(f) == users[f] # None /\ users[f].owner \in pub

KeysOf(m) == {m.owner} \cup m.extra

(* For whom a key may sign.                                                   *)
PossibleOwners(k) == {k} \cup mem.owns[k]

(* The key that signs for a user: the primary key, or any key the user has    *)
(* besides (_get_private_key).                                                *)
Signers(o) == IF o \in mem.priv THEN {o} ELSE {k \in mem.priv : o \in mem.owns[k]}

(* from_bytes: the signature is by a known key that may sign for the owner.   *)
Verifies(signer) == signer \in mem.keys
BridgeLoads(b) ==
    /\ bridges[b] # None
    /\ Verifies(bridges[b].signer)
    /\ bridges[b].owner \in PossibleOwners(bridges[b].signer)

(* _key_to_files: the public key, then the private one; either write may fail,   *)
(* and the cleaner is told of a file only after its write.                    *)
PutKey(k, wrote) ==
    LET whole == wrote = "both"
        told == IF wrote = "none" THEN {} ELSE {k}
    IN  /\ pub' = pub \cup told
        /\ sec' = IF whole THEN sec \cup {k} ELSE sec
        /\ IF whole THEN UNCHANGED half ELSE Tears(<<"key", k>>)
        /\ mem' = [mem EXCEPT !.user = k, !.keys = @ \cup told,
                              !.priv = IF whole THEN @ \cup {k} ELSE @,
                              !.made = @ \cup {<<"key", x>> : x \in told}]

(* add_pubkey: the key itself, its private key if that is here, and its owner. *)
AddPubkeys(ks, o) ==
    [mem EXCEPT !.keys = @ \cup ks, !.priv = @ \cup (ks \cap sec),
                !.owns = [k \in Users |-> @[k] \cup (IF k \in ks THEN {o} ELSE {})]]

(* verify_and_load_pubkeys: the keys of a manifest signed by its own primary   *)
(* key, which is recorded as owned by itself, too; the key files are written. *)
Learns(m) ==
    /\ pub' = pub \cup KeysOf(m)
    /\ mem' = [AddPubkeys(KeysOf(m), m.owner) EXCEPT !.fetched = @ \cup {m}]

-----------------------------------------------------------------------------
(* The life of a command. *)

At(p) == pc = p
Goto(p) == pc' = p /\ UNCHANGED <<job, outcome>>

(* Whether a step fails: MaxFaults times at most.                             *)
Faulty(kind) == IF kind \in Faults /\ faults < MaxFaults THEN BOOLEAN ELSE {FALSE}
Count(bad) == faults' = faults + (IF bad THEN 1 ELSE 0)

End(how) == pc' = "idle" /\ job' = None /\ outcome' = how
Forget == mem' = NoCommand

(* The commands that clean up what they made when they fail.                  *)
CleaningOps == {"create", "import", "bridge_create", "bridge_import"}
Fails == IF job.op \in CleaningOps THEN Goto("clean") /\ UNCHANGED mem
         ELSE End("failed") /\ Forget

(* load_all keeps a manifest that cannot be loaded as such.                    *)
LoadAll == [f \in Files |-> CASE Dir("user")[f] = None -> None
                              [] Loadable(f) -> users[f].owner
                              [] OTHER -> Broken]

(* A key whose files broke off was shown to nobody.                            *)
Shown == {k \in generated : <<"key", k>> \notin half}

(* Client.__init__: the users' manifests are loaded, and their keys; the last  *)
(* manifest of a user is the one commands use.                                *)
Begin(r) ==
    /\ pc = "idle" /\ commands < MaxCommands /\ Room
    /\ (r.op = "create" /\ r.user = None) => generated # Mine
    /\ r.op = "create" => r.extra \cap Mine \subseteq Shown
    /\ r.op = "modify" => r.add \cap Mine \subseteq Shown
    /\ r.op = "import_key" => r.user \in Shown
    /\ LET loaded == {f \in Files : Loadable(f)}
           keys == UNION {KeysOf(users[f]) : f \in loaded}
       IN  /\ pub' = pub \cup keys
           /\ mem' = [keys |-> keys, priv |-> keys \cap sec,
                      owns |-> [k \in Users |-> {users[f].owner : f \in {g \in loaded : k \in users[g].extra}}],
                      cache |-> LoadAll,
                      made |-> {}, todo |-> {}, fetched |-> {}, failed |-> FALSE,
                      user |-> None, name |-> None,
                      old |-> [users |-> users, bridges |-> bridges, sec |-> sec, half |-> half]]
    /\ job' = r /\ pc' = r.op /\ outcome' = "none"
    /\ commands' = commands + 1
    /\ UNCHANGED <<users, bridges, sec, half, conf, containers, store, remote, generated, faults>>

(* client.users, by owner.                                                    *)
Seen(u) == LET fs == {f \in Files : mem.cache[f] = u} IN IF fs = {} THEN None ELSE Last(fs)

(* Mutant: only bridges are cleaned up. *)
CleanUpBridges ==
    /\ At("clean")
    /\ bridges' = [b \in Files |-> IF <<"bridge", b>> \in mem.made THEN None ELSE bridges[b]]
    /\ End("failed") /\ Forget
    /\ UNCHANGED <<users, pub, sec, conf, containers, store, faults, world>>

(* Cleaner.clean_up: the files it was told of, in any order (it pops them from   *)
(* a set), and no others.                                                     *)
CleanUp ==
    /\ At("clean")
    /\ \/ /\ mem.made = {}
          /\ End("failed") /\ Forget
          /\ UNCHANGED <<disk, faults>>
       \/ \E x \in mem.made :
             /\ users' = IF x[1] = "user" THEN [users EXCEPT ![x[2]] = None] ELSE users
             /\ bridges' = IF x[1] = "bridge" THEN [bridges EXCEPT ![x[2]] = None] ELSE bridges
             /\ pub' = IF x[1] = "key" THEN pub \ {x[2]} ELSE pub
             /\ sec' = IF x[1] = "key" THEN sec \ {x[2]} ELSE sec
             /\ mem' = [mem EXCEPT !.made = @ \ {x}]
             /\ UNCHANGED <<conf, containers, store, job, pc, outcome, faults>>
    /\ UNCHANGED world

Crash ==
    /\ pc # "idle" /\ "crash" \in Faults /\ faults < MaxFaults
    /\ End("crashed") /\ Forget
    /\ Count(TRUE)
    /\ UNCHANGED <<disk, world>>

(* Config.update_and_save: every value is a write of the whole file, and an    *)
(* error of it is a result that nobody looks at.                              *)
SaveConf(c, then) ==
    /\ \E bad \in (IF c = conf THEN {FALSE} ELSE Faulty("config")) :
          conf' = (IF bad THEN conf ELSE c) /\ Count(bad)
    /\ Goto(then)
    /\ UNCHANGED <<users, bridges, pub, sec, containers, store, mem, world>>

Done(p) ==
    /\ At(p) /\ End("ok") /\ Forget
    /\ UNCHANGED <<disk, world, faults>>

-----------------------------------------------------------------------------
(* Files that commands write. *)

(* save_new_object(USER) and write_bytes of a manifest that was fetched; the    *)
(* cleaner is told of the first only.                                         *)
PutUser(f, m, isMade) ==
    /\ users' = [users EXCEPT ![f] = m]
    /\ mem' = [mem EXCEPT !.made = IF isMade THEN @ \cup {<<"user", f>>} ELSE @,
                          !.cache[f] = m.owner]

(* save_new_object(BRIDGE): somebody must be able to sign for the owner.       *)
PutBridge(o, u, at, file, then) ==
    \/ /\ Signers(o) = {}
       /\ Fails /\ UNCHANGED <<bridges, half, faults>>
    \/ \E k \in Signers(o), bad \in Faulty("write") :
          /\ Count(bad)
          /\ IF bad
             THEN Fails /\ TearsNew("bridge", NameOf[u]) /\ UNCHANGED bridges
             ELSE LET b == NewPath(Dir("bridge"), NameOf[u])
                  IN  /\ Free(Dir("bridge"), NameOf[u]) /\ UNCHANGED half
                      /\ bridges' = [bridges EXCEPT ![b] =
                             [owner |-> o, signer |-> k, target |-> u, at |-> at, file |-> file]]
                      /\ mem' = [mem EXCEPT !.made = @ \cup {<<"bridge", b>>}, !.todo = @ \ {u}]
                      /\ Goto(then)

-----------------------------------------------------------------------------
(* wl user create *)

CreateKey ==
    /\ At("create")
    /\ \/ /\ job.user \in pub
          /\ mem' = [mem EXCEPT !.user = job.user]
          /\ Goto("create_save")
          /\ UNCHANGED <<pub, sec, half, generated, faults>>
       \/ /\ job.user \notin pub \cup {None}
          /\ Fails
          /\ UNCHANGED <<pub, sec, half, generated, faults>>
       \/ /\ job.user = None
          /\ \E k \in Mine \ generated, bad \in Faulty("write") :
                /\ Count(bad)
                /\ generated' = generated \cup {k}
                /\ \E wrote \in IF bad THEN {"none", "pub"} ELSE {"both"} : PutKey(k, wrote)
                /\ Goto(IF bad THEN "clean" ELSE "create_save")
    /\ UNCHANGED <<users, bridges, conf, containers, store, remote, commands>>

(* The manifest is signed by its own primary key, after the keys it names have  *)
(* been recorded; on failure a key that was generated is removed.             *)
CreateSave ==
    /\ At("create_save")
    /\ \E bad \in IF mem.user \in sec THEN Faulty("write") ELSE {TRUE} :
          LET k == mem.user
              gone == IF bad /\ job.user = None THEN {k} ELSE {}
          IN  /\ Count(bad /\ k \in sec)
              /\ pub' = (pub \cup {k} \cup job.extra) \ gone
              /\ sec' = sec \ gone
              /\ IF bad /\ k \in sec THEN TearsNew("user", job.name) ELSE UNCHANGED half
              /\ IF bad
                 THEN Fails /\ UNCHANGED users
                 ELSE /\ Free(Dir("user"), job.name)
                      /\ PutUser(NewPath(Dir("user"), job.name),
                                 [owner |-> k, extra |-> job.extra, path |-> job.path,
                                  catalog |-> FALSE, version |-> 0], TRUE)
                      /\ Goto("create_default")
    /\ UNCHANGED <<bridges, conf, containers, store, remote, commands, generated>>

CreateConf ==
    \/ /\ At("create_default")
       /\ SaveConf(IF conf.default = None THEN DefaultUser(mem.user) ELSE conf, "create_owner")
    \/ /\ At("create_owner")
       /\ SaveConf(IF conf.owner = None THEN DefaultOwner(mem.user) ELSE conf, "create_locals")
    \/ /\ At("create_locals")
       /\ SaveConf(LocalOwners(conf.locals \cup {mem.user}), "created")
    \/ Done("created")

-----------------------------------------------------------------------------
(* wl user delete *)

Owned(u) == {x \in containers : x[1] = u}

(* --cascade deletes the user's containers, before anything may refuse.        *)
DeleteUsages ==
    /\ At("delete")
    /\ \/ /\ Seen(job.user) = None \/ (~job.cascade /\ ~job.force /\ Owned(job.user) # {})
          /\ Fails
          /\ UNCHANGED <<containers, faults>>
       \/ /\ Seen(job.user) # None /\ job.cascade
          /\ \E x \in Owned(job.user), bad \in Faulty("write") :
                /\ Count(bad)
                /\ IF bad THEN Fails /\ UNCHANGED containers
                          ELSE containers' = containers \ {x} /\ Goto("delete") /\ UNCHANGED mem
       \/ /\ Seen(job.user) # None
          /\ Owned(job.user) = {} \/ (job.force /\ ~job.cascade)
          /\ Goto("delete_keys")
          /\ UNCHANGED <<containers, mem, faults>>
    /\ UNCHANGED <<users, bridges, pub, sec, conf, store, world>>

(* Mutant: the manifest is deleted before the configuration is changed. *)
DeleteKeysAndFile ==
    /\ At("delete_keys")
    /\ users' = [users EXCEPT ![Seen(job.user)] = None]
    /\ Goto("delete_default")
    /\ UNCHANGED <<bridges, pub, sec, conf, containers, store, mem, world, faults>>

(* A key that another user has as well stays, unless forced (the key of a user   *)
(* who has a manifest is whole).                                              *)
DeleteKeys ==
    /\ At("delete_keys")
    /\ IF job.keys /\ mem.owns[job.user] # {} /\ ~job.force
       THEN Fails /\ UNCHANGED <<pub, sec>>
       ELSE /\ pub' = IF job.keys THEN pub \ {job.user} ELSE pub
            /\ sec' = IF job.keys THEN sec \ {job.user} ELSE sec
            /\ Goto("delete_default") /\ UNCHANGED mem
    /\ UNCHANGED <<users, bridges, conf, containers, store, world, faults>>

DeleteConf ==
    LET u == job.user
    IN  \/ /\ At("delete_default")
           /\ SaveConf(IF conf.default = u THEN DefaultUser(None) ELSE conf, "delete_owner")
        \/ /\ At("delete_owner")
           /\ SaveConf(IF conf.owner = u THEN DefaultOwner(None) ELSE conf, "delete_locals")
        \/ /\ At("delete_locals")
           /\ SaveConf(LocalOwners(conf.locals \ {u}), "delete_file")

DeleteFile ==
    /\ At("delete_file")
    /\ \E bad \in Faulty("write") :
          /\ Count(bad)
          /\ IF bad THEN End("failed") /\ UNCHANGED users
                    ELSE End("ok") /\ users' = [users EXCEPT ![Seen(job.user)] = None]
    /\ Forget
    /\ UNCHANGED <<bridges, pub, sec, conf, containers, store, world>>

-----------------------------------------------------------------------------
(* wl user import URL, wl bridge create, wl bridge import *)

BridgeOwner == IF job.owner # None THEN job.owner ELSE conf.owner
BridgesTo(u) == {b \in Files : BridgeLoads(b) /\ bridges[b].target = u}

(* object_import_from_url: the manifest and its keys.                         *)
ImportFetch ==
    /\ At("import")
    /\ \E bad \in Faulty("remote") :
          /\ Count(bad)
          /\ IF bad THEN Fails /\ UNCHANGED pub
                    ELSE Learns(remote[job.user]) /\ Goto("import_save")
    /\ UNCHANGED <<users, bridges, sec, conf, containers, store, world>>

(* check_object_existence: among the manifests that load now.                  *)
ExistsHere(u) == \E f \in Files : Loadable(f) /\ users[f].owner = u

(* _do_import: the manifest is saved as it is.                                 *)
ImportSave ==
    /\ At("import_save") /\ ~ExistsHere(job.user)
    /\ \E bad \in Faulty("write"), m \in {x \in mem.fetched : x.owner = job.user} :
          /\ Count(bad)
          /\ IF bad THEN Fails /\ TearsNew("user", NameOf[job.user]) /\ UNCHANGED users
                    ELSE /\ Free(Dir("user"), NameOf[job.user]) /\ UNCHANGED half
                         /\ PutUser(NewPath(Dir("user"), NameOf[job.user]), m, TRUE)
                         /\ Goto("import_bridge")
    /\ UNCHANGED <<bridges, pub, sec, conf, containers, store, remote, commands, generated>>

(* _user_import: a user who is here already is kept, if this command loaded it; *)
(* a bridge to the user, whoever owns it, is enough.                          *)
ImportKnown ==
    /\ \/ /\ At("import_save") /\ ExistsHere(job.user)
          /\ IF Seen(job.user) = None THEN Fails ELSE Goto("import_bridge") /\ UNCHANGED mem
       \/ /\ At("import_bridge") /\ BridgesTo(job.user) # {}
          /\ End("ok") /\ Forget
    /\ UNCHANGED <<disk, world, faults>>

(* find_user_manifest_within_catalog, when its storage can be read.            *)
CatalogHolds(u) == users[Seen(u)].catalog /\ store[u].copy # None

(* The owner or the target of a new bridge is not known.                       *)
CannotBridge == None \in {BridgeOwner, Seen(job.user)} \/ Seen(BridgeOwner) = None

(* __bridge_create: a link when the target's own catalog holds its manifest and *)
(* can be read (not reading it costs no fault here).                          *)
BridgeCreate ==
    /\ At("bridge_create") \/ (At("import_bridge") /\ BridgesTo(job.user) = {})
    /\ IF CannotBridge
       THEN Fails /\ UNCHANGED <<bridges, half, faults>>
       ELSE \E at \in {"link", "url", "file"} :
               /\ at = "link" => CatalogHolds(job.user)
               /\ at # "link" => /\ CatalogHolds(job.user) => TRUE \in Faulty("remote")
                                 /\ at = "url" <=> At("import_bridge")
               /\ PutBridge(BridgeOwner, job.user, at, IF at = "file" THEN Seen(job.user) ELSE None,
                            "bridge_created")
    /\ UNCHANGED <<users, pub, sec, conf, containers, store, remote, commands, generated>>

BridgeImport ==
    /\ At("bridge_import")
    /\ IF BridgeOwner = None THEN Fails ELSE Goto("bridge_read") /\ UNCHANGED mem
    /\ UNCHANGED <<disk, world, faults>>

(* _bridge_import_from_url: all the bridges are read before the first is saved. *)
BridgeRead ==
    /\ At("bridge_read")
    /\ \E lost \in Faulty("remote") :
          /\ Count(lost)
          /\ IF lost THEN Fails ELSE mem' = [mem EXCEPT !.todo = job.targets] /\ Goto("bridge_save")
    /\ UNCHANGED <<disk, world>>

(* _do_import_bridge: a bridge of our own with the location of the other.      *)
BridgeCopy ==
    /\ At("bridge_save")
    /\ \/ mem.todo = {} /\ Goto("refresh") /\ UNCHANGED <<bridges, half, mem, faults>>
       \/ \E u \in mem.todo : PutBridge(BridgeOwner, u, "url", None, "bridge_save")
    /\ UNCHANGED <<users, pub, sec, conf, containers, store, remote, commands, generated>>

BridgeDelete ==
    /\ At("bridge_delete")
    /\ \/ BridgesTo(job.user) = {} /\ End("failed") /\ UNCHANGED bridges
       \/ /\ BridgesTo(job.user) # {} /\ End("ok")
          /\ bridges' = [bridges EXCEPT ![First(BridgesTo(job.user))] = None]
    /\ Forget
    /\ UNCHANGED <<users, pub, sec, conf, containers, store, world, faults>>

-----------------------------------------------------------------------------
(* wl user refresh (user_refresh) and the refresh of wl forest mount            *)
(* (refresh_users)                                                            *)

Wanted == IF job.op = "bridge_import" THEN job.targets
          ELSE IF job.op = "refresh" /\ job.user # None THEN {job.user} ELSE Users

(* The location for each owner of bridges: one bridge, a link if there is one,  *)
(* in the order in which the owners come up.                                  *)
ToRefresh ==
    LET matching(o) == {b \in Files : BridgeLoads(b) /\ bridges[b].owner = o
                                      /\ bridges[b].target \in Wanted}
        links(o) == {b \in matching(o) : bridges[b].at = "link"}
    IN  {<<IF links(o) # {} THEN First(links(o)) ELSE First(matching(o)), Rank(First(matching(o)))>> :
            o \in {p \in Users : matching(p) # {}}}

StartRefresh ==
    /\ At("refresh")
    /\ mem' = [mem EXCEPT !.todo = ToRefresh, !.fetched = {}]
    /\ Goto("refresh_next")
    /\ UNCHANGED <<disk, world, faults>>

NextLocation == (CHOOSE x \in mem.todo : \A y \in mem.todo : x[2] <= y[2])[1]

(* A link names the storage; its manifest is read with the keys at hand.       *)
LinkTarget(u) == IF u \in mem.keys THEN store[u].copy ELSE None

(* What the location gives: a manifest, or None.                              *)
Content(b) ==
    CASE b.at = "url" -> remote[b.target]
      [] b.at = "link" -> LinkTarget(b.target)
      [] b.at = "file" -> users[b.file]

(* Who may use file URLs: the bridge's owner, or here @default.                 *)
LocalOwner(b) == IF job.op = "forest_mount" THEN conf.default ELSE b.owner

LocationName(b) == CASE b.at = "url" -> NameOf[b.target]
                     [] b.at = "link" -> ForestName
                     [] b.at = "file" -> b.file[1]

(* Mutant: an existing manifest is not overwritten. *)
TargetFileNew(b, u) == NewPath(Dir("user"), LocationName(b))

(* import_manifest with overwrite. *)
ImportedFile(b, u) ==
    LET same == {f \in Files : users[f] # None /\ users[f].owner = u}
    IN  IF same = {} THEN NewPath(Dir("user"), LocationName(b)) ELSE First(same)

(* _do_import_manifest with force knows the users that were loaded when the      *)
(* command began, and does not number names.                                  *)
TargetFile(b, u) ==
    IF job.op = "forest_mount"
    THEN LET same == {f \in Files : mem.cache[f] = u}
         IN  IF same = {} THEN <<LocationName(b), 0>> ELSE First(same)
    ELSE ImportedFile(b, u)

(* One location.  An error of a Wildland kind is noted and the next one comes;  *)
(* a file URL of an owner who is not local, or a file that cannot be written,  *)
(* ends the command.  Overwriting a manifest is one atomic step here.          *)
Refresh ==
    /\ At("refresh_next") /\ mem.todo # {}
    /\ LET b == bridges[NextLocation]
           rest == {x \in mem.todo : x[1] # NextLocation}
           alien == b.at = "file" /\ LocalOwner(b) \notin conf.locals
       IN  \E lost \in (IF b.at = "file" THEN {FALSE} ELSE Faulty("remote")) :
           IF (alien /\ job.op = "forest_mount") \/ (~alien /\ (lost \/ Content(b) = None))
           THEN /\ mem' = [mem EXCEPT !.todo = rest, !.failed = TRUE]
                /\ Count(lost)
                /\ Goto("refresh_next")
                /\ UNCHANGED <<users, pub, half>>
           ELSE IF alien
           THEN Fails /\ Count(FALSE) /\ UNCHANGED <<users, pub, half>>
           ELSE LET m == Content(b)
                    f == TargetFile(b, m.owner)
                IN  \E bad \in Faulty("write") :
                      /\ Count(bad)
                      /\ pub' = pub \cup KeysOf(m)
                      /\ IF bad
                         THEN /\ Fails /\ UNCHANGED users
                              /\ \/ UNCHANGED half
                                 \/ /\ Free(Dir("user"), LocationName(b)) /\ users[f] = None
                                    /\ half' = half \cup {<<"user", f>>}
                         ELSE /\ Free(Dir("user"), LocationName(b))
                              /\ users' = [users EXCEPT ![f] = m]
                              /\ half' = IF users[f] = None THEN half \ {<<"user", f>>} ELSE half
                              /\ mem' = [AddPubkeys(KeysOf(m), m.owner)
                                            EXCEPT !.todo = rest, !.fetched = @ \cup {m}]
                              /\ Goto("refresh_next")
    /\ UNCHANGED <<bridges, sec, conf, containers, store, remote, commands, generated>>

(* wl forest mount only prints the errors.                                      *)
EndRefresh ==
    /\ At("refresh_next") /\ mem.todo = {}
    /\ IF mem.failed /\ job.op # "forest_mount" THEN Fails ELSE End("ok") /\ Forget
    /\ UNCHANGED <<disk, world, faults>>

-----------------------------------------------------------------------------
(* wl user modify, wl container create (see Catalog), wl forest create *)

(* Keys to add: those given, and all those of the users that were named.       *)
Unknown(us) == \E u \in us : u = None \/ Seen(u) = None
KeysToAdd == job.add \cup UNION {KeysOf(users[Seen(u)]) : u \in job.of}

(* modify_manifest: signed with the primary key, and the file written.          *)
Modify ==
    /\ At("modify")
    /\ LET f == Seen(job.user)
           m == users[f]
           new == [m EXCEPT !.extra = (@ \cup (KeysToAdd \ {m.owner})) \ job.del]
       IN  IF Unknown(job.of \cup {job.user}) \/ job.user \notin sec
              \/ (~Unknown(job.of) /\ KeysToAdd \cap job.del # {})
           THEN End("failed") /\ Count(FALSE) /\ UNCHANGED <<users, pub>>
           ELSE \E bad \in Faulty("write") :
                   /\ Count(bad)
                   /\ pub' = pub \cup KeysOf(new)
                   /\ IF bad THEN End("failed") /\ UNCHANGED users
                             ELSE End("ok") /\ users' = [users EXCEPT ![f] = new]
    /\ Forget
    /\ UNCHANGED <<bridges, sec, conf, containers, store, world>>

CreateContainer ==
    /\ At("container")
    /\ \E bad \in Faulty("write") :
          /\ Count(bad)
          /\ IF bad \/ Seen(job.user) = None \/ Signers(job.user) = {}
             THEN End("failed") /\ UNCHANGED containers
             ELSE End("ok") /\ containers' = containers \cup {<<job.user, "own">>}
    /\ Forget
    /\ UNCHANGED <<users, bridges, pub, sec, conf, store, world>>

(* import_key_pair: the private key is written, tried, and removed when it does *)
(* not work; what is known of the public key stays.                           *)
ImportKey ==
    /\ At("import_key")
    /\ LET k == job.user
           works == job.private = "right" \/ (job.private = "none" /\ k \in sec)
       IN  IF job.private # "none" /\ k \in sec
           THEN End("failed") /\ UNCHANGED <<pub, sec>>
           ELSE /\ pub' = pub \cup {k}
                /\ sec' = IF works THEN sec \cup {k} ELSE sec
                /\ End(IF works THEN "ok" ELSE "failed")
    /\ Forget
    /\ UNCHANGED <<users, bridges, conf, containers, store, world, faults>>

(* Whose manifests the bridges lead to, one hop further and in any number.     *)
Hop(us) == us \cup {bridges[b].target : b \in {c \in Files : BridgeLoads(c) /\ bridges[c].owner \in us}}
Reach(o) ==
    LET reach[n \in 0..Cardinality(Users)] == IF n = 0 THEN {o} ELSE Hop(reach[n - 1])
    IN  reach[Cardinality(Users)]

(* wl forest mount USER: only of users to whom bridges lead from @default; the  *)
(* users are refreshed first. What is mounted is the business of Mounting.     *)
ForestMount ==
    /\ At("forest_mount")
    /\ IF \/ Unknown({job.user, conf.default})
          \/ job.user \notin Reach(conf.default)
       THEN Fails
       ELSE Goto("refresh") /\ UNCHANGED mem
    /\ UNCHANGED <<disk, world, faults>>

(* The owner that wl forest create works for.                                  *)
ForestOwner == IF job.user = None THEN conf.owner ELSE job.user

(* _bootstrap_forest: the container of the catalog is saved, and loses its file  *)
(* in the end, however that comes; only when its storages cannot be made it is *)
(* not known there and stays.                                                 *)
ForestContainer ==
    /\ At("forest")
    /\ LET u == ForestOwner
       IN  IF Unknown({u}) \/ u \notin mem.priv
           THEN End("failed") /\ Forget /\ UNCHANGED <<containers, faults>>
           ELSE \E bad \in Faulty("write") :
                   /\ containers' = containers \cup {<<u, "catalog">>}
                   /\ Count(bad)
                   /\ IF bad THEN End("failed") /\ Forget
                             ELSE /\ mem' = [mem EXCEPT !.user = u, !.name = users[Seen(u)].path]
                                  /\ Goto("forest_modify")
    /\ UNCHANGED <<users, bridges, pub, sec, conf, store, world>>

ForestStep(p, kind, then) ==
    /\ At(p)
    /\ \E bad \in Faulty(kind) :
          /\ Count(bad)
          /\ IF bad
             THEN Goto("forest_clean") /\ mem' = [mem EXCEPT !.failed = TRUE] /\ UNCHANGED <<users, pub, store>>
             ELSE then
    /\ UNCHANGED <<bridges, sec, conf, containers, world>>

(* A link to the catalog is added to the user's manifest.                      *)
ForestModify ==
    LET f == Seen(mem.user)
    IN  ForestStep("forest_modify", "write",
            /\ users' = [users EXCEPT ![f].catalog = TRUE]
            /\ pub' = pub \cup KeysOf(users[f])
            /\ Goto("forest_copy") /\ UNCHANGED <<mem, store>>)

(* Mutant: the manifest as it was when the command loaded it is copied. *)
ForestCopyLoaded ==
    ForestStep("forest_copy", "remote",
        /\ store' = [store EXCEPT ![mem.user].copy = mem.old.users[Seen(mem.user)]]
        /\ Goto("forest_publish") /\ UNCHANGED <<mem, users, pub>>)

(* _bootstrap_manifest: forest-owner.user.yaml in the catalog's storage.        *)
ForestCopy ==
    ForestStep("forest_copy", "remote",
        /\ store' = [store EXCEPT ![mem.user].copy = users[Seen(mem.user)]]
        /\ Goto("forest_publish") /\ UNCHANGED <<mem, users, pub>>)

(* The owner is loaded again by name; for @default-owner the name is the last    *)
(* part of the user's first path, and the file of that name is looked for.     *)
ForestReloads == job.user # None \/ users[<<mem.name, 0>>] # None

ForestPublish ==
    ForestStep("forest_publish", "remote",
        /\ mem' = [mem EXCEPT !.failed = ~ForestReloads]
        /\ store' = IF ForestReloads THEN [store EXCEPT ![mem.user].published = TRUE] ELSE store
        /\ Goto("forest_clean") /\ UNCHANGED <<users, pub>>)

ForestClean ==
    /\ At("forest_clean")
    /\ containers' = containers \ {<<mem.user, "catalog">>}
    /\ End(IF mem.failed THEN "failed" ELSE "ok") /\ Forget
    /\ UNCHANGED <<users, bridges, pub, sec, conf, store, world, faults>>

-----------------------------------------------------------------------------
(* The others: a new version of their manifest, which is in their catalog too.  *)
RemoteChanges(u) ==
    /\ remote[u].version < MaxVersion
    /\ remote' = [remote EXCEPT ![u].version = @ + 1]
    /\ store' = IF remote[u].catalog THEN [store EXCEPT ![u].copy = remote'[u]] ELSE store
    /\ UNCHANGED <<users, bridges, pub, sec, half, conf, containers, job, pc, mem, outcome, generated,
                   commands, faults>>

Step ==
    \/ CreateKey \/ CreateSave \/ CreateConf
    \/ DeleteUsages \/ DeleteKeys \/ DeleteConf \/ DeleteFile
    \/ ImportFetch \/ ImportSave \/ ImportKnown \/ BridgeCreate \/ Done("bridge_created")
    \/ BridgeImport \/ BridgeRead \/ BridgeCopy \/ BridgeDelete
    \/ StartRefresh \/ Refresh \/ EndRefresh
    \/ Modify \/ CreateContainer \/ ImportKey \/ ForestMount
    \/ ForestContainer \/ ForestModify \/ ForestCopy \/ ForestPublish \/ ForestClean
    \/ CleanUp

Next ==
    \/ \E r \in Requests : Begin(r)
    \/ Step
    \/ Crash
    \/ \E u \in Theirs : RemoteChanges(u)

Spec == Init /\ [][Next]_vars

-----------------------------------------------------------------------------
(* Properties. *)

HasManifest(u) == \E f \in Files : users[f] # None /\ users[f].owner = u

(* Whom @default, @default-owner and local-owners name has a manifest in the    *)
(* user directory, whatever commands failed or were killed half-way: the       *)
(* manifest is there before the configuration names it (_user_create) and goes *)
(* only after it is forgotten there (_delete).                                *)
ConfigDenotesUsers ==
    \A u \in ({conf.default, conf.owner} \cup conf.locals) \ {None} : HasManifest(u)

(* A create or an import that fails leaves no manifest that loads and no whole   *)
(* private key behind, and a failed import of a bridge no bridge               *)
(* (cleaner.clean_up in create, user_import, bridge_import); of the files that *)
(* broke off, one at most, whose own write failed: the cleaner is told of a    *)
(* file after its write (sig.py:405-407, client.py:982-983).                  *)
FailedLeavesNothing ==
    [][(job # None /\ job.op \in CleaningOps /\ outcome' = "failed") =>
          /\ bridges' = mem.old.bridges
          /\ sec' = mem.old.sec
          /\ job.op # "bridge_import" => users' = mem.old.users
          /\ half' = mem.old.half \/ \E x \in Torn : half' = mem.old.half \cup {x}]_vars

(* "Create a new user manifest and save it. Clean up created files if fails."    *)
(* (cli_user.py:69): not so for the file whose write broke off.                *)
FailedLeavesNoFile ==
    [][(job # None /\ job.op \in CleaningOps /\ outcome' = "failed") => half' = mem.old.half]_vars

(* A user manifest disappears only when its owner is deleted or the command     *)
(* that made it cleans up, and a file never comes to hold another user: names   *)
(* are numbered (Client.new_path), refreshing overwrites the same owner's.    *)
UsersStay ==
    [][\A f \in Files : users[f] # None =>
          \/ users'[f] # None /\ users'[f].owner = users[f].owner
          \/ users'[f] = None /\ job.op = "delete" /\ job.user = users[f].owner
          \/ users'[f] = None /\ pc = "clean" /\ <<"user", f>> \in mem.made]_vars

(* A forest that was created is complete: the manifest of its owner says where   *)
(* the catalog is, the catalog holds this very manifest for those who follow a *)
(* bridge, and its own container (_bootstrap_forest).                         *)
ForestComplete ==
    [][(job # None /\ job.op = "forest" /\ outcome' = "ok") =>
          LET m == users[Seen(mem.user)]
          IN  m.catalog /\ store[mem.user] = [copy |-> m, published |-> TRUE]]_vars

(* A refresh of one user who lives elsewhere, whose bridges all point elsewhere, *)
(* leaves no manifest here that is older than what was served when it began    *)
(* (user_refresh).                                                            *)
RefreshIsEffective ==
    [][(job # None /\ job.op = "refresh" /\ outcome' = "ok" /\ job.user \in Theirs
          /\ BridgesTo(job.user) # {} /\ \A b \in BridgesTo(job.user) : bridges[b].at # "file") =>
          LET f == Last({g \in Files : users[g] # None /\ users[g].owner = job.user})
          IN  users[f] \in mem.fetched]_vars

(* "if None, will refresh all users with a bridge present" (user_refresh): not   *)
(* what the code does, which keeps one location for every owner of bridges.    *)
RefreshReachesAll ==
    [][(job # None /\ job.op = "refresh" /\ outcome' = "ok" /\ job.user = None) =>
          \A u \in Theirs : (BridgesTo(u) # {} /\ \A b \in BridgesTo(u) : bridges[b].at # "file") =>
              \E m \in mem.fetched : m.owner = u]_vars

=============================================================================
