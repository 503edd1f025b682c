------------------------------ MODULE Search ------------------------------
(***************************************************************************)
(* Resolution of Wildland paths.  A client walks from the owner of a path   *)
(* through containers and bridges, one part of the path after another, and  *)
(* reads the manifests it meets from storages that their authors go on      *)
(* writing to.  The walk is a nest of generators: each part has a frame, a   *)
(* frame is advanced one source at a time, and what a frame has yielded is   *)
(* kept for all later searches of the process once it is exhausted.          *)
(*                                                                          *)
(* Bounds: the edits of the storages are those of mode.script, in its order; *)
(* every request of mode.requests is asked at most MaxAsked times in the     *)
(* life of a process, and there are at most MaxStarts processes.  Storages   *)
(* are found by one inline manifest per container.  Encountered users are    *)
(* not saved (auto_import_users is off).                                     *)
(***************************************************************************)
EXTENDS Manifests, SequencesExt

CONSTANTS
    Files,        \* places of manifests
    Loc,          \* f -> "users", "containers" or "bridges" for the local directories, or a storage
    Name,         \* f -> the part of a path it is stored for, or "uuid"
    FileOrder,    \* the order of listings
    CatalogLocs,  \* storages with a manifest pattern
    TrustedLocs,  \* storages marked as trusted
    DataLocs,     \* storages that hold the file that is asked for
    Modes,        \* scenarios: the keys of the reader, its requests, and what authors write
    MaxAsked, MaxStarts

\* The fields of a manifest: its owner and, if it is a user's, the keys in it are keys;
\* every address in it is a place where there may be a manifest.
Wellformed(body) ==
    /\ {"type", "owner"} \subseteq DOMAIN body /\ body.owner \in Keys
    /\ body.type = "user" =>
           /\ {"pubkeys", "catalog"} \subseteq DOMAIN body /\ body.pubkeys \subseteq Keys
           /\ body.catalog \in Seq(Range(body.catalog))
           /\ \A e \in Range(body.catalog) : e.how = "inline" \/ e.at \in Files
    /\ body.type = "bridge" => body.at \in Files
    /\ body.type = "container" => /\ {"access", "store"} \subseteq DOMAIN body
                                  /\ {"access", "readers"} \subseteq DOMAIN body.store

ASSUME NoneAssumption == None \notin Keys /\ Everybody \notin Keys
ASSUME OrderAssumption == FileOrder \in Seq(Files)
ASSUME ModesAssumption ==
    \A md \in Modes :
        /\ \A q \in md.requests : q.hint \in Files \union {None}
        /\ md.script \in Seq(Range(md.script))
        /\ \A w \in Range(md.script) :
               /\ w.do \in {"write", "unsigned", "grant", "remove"} /\ w.file \in Files
               /\ w.do \in {"write", "unsigned"} => Wellformed(w.body)
               /\ w.do \in {"write", "grant"} =>
                      \A u \in Range(w.by.users) : u.type = "user" /\ Wellformed(u)

\* Authors write storages in clear; they are closed when the container is signed.
ASSUME ClearAssumption ==
    \A md \in Modes : \A w \in Range(md.script) :
        w.do = "write" /\ w.body.type = "container" => w.body.store.readers = {Everybody}

\* Containers inside user manifests are open to everybody and so stay in clear.
ASSUME InlineAssumption ==
    \A md \in Modes : \A w \in Range(md.script) :
        w.do \in {"write", "unsigned"} /\ w.body.type = "user" =>
            \A e \in Range(w.body.catalog) :
                e.how = "inline" => Everybody \in e.body.access /\ e.body.store.access = None

VARIABLES
    mode,     \* the scenario
    written,  \* how much of the script the authors have written
    content,  \* f -> the manifest there, or None
    wrote,    \* f -> the place in the script of what was last written there, or 0
    mem,      \* lists of owners and key directory of the reader
    root,     \* the signature context of the reader's client
    cache,    \* Search._resolve_cache: <<owner, step, part>>, one of the two None -> the steps found
    broken,   \* local users and bridges that failed to load: they are not tried again
    search,   \* the search under way, or None
    answer,   \* the last one that ended, or None
    asked,    \* how often each request was asked
    starts,   \* processes started
    fresh,    \* nobody wrote anything since the process was started
    said      \* user manifests there were in the life of the process

vars == <<mode, written, content, wrote, mem, root, cache, broken, search, answer, asked, starts,
          fresh, said>>
storages == <<written, content, wrote, fresh, said>>
reader == <<mem, root, cache, broken, search, answer, asked, starts>>

AnyPart == "*"
Matches(part, paths) == part = AnyPart \/ part \in paths

-----------------------------------------------------------------------------
\* Steps and their sources.

\* A result of resolving a part.  "ctx" is the context of its client, None for the
\* root client; "via" are the users met on the way.
Step(owner, ctx, user, bridge, con, via) ==
    [owner |-> owner, ctx |-> ctx, user |-> user, bridge |-> bridge, con |-> con, via |-> via]

\* What equality of steps looks at: of a container its owner and paths only.
StepKey(s) ==
    <<s.owner,
      IF s.user = None THEN None ELSE <<s.user.owner, s.user.pubkeys>>,
      IF s.bridge = None THEN None ELSE s.bridge,
      IF s.con = None THEN None ELSE <<s.con.body.owner, s.con.body.paths>> >>

Context(ctx) == IF ctx = None THEN root ELSE ctx

\* The sources a generator still has to look at.
Found(step) == [kind |-> "step", step |-> step]
NextOf(step) == [kind |-> "next", step |-> step]
ChildrenOf(step) == [kind |-> "children", step |-> step]
Child(f, step) == [kind |-> "child", file |-> f, step |-> step]
HintOf(f) == [kind |-> "hint", file |-> f]
BridgeOf(bridge, ctx, owner, isLocal, via) ==
    [kind |-> "bridge", bridge |-> bridge, ctx |-> ctx, owner |-> owner, isLocal |-> isLocal, via |-> via]
\* "first": its steps are not results but searched for the first part of the path.
UserOf(user, uctx, ctx, owner, bridge, via, first) ==
    [kind |-> "user", user |-> user, uctx |-> uctx, ctx |-> ctx, owner |-> owner,
     bridge |-> bridge, via |-> via, first |-> first]
Entry(entry, source) == [kind |-> "entry", entry |-> entry, of |-> source]

\* What a sequence has at some positions, in their order.
Selected(s, at) ==
    LET order == CHOOSE q \in [1..Cardinality(at) -> at] :
                     \A i, j \in DOMAIN q : i < j => q[i] < q[j]
    IN  [i \in DOMAIN order |-> s[order[i]]]

\* Local containers and bridges of an owner.  Such a container counts as found in
\* the forest of the owner that the path began with.
ResolveLocal(s, part, owner, via) ==
    LET fits(objs) == {i \in DOMAIN objs :
                          objs[i].body.owner = owner /\ Matches(part, objs[i].body.paths)}
        cons == Selected(s.containers, fits(s.containers))
        bridges == Selected(s.bridges, fits(s.bridges))
    IN  [i \in DOMAIN cons |-> Found(Step(s.req.owner, None, None, None, cons[i], via))]
        \o [i \in DOMAIN bridges |-> BridgeOf(bridges[i].body, None, owner, TRUE, via)]

\* The user a path begins with: by the hint, and as known locally.
ResolveFirst(s) ==
    (IF s.req.hint = None THEN <<>> ELSE <<HintOf(s.req.hint)>>)
    \o ResolveLocal(s, s.req.parts[1], s.req.owner, {})
    \o LET own == Selected(s.users, {i \in DOMAIN s.users : s.users[i].body.owner = s.req.owner})
       IN  [i \in DOMAIN own |->
               UserOf(own[i].body, own[i].ctx, None, s.req.owner, None, {}, TRUE)]

-----------------------------------------------------------------------------
\* Loading.

\* load_object_from_bytes: None if it is not accepted or has another owner than expected.
Load(m, c, man, trusted, expected, primaryOnly) ==
    LET obj == IF man = None THEN None ELSE FromBytes(m, c, man, trusted, primaryOnly)
    IN  IF obj = None \/ (expected # None /\ obj.body.owner # expected) THEN None ELSE obj

Listed(dir) == {f \in Files : Loc[f] = dir /\ content[f] # None}
Ordered(files) == Selected(FileOrder, {i \in DOMAIN FileOrder : FileOrder[i] \in files})

TypeOf(dir) == CASE dir = "users" -> "user" [] dir = "bridges" -> "bridge" [] OTHER -> "container"

\* Users are loaded by a copy of the client that trusts the keys in the key directory.
DirContext(dir, c) == IF dir = "users" THEN RecognizeLocalKeys(Copy(c)) ELSE c

LoadLocal(m, c, dir, f) ==
    LET obj == Load(m, DirContext(dir, c), content[f], None, None, dir = "users")
    IN  IF obj = None \/ obj.body.type # TypeOf(dir) THEN None ELSE obj

LoadAll(m, c, dir, skipped) ==
    LET files == Ordered({f \in Listed(dir) \ skipped : LoadLocal(m, c, dir, f) # None})
    IN  [i \in DOMAIN files |-> LoadLocal(m, c, dir, files[i])]

\* Manifests of users and bridges that do not load; they are not reloaded.
Failed(m, c, dir, old) ==
    {f \in Listed(dir) : f \in old \/ LoadLocal(m, c, dir, f) = None}

LocalUsers(m, c) == {o.body : o \in Range(LoadAll(m, c, "users", {}))}

(* Mutant: the keys of the users are known, not that they sign for them. *)
RecognizePrimary(m, c, users) == AddPubkeys(m, c, {u.owner : u \in users}, NoOwners)

\* recognize_users_and_bridges: without any users, those of the user directory.
Recognize(m, c, users) ==
    AddUserKeys(m, c, IF users = {} THEN LocalUsers(m, c) ELSE users)

-----------------------------------------------------------------------------
\* The process.

\* Client.__init__
StartClient ==
    LET m == [mem EXCEPT !.lists = NoLists]
        r == Recognize(m, NewContext, {})
    IN  /\ search = None /\ starts < MaxStarts
        /\ written >= mode.before
        /\ mem' = r.m /\ root' = r.c
        /\ broken' = Failed(r.m, r.c, "users", {}) \union Failed(r.m, r.c, "bridges", {})
        /\ cache' = <<>>
        /\ answer' = None
        /\ asked' = [q \in mode.requests |-> 0]
        /\ starts' = starts + 1
        /\ fresh' = TRUE
        /\ said' = {content[f] : f \in {g \in Files : content[g] # None /\ content[g].body.type = "user"}}
        /\ UNCHANGED <<mode, search, written, content, wrote>>

\* A frame takes its results from the cache, in any order, or from the sources.
Frame(key, sources) ==
    IF key \in DOMAIN cache
    THEN [key |-> key, pool |-> cache[key], seen |-> {}, todo |-> <<>>]
    ELSE [key |-> key, pool |-> {}, seen |-> {}, todo |-> sources]

FirstKey(req) == <<req.owner, None, req.parts[1]>>

\* Search.__init__, and the call of _resolve_all.
Ask(req) ==
    LET s == [req |-> req, containers |-> LoadAll(mem, root, "containers", {}),
              users |-> LoadAll(mem, root, "users", broken),
              bridges |-> LoadAll(mem, root, "bridges", broken),
              frames |-> <<>>, got |-> {}]
    IN  /\ starts > 0 /\ search = None /\ asked[req] < MaxAsked
        /\ search' = [s EXCEPT !.frames = <<Frame(FirstKey(req), ResolveFirst(s))>>]
        /\ broken' = Failed(mem, root, "users", broken) \union Failed(mem, root, "bridges", broken)
        /\ asked' = [asked EXCEPT ![req] = @ + 1]
        /\ answer' = None
        /\ UNCHANGED <<mode, mem, root, cache, starts>> /\ UNCHANGED storages

\* The innermost frame, the part of the path it resolves, and its next source.
Depth == Len(search.frames)
Top == search.frames[Depth]
Part == search.req.parts[Depth]
Busy == search # None /\ Depth > 0
At(kind) == Busy /\ Top.todo # <<>> /\ Head(Top.todo).kind = kind
Source == Head(Top.todo)

Become(sources) == search' = [search EXCEPT !.frames[Depth].todo = sources \o Tail(@)]

End(ok, found) ==
    /\ search' = None
    /\ answer' = [req |-> search.req, ok |-> ok, got |-> search.got \union found, fresh |-> fresh]

Keeps == UNCHANGED <<mode, cache, broken, asked, starts>> /\ UNCHANGED storages

\* Where the manifest is read, sub_client_with_key and the keys of the user added to it.
Yields(sources) == Become(sources) /\ UNCHANGED answer

-----------------------------------------------------------------------------
\* One action for each kind of source.

\* The hint is loaded by the root client, which learns the keys in it.
ReadHint ==
    /\ At("hint")
    /\ LET man == content[Source.file]
           v == VerifyAndLoadPubkeys(mem, root, man)
           user == Load(v.m, v.c, man, None, search.req.owner, FALSE)
       IN  IF man = None
           THEN End(FALSE, {}) /\ UNCHANGED <<mem, root>>
           ELSE IF ~v.ok
           THEN End(FALSE, {}) /\ UNCHANGED <<mem, root>>
           ELSE /\ mem' = v.m /\ root' = v.c
                /\ IF user = None \/ user.body.type # "user" THEN End(FALSE, {})
                   ELSE Yields(<<UserOf(user.body, None, None, search.req.owner, None, {}, TRUE)>>)
    /\ Keeps

\* The manifest a bridge points to, signed with the primary key of its user.
UserAt(b, m, c) ==
    Load(m, c, content[b.at], None, IF b.how = "dict" THEN b.to ELSE None, TRUE)

\* _bridge_step: a copy of the client learns the key of the user, then those of its manifest.
CrossBridge ==
    /\ At("bridge")
    /\ LET b == Source.bridge
           known == AddPubkeys(mem, Copy(Context(Source.ctx)), {b.to}, NoOwners)
           user == UserAt(b, known.m, known.c)
           all == Recognize(known.m, known.c, {user.body})
       IN  IF b.owner # Source.owner
           THEN End(FALSE, {}) /\ UNCHANGED mem
           ELSE IF ~Matches(Part, b.paths)
           THEN Yields(<<>>) /\ UNCHANGED mem
           ELSE IF (b.how = "relative" /\ Source.isLocal) \/ user = None
           THEN Yields(<<>>) /\ mem' = known.m
           ELSE IF user.body.type # "user"
           THEN Yields(<<>>) /\ mem' = known.m
           ELSE /\ mem' = all.m
                /\ Yields(<<UserOf(user.body, all.c, all.c, b.to, b, Source.via, FALSE)>>)
    /\ UNCHANGED root /\ Keeps

\* _user_step: the user itself, then the containers of its catalog.
EnterForest ==
    /\ At("user")
    /\ LET u == Source.user
           step == Step(u.owner, Source.ctx, u, Source.bridge, None, Source.via \union {u})
       IN  IF u.owner # Source.owner
           THEN End(FALSE, {})
           ELSE Yields((IF Source.first THEN <<>> ELSE <<Found(step)>>)
                       \o [i \in DOMAIN u.catalog |-> Entry(u.catalog[i], Source)])
    /\ UNCHANGED <<mem, root>> /\ Keeps

\* The container of an entry, loaded by the client that loaded the user.
CatalogContainer(entry, source) ==
    IF entry.how = "inline"
    THEN [man |-> [signer |-> source.user.owner, readers |-> {Everybody}, body |-> source.user],
          body |-> entry.body, ctx |-> source.ctx, open |-> TRUE]
    ELSE Load(mem, Context(source.uctx), content[entry.at], None, None, FALSE)

\* load_catalog skips what it cannot load, but a link whose file is missing ends the search.
ReadEntry ==
    /\ At("entry")
    /\ LET e == Source.entry
           of == Source.of
           con == CatalogContainer(e, of)
           step == Step(of.user.owner, of.ctx, of.user, of.bridge, con, of.via \union {of.user})
       IN  IF e.how = "link" /\ content[e.at] = None
           THEN End(FALSE, {})
           ELSE IF con = None
           THEN Yields(<<>>)
           ELSE IF con.body.type # "container" \/ con.body.owner # of.user.owner
           THEN Yields(<<>>)
           ELSE Yields(<<IF of.first THEN NextOf(step) ELSE Found(step)>>)
    /\ UNCHANGED <<mem, root>> /\ Keeps

\* _resolve_next, up to the storage.
LookInside ==
    /\ At("next")
    /\ LET s == Source.step
       IN  Yields(IF s.con = None THEN <<>>
                  ELSE ResolveLocal(search, Part, s.owner, s.via) \o <<ChildrenOf(s)>>)
    /\ UNCHANGED <<mem, root>> /\ Keeps

\* The manifests in a catalog that are looked at for a part.
ChildFiles(loc, part) ==
    Ordered({f \in Files : /\ Loc[f] = loc
                           /\ content[f] # None
                           /\ Name[f] = IF part = AnyPart THEN "uuid" ELSE part})

\* A container without a storage that can be read ends the search.
ListChildren ==
    /\ At("children")
    /\ LET s == Source.step
           loc == s.con.body.store.loc
           files == ChildFiles(loc, Part)
       IN  IF ~s.con.open THEN End(FALSE, {})
           ELSE IF loc \notin CatalogLocs THEN Yields(<<>>)
           ELSE Yields([i \in DOMAIN files |-> Child(files[i], s)])
    /\ UNCHANGED <<mem, root>> /\ Keeps

\* load_subcontainer_object: only the owner of the container may own what is in it,
\* and needs no signature if the storage is trusted.
LoadChild(s, man) ==
    LET owner == s.con.body.owner
    IN  Load(mem, Context(s.ctx), man,
             IF s.con.body.store.loc \in TrustedLocs THEN owner ELSE None, owner, FALSE)

ContainerStep(s, con) ==
    IF con.body.owner = s.owner /\ Matches(Part, con.body.paths)
    THEN <<Found(Step(s.owner, s.ctx, None, None, con, s.via))>>
    ELSE <<>>

ReadChild ==
    /\ At("child")
    /\ LET s == Source.step
           man == content[Source.file]
           obj == LoadChild(s, man)
       IN  IF man = None THEN End(FALSE, {})
           ELSE Yields(IF obj = None THEN <<>>
                       ELSE CASE obj.body.type = "bridge" ->
                                    <<BridgeOf(obj.body, s.ctx, s.owner, FALSE, s.via)>>
                              [] obj.body.type = "container" -> ContainerStep(s, obj)
                              [] OTHER -> <<>>)
    /\ UNCHANGED <<mem, root>> /\ Keeps

-----------------------------------------------------------------------------
\* What is done with a result.

\* load_containers_from: bridges stand for the forests they lead to, containers of
\* a catalog are left out, and the client recognizes the users on the way.
Takes(s) == IF s.con = None THEN s.bridge # None ELSE s.user = None

\* read_file stops at the first container that has the file.
HasFile(s) == s.con # None /\ s.con.open /\ s.con.body.store.loc \in DataLocs

Result(s) == IF s.con = None THEN [man |-> None, body |-> s.bridge]
             ELSE [man |-> s.con.man, body |-> s.con.body]

RecognizeFromSearch(s) == Recognize(mem, root, s.via)

Deliver(s, frames) ==
    CASE search.req.op = "load" /\ Takes(s) ->
            LET r == RecognizeFromSearch(s)
            IN  /\ search' = [search EXCEPT !.frames = frames,
                                            !.got = @ \union {Result(s)}]
                /\ mem' = r.m /\ root' = r.c /\ UNCHANGED answer
      [] search.req.op = "file" /\ HasFile(s) ->
            End(TRUE, {Result(s)}) /\ UNCHANGED <<mem, root>>
      [] OTHER ->
            /\ search' = [search EXCEPT !.frames = frames]
            /\ UNCHANGED <<mem, root, answer>>

\* A step that the frame has not yielded before is searched for the next part, or is a result.
Emit(s, frame) ==
    LET seen == \E t \in frame.seen : StepKey(t) = StepKey(s)
        frames == [search.frames EXCEPT ![Depth] =
                      [frame EXCEPT !.seen = IF seen THEN @ ELSE @ \union {s}]]
        deeper == <<None, StepKey(s), search.req.parts[Depth + 1]>>
    IN  IF seen
        THEN search' = [search EXCEPT !.frames = frames] /\ UNCHANGED <<mem, root, answer>>
        ELSE IF Depth = Len(search.req.parts)
        THEN Deliver(s, frames)
        ELSE /\ search' = [search EXCEPT !.frames = Append(frames, Frame(deeper, <<NextOf(s)>>))]
             /\ UNCHANGED <<mem, root, answer>>

EmitFound ==
    /\ At("step")
    /\ Emit(Source.step, [Top EXCEPT !.todo = Tail(@)])
    /\ Keeps

EmitCached ==
    /\ Busy
    /\ \E s \in Top.pool : Emit(s, [Top EXCEPT !.pool = @ \ {s}])
    /\ Keeps

\* The end of a generator.
Exhaust ==
    /\ Busy /\ Top.todo = <<>> /\ Top.pool = {}
    /\ cache' = [key \in DOMAIN cache \union {Top.key} |->
                     IF key = Top.key THEN Top.seen ELSE cache[key]]
    /\ IF Depth = 1 THEN End(TRUE, {})
       ELSE search' = [search EXCEPT !.frames = Front(@)] /\ UNCHANGED answer
    /\ UNCHANGED <<mode, mem, root, broken, asked, starts>> /\ UNCHANGED storages

-----------------------------------------------------------------------------
\* Authors.

\* An author's process knows the keys of its users' manifests.
Author(by) ==
    AddUserKeys([lists |-> NoLists, pub |-> {}, sec |-> by.secret], NewContext, Range(by.users))

\* Session.dump_object and dump_user; the keys of the user that is written are added first.
Dump(m, c, fields) ==
    IF fields.type = "user"
    THEN LET own == AddUserKeys(m, Copy(c), {fields}) IN EncryptAndSign(own.m, own.c, fields)
    ELSE EncryptAndSign(m, c, fields)

\* What may be written: a manifest signed and encrypted by the author, one without a
\* signature, or the one that is there with another access list, as far as the
\* author can load it.
Written(w) ==
    LET a == Author(w.by)
        old == Load(a.m, a.c, content[w.file], None, None, FALSE)
    IN  CASE w.do = "write" -> Dump(a.m, a.c, w.body)
          [] w.do = "unsigned" -> {[signer |-> None, readers |-> {Everybody}, body |-> w.body]}
          [] w.do = "grant" ->
                IF old = None THEN {} ELSE Dump(a.m, a.c, [old.body EXCEPT !.access = w.access])
          [] w.do = "remove" -> {None}

\* Session.dump_object or dump_user, and the manifest is saved; or it is deleted.
Save ==
    /\ written < Len(mode.script)
    /\ starts = 0 => written < mode.before
    /\ LET w == mode.script[written + 1]
       IN  /\ \E man \in Written(w) :
                 /\ content' = [content EXCEPT ![w.file] = man]
                 /\ said' = said \union {x \in {man} : x # None /\ x.body.type = "user"}
           /\ wrote' = [wrote EXCEPT ![w.file] = written + 1]
    /\ written' = written + 1
    /\ fresh' = FALSE
    /\ UNCHANGED mode /\ UNCHANGED reader

Init ==
    /\ mode \in Modes
    /\ written = 0
    /\ content = [f \in Files |-> None]
    /\ wrote = [f \in Files |-> 0]
    /\ mem = [lists |-> NoLists, pub |-> mode.public, sec |-> mode.secret]
    /\ root = NewContext
    /\ cache = <<>> /\ broken = {} /\ search = None /\ answer = None
    /\ asked = [q \in mode.requests |-> 0]
    /\ starts = 0 /\ fresh = TRUE /\ said = {}

Advance ==
    \/ ReadHint
    \/ CrossBridge
    \/ EnterForest
    \/ ReadEntry
    \/ LookInside
    \/ ListChildren
    \/ ReadChild
    \/ EmitFound
    \/ EmitCached
    \/ Exhaust

Next ==
    \/ StartClient
    \/ \E req \in mode.requests : Ask(req)
    \/ Advance
    \/ Save

Spec == Init /\ [][Next]_vars

-----------------------------------------------------------------------------
\* What a path means, without generators, contexts and caches.

UserManifests(mans) == {u \in mans : u.body.type = "user" /\ u.signer = u.body.owner}
Contents == {content[f] : f \in {g \in Files : content[g] # None}}

\* The keys that sign and read for an owner, by the user manifests in a set.
KeysOf(owner, mans) ==
    {owner} \union UNION {u.body.pubkeys : u \in {v \in UserManifests(mans) : v.body.owner = owner}}

CanRead(readers) == Everybody \in readers \/ readers \intersect mode.secret # {}

\* A manifest of the given type that a reader who knows everybody's keys would load.
Holds(f, type) ==
    /\ content[f] # None /\ content[f].body.type = type
    /\ IF content[f].signer = None THEN Loc[f] \in TrustedLocs
       ELSE content[f].signer \in KeysOf(content[f].body.owner, Contents)
    /\ CanRead(content[f].readers)

Node(owner, con, bridge, isCatalog) ==
    [owner |-> owner, con |-> con, bridge |-> bridge, isCatalog |-> isCatalog]

CatalogNodes(u) ==
    {Node(u.owner, c, None, TRUE) :
        c \in {e.body : e \in {x \in ToSet(u.catalog) : x.how = "inline"}}
              \union {content[e.at].body : e \in {x \in ToSet(u.catalog) :
                          /\ x.how # "inline" /\ Holds(x.at, "container")
                          /\ content[x.at].body.owner = u.owner}}}

ForestNodes(b, isLocal) ==
    IF /\ ~(isLocal /\ b.how = "relative")
       /\ Holds(b.at, "user") /\ content[b.at].body.owner = b.to
    THEN {Node(b.to, None, b, FALSE)} \union CatalogNodes(content[b.at].body)
    ELSE {}

OfFile(f, owner, part) ==
    IF content[f] = None \/ ~Holds(f, content[f].body.type) THEN {}
    ELSE IF content[f].body.type = "user" \/ content[f].body.owner # owner THEN {}
    ELSE IF ~Matches(part, content[f].body.paths) THEN {}
    ELSE IF content[f].body.type = "bridge"
    THEN ForestNodes(content[f].body, Loc[f] = "bridges")
    ELSE {Node(owner, content[f].body, None, FALSE)}

LocalNodes(owner, part) ==
    UNION {OfFile(f, owner, part) : f \in {g \in Files : Loc[g] \in {"containers", "bridges"}}}

Inside(n, part) ==
    IF n.con = None THEN {}
    ELSE LocalNodes(n.owner, part)
         \union IF n.con.store.loc \notin CatalogLocs THEN {}
                ELSE UNION {OfFile(f, n.owner, part) :
                        f \in {g \in Files : /\ Loc[g] = n.con.store.loc
                                             /\ Name[g] = IF part = AnyPart THEN "uuid" ELSE part}}

Denotes(req) ==
    LET users == {f \in Files : /\ Loc[f] = "users" \/ f = req.hint
                                /\ Holds(f, "user") /\ content[f].body.owner = req.owner}
        first == LocalNodes(req.owner, req.parts[1])
                 \union UNION {Inside(n, req.parts[1]) :
                            n \in UNION {CatalogNodes(content[f].body) : f \in users}}
        last == FoldLeft(LAMBDA nodes, part : UNION {Inside(n, part) : n \in nodes},
                         first, Tail(req.parts))
    IN  IF req.op = "load"
        THEN {IF n.con = None THEN n.bridge ELSE n.con : n \in {x \in last : ~x.isCatalog}}
        ELSE {n.con : n \in {x \in last : /\ x.con # None /\ x.con.store.loc \in DataLocs
                                          /\ CanRead(x.con.store.readers)}}

-----------------------------------------------------------------------------
\* Type correctness: what is cached for a part of a path has that path, and the
\* owners of a key are found in the memory of the process.
TypeOK ==
    /\ root.keys \subseteq mem.pub
    /\ \A k \in Keys : root.owns[k] \in 0..Len(mem.lists[k])
    /\ \A key \in DOMAIN cache : \A s \in cache[key] :
           /\ s.con # None \/ s.bridge # None
           /\ s.con # None /\ s.user = None => Matches(key[3], s.con.body.paths)
    /\ search # None => /\ Depth \in 1..Len(search.req.parts)
                        /\ root.keys \union {search.req.owner} \subseteq Keys

\* Search.resolve_raw, _resolve_cache: if nobody wrote since the process was started, a
\* search ends without an error and finds what the path denotes, whatever the
\* process searched for before; reading a file takes it from one of the containers.
Exact ==
    answer # None =>
        LET found == {g.body : g \in answer.got}
            right == Denotes(answer.req)
        IN  answer.fresh /\ fresh =>
                /\ answer.ok
                /\ IF answer.req.op = "load" THEN found = right
                   ELSE found \subseteq right /\ (found = {} <=> right = {})

\* Manifest.from_bytes, _verify_owner: however the storages change during a search, a
\* container that is found was signed with a key that a user manifest of its owner
\* named since the process was started.
Authentic ==
    answer # None =>
        \A g \in answer.got :
            g.man # None => /\ g.man.signer # None =>
                                   g.man.signer \in KeysOf(g.man.body.owner, said)
                            /\ g.body.type = "container"

\* The keys of the owner and of those in an access list, as far as an author knew them.
Named(by, owner, list) ==
    IF Everybody \in list THEN {Everybody}
    ELSE UNION {KeysOf(u, {[signer |-> x.owner, body |-> x] : x \in Range(by.users)}) :
                    u \in list \union {owner}}

\* Manifest.encrypt: a container can be read with the keys, as far as its author knew them,
\* of its owner and of the users that its access list names, and with no others; a
\* storage with an access list of its own can be read as one of the authors closed it
\* since the container was written, also after others let more users read the container.
ReadersAreNamed ==
    \A f \in Files :
        content[f] # None /\ content[f].signer # None /\ content[f].body.type = "container" =>
            LET con == content[f].body
                by(i) == mode.script[i].by
                writes == {i \in 1..wrote[f] :
                              /\ mode.script[i].file = f
                              /\ mode.script[i].do \in {"write", "grant"}
                              /\ \A j \in (i + 1)..wrote[f] :
                                     mode.script[j].file = f => mode.script[j].do = "grant"}
            IN  /\ content[f].readers = Named(by(wrote[f]), con.owner, con.access)
                /\ con.store.access # None =>
                       \E i \in writes :
                           con.store.readers = Named(by(i), con.owner, con.store.access)
=============================================================================
