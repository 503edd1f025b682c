---------------------------- MODULE RemoteStorage ----------------------------
(* A mounted storage that lives elsewhere and is looked at through a cache:      *)
(* the mixins of storage_backends/cached.py under the plugins s3, dropbox and    *)
(* webdav and under local-cached and local-dir-cached, their buffered files      *)
(* (storage_backends/buffered.py), and the hashes of files that the base class   *)
(* keeps by token, in memory and in the hash database.                           *)
(*                                                                               *)
(* One client makes one call at a time (a rename and get_hash take several       *)
(* steps), with files open in between; other clients of the same account change  *)
(* the storage between any two steps.  Time advances between calls only: a call  *)
(* is short against the timeout of the cache.  The scenario of a behaviour says  *)
(* which backend it is, which calls are made and what the others do.             *)
(*                                                                               *)
(* A file has contents, a sequence of bytes; its sha256 is its contents.  The    *)
(* ETag of S3 and the content hash of Dropbox are functions of the contents      *)
(* and stand for them.  A directory and a file never have one name (in S3 they   *)
(* could), and calls that fail before they changed anything are no steps.        *)
EXTENDS Integers, Sequences, FiniteSets, SequencesExt, TLC

CONSTANTS
    Modes,      \* set of scenarios, records; their fields are:
                \*   kind       "s3", "dropbox", "webdav", "local-cached", "local-dir-cached"
                \*   index      does the S3 storage keep index pages (with-index)
                \*   location   the path of the storage in the account
                \*   trees      initial contents of the account
                \*   paths      the paths the client uses
                \*   ops        the calls it makes, bounded by maxOps
                \*   others     what others do; otherData, one contents for each change
                \*   exclusive  is an open file left alone by the calls on paths
                \*   faults     what may fail: listings ("listing", "permission"), and
                \*              single requests of a rename ("api")
                \*   restarts   may the client be started again
    Handles,    \* open files at a time, 1..n
    Timeout,    \* of the cache
    Forever,    \* the timeout of bulk writing
    MaxClock, MaxSize,  \* bounds of time and of the size of a file
    None

ASSUME TimesAssumption == Timeout \in Nat /\ Forever > MaxClock

VARIABLES
    mode,       \* the scenario
    remote,     \* the account: paths that exist -> kind, contents, time of last change
    clock,
    cache,      \* getattr_cache, readdir_cache, the expiry times, cache_timeout
    handles,    \* the open files
    open_files, \* S3: path -> handle registered as open for writing
    hashes,     \* hash_cache and the hash database: path -> hash and token
    call,       \* a call that takes several steps, or None
    used, changes,  \* calls of the client and changes by others so far
    did,        \* history: what the last step was, with the answer of a query
    past        \* history: states of the storage that an answer may still show

vars == <<mode, remote, clock, cache, handles, open_files, hashes, call,
          used, changes, did, past>>

Kind == mode.kind
Root == <<>>
Parent(p) == Front(p)
Child(d, n) == Append(d, n)

(* The caches of local-cached and webdav hold the whole storage at once. *)
WholeTree == Kind \in {"local-cached", "webdav"}
LocalKind == Kind \in {"local-cached", "local-dir-cached"}

--------------------------------------------------------------------------------
(* The account.                                                                  *)

(* Dropbox: root / path; the other backends prefix keys and URLs alike. *)
InAccount(p) == mode.location \o p

File(data) == [kind |-> "file", data |-> data, time |-> clock]
Dir == [kind |-> "dir", data |-> <<>>, time |-> clock]

(* Paths of the storage; in S3 a key implies the directories above it. *)
PathsIn(r) ==
    LET n == Len(mode.location)
        here == {SubSeq(a, n + 1, Len(a)) :
                 a \in {b \in DOMAIN r : IsStrictPrefix(mode.location, b)}}
    IN IF Kind = "s3"
       THEN UNION {{SubSeq(p, 1, i) : i \in 1..Len(p)} : p \in here}
       ELSE here

(* What the storage holds, as far as its clients can tell. *)
Snapshot(r) ==
    [p \in PathsIn(r) |->
        IF InAccount(p) \in DOMAIN r
        THEN [kind |-> r[InAccount(p)].kind, data |-> r[InAccount(p)].data]
        ELSE [kind |-> "dir", data |-> <<>>]]

Now == Snapshot(remote)
HasFile(s, p) == p \in DOMAIN s /\ s[p].kind = "file"
HasDir(s, p) == p = Root \/ (p \in DOMAIN s /\ s[p].kind = "dir")
NamesIn(s, d) == {Last(p) : p \in {q \in DOMAIN s : Len(q) = Len(d) + 1 /\ IsPrefix(d, q)}}

Without(f, S) == [x \in DOMAIN f \ S |-> f[x]]
Below(r, a) == {b \in DOMAIN r : IsPrefix(a, b)}

(* PUT of an object: creates and replaces.  Dropbox makes the directories above  *)
(* it, S3 needs none, the others must have the parent.                           *)
Ancestors(p) == {SubSeq(p, 1, i) : i \in 1..Len(p) - 1}
NoFileAbove(p) == \A d \in Ancestors(p) : ~HasFile(Now, d)
CanPut(p) == /\ ~HasDir(Now, p) /\ NoFileAbove(p)
             /\ Kind \in {"s3", "dropbox"} \/ HasDir(Now, Parent(p))
Put(r, p, data) ==
    LET above == IF Kind = "dropbox"
                 THEN {InAccount(d) : d \in Ancestors(p)} ELSE {}
    IN (InAccount(p) :> File(data)) @@ r @@ [a \in above |-> Dir]

WithDirs(p) == remote @@ [a \in {InAccount(d) : d \in Ancestors(p) \cup {p}} |-> Dir]

--------------------------------------------------------------------------------
(* Attributes.  obj names the open files that share the attribute object.        *)

Attr(kind, size, token) == [kind |-> kind, size |-> size, token |-> token, obj |-> {}]
DirAttr == Attr("dir", 0, None)

S3Stat(data) == Attr("file", Len(data), data)
DropboxAttr(data) == Attr("file", Len(data), data)
PlainAttr(data) == Attr("file", Len(data), None)

Stat(node) == IF node.kind = "dir" THEN DirAttr
              ELSE IF Kind = "s3" THEN S3Stat(node.data)
              ELSE IF Kind = "dropbox" THEN DropboxAttr(node.data)
              ELSE PlainAttr(node.data)

--------------------------------------------------------------------------------
(* The cache of a whole storage.                                                 *)

NoEntries == [p \in {} |-> None]
Cleared(c) == [c EXCEPT !.attrs = NoEntries, !.lists = NoEntries, !.expiry = NoEntries]

(* Directories are listed although info_all may leave them out. *)
TreeRefresh(c, s) ==
    [c EXCEPT !.attrs = (Root :> DirAttr) @@ [p \in DOMAIN s |-> Stat(s[p])],
              !.lists = [d \in {p \in DOMAIN s \cup {Root} : HasDir(s, p)} |-> NamesIn(s, d)],
              !.expiry = Root :> clock + c.timeout]

TreeIsFresh(c) == Root \in DOMAIN c.expiry /\ c.expiry[Root] >= clock

(* An exception of info_all goes to the caller, and the next call tries again. *)
TreeFails(c) == [c EXCEPT !.attrs = NoEntries, !.lists = Root :> {}]

TreeUpdate(c, up) ==
    IF TreeIsFresh(c) THEN c ELSE IF up = "up" THEN TreeRefresh(c, Now) ELSE TreeFails(c)

TreeGetattr(c, p) ==
    IF p \in DOMAIN c.attrs THEN c.attrs[p]
    ELSE IF p \in DOMAIN c.lists THEN DirAttr ELSE None

--------------------------------------------------------------------------------
(* The cache of single directories.                                              *)

Invalidated(c, d) ==
    [c EXCEPT !.expiry = Without(@, {d}), !.lists = Without(@, {d}),
              !.attrs = Without(@, {p \in DOMAIN @ : p # Root /\ Parent(p) = d})]

(* info_dir: Dropbox raises an ApiError, which is no OSError, for a path that is *)
(* no directory; a prefix that no key has lists as empty in S3; scandir raises   *)
(* an OSError, as a connection that breaks does in any backend.  A directory     *)
(* that may not be read ("denied") is a PermissionError, which goes to the       *)
(* caller; any other OSError ("down") makes the directory one that does not      *)
(* exist.                                                                        *)
Lists(d) == Kind = "s3" \/ HasDir(Now, d)
Raises(d, up) == up = "denied" \/ (up = "up" /\ Kind = "dropbox" /\ ~Lists(d))

DirRefresh(c, d, s, up) ==
    LET names == NamesIn(s, d)
        found == [p \in {Child(d, n) : n \in names} |-> Stat(s[p])]
    IN IF up = "up" /\ Lists(d)
       THEN [c EXCEPT !.attrs = found @@ @, !.lists = (d :> names) @@ @,
                      !.expiry = (d :> clock + c.timeout) @@ @]
       ELSE IF Raises(d, up) THEN c
       ELSE [c EXCEPT !.expiry = (d :> clock + c.timeout) @@ @]

DirIsFresh(c, d) == d \in DOMAIN c.expiry /\ c.expiry[d] >= clock

DirUpdate(c, d, s, up) ==
    IF DirIsFresh(c, d) THEN c
    ELSE DirRefresh(IF d \in DOMAIN c.expiry THEN Invalidated(c, d) ELSE c, d, s, up)

DirGetattr(c, p) ==
    IF p = Root THEN DirAttr ELSE IF p \in DOMAIN c.attrs THEN c.attrs[p] ELSE None

(* Mutant: a name stays in the listing of its directory. *)
UpdateCacheKeepsName(c, p, a) ==
    IF a = None
    THEN [c EXCEPT !.attrs = Without(@, {p}), !.lists = Without(@, {p})]
    ELSE [c EXCEPT !.attrs = (p :> a) @@ @,
                   !.lists = (Parent(p) :> (IF Parent(p) \in DOMAIN @ THEN @[Parent(p)] ELSE {})
                                           \cup {Last(p)}) @@ @]

(* update_cache: one entry, instead of the whole cache. *)
UpdateCache(c, p, a) ==
    LET lists(d) == IF d \in DOMAIN c.lists THEN c.lists[d] ELSE {}
    IN IF a = None
       THEN [c EXCEPT !.attrs = Without(@, {p}),
                      !.lists = [d \in DOMAIN @ \ {p} |->
                                    IF d = Parent(p) THEN @[d] \ {Last(p)} ELSE @[d]]]
       ELSE [c EXCEPT !.attrs = (p :> a) @@ @,
                      !.lists = (Parent(p) :> lists(Parent(p)) \cup {Last(p)})
                                @@ (IF a.kind = "dir" THEN p :> lists(p) ELSE NoEntries) @@ @]

--------------------------------------------------------------------------------
(* Either cache.                                                                 *)

Updated(c, d, up) == IF WholeTree THEN TreeUpdate(c, up) ELSE DirUpdate(c, d, Now, up)
ForPath(c, p) == IF p = Root /\ ~WholeTree THEN c
                 ELSE Updated(c, IF p = Root THEN Root ELSE Parent(p), "up")

(* What comes of the listing that a query may need, and whether it raises. *)
Listings == {"up"} \cup (IF "listing" \in mode.faults THEN {"down"} ELSE {})
                  \cup (IF "permission" \in mode.faults THEN {"denied"} ELSE {})
QueryRaises(c, d, up) ==
    IF WholeTree THEN ~TreeIsFresh(c) /\ up # "up" ELSE ~DirIsFresh(c, d) /\ Raises(d, up)
Getattr(c, p) == IF WholeTree THEN TreeGetattr(c, p) ELSE DirGetattr(c, p)
Readdir(c, d) == IF d \in DOMAIN c.lists THEN c.lists[d] ELSE None

(* Handle h changes its attribute object, wherever it is shared. *)
Shared(c, h, size) ==
    [c EXCEPT !.attrs = [p \in DOMAIN @ |->
        IF h \in @[p].obj THEN [@[p] EXCEPT !.size = size] ELSE @[p]]]

(* The object outlives its handle, but nobody changes it any more. *)
Unshared(c, h) ==
    [c EXCEPT !.attrs = [p \in DOMAIN @ |-> [@[p] EXCEPT !.obj = @ \ {h}]]]

--------------------------------------------------------------------------------
(* Steps of the client.                                                          *)

Did(op, names, value) == [op |-> op, names |-> names, value |-> value]

Own(op) == /\ call = None /\ op \in mode.ops /\ used < mode.maxOps
           /\ used' = used + 1
           /\ UNCHANGED <<mode, clock, changes>>

Ask(op) == /\ call = None /\ op \in mode.ops
           /\ UNCHANGED <<mode, clock, changes, used, remote, past, handles,
                          open_files, hashes, call>>

(* A change of the client's own: it must not be shown an older state any more. *)
Changes(r) == /\ remote' = r
              /\ past' = IF r = remote THEN past ELSE {}

Free(p) == mode.exclusive => \A h \in Handles : handles[h] # None => ~IsPrefix(p, handles[h].path)

(* Handles are taken in order. *)
Unused(h) == handles[h] = None /\ \A g \in 1..h - 1 : handles[g] # None

(* getattr(); nothing is listed for the root directory's attributes. *)
GetAttr == \E p \in mode.paths \cup {Root}, up \in Listings :
    LET d == IF p = Root THEN Root ELSE Parent(p)
        rooted == p = Root /\ ~WholeTree
        c == IF rooted THEN cache ELSE Updated(cache, d, up)
    IN /\ Ask("getattr")
       /\ cache' = c
       /\ did' = IF ~rooted /\ QueryRaises(cache, d, up) THEN None
                 ELSE Did("getattr", {p}, Getattr(c, p))

(* readdir() *)
ReadDir == \E d \in mode.paths \cup {Root}, up \in Listings :
    LET c == Updated(cache, d, up)
    IN /\ Ask("readdir")
       /\ cache' = c
       /\ did' = IF QueryRaises(cache, d, up) THEN None
                 ELSE Did("readdir", {d}, Readdir(c, d))

--------------------------------------------------------------------------------
(* Open files (buffered.py).                                                     *)

FullFile(p, write, attr) ==
    [path |-> p, sort |-> "full", write |-> write, attr |-> attr, of |-> None,
     loaded |-> attr.size = 0, dirty |-> FALSE, buf |-> <<>>]
PagedFile(p, attr) ==
    [path |-> p, sort |-> "paged", write |-> FALSE, attr |-> attr, of |-> None,
     loaded |-> FALSE, dirty |-> FALSE, buf |-> <<>>]
ViewOf(p, h) ==
    [path |-> p, sort |-> "view", write |-> FALSE, attr |-> handles[h].attr, of |-> h,
     loaded |-> FALSE, dirty |-> FALSE, buf |-> <<>>]

CanLoad(f) == f.loaded \/ HasFile(Now, f.path)
Loaded(f) == [f EXCEPT !.loaded = TRUE, !.buf = IF f.loaded THEN @ ELSE Now[f.path].data]
Sized(f) == [Loaded(f) EXCEPT !.attr.size = Len(Loaded(f).buf)]

FirstBytes(data, n) == SubSeq(data, 1, IF n < Len(data) THEN n ELSE Len(data))

(* A slice assignment of one byte (the client writes 1): beyond the end it appends. *)
Spliced(buf, offset) ==
    FirstBytes(buf, offset) \o <<1>> \o SubSeq(buf, offset + 2, Len(buf))

(* The handle's object is put into the cache, or is there already. *)
Announced(c, h, f) ==
    IF Kind = "s3" THEN UpdateCache(c, f.path, [f.attr EXCEPT !.obj = {h}])
    ELSE Shared(c, h, f.attr.size)

FileWrite == \E h \in Handles, offset \in 0..MaxSize - 1 :
    LET f == handles[h] IN
    /\ f # None /\ f.write /\ CanLoad(f)
    /\ Own("write")
    /\ LET old == Loaded(f)
           g == [old EXCEPT !.buf = Spliced(@, offset), !.dirty = TRUE,
                            !.attr.size = Len(Spliced(old.buf, offset))]
       IN /\ Len(g.buf) <= MaxSize
          /\ handles' = [handles EXCEPT ![h] = g]
          /\ cache' = IF Len(g.buf) = Len(old.buf) THEN cache ELSE Announced(cache, h, g)
    /\ did' = Did("write", {f.path}, None)
    /\ UNCHANGED <<remote, past, open_files, hashes, call>>

FileFtruncate == \E h \in Handles, length \in 0..MaxSize :
    LET f == handles[h] IN
    /\ f # None /\ f.write
    /\ length > 0 => CanLoad(f)
    /\ Own("ftruncate")
    /\ LET old == IF length > 0 THEN Loaded(f) ELSE [f EXCEPT !.loaded = TRUE]
           cut == length < Len(old.buf) \/ length = 0
           g == [old EXCEPT !.buf = FirstBytes(@, length), !.dirty = TRUE, !.attr.size = length]
       IN /\ handles' = [handles EXCEPT ![h] = IF cut THEN g ELSE old]
          /\ cache' = IF cut THEN Announced(cache, h, g) ELSE cache
    /\ did' = Did("ftruncate", {f.path}, None)
    /\ UNCHANGED <<remote, past, open_files, hashes, call>>

(* read() and fgetattr() load the file; the latter corrects its size. *)
FileRead == \E h \in Handles :
    LET f == handles[h] IN
    /\ f # None /\ f.sort = "full" /\ ~f.loaded /\ CanLoad(f)
    /\ Own("read")
    /\ handles' = [handles EXCEPT ![h] = Loaded(f)]
    /\ did' = Did("read", {f.path}, None)
    /\ UNCHANGED <<remote, past, cache, open_files, hashes, call>>

FileFgetattr == \E h \in Handles :
    LET f == handles[h] IN
    /\ f # None /\ f.sort = "full" /\ CanLoad(f)
    /\ Own("fgetattr")
    /\ handles' = [handles EXCEPT ![h] = Sized(f)]
    /\ cache' = Shared(cache, h, Sized(f).attr.size)
    /\ did' = Did("fgetattr", {f.path}, None)
    /\ UNCHANGED <<remote, past, open_files, hashes, call>>

(* What is dirty is uploaded as a whole, and the cache is cleared. *)
FileFlush == \E h \in Handles :
    LET f == handles[h] IN
    /\ f # None /\ f.dirty /\ Kind # "s3" /\ CanPut(f.path)
    /\ Own("flush")
    /\ Changes(Put(remote, f.path, f.buf))
    /\ handles' = [handles EXCEPT ![h].dirty = FALSE]
    /\ cache' = Cleared(cache)
    /\ did' = Did("flush", {f.path}, None)
    /\ UNCHANGED <<open_files, hashes, call>>

(* Readers of an S3 file that is released go on with its object. *)
Dropped(h) ==
    [g \in Handles |->
        IF g = h THEN None
        ELSE IF handles[g] # None /\ handles[g].of = h
             THEN [handles[g] EXCEPT !.of = None, !.attr = handles[h].attr]
             ELSE handles[g]]

FileRelease == \E h \in Handles :
    LET f == handles[h] IN
    /\ f # None /\ Kind # "s3"
    /\ f.dirty => CanPut(f.path)
    /\ Own("release")
    /\ Changes(IF f.dirty THEN Put(remote, f.path, f.buf) ELSE remote)
    /\ handles' = Dropped(h)
    /\ cache' = IF f.dirty THEN Cleared(cache) ELSE Unshared(cache, h)
    /\ did' = Did("release", {f.path}, None)
    /\ UNCHANGED <<open_files, hashes, call>>

--------------------------------------------------------------------------------
(* local-cached and local-dir-cached.                                            *)

(* open() and create() hand the cached attribute object to the file. *)
OpensCached(h, p, write, c) ==
    LET attr == Getattr(c, p)
    IN /\ attr # None /\ attr.kind = "file"
       /\ handles' = [handles EXCEPT ![h] = IF write THEN FullFile(p, TRUE, attr)
                                            ELSE PagedFile(p, attr)]
       /\ cache' = IF write THEN [c EXCEPT !.attrs[p].obj = @ \cup {h}] ELSE c

LocalOpen == \E h \in Handles, p \in mode.paths, write \in BOOLEAN :
    /\ LocalKind /\ Unused(h) /\ Free(p)
    /\ Own("open")
    /\ OpensCached(h, p, write, ForPath(cache, p))
    /\ did' = Did("open", {p}, None)
    /\ UNCHANGED <<remote, past, open_files, hashes, call>>

LocalCreate == \E h \in Handles, p \in mode.paths :
    /\ LocalKind /\ Unused(h)
    /\ p \notin DOMAIN Now /\ HasDir(Now, Parent(p))
    /\ Own("create")
    /\ LET r == Put(remote, p, <<>>)
           c == IF WholeTree THEN TreeRefresh(Cleared(cache), Snapshot(r))
                ELSE DirRefresh(Cleared(cache), Parent(p), Snapshot(r), "up")
       IN Changes(r) /\ OpensCached(h, p, TRUE, c)
    /\ did' = Did("create", {p}, None)
    /\ UNCHANGED <<open_files, hashes, call>>

(* The calls that end with clear_cache() and leave open files alone. *)
ClearsCache(op, names) ==
    /\ Own(op)
    /\ cache' = Cleared(cache)
    /\ did' = Did(op, names, None)
    /\ UNCHANGED <<handles, open_files, hashes, call>>

Extended(data, length) ==
    FirstBytes(data, length) \o [i \in 1..(IF length > Len(data) THEN length - Len(data) ELSE 0) |-> 0]

LocalTruncate == \E p \in mode.paths, length \in 0..MaxSize :
    /\ LocalKind /\ HasFile(Now, p) /\ Free(p)
    /\ Changes(Put(remote, p, Extended(Now[p].data, length)))
    /\ ClearsCache("truncate", {p})

LocalUnlink == \E p \in mode.paths :
    /\ LocalKind /\ HasFile(Now, p) /\ Free(p)
    /\ Changes(Without(remote, {InAccount(p)}))
    /\ ClearsCache("unlink", {p})

LocalMkdir == \E p \in mode.paths :
    /\ LocalKind /\ p \notin DOMAIN Now /\ HasDir(Now, Parent(p))
    /\ Changes((InAccount(p) :> Dir) @@ remote)
    /\ ClearsCache("mkdir", {p})

LocalRmdir == \E p \in mode.paths :
    /\ LocalKind /\ p \in DOMAIN Now /\ HasDir(Now, p) /\ NamesIn(Now, p) = {}
    /\ Changes(Without(remote, {InAccount(p)}))
    /\ ClearsCache("rmdir", {p})

(* Everything at and below path a, moved to path b of the account. *)
Moved(r, a, b) ==
    LET new == {b \o SubSeq(m, Len(a) + 1, Len(m)) : m \in Below(r, a)}
    IN [x \in new |-> r[a \o SubSeq(x, Len(b) + 1, Len(x))]]
       @@ Without(r, Below(r, a) \cup Below(r, b))

LocalRename == \E p, q \in mode.paths :
    /\ LocalKind /\ p # q /\ p \in DOMAIN Now /\ HasDir(Now, Parent(q))
    /\ ~IsPrefix(p, q) /\ Free(p)
    /\ q \in DOMAIN Now => /\ Now[p].kind = Now[q].kind
                           /\ NamesIn(Now, q) = {}
    /\ Changes(Moved(remote, InAccount(p), InAccount(q)))
    /\ ClearsCache("rename", {p, q})

(* Mutant: a change within the resolution of the file times is not noticed. *)
LocalTokenAlways(p) == IF HasFile(Now, p) THEN remote[InAccount(p)].time ELSE None

(* The token is the modification time, unless that is so recent that another     *)
(* change could have the same.                                                   *)
LocalToken(p) ==
    IF HasFile(Now, p) /\ remote[InAccount(p)].time < clock
    THEN remote[InAccount(p)].time ELSE None

--------------------------------------------------------------------------------
(* WebDAV.                                                                       *)

WebdavOpen == \E h \in Handles, p \in mode.paths, write \in BOOLEAN :
    /\ Kind = "webdav" /\ Unused(h) /\ Free(p)
    /\ Own("open")
    /\ OpensCached(h, p, write, ForPath(cache, p))
    /\ did' = Did("open", {p}, None)
    /\ UNCHANGED <<remote, past, open_files, hashes, call>>

WebdavCreate == \E h \in Handles, p \in mode.paths :
    /\ Kind = "webdav" /\ Unused(h) /\ Free(p)
    /\ CanPut(p)
    /\ Own("create")
    /\ LET r == Put(remote, p, <<>>)
       IN Changes(r) /\ OpensCached(h, p, TRUE, TreeRefresh(Cleared(cache), Snapshot(r)))
    /\ did' = Did("create", {p}, None)
    /\ UNCHANGED <<open_files, hashes, call>>

(* The cache is left as it is. *)
WebdavTruncate == \E p \in mode.paths :
    /\ Kind = "webdav" /\ CanPut(p) /\ Free(p)
    /\ Own("truncate")
    /\ Changes(Put(remote, p, <<>>))
    /\ did' = Did("truncate", {p}, None)
    /\ UNCHANGED <<cache, handles, open_files, hashes, call>>

(* MKCOL, with the parents that are missing; 405 for what exists counts as done. *)
WebdavMkdir == \E p \in mode.paths :
    /\ Kind = "webdav" /\ NoFileAbove(p) /\ ~HasFile(Now, p)
    /\ Changes(WithDirs(p))
    /\ ClearsCache("mkdir", {p})

(* DELETE removes a collection with all its members; rmdir() is unlink(). *)
WebdavUnlink == \E p \in mode.paths, op \in {"unlink", "rmdir"} :
    /\ Kind = "webdav" /\ p \in DOMAIN Now /\ Free(p)
    /\ HasDir(Now, p) <=> op = "rmdir"
    /\ Changes(Without(remote, Below(remote, InAccount(p))))
    /\ ClearsCache(op, {p})

--------------------------------------------------------------------------------
(* Dropbox.                                                                      *)

(* The metadata are fetched, and any open file may be written to. *)
DropboxOpen == \E h \in Handles, p \in mode.paths, write \in BOOLEAN :
    /\ Kind = "dropbox" /\ Unused(h) /\ HasFile(Now, p) /\ Free(p)
    /\ Own("open")
    /\ handles' = [handles EXCEPT ![h] = FullFile(p, write, DropboxAttr(Now[p].data))]
    /\ did' = Did("open", {p}, None)
    /\ UNCHANGED <<remote, past, cache, open_files, hashes, call>>

(* An upload that overwrites. *)
DropboxCreate == \E h \in Handles, p \in mode.paths :
    /\ Kind = "dropbox" /\ Unused(h) /\ CanPut(p) /\ Free(p)
    /\ Own("create")
    /\ Changes(Put(remote, p, <<>>))
    /\ handles' = [handles EXCEPT ![h] = FullFile(p, TRUE, DropboxAttr(<<>>))]
    /\ cache' = Cleared(cache)
    /\ did' = Did("create", {p}, None)
    /\ UNCHANGED <<open_files, hashes, call>>

(* files_delete removes folders with what they contain; rmdir() is unlink(). *)
DropboxUnlink == \E p \in mode.paths, op \in {"unlink", "rmdir"} :
    /\ Kind = "dropbox" /\ p \in DOMAIN Now /\ Free(p)
    /\ HasDir(Now, p) <=> op = "rmdir"
    /\ Changes(Without(remote, Below(remote, InAccount(p))))
    /\ ClearsCache(op, {p})

DropboxMkdir == \E p \in mode.paths :
    /\ Kind = "dropbox" /\ p \notin DOMAIN Now /\ NoFileAbove(p)
    /\ Changes(WithDirs(p))
    /\ ClearsCache("mkdir", {p})

(* What is kept is downloaded and uploaded again; for nothing, nothing is read. *)
DropboxTruncate == \E p \in mode.paths, length \in 0..MaxSize :
    /\ Kind = "dropbox" /\ CanPut(p) /\ Free(p)
    /\ length > 0 => HasFile(Now, p)
    /\ Changes(Put(remote, p, IF length = 0 THEN <<>>
                              ELSE FirstBytes(Now[p].data, length)))
    /\ ClearsCache("truncate", {p})

(* rename() passes its paths on without the location of the storage. *)
DropboxPath(p) == p
Aside(q) == Front(q) \o <<Last(q) \o ".rename_tmp">>

CanMove(a, b) == a \in DOMAIN remote /\ b \notin DOMAIN remote
                 /\ (Len(b) > 1 => Front(b) \in DOMAIN remote)

InCall(op, step) == /\ call # None /\ call.op = op /\ call.step = step
                    /\ UNCHANGED <<mode, clock, used, changes, handles, hashes>>

(* One request of a rename: may it be refused whatever the state is? *)
Refused == "api" \in mode.faults

DropboxRename == \E p, q \in mode.paths :
    LET a == DropboxPath(p)  b == DropboxPath(q) IN
    /\ Kind = "dropbox" /\ p # q /\ a \in DOMAIN remote /\ Free(p) /\ Free(q)
    /\ ~IsPrefix(p, q) /\ ~IsPrefix(q, p)
    /\ Own("rename")
    /\ IF CanMove(a, b)
       THEN /\ Changes(Moved(remote, a, b)) /\ cache' = Cleared(cache)
            /\ UNCHANGED call
       ELSE /\ b \in DOMAIN remote
            /\ call' = [op |-> "rename", step |-> "aside", from |-> p, to |-> q]
            /\ UNCHANGED <<remote, past, cache>>
    /\ did' = Did("rename", {p, q}, None)
    /\ UNCHANGED <<handles, open_files, hashes>>

(* A request that moves, in the middle of a rename; next is the step after it,   *)
(* otherwise the one after a failure.  An exception leaves the cache as it is.   *)
DropboxMoves(step, a, b, next, otherwise) ==
    /\ InCall("rename", step)
    /\ \/ /\ CanMove(a, b)
          /\ Changes(Moved(remote, a, b))
          /\ call' = IF next = None THEN None ELSE [call EXCEPT !.step = next]
       \/ /\ Refused \/ ~CanMove(a, b)
          /\ call' = IF otherwise = None THEN None ELSE [call EXCEPT !.step = otherwise]
          /\ UNCHANGED <<remote, past>>
    /\ did' = Did("rename", {call.from, call.to}, None)
    /\ UNCHANGED <<cache, open_files>>

(* Mutant: the unsafe variant, _rename_with_overwrite_unsafely. *)
DropboxAsideUnlinks ==
    /\ InCall("rename", "aside")
    /\ Changes(Without(remote, Below(remote, DropboxPath(call.to))))
    /\ call' = [call EXCEPT !.step = "again"]
    /\ did' = Did("rename", {call.from, call.to}, None)
    /\ UNCHANGED <<cache, open_files>>

(* _rename_with_overwrite_safely: the old destination is kept until the new one  *)
(* is in its place.                                                              *)
DropboxAside ==
    DropboxMoves("aside", DropboxPath(call.to), Aside(DropboxPath(call.to)), "again", None)
DropboxAgain ==
    DropboxMoves("again", DropboxPath(call.from), DropboxPath(call.to), "unlink", "restore")
DropboxRestore ==
    DropboxMoves("restore", Aside(DropboxPath(call.to)), DropboxPath(call.to), None, None)

DropboxUnlinkAside ==
    LET tmp == Aside(DropboxPath(call.to)) IN
    /\ InCall("rename", "unlink")
    /\ \/ /\ Changes(Without(remote, Below(remote, tmp)))
          /\ cache' = Cleared(cache)
       \/ Refused /\ UNCHANGED <<remote, past, cache>>
    /\ call' = None
    /\ did' = Did("rename", {call.from, call.to}, None)
    /\ UNCHANGED open_files

--------------------------------------------------------------------------------
(* S3.                                                                           *)

(* The index page of a directory is the object that marks it; making it reads    *)
(* the directory through the cache.                                              *)
Indexed(r, d) == IF mode.index THEN (InAccount(d) :> Dir) @@ r ELSE r
IndexCache(c, d, r) == IF mode.index THEN DirUpdate(c, d, Snapshot(r), "up") ELSE c

S3Open == \E h \in Handles, p \in mode.paths, write \in BOOLEAN :
    LET f == IF p \in DOMAIN open_files THEN ViewOf(p, open_files[p])
             ELSE IF write THEN FullFile(p, TRUE, S3Stat(Now[p].data))
             ELSE PagedFile(p, S3Stat(Now[p].data))
    IN
    /\ Kind = "s3" /\ Unused(h) /\ Free(p)
    /\ IF p \in DOMAIN open_files THEN ~write ELSE HasFile(Now, p)
    /\ Own("open")
    /\ handles' = [handles EXCEPT ![h] = f]
    /\ open_files' = IF f.sort = "full" THEN (p :> h) @@ open_files ELSE open_files
    /\ did' = Did("open", {p}, None)
    /\ UNCHANGED <<remote, past, cache, hashes, call>>

(* The file that create() returns is not registered in open_files. *)
S3Create == \E h \in Handles, p \in mode.paths :
    LET r == Put(remote, p, <<>>)
        attr == PlainAttr(<<>>)
    IN
    /\ Kind = "s3" /\ Unused(h) /\ CanPut(p) /\ HasDir(Now, Parent(p)) /\ Free(p)
    /\ p \notin DOMAIN open_files
    /\ Own("create")
    /\ Changes(Indexed(r, Parent(p)))
    /\ handles' = [handles EXCEPT ![h] = FullFile(p, TRUE, attr)]
    /\ cache' = IndexCache(UpdateCache(cache, p, [attr EXCEPT !.obj = {h}]), Parent(p), r)
    /\ did' = Did("create", {p}, None)
    /\ UNCHANGED <<open_files, hashes, call>>

(* One entry of the cache is brought up to date. *)
UpdatesCache(op, p, c, r) ==
    /\ Kind = "s3"
    /\ Own(op)
    /\ Changes(r)
    /\ cache' = c
    /\ did' = Did(op, {p}, None)
    /\ UNCHANGED <<handles, open_files, hashes, call>>

S3Unlink == \E p \in mode.paths :
    LET r == Without(remote, {InAccount(p)}) IN
    /\ HasFile(Now, p) /\ Free(p)
    /\ UpdatesCache("unlink", p, IndexCache(UpdateCache(cache, p, None), Parent(p), r),
                    Indexed(r, Parent(p)))

(* put_object with the key of the directory, and the pages of it and its parent. *)
MkdirCache(c, p, r) ==
    IndexCache(IndexCache(UpdateCache(c, p, DirAttr), p, r), Parent(p), Indexed(r, p))
S3Mkdir == \E p \in mode.paths :
    LET r == (InAccount(p) :> Dir) @@ remote IN
    /\ ~HasFile(Now, p) /\ HasDir(Now, Parent(p))
    /\ UpdatesCache("mkdir", p, MkdirCache(cache, p, r), Indexed(Indexed(r, p), Parent(p)))

(* The directory is empty if the cache says so, and only its marker is deleted. *)
RmdirReads(p) == DirUpdate(cache, p, Now, "up")
S3Rmdir == \E p \in mode.paths :
    LET r == Without(remote, {InAccount(p)}) IN
    /\ HasDir(Now, p) /\ Readdir(RmdirReads(p), p) = {}
    /\ UpdatesCache("rmdir", p, IndexCache(UpdateCache(RmdirReads(p), p, None), Parent(p), r),
                    Indexed(r, Parent(p)))

S3Truncate == \E p \in mode.paths :
    /\ HasFile(Now, p) /\ Free(p)
    /\ UpdatesCache("truncate", p, UpdateCache(cache, p, PlainAttr(<<>>)), Put(remote, p, <<>>))

(* _rename: what is to be done, in order; the directories have one level. *)
Copies(p, q) == <<[do |-> "copy", from |-> p, to |-> q], [do |-> "delete", from |-> p, to |-> q]>>
RenamePlan(c, p, q) ==
    IF Getattr(c, p).kind = "dir"
    THEN FlattenSeq([i \in 1..Cardinality(Readdir(c, p)) |->
                        LET n == SetToSeq(Readdir(c, p))[i] IN Copies(Child(p, n), Child(q, n))])
         \o <<[do |-> "rmdir", from |-> p, to |-> q], [do |-> "mkdir", from |-> p, to |-> q]>>
    ELSE Copies(p, q)

S3Rename == \E p, q \in mode.paths :
    LET c1 == ForPath(cache, p)
        isdir == Getattr(c1, p).kind = "dir"
        c == IF isdir THEN DirUpdate(c1, p, Now, "up") ELSE c1
    IN
    /\ Kind = "s3" /\ ~IsPrefix(p, q) /\ ~IsPrefix(q, p) /\ Free(p) /\ Free(q)
    /\ Getattr(c1, p) # None /\ HasDir(Now, Parent(q))
    /\ isdir => Readdir(c, p) # None /\ ~HasFile(Now, q)
    /\ ~isdir => HasFile(Now, p) /\ ~HasDir(Now, q)
    /\ Own("rename")
    /\ cache' = c
    /\ call' = [op |-> "rename", step |-> "s3", from |-> p, to |-> q,
                todo |-> RenamePlan(c, p, q)]
    /\ did' = Did("rename", {p, q}, None)
    /\ UNCHANGED <<remote, past, handles, open_files, hashes>>

S3RenameStep(r, c) ==
    /\ Changes(r)
    /\ cache' = c
    /\ call' = [call EXCEPT !.todo = Tail(@)]
    /\ did' = Did("rename", {call.from, call.to}, None)
    /\ UNCHANGED open_files

NextIs(do) == call.op = "rename" /\ call.todo # <<>> /\ Head(call.todo).do = do

(* copy_object, on the server; the attributes come from the cache. *)
S3Copy ==
    LET t == Head(call.todo) IN
    /\ InCall("rename", "s3") /\ NextIs("copy") /\ HasFile(Now, t.from) /\ t.from \in DOMAIN cache.attrs
    /\ S3RenameStep(Put(remote, t.to, Now[t.from].data),
                    UpdateCache(cache, t.to, cache.attrs[t.from]))

S3Delete ==
    LET t == Head(call.todo)
        r == Without(remote, {InAccount(t.from)})
    IN /\ InCall("rename", "s3") /\ NextIs("delete")
       /\ S3RenameStep(Indexed(r, Parent(t.from)),
                       IndexCache(UpdateCache(cache, t.from, None), Parent(t.from), r))

S3RenameRmdir ==
    LET t == Head(call.todo)
        r == Without(remote, {InAccount(t.from)})
    IN /\ InCall("rename", "s3") /\ NextIs("rmdir") /\ Readdir(RmdirReads(t.from), t.from) = {}
       /\ S3RenameStep(Indexed(r, Parent(t.from)),
                       IndexCache(UpdateCache(RmdirReads(t.from), t.from, None),
                                  Parent(t.from), r))

S3RenameMkdir ==
    LET t == Head(call.todo)
        r == (InAccount(t.to) :> Dir) @@ remote
    IN /\ InCall("rename", "s3") /\ NextIs("mkdir")
       /\ S3RenameStep(Indexed(Indexed(r, t.to), Parent(t.to)),
                       MkdirCache(cache, t.to, r))

(* The index pages at the end. *)
S3RenameEnds ==
    LET r == Indexed(remote, Parent(call.from)) IN
    /\ InCall("rename", "s3") /\ call.todo = <<>>
    /\ Changes(Indexed(r, Parent(call.to)))
    /\ cache' = IndexCache(IndexCache(cache, Parent(call.from), remote), Parent(call.to), r)
    /\ call' = None
    /\ did' = Did("rename", {call.from, call.to}, None)
    /\ UNCHANGED open_files

(* A request fails, the source is gone, a directory is not empty: what was done  *)
(* stays done.                                                                   *)
S3RenameFails ==
    LET t == Head(call.todo) IN
    /\ InCall("rename", "s3") /\ call.todo # <<>>
    /\ \/ Refused
       \/ t.do = "copy" /\ ~(HasFile(Now, t.from) /\ t.from \in DOMAIN cache.attrs)
       \/ t.do = "rmdir" /\ Readdir(RmdirReads(t.from), t.from) # {}
    /\ call' = None
    /\ did' = Did("rename", {call.from, call.to}, None)
    /\ UNCHANGED <<remote, past, cache, open_files>>

(* flush() and release() of the backend: the file's attributes, as they were     *)
(* before the upload, replace those that the upload has put into the cache.      *)
Target(h) == IF handles[h].sort = "view" /\ handles[h].of # None THEN handles[h].of ELSE h
S3Saved(h) ==
    LET f == handles[h]
        t == Target(h)
        g == IF f.sort = "paged" THEN f ELSE Sized(handles[t])
        r == IF f.dirty THEN Put(remote, f.path, g.buf) ELSE remote
        c == IF f.dirty THEN UpdateCache(cache, f.path, S3Stat(g.buf)) ELSE cache
        c2 == UpdateCache(c, f.path, [g.attr EXCEPT !.obj = IF f.sort = "paged" THEN {} ELSE {t}])
    IN [remote |-> Indexed(r, Parent(f.path)),
        cache |-> IndexCache(c2, Parent(f.path), r),
        handles |-> IF f.sort = "paged" THEN handles
                    ELSE [handles EXCEPT ![t] = [g EXCEPT !.dirty = t # h /\ @]]]

S3Flush == \E h \in Handles :
    /\ Kind = "s3" /\ handles[h] # None
    /\ handles[h].sort = "paged" \/ CanLoad(handles[Target(h)])
    /\ Own("flush")
    /\ Changes(S3Saved(h).remote)
    /\ cache' = S3Saved(h).cache
    /\ handles' = S3Saved(h).handles
    /\ did' = Did("flush", {handles[h].path}, None)
    /\ UNCHANGED <<open_files, hashes, call>>

(* Whoever releases a file of its own kind takes the registration along. *)
Deregistered(f) == IF f.sort = "full" THEN Without(open_files, {f.path}) ELSE open_files

S3Release == \E h \in Handles :
    LET f == handles[h]
        known == f.sort = "paged" \/ CanLoad(handles[Target(h)])
        after == S3Saved(h)
    IN
    /\ Kind = "s3" /\ f # None
    /\ Own("release")
    /\ open_files' = Deregistered(f)
    /\ Changes(IF known THEN after.remote ELSE remote)
    /\ cache' = Unshared(IF known THEN after.cache ELSE cache, h)
    /\ handles' = [g \in Handles |-> IF g = Target(h) /\ g # h /\ known
                                     THEN after.handles[g] ELSE Dropped(h)[g]]
    /\ did' = Did("release", {f.path}, None)
    /\ UNCHANGED <<hashes, call>>

(* stop_bulk_writing() clears the cache and leaves the timeout. *)
S3StartBulk ==
    /\ Kind = "s3"
    /\ Own("bulk")
    /\ cache' = [Cleared(cache) EXCEPT !.timeout = Forever]
    /\ did' = Did("bulk", {}, None)
    /\ UNCHANGED <<remote, past, handles, open_files, hashes, call>>
S3StopBulk ==
    /\ Kind = "s3" /\ cache.timeout = Forever
    /\ ClearsCache("bulk", {})
    /\ UNCHANGED <<remote, past>>

--------------------------------------------------------------------------------
(* get_hash(): the token, then the file, page by page if it is paged.            *)

CacheToken(c, p) == IF Getattr(c, p) = None THEN None ELSE Getattr(c, p).token
Token(c, p) == IF LocalKind THEN LocalToken(p)
               ELSE IF Kind = "webdav" THEN None ELSE CacheToken(c, p)

RetrieveHash(p) == IF p \in DOMAIN hashes THEN hashes[p] ELSE None
StoreHash(p, hash, token) == (p :> [hash |-> hash, token |-> token]) @@ hashes

GetHash == \E p \in mode.paths :
    LET c == IF Kind \in {"s3", "dropbox"} THEN ForPath(cache, p) ELSE cache
        token == Token(c, p)
        known == RetrieveHash(p)
        found == token # None /\ known # None /\ known.token = token
    IN
    /\ IF Kind \in {"s3", "dropbox"}
       THEN Getattr(c, p) # None /\ Getattr(c, p).kind = "file" ELSE HasFile(Now, p)
    /\ Free(p)
    /\ Own("hash")
    /\ cache' = c
    /\ call' = IF found THEN None ELSE [op |-> "hash", step |-> "open", path |-> p, token |-> token]
    /\ did' = IF found THEN Did("hash", {p}, known.hash) ELSE None
    /\ UNCHANGED <<remote, past, handles, open_files, hashes>>

Reading(data, size) == [op |-> "hash", step |-> "read", path |-> call.path,
                        token |-> call.token, size |-> size, data |-> data]

(* Dropbox reads the whole file at once, S3 what its open file holds. *)
HashOpens ==
    LET p == call.path
        c == IF WholeTree \/ LocalKind THEN ForPath(cache, p) ELSE cache
        attr == IF WholeTree \/ LocalKind THEN Getattr(c, p)
                ELSE IF HasFile(Now, p) THEN Stat(Now[p]) ELSE None
        open == Kind = "s3" /\ p \in DOMAIN open_files
    IN
    /\ InCall("hash", "open")
    /\ cache' = c
    /\ call' = IF open
               THEN IF CanLoad(handles[open_files[p]])
                    THEN Reading(Loaded(handles[open_files[p]]).buf, 0) ELSE None
               ELSE IF attr = None \/ attr.kind = "dir" THEN None
               ELSE IF Kind = "dropbox" THEN Reading(Now[p].data, 0)
               ELSE Reading(<<>>, attr.size)
    /\ did' = None
    /\ UNCHANGED <<remote, past, open_files>>

(* A page is filled up with zeros. *)
HashReadsPage ==
    /\ InCall("hash", "read") /\ Len(call.data) < call.size
    /\ LET n == Len(call.data) + 1
           data == Now[call.path].data
       IN call' = IF ~HasFile(Now, call.path) THEN None
                  ELSE [call EXCEPT !.data = Append(@, IF n <= Len(data) THEN data[n] ELSE 0)]
    /\ did' = None
    /\ UNCHANGED <<remote, past, cache, open_files>>

HashDone ==
    /\ call # None /\ call.op = "hash" /\ call.step = "read"
    /\ Len(call.data) >= call.size
    /\ hashes' = IF call.token = None THEN hashes
                 ELSE StoreHash(call.path, call.data, call.token)
    /\ call' = None
    /\ did' = Did("hash", {call.path}, call.data)
    /\ UNCHANGED <<mode, clock, used, changes, handles, remote, past, cache, open_files>>

--------------------------------------------------------------------------------
(* The others, time, and a new start of the client.                              *)

Other(op) == /\ op \in mode.others /\ changes < Len(mode.otherData)
             /\ changes' = changes + 1
             /\ past' = past \cup {[state |-> Now, until |-> clock]}
             /\ did' = None
             /\ UNCHANGED <<mode, clock, cache, handles, open_files, hashes, call, used>>

OtherPut == \E p \in mode.paths :
    /\ Other("put") /\ HasDir(Now, Parent(p)) /\ ~HasDir(Now, p)
    /\ remote' = Put(remote, p, mode.otherData[changes + 1])
OtherDelete == \E p \in mode.paths :
    /\ Other("delete") /\ HasFile(Now, p)
    /\ remote' = Without(remote, {InAccount(p)})
OtherMkdir == \E p \in mode.paths :
    /\ Other("mkdir") /\ p \notin DOMAIN Now /\ HasDir(Now, Parent(p))
    /\ remote' = (InAccount(p) :> Dir) @@ remote
OtherRmdir == \E p \in mode.paths :
    /\ Other("rmdir") /\ p \in DOMAIN Now /\ HasDir(Now, p) /\ NamesIn(Now, p) = {}
    /\ remote' = Without(remote, {InAccount(p)})

(* Answers may be as old as the timeout. *)
Tick == /\ call = None /\ clock < MaxClock
        /\ clock' = clock + 1
        /\ past' = {s \in past : s.until + Timeout > clock}
        /\ did' = None
        /\ UNCHANGED <<mode, remote, cache, handles, open_files, hashes, call, used, changes>>

EmptyCache == [attrs |-> NoEntries, lists |-> NoEntries, expiry |-> NoEntries, timeout |-> Timeout]

(* The process dies: of its state only the hash database is left. *)
Restart == /\ mode.restarts /\ used > 0 /\ used < mode.maxOps
           /\ used' = used + 1
           /\ cache' = EmptyCache
           /\ handles' = [h \in Handles |-> None]
           /\ open_files' = NoEntries
           /\ call' = None
           /\ did' = None
           /\ UNCHANGED <<mode, remote, clock, hashes, changes, past>>

Init == /\ mode \in Modes
        /\ remote \in mode.trees
        /\ clock = 1
        /\ cache = EmptyCache
        /\ handles = [h \in Handles |-> None]
        /\ open_files = NoEntries
        /\ hashes = NoEntries
        /\ call = None
        /\ used = 0 /\ changes = 0
        /\ did = None
        /\ past = {}

Files == FileWrite \/ FileFtruncate \/ FileRead \/ FileFgetattr \/ FileFlush \/ FileRelease
Local == LocalOpen \/ LocalCreate \/ LocalTruncate \/ LocalUnlink \/ LocalMkdir
         \/ LocalRmdir \/ LocalRename
Webdav == WebdavOpen \/ WebdavCreate \/ WebdavTruncate \/ WebdavMkdir \/ WebdavUnlink
DropboxCalls == DropboxOpen \/ DropboxCreate \/ DropboxUnlink \/ DropboxMkdir \/ DropboxTruncate
                \/ DropboxRename \/ DropboxAside \/ DropboxAgain \/ DropboxRestore
                \/ DropboxUnlinkAside
S3Calls == S3Open \/ S3Create \/ S3Unlink \/ S3Mkdir \/ S3Rmdir \/ S3Truncate \/ S3Rename
           \/ S3Copy \/ S3Delete \/ S3RenameRmdir \/ S3RenameMkdir \/ S3RenameEnds
           \/ S3RenameFails \/ S3Flush \/ S3Release \/ S3StartBulk \/ S3StopBulk
Hashing == GetHash \/ HashOpens \/ HashReadsPage \/ HashDone
Others == OtherPut \/ OtherDelete \/ OtherMkdir \/ OtherRmdir

Next == GetAttr \/ ReadDir \/ Files \/ Local \/ Webdav \/ DropboxCalls \/ S3Calls
        \/ Hashing \/ Others \/ Tick \/ Restart

Spec == Init /\ [][Next]_vars

--------------------------------------------------------------------------------
(* Properties.                                                                   *)

AttrType == [kind : {"file", "dir"}, size : 0..MaxSize, obj : SUBSET Handles]
IsAttr(a) == [kind |-> a.kind, size |-> a.size, obj |-> a.obj] \in AttrType

(* The state keeps its type; what is in the cache are attributes, every file     *)
(* registered as open for writing is one, and no cached time is beyond the       *)
(* timeout of the cache.                                                         *)
TypeOK ==
    /\ mode \in Modes /\ clock \in 1..MaxClock
    /\ \A p \in DOMAIN cache.attrs : IsAttr(cache.attrs[p])
    /\ \A d \in DOMAIN cache.lists : \A n \in cache.lists[d] : n \in STRING
    /\ \A d \in DOMAIN cache.expiry : cache.expiry[d] <= clock + Forever
    /\ cache.timeout \in {Timeout, Forever}
    /\ \A h \in Handles : handles[h] # None =>
          /\ IsAttr(handles[h].attr) /\ Len(handles[h].buf) <= MaxSize
          /\ handles[h].sort \in {"full", "paged", "view"}
    /\ \A p \in DOMAIN open_files : handles[open_files[p]] # None
    /\ call # None => call.op \in {"rename", "hash"}

(* States that an answer may describe: the present one, and those that only      *)
(* others have changed since, within the timeout.                                *)
Recent == {Now} \cup {s.state : s \in past}

Written(p) == \E h \in Handles : handles[h] # None /\ handles[h].write /\ handles[h].path = p

(* "we will assume that the directory does not exist" (cached.py:292). *)
TakenForGone(d) == "listing" \in mode.faults /\ d \in DOMAIN cache.expiry \ DOMAIN cache.lists

(* Through the cache, a client sees the storage as it was at a moment within the *)
(* last Timeout and after its own last change ("invalidate cache ... in all      *)
(* operations that might change the result", cached.py).  A file that is open    *)
(* for writing may look as its buffer does, and a directory whose listing failed *)
(* as one that is gone.                                                          *)
SeesOwnChanges ==
    did # None =>
        /\ did.op = "getattr" =>
              \A p \in did.names : Written(p) \/ (did.value = None /\ TakenForGone(Parent(p))) \/ \E s \in Recent :
                  IF did.value = None THEN p # Root /\ p \notin DOMAIN s
                  ELSE IF did.value.kind = "dir" THEN HasDir(s, p)
                  ELSE HasFile(s, p) /\ Len(s[p].data) = did.value.size
        /\ did.op = "readdir" =>
              \A d \in did.names : (did.value = None /\ TakenForGone(d)) \/ \E s \in Recent :
                  IF did.value = None THEN ~HasDir(s, d) ELSE did.value = NamesIn(s, d)

(* S3: flush() and release() of a file that was written put the attributes of    *)
(* its opening into the cache, with the ETag the file had then.                  *)
OldETag(p) ==
    Kind = "s3" /\ p \in DOMAIN cache.attrs
    /\ \A s \in Recent : HasFile(s, p) => s[p].data # cache.attrs[p].token

(* get_hash() returns the hash of contents the file had at a moment within the   *)
(* last Timeout and after the client's own last change, from the hash database   *)
(* or not.  There are two exceptions: S3, after a file was written through a     *)
(* handle, until its attributes expire; and, in no scenario here, a file that    *)
(* returns to an earlier version (MCRemoteStorage_hash_aba).                     *)
HashIsRecent ==
    did # None => (did.op = "hash" =>
        \A p \in did.names : OldETag(p) \/ \E s \in Recent : HasFile(s, p) /\ s[p].data = did.value)

(* What get_file_token says of itself ("should provide a token that changes when *)
(* the file changes", base.py:605), without the exception for S3.  It does not   *)
(* hold.                                                                         *)
HashIsRecentInS3 ==
    did # None => (did.op = "hash" =>
        \A p \in did.names : \E s \in Recent : HasFile(s, p) /\ s[p].data = did.value)

Contents(r, a) == IF a \in DOMAIN r /\ r[a].kind = "file" THEN r[a].data ELSE None

(* Where in the account the paths of a rename are: in Dropbox, whatever location *)
(* the storage has, at the same paths in the account itself.                     *)
Renamed(p) == IF Kind = "dropbox" THEN DropboxPath(p) ELSE InAccount(p)

(* A step of a rename: it touches what it was told to, and Dropbox' temporary    *)
(* file; contents only vanish from the destination once it has those of the      *)
(* source.                                                                       *)
RenamesOnly(a) ==
    /\ \E p \in did'.names : IsPrefix(Renamed(p), a) \/ IsPrefix(Aside(Renamed(p)), a)
    /\ \/ Contents(remote, a) = None
       \/ \E b \in DOMAIN remote' : Contents(remote', b) = Contents(remote, a)
       \/ Contents(remote', a) # None
       \/ call # None /\ call.step = "unlink" /\ a = Aside(Renamed(call.to))

(* A step of the client changes the contents of no file but the one it was asked *)
(* to change; a rename, complete, refused half-way or cut off by the end of the  *)
(* process, loses neither the file it moves nor the one it was to replace.  The  *)
(* files a rename names are those of Renamed, which in a Dropbox storage with a  *)
(* location are not the storage's own.                                           *)
OnlyNamedFilesChange ==
    [][did' # None => \A a \in DOMAIN remote \cup DOMAIN remote' :
          Contents(remote, a) # Contents(remote', a) =>
              IF did'.op = "rename" THEN RenamesOnly(a)
              ELSE \E p \in did'.names : a = InAccount(p)]_vars

(* The location is an "absolute POSIX path acting as a root directory" (Dropbox'  *)
(* manifest schema): no call changes a file outside of it.  It does not hold of   *)
(* rename.                                                                       *)
StaysInLocation ==
    [][did' # None => \A a \in DOMAIN remote \cup DOMAIN remote' :
          Contents(remote, a) # Contents(remote', a) => IsPrefix(mode.location, a)]_vars
=============================================================================
