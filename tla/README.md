# A TLA+ model of the Wildland client

Wildland mounts *containers* - subtrees of files kept in one or more *storages* - into one
file system, and keeps the storages of a container in sync.  This directory models the parts
of the client in which several threads, processes or users meet, or in which a command makes
several changes that can fail one by one: the FUSE driver's mount table and its resolver, the sync
daemon and its syncer, the caches of remote storages, the search for containers, the catalog they
are published in, the clients that mount them, and users, bridges and forests.  The modules are
translated from `src/wildland/` and, for the remote storages, from `src/plugins/`; `PROJECT.json`
maps every definition to the lines it stands for.

Contents: [the system](#the-system), [the modules](#the-modules), [the runs](#the-runs),
[fairness](#fairness), [the proofs](#the-proofs), [what the code gets wrong](#what-the-code-gets-wrong),
[what is left out](#what-is-left-out), [the plan](#the-plan).

## The system

Four processes share little but sockets and files.

| process | code | talks to |
|---|---|---|
| `wl` (command line, or any user of the core API) | `cli/`, `core/`, `client.py`, `search.py`, `publish.py` | the driver and the daemon over control sockets; storages directly |
| the FUSE driver | `fs.py`, `fs_base.py`, `conflict.py`, `fs_watchers.py`, `storage_backends/` | the kernel (FUSE requests), control clients |
| the sync daemon | `storage_sync/daemon.py`, `storage_sync/` | control clients; storages directly |
| the remounter | `remounter.py` | the driver, as a control client that watches files |

### Components, their state and what makes them correct

*The driver's mount table* (`fs_base.py`).  `storages` (a `LazyStorageDict`: a backend is mounted
when it is first fetched), `storage_paths`, `main_paths`, `storage_counter` and the resolver's
tree describe the same set of mounted storages.  Control connections (one thread each) mount,
unmount and watch; FUSE requests (one thread each) go through `proxy()`, which resolves a path
without `mount_lock` and fetches the storage under it.  A backend instance is shared by every
storage with the same parameters and has a reference count.
Correct when the tables agree after every operation and every failure, the resolver shows exactly
what is mounted, an ident resolved before the lock was taken never means another storage,
the count equals the users, and every critical section ends.

*Watches* (`fs_watchers.py`).  `watches`, `storage_watches`, `connection_watches`, `watchers`.
The first watch of a storage starts a watcher thread, the last one to go stops it; storages
are unmounted and connections closed meanwhile.  Correct when no watcher thread outlives
its last watch or its storage, and events reach everyone who watches.

*The conflict resolver* (`conflict.py`).  A prefix tree of mounts with a cached `_resolve`;
`getattr` and `readdir` merge what several storages hold under one path.  Correct when the tree
follows the mounts, the cache never outlives the tree, and every file stays reachable
under exactly one name.

*The sync daemon* (`storage_sync/daemon.py`, `storage_sync/base.py`).  `jobs`, one worker thread
and one syncer each; `event_queue`, written by workers and watcher threads, drained by one event
thread; `stop_queue` and `stop_event`, the hand-shake between the event thread and a stop command,
which holds `lock`.  Correct when no worker outlives its registration, events are applied to the
job they come from, commands return, and `job-state` tells the syncer's state.

*The NaiveSyncer* (`storage_sync/naive_sync.py`).  `storage_hashes`, `conflicts`, `state`, one
lock; an initial sync, then two watcher threads whose events are handled under the lock.
The storages are edited by users meanwhile, and every call on them is a point where they may have
changed.  Correct when it loses no change, overwrites nothing it does not know, reports what it
could not sync, does not take its own writes for a user's, and comes to rest.

*Storage watchers* (`storage_backends/watch.py`, `local.py`).  inotify queues that merge equal
events, directories watched only once their creation has been read, an ignore list for the
client's own operations; `SimpleStorageWatcher` polls snapshots instead.

*Caches of storages* (`cached.py`, `local_cached.py`, `buffered.py`, the plugins `s3`, `dropbox` and
`webdav`, `hashdb.py` with `get_hash`).  Attributes and listings with an expiry time, buffers
of open files, hashes by token.  Others change the same storage.  Correct when what they answer was true
at some moment since the client's own last operation and within the timeout.

*Search and signatures* (`search.py`, `manifest/sig.py`, `manifest/manifest.py`).  A nest of generators walks a
graph of users, bridges and containers with cycles, imports keys on the way, and keeps what the first
part of a path led to for all later searches.  Correct when it finds what the path denotes, whatever was
searched for before; when a manifest counts only if its signer may sign for its owner; and when it
can be read by those it names.

*Publishing* (`publish.py`, `file_children.py`, parts of `cli_container.py` and `cli_storage.py`).  A container's manifest
has copies in the catalog storages of its owner, under names that depend on its paths; a cache file
names what is not published.  Correct when the copies follow the manifest through failures
and nothing unpublished is forgotten.

*FS client and remounter* (`fs_client.py`, `remounter.py`, the mount, unmount and sync commands).  Both read the driver's
table, keep a copy of it, and change it one call at a time, while manifests change.  Correct when a command that
reports success has done all of what it was asked, beside a remounter too, and when what is watched ends up mounted as the manifests say.

*Users, bridges, forests* (`cli_user.py`, `cli_bridge.py`, `cli_forest.py`, `core/`, `config.py`).  Directories of
manifests and keys, and a configuration that names users.  Correct when each command leaves them consistent, and a failed
one cleans up after itself.

*Everything else*: the control protocol, argument handling, logging, and adapters to programs and services;
`PROJECT.json` lists them with the reason.

### How they interact

A mount command travels `wl` → `fs_client` → control socket → `control_mount` → `_mount_storage`.
A sync command travels `wl` → control socket → `SyncDaemon.start_sync` → worker → `NaiveSyncer` →
`StorageBackend` calls; the syncer answers through `notify_event` → `event_queue` → event thread.
Storage changes travel inotify → watcher thread → `NaiveSyncer._handle_events`, or → `fs_watchers`
→ control socket → remounter → `fs_client`.  A search reads manifests through storage backends and their caches, and
what it finds is mounted, synced or published; a published manifest is what other people's searches, and
the remounter's watches, see next.

## The modules

| module | models |
|---|---|
| `MountTable` | what the driver promises: a table from idents to path lists; main paths are unique among live entries, idents are never reused |
| `FSMount` | the driver's mount table, lazy storages, reference counts, resolver tree and watches |
| `FSMountProofs` | theorems about `FSMount`: types, tables and refinement; resolver, watchers and reference counts |
| `Conflict` | the resolver: prefix tree, cached `_resolve`, `getattr` and `readdir` over several storages, and the file operations that go through it |
| `ConflictProofs` | theorems about `Conflict` |
| `SyncDaemon` | the daemon: commands, workers, watcher threads, event thread |
| `SyncDaemonProofs` | theorems about `SyncDaemon`: types and threads; the event queue, the hand-shake of a stop and the reported state |
| `NaiveSync` | the syncer between two local storages, with their watchers, and the users |
| `NaiveSyncProofs` | theorems about `NaiveSync`: what a one-way sync leaves alone |
| `RemoteStorage` | a storage behind a cache: five backends, their open files, renames step by step, hashes, and others who change it |
| `Manifests` | keys, signature contexts and their copies, signing, loading and encrypting of manifests, as operators |
| `Search` | path resolution as a stack of generators over `Manifests`, its two caches, and authors who go on writing |
| `SearchProofs` | theorems about `Search` and `Manifests`: who signed what is found, and who can read what is written |
| `Catalog` | container and storage commands with the publisher: local manifests, copies in the catalog storages, the cache of what is not published |
| `CatalogProofs` | theorems about `Catalog`: what updates and deletions leave in the storages, and what the cache of unpublished containers misses |
| `Mounting` | the command line and the remounter as two clients of the driver, each with a copy of its table; caches, subcontainers, sync jobs |
| `MountingProofs` | theorems about `Mounting`: what an unmount leaves |
| `Accounts` | commands on users, keys, bridges and forests, file by file |
| `AccountsProofs` | theorems about `Accounts`: types, what failures leave behind, the configuration, forests |
| `MC...` | the values TLC runs them with |

The modules meet in what they take from one another.  `NaiveSync` and the syncers of `SyncDaemon` are two views of one
object: `SyncDaemon` keeps its `state` property and the calls that may raise, `NaiveSync` what it does to files.
`FSMount` keeps the resolver as a map from paths to idents and has the threads and the lock; `Conflict` has
the tree node by node and the cache that is read without the lock.  `FSMount` implements `MountTable`, and
`MountTable`'s promise is the driver that `Mounting` calls.  `Search` extends `Manifests`; what it
loads, `Mounting` mounts and `Catalog` publishes.

### FSMount

Each member of `Threads` is a control connection or a FUSE request and runs one operation at a
time; `pc` says where it is.  What the code does inside one `with self.mount_lock` is still several
steps where it can raise or call a backend, since a failure keeps what was done so far: watches
are removed one by one (`StopWatches`), the count goes down (`Uncount`), the entry goes (`DelTables`, or
`UnmountFails`), then each path leaves the resolver (`ResolverDel`); a mount inserts the entry
(`MountInsert`), then each path (`ResolverAdd`).  `request_mount` is a read and a write (`GetRead`,
`GetWrite`), because an eager mount and `control_fileinfo` reach it without the lock.  `cont` is what a
critical section does next - unmount alone, or the second half of a remount.  `req`, `ident`,
`backend`, `todo` and `count` are the local variables that outlive a step.  `mount_lock` is not
reentrant; the exception paths release it as the `with` statement does.

A storage is a backend (two idents may have the same one), a path a model value, the resolver's
prefix tree a map from paths to sets of idents, and a watch an ident per connection.

### SyncDaemon

`Runs` numbers `SyncJob` objects, so that a job id which is started again is another run, and events
of the old one can be told from events of the new one.  The worker's steps follow `_worker` with its `except`
and `finally`; the state setter is check, assignment and notification, three steps; the event
thread looks the job up, then handles the event (`EventGet`, `EventSet`).  A stop command is signal,
join, wait, clear, check.  A syncer may raise in `start_sync`, while it handles a batch, and in
`stop_sync`, as `Failures` allows.

### NaiveSync

`fs` is what the two storages hold: absent, a directory, or a file by its content.  Each storage call of the
syncer is one step, so a user's edit may come between any two.  The rest of the syncer's current call is
`work`, a stack of tasks, with the local variables that survive a storage call in their fields;
an exception empties it (`Fail`) and, as in the code, has consequences that depend on where it
is caught.  `queue` is inotify's queue, which merges an event with an equal last one and
reports nothing from a directory that is not in `watched`.  `ignore` is `ignore_list`, filled
before each call of the syncer and emptied as the watcher reads.  `inbox` is a batch that a watcher thread has
read and that waits for the syncer's lock.  Users write, delete, rename, make and remove
directories (`UserStep`).  A file opened by the syncer and unlinked meanwhile is written where nobody sees it
(`orphan`).

### Conflict

A path is a sequence of names; a name is a stem or, for what the code prints as `stem.wl_N`, a stem and a storage
id.  `tree` has a node for each `MountDir`; mounting and unmounting change it node by node (`MountStep`,
`Prune`), then clear `cache`.  A file operation is `resolve`, then `stat` of each candidate, then the call on the
storage that was chosen; `raced` marks a call or a cache entry that overlapped a mount.  `store` is what the
storages hold, `down` those that do not answer, `handles` and `leaked` the open files.

### RemoteStorage

`remote` is the account, `cache` the attributes, the listings and their expiry times.  `mode` says which backend it is,
what the client may call and what others may do.  A call is one step, but for the ones that others can
get between: a Dropbox rename over an existing file, an S3 rename of a directory, and `get_hash`, which reads page by
page.  A listing may fail where `mode.faults` says so: a `PermissionError` goes to the caller, any other `OSError` makes
the directory one that "does not exist" until the next refresh (`cached.py:289-292`), and whole-tree caches raise.  A storage may have a location
inside its account.  `did` is what the last step did and answered, `past` the states of the account an answer may still
show; both only serve the properties.

### Manifests and Search

A manifest is its signer, the keys it is encrypted to, and its fields.  Contexts are values, except that the lists of
owners of a key are shared by a context and its copies and live in `mem`.  `search.frames` is the
stack of suspended generators: what each part's generator has found, has yielded and has still to look at
(`Frame`, `Advance`).  Containers inside a user's manifest are open to everybody and stay in clear (`InlineAssumption`).  Authors write and remove manifests between any two steps, along the script of the scenario.

### Catalog

One command of the command line at a time (`pc`, `job`), file operation by file operation.  `files[s]` is what a
storage holds by relative path, `todo` the operations left in the storage being updated - sets of them, one for each stage of
`_update_child`, in the order of the stages - `cache` and `newer` the file
`.unpublished` and whether a manifest is newer than it.  A file operation fails before it does anything, or a write breaks off after
it created or truncated the file (`WriteBreaks`, `half`): what is there then cannot be loaded, and when it is the copy at the uuid path no later update gets past it
(`ChildUnreadable`).  `Pattern` decides which relative paths a container has
in a storage.  A path that only the published copy of a container has is not looked up when the container is there
locally; the syncing of a storage's contents when a storage is added or removed is reduced to success or failure.

### Mounting

`table` is the driver's, `cached[p]` what client `p` remembers of it (`path_cache`, `info_cache`), `batch[p]` the rest of the mount command
that it is sending.  Paths and info are two control commands, and the table may change between them (`FetchPaths`, `FetchInfo`).
The remounter's `rem` has its tracked containers, its pending mounts and unmounts and where it is
in a batch of events from `inbox`; `cli` the same for the command: the containers that a name stands for are taken one by one (`CollectContainer`), what was
found for them so far is in `unm` and `cacheIds`.  An entry's `sub` is the container it was mounted for, `NoParent` when it was mounted for itself.
`Subs` finds subcontainers at any depth: a container that is rebuilt from the paths of a primary storage has its uuid path first (`RebuiltName`; `container.py:82-83`), which is what
its own subcontainers are registered with.  `content` is what each manifest file says, and changes at any moment; a change is an event if a watch is placed, and `gone` remembers
the files that went away and whether mount-watch was told.  `jobs`, `remote` and `caches` belong to `wl container sync`, `stop-sync`
and to cache storages.

`kind` is how the client is used: mount-watch with a pattern, with subcontainers, with a wildland path, or with a container from outside the catalog; or `off`, commands alone.
`Requests`, `MaxRequests` and `MaxBeside` say by kind which commands there are and how many of them and of the edits around them.

### Accounts

`users`, `bridges`, `pub`, `sec`, `conf`, `containers` are the files of this machine, `store` and `remote` what is served; `mem` is
what the running command remembers, `pc` its next step.  A step may fail (`write`, `remote`) and a command may crash
between two steps.  The write of a new file may fail before or after the file is there (`half`): a manifest that does not load but takes a name, or the one file of a
key pair that was being written.  The cleaner is told of a file after its write (`client.py:982-983`, `sig.py:405-407`), so it does not know that one.
Writing over an existing manifest (`modify`, a refresh) is one step that fails before it does anything.

## The runs

All runs are listed in `PROJECT.json`.  Each takes less than three minutes with two workers.

| run | shows | instance |
|---|---|---|
| `mount_tables` | type, `TablesAgree`, `ResolverAgrees`, `NoOrphanWatcher`, refinement of `MountTable` | 2 threads, all operations, all failures, 2 path lists that share a path, one backend shared by both, 2 idents |
| `mount_refcount` | `RefcountExact`, `LockReleased` | 2 threads, 2 backends, 2 idents, `mount()` may fail; no eager mounts |
| `conflict` | type (with: the tree is what the mounts make of it), `StaleIsRaced`, `ListedIsFound`, `NewEntriesAreUnambiguous` | 2 threads, 2 storages: mounting under nested paths against lookups; every pair of five contents merged under the root, one of them read-only or failing; one storage inside the other's directory; both under the root and once more in a directory there |
| `sync_safety` | `NoOrphanWorker`, `NoInternalError`, `JobStateAgrees`, type | 2 clients, 2 jobs, 2 runs; four loads that together send every command and let every call fail |
| `sync_liveness` | `CommandsReturn` | 2 clients, start, stop, stop-all, active-events; syncers do not fail |
| `naive_safety` | `DifferencesReported`, `HashesAgree`, `ReplacesOnlyKnown`, `SourceUntouched` | a start from every pair of trees over a directory, a file in it and one beside it; 4 edits of either side, each when the last is synced; edits of the source at any moment; a one-way one-shot sync with edits of either side |
| `naive_liveness` | `Quiesces` | 2 edits of any kind at any moment, the start included |
| `remote_storage` | `SeesOwnChanges`, `HashIsRecent`, `OnlyNamedFilesChange` | 28 scenarios: five backends, files and directories, 1 to 5 calls with up to 2 open files, up to 3 changes by others (not for S3), failing and denied listings, refused and cut-off renames, a Dropbox storage with a location, restarts |
| `search` | `Exact`, `Authentic`, `ReadersAreNamed` | three forests with a bridge in a catalog and catalogs in catalogs; a hint; authors who revoke a key, rewrite and remove manifests during the search; each request twice, 2 processes |
| `catalog_publish` | `NothingHidden`, `NoOrphans`, `UpdateIsExact`, `DeleteUnpublishes` | 2 containers, 2 standalone storages, 2 catalog containers with 3 storages (one read-only, two patterns), 3 commands one after the other, 2 failures |
| `mounting` | `Settled`, `StaysUp`, `UnmountIsComplete`, `MountIsComplete` | a catalog, three containers, a subcontainer and its subcontainer; each kind of watching with 3 edits, which may remove the manifests (where subcontainers are watched, also that of the container they belong to); beside a pattern or subcontainers one of 5, or 2, commands and an edit before or during it; without mount-watch 2 of 17 commands in a row with edits between; one failure |
| `accounts` | `ConfigDenotesUsers`, `FailedLeavesNothing`, `UsersStay`, `ForestComplete`, `RefreshIsEffective` | 2 keys generated here, one user elsewhere, two names, 18 commands, up to 6 of them, one new version, one failure, half-way or not, or crash |

The type invariants (`TypeOK`) of `NaiveSync`, `RemoteStorage`, `Search`, `Catalog`, `Mounting` and `Accounts` hold in the same instances; the
runs are kept for what could really be wrong.

### Bounds, and why they are enough

- *Idents, 2.*  A hazard of the mount table takes one storage and a second one that takes its place (a remount, or a
  mount after an unmount), or two that share a backend or a path.  The theorems hold for any number.
- *Threads, clients, 2.*  Every race here is between the holder of a lock and one thread that
  acts without it or waits for it.  Threads and clients are symmetric; the runs that check only safety use it.
- *Runs, 2; batches, 1.*  Two runs are two jobs, or one job started again - the two ways in which an event
  or a signal can reach the wrong one.
- *Names, 3: a directory, a file in it, a file beside it.*  The syncer treats files
  independently but for a directory and what is under it.  Directories are one deep: recursion
  into a deeper one repeats the same steps.  `Conflict` and `RemoteStorage` use the same shapes.
- *Contents, 2 and "empty".*  The syncer only compares hashes; a source's version, a target's
  version, and a file between `create` and its first write.  Hashes are exact.  A remote storage shows sizes as well, so contents
  are sequences of up to `MaxSize` bytes.
- *Edits, 2 to 4.*  The shortest counterexamples met while modelling need one edit, or two.
- *Time.*  `RemoteStorage` counts time between calls, up to `MaxClock`; with `Timeout` 0 an answer
  is current at the same tick and expired at the next, which are the two cases the caches tell apart.
- *Commands, 2 to 6.*  One that leaves something behind and one that trips over it; six where users must be
  created before they can be linked, refreshed and deleted.
- *File names.*  `Accounts` numbers the files of a name up to 2 (`Free`): a third file of one name would take three users or bridges
  of that name; a command waits when there is no room.
- *Failures, 1 or 2.*  After a failure the command goes its error path; the second one is the failure of the repair.

Deadlock is checked in `mount_tables`, `mount_refcount` and `sync_liveness`
(`FSMount` has `Quiet` for the state in which all idents were given out).  The other runs may stop for good:
a syncer that was stopped stays so, a failed worker may leave a stop command waiting, and the bounds on commands, edits and
calls end the behaviours of the rest.

## Fairness

- `FSMount`: `WF(Step(t))` for each thread - the operating system schedules it.  Starting an operation
  (`Begin`) is not fair.  Weak fairness is enough: `mount_lock` is only taken by a thread that has no other step, and
  `LockReleased` is about the thread that holds it.
- `SyncDaemon`: weak fairness of the event thread, of each worker and watcher thread, and of commands that
  have begun.  Commands and storage events are not fair.
- `NaiveSync`: `WF(SyncStep)`, for the start's thread and both watcher threads together: one of them moves
  while one can.  Users are not fair.  This is weaker than fairness of each thread, and is all `Quiesces` needs.
- The other modules state safety only.  That a command ends follows from its steps, each of which shortens a list; what may not
  end (a storage that does not answer) is outside the code.

## The proofs

| theorem | states |
|---|---|
| `FSMountProofs!Typing` | `Spec => []TypeOK` |
| `FSMountProofs!TablesAlwaysAgree` | the three tables describe the same storages, in every state |
| `FSMountProofs!IdentsAreNotReused` | an ident that was given out denotes its storage or none |
| `FSMountProofs!Refinement` | `Spec => Table!Spec`: the driver implements `MountTable` |
| `FSMountProofs!ResolverAlwaysAgrees` | whenever `mount_lock` is free, the resolver holds exactly the mounted storages at their paths - if no path list repeats a path |
| `FSMountProofs!NoWatcherIsOrphaned` | whenever `mount_lock` is free, every watcher thread has a mounted, watched storage, one per backend |
| `FSMountProofs!RefcountsAreExact` | the count of a backend is the number of initialised storages that share it, and the backend is mounted exactly while there is one - if every `get()` is `Serialised` |
| `FSMountProofs!RequestsAreMounted` | a `request_mount` that counts its caller has the backend mounted - on the same condition |
| `SyncDaemonProofs!TypeCorrect` | `Spec => []TypeOK` |
| `SyncDaemonProofs!WorkersAreJoined` | no worker or watcher thread outlives the registration of its job |
| `SyncDaemonProofs!NoInternalErrors` | neither "nonexistent job" nor "something very wrong happened" is reached by a load that is `Calm` |
| `SyncDaemonProofs!JobStatesAgree` | for a job at rest `job-state` is the state of its syncer - if no command's `active-events` leaves out state events |
| `NaiveSyncProofs!OneWaySparesSource` | a one-way sync never writes to its source |
| `CatalogProofs!NothingOrphaned` | between commands, every copy of a container is where the next publish or unpublish looks for it, or the copy at its uuid path was left half-written - if removals do not fail |
| `CatalogProofs!UpdatesAreExact` | an update that ends leaves exactly the copies the manifest asks for, each of them whole - if removals do not fail |
| `CatalogProofs!DeletionIsComplete` | as long as nothing fails, a deleted container has no copy left where one can be removed - if the containers that commands change offer no catalog storages |
| `CatalogProofs!NothingIsHidden` | a container that has no copy in the catalog is on the list of those that are not published - if the catalog is not empty at first and `RemoteCatalog`, `OneWritable` and `Reliable` hold (below) |
| `ConflictProofs!TypeCorrect` | the tree is what the mounts make of it, whenever none is under way |
| `ConflictProofs!CacheIsRight` | a cached answer that is wrong was put there by a call that a mount overtook |
| `ConflictProofs!EntriesAreUnambiguous` | a call that nothing overtook makes an entry only in the one storage that can be written to there |
| `ConflictProofs!WhatIsListedIsFound` | `getattr` finds each name that `readdir` lists, except a file that gave its name to a directory - if nobody uses a name of the form `stem.wl_id` (`NamesArePlain`) |
| `SearchProofs!FoundIsAuthentic` | `Spec => []Authentic`: a container that a search finds was signed with a key that a manifest of its owner has named |
| `SearchProofs!ContainersAreClosed` | `Spec => []ReadersAreNamed`: a container is encrypted to the keys its author knew of its owner and of its access list, and its storage as one of its authors closed it |
| `MountingProofs!UnmountLeavesNothing` | `Spec => UnmountIsComplete`: what was mounted of the containers `wl container unmount` was given, by name or by path, and of their subcontainers at any depth has left the driver's table when it succeeds, whatever mount-watch does meanwhile, and the sync job of a cache is stopped before the cache goes |
| `AccountsProofs!TypeCorrect` | `Spec => []TypeOK` |
| `AccountsProofs!CleanerRestores` | a create or import that fails leaves bridges, whole private keys and, but for bridge import, users as they were when it began, and at most one file that its own write left half-written |
| `AccountsProofs!ForestsAreComplete` | a forest whose creation succeeds has its catalog named, copied and published |
| `AccountsProofs!OnlyMountOverwrites` | no command but `forest mount` puts a user into a file that holds another one |
| `AccountsProofs!UsersAreKept` | a user's manifest goes only with `user delete`, or with the command that made it - if nobody uses `forest mount` |
| `AccountsProofs!ConfigIsTrue` | whom the configuration names has a manifest - if the configuration can be written and nobody uses `forest mount` |

The assumptions on the constants are named in the modules that declare them.  `FSMount`: path lists are not empty sequences of paths
(`PathListsAssumption`; the commands' schema and `paths[0]` need it), `MaxIdent` is a natural number.  `SyncDaemon`: what a load may
consist of, and the bounds.  `Conflict`: a mode's mount paths are sequences of names and its calls have the paths they need (`ModesAssumption`);
there are finitely many storages and `None` is none of them and no error (`IdentsAssumption`; `Prune` is defined by counting what is left).  `Accounts`: names are a sequence of all
of them (the order in which directories are listed), who lives here and who elsewhere are different users, and which requests there may be.  `Catalog`: containers, catalog entries
of other users and paths are different things, a pattern is one of four kinds, there are finitely many storages (`CatalogAssumption`), and `None` is none of the values it
stands beside (`NoneAssumption`).  `Search`: `None` and the `"*"` of an access list are no keys (`NoneAssumption`), `FileOrder` lists files
(`OrderAssumption`), a scenario's mode and what its authors write are of the kinds they should be (`ModesAssumption`), and authors write the storage of
a new container in clear, to be closed when the container is signed (`ClearAssumption`); containers inside user manifests are open to everybody (`InlineAssumption`).  `Mounting`: what the kinds of watching are (`MountingAssumption`); its theorem does not need it.
`None` is nothing else.  Nothing else is
assumed of the number of threads, clients, paths, names, backends, idents or jobs, or of which operations and failures there are.

*FSMount: types.*  `Typing` needs what the local variables are at each `pc` (`Locals`) and that exactly the thread at a critical
`pc` holds the lock (`Owner`); together with `TypeOK` this is `TypeInv`.

*FSMount: the tables.*  `TablesAgree` is not inductive: a thread at `insert` has checked, several steps ago, that the main path
is free, or has made it free by the first half of a remount, and nothing in the tables says so.
`TablesInv` adds that no ident at or above the counter is used (`CounterFresh`) and what a thread in the
middle of its critical section knows (`Replacing`).  Mutual exclusion keeps the others from invalidating it.
The refinement follows from the same invariant: `MountInsert` is the abstract mount, `DelTables` the
abstract unmount, everything else leaves the table alone.

*FSMount: the resolver and the watchers.*  In the middle of a critical section the tree is neither the old nor the new one.
`ResolverInv` says what it is: the mounted storages at their paths, without the paths an insertion still has
to add, with the paths a removal still has to take away (`Pending`).  A list that repeats a path breaks
it, and the code (see below), so the theorem assumes there is none.
`WatchInv` says the same of watcher threads: one that has lost its watch belongs to the storage
whose watches are being removed right now.

*FSMount: the counts.*  `RefcountExact` speaks of states in which the lock is free.  `RefInv` says what it is in the others:
a request that is about to set its storage's flag is counted already, and the backend is up from the first step of the first request (`Counted`);
`RefLocal` is what a thread between reading the count and writing it back knows.  This is the one place where the proofs count: adding a
storage to a set or taking it away changes its cardinality by one, from `FiniteSetTheorems`.  `Serialised` excludes exactly the two
callers that reach `request_mount` without the lock (eager mounts and `control_fileinfo`), and `unmount()` that raises;
`MCFSMount_eager` and `MCFSMount_unmount_fails` show that each exclusion is needed.

*SyncDaemon: the workers.*  `NoOrphanWorker` is not inductive, because a stop command removes the registration some steps after it joined the worker.
`Inv` ties each client's `pc` to the run it is stopping: only a client that holds the lock is in the middle of a command, the job it names is
registered until it removes it, and from `wait` on its worker is done; runs are numbered in the order of their start, and a watcher
thread is on only while its worker has not stopped it.

*SyncDaemon: the hand-shake and the state.*  A stop command may remove the job only when the event thread has seen its last event.  `CalmInv`
follows a run from its start to its end: its worker leaves its wait only for a stop command (`CalmRuns`), its last event is the last
of its run in the queue (`FinishedIsLast`), a job is in `stop_queue` only when that event was taken (`SignalledJobs`), `stop_event` is set only
when there is one (`HandShake`), and every queued event is of a registered run.  For the reported state it adds that the syncer's state is the state of the last state event
of the run in the queue, or the reported one if there is none, unless it is just about to be put there (`WillSay`).  It is here that a filter which drops state
events breaks the argument, hence the hypothesis of `JobStatesAgree` (see below).  A load that is `Calm` has no failing starts and stops and no
one-shot jobs; each has its counterexample.

*NaiveSync.*  `OneWaySparesSource` speaks of a step and its tasks are data, so the invariant is about the stack: `Flows` says that everything left to
do in a one-way sync is an operation from the source to the target (`OneWayOps`), or reads the target in the initial scan.  Each task only makes tasks of
that kind, whatever it finds, and those that write do so at the other end than `src`.  No operation of `OneWayOps` deletes: what puts a
deletion on the stack is an event handler, and those of a one-way job do nothing.  Two things of the code
are part of this.  The initial sync means to remove from the *source* what was deleted from the target while offline (`naive_sync.py:164-178`, in one-way syncs
too), but it compares a `HashCache` with a hash and never does; were that repaired, the theorem would fail.  And `unidirectional` is the argument of `start_sync` and
`one_shot_sync`: the daemon passes it to the second only (`daemon.py:183`, `188`), so that a continuous job that asks for
one way ("only sync from `source` to `target`", `daemon.py:289`) is a two-way one.  `SourceUntouched` is about two-way syncs whose target nobody touches, too, and stays model-checked: there
it depends on the ignore lists, and `MCNaiveSync_lost_delete` shows how narrowly.

*Conflict.*  `ConflictInv` has three parts.  `TreeInv` is the tree in the middle of a mount or unmount: the nodes that are there are those that lead to a
mounted storage and those on the way of the mount under way (`Led`, `Way`), and each holds the storages whose paths, less the ones still to be
added, with the ones still to be removed, end there (`PathsNow`).  `Lookups` is what a
thread that nothing overtook knows at each `pc`: while it descends, that it has collected exactly what the nodes up to here claim
(`ClaimsUpTo`); after that, the whole answer, and of the storages it has asked which are there and which can be written to.  `CacheOK` is
`StaleIsRaced` with the mount's last steps, between the change of the tree and `cache_clear`, in which the cache is wrong on purpose.
A mount that changes the tree marks every call under way as overtaken, which is what makes the three parts fit.
The attempt to prove `NewEntriesAreUnambiguous` corrected it: it used to speak of the directory of the path as it was given, and there is no proof for
`create` of `/a.wl_1/f`.  `getattr_extended` takes the id off before it asks `is_synthetic` (`conflict.py:334-356`), so
that a name with the id of a storage stands for a directory `/a` which only the mounts have made, and the file goes to the one writable storage
that claims `/a`, whichever the id was.  With that call among the inputs TLC found the same behaviour; the property now speaks of `Target`, the directory the
call is really about, and the input stays.

`ListedIsFound` is about the contents of storages, too, and has an invariant of its own, `NamesInv`: what every storage holds is a tree without names of the form
`stem.wl_id` (`Trees`), and what a call works with, and what the cache holds, is one of the answers its path can have at all (`Possible`), also
when a mount overtook it - which is what keeps the effect of a call that was overtaken a tree (`EffectIsTree`).  From there it is a matter of cases: why a name is in a listing
(`MayBeListed`: one directory or file, several, a file beside a directory, or a node of the mounts), what `getattr_extended` gathers at that name and at
the name without the id (`AtTheName`), and what it makes of it (`NameIsFound`).  `NamesArePlain` is a hypothesis of the theorem and needed: a real file
`x.wl_1` is listed, and looked up as what storage 1 has of `x` (`Modes <- OddMode` below).
This attempt corrected its property as well: a file that had to give its name to a directory was said not to be found, but when the mounts
made that directory it is, as the directory.  No mode had both; `Twice` in `MCConflict` has.

*Catalog.*  Between commands the three properties are about copies at rest; in the middle of an update the files are neither the old entry nor the new
one.  `CopiesInv` has three parts.  `Typed` is the types, with what is known of `job` at each `pc`.  `Working` says what is left of the update of a
storage, stage by stage (`Removing`; `Left`, `InOrder`, `Written`): the sets of operations in `todo` are what remains of the four stages of `_update_child`, no
stage has begun before the one ahead of it is empty, and each path that was taken off a set has been removed or holds the new manifest.  When all are
empty this is `UpdateIsExact`.  `Findable` is `NoOrphans` in every state, but for the storage from which a container is just being removed: what the
old entry has and the new one has not is removed before the uuid path is written over, and only then come the other new paths, so that a publish which is cut
off between two operations can be repaired.  A write that breaks off leaves a file that cannot be loaded (`half`); the invariant takes it for what was to be written there, so that the other
copies are still where that manifest says, and the properties speak of whole files - `NoOrphans` with an exception for the copy at the uuid path, for which there is no repair (`NoOrphansEver`
below).  A removal that is cut off cannot be repaired either (`MCCatalog_uuid_last`), so the invariant is `CalmInv`: it holds while nothing has
failed, or while removals do not.  With the pattern `/{path}.yaml` containers share files; what makes `Findable` survive is that nobody else's
paths include a container's uuid path (`Mine`).
`DeleteUnpublishes` needs to know where copies are at all: `Reached` says that, while nothing fails, whatever lies in a storage lies in one that the catalog
offers, that an unpublish goes to all of these, and that afterwards nothing is left.  What the catalog offers must not shrink, which is the
hypothesis `RemoteCatalog`: a container that is itself an entry of the catalog takes the storages it offers along when it is deleted, and what was
published there stays.
`NothingHidden` is the promise of the file `.unpublished`, which the next commands read instead of the storages.  It speaks of the end of a command and of
all containers at once; `Noting` makes it a promise about each container by itself (`Noted`: in the file, or newer than it, or with a copy in a storage that is
asked), kept at every step for all but the one that the running command is just taking away (`Unsettled`).  A command's name is left out
of the time check (`IsInvalid({o})`), which is sound because the command settles that name itself: an unpublish adds it, and when a publish drops it
`Reachable` has it that a copy is at its uuid path in a storage that is asked, since a request goes to at least one storage and `UpdateIsExact` holds of each.
A file that is computed again while storages are down names too many containers, never too few (`PublishedAnyway`).  Each hypothesis
has its counterexample, found by TLC in `MCCatalog`: without `OneWritable`, `ReadOnly = {}` (below); without `Reliable`, two writes in one tick of the clock
(`Outcomes = BOOLEAN`), an unpublish that is cut off after the uuid path (`"remove"`: the copies of other paths are left, the name is not in the
file), or a delete that is cut off between the file and the manifest (`"delete"`); without `RemoteCatalog`, `StoragesOf` giving `a` a storage, in which `b` is published
while the others are down, and `a` deleted; with `FirstEntries` empty, a file that was computed when there was no catalog.

*Accounts.*  None of the properties is inductive, as they speak of the end of a command or of files that a command is in the middle of changing.
`FilesInv` says what a command knows at each step.  `Typed` ties each `pc` to the command it belongs to and gives the fields of `mem` their
types.  `CacheRight`: what the client has loaded as a user is, until it cleans up, still that user's manifest - what makes `modify` and `forest create` write to
the right file.  `Restorable`: a file or key is either remembered by the cleaner and was not there when the command began, or is as it was then, but for the one file
whose broken write ended the command (`BrokeOff`); this is `FailedLeavesNothing` before the clean-up.  `ForestMade` follows `forest create`: from each step on, what that step has made is there, and it is
the manifest in the user's file that lies in the catalog.  `ConfInv` strengthens `ConfigDenotesUsers` by what a failure can still do: whom
the configuration names has a manifest that the running command's clean-up will not take away (`Lasting`; `user create` has left its cleaner when it
begins to write the configuration), and `user delete` has forgotten the user in the fields it has been through (`Forgotten`).
That new manifests get names no file has needs the files of one name counted up, from `NaturalsInduction`'s well-founded order.
The two hypotheses have counterexamples: `MCAccounts_forest_mount`, and `Faults = {"config"}` (below).
The attempt to prove `Typed` of bridges found a mistake of the model, a guard that only a misplaced bullet had lost: `bridge create` from a
file could continue an import.

*Search: who signed.*  `Authentic` speaks of the containers of a finished search; what makes it true is spread over everything a search has in its hands.
`Learned` says of all of it - the owner lists in `mem`, the contexts of the two caches and of the frames, the manifests in the sources, the frames, the cache
and the steps already taken - that a container is there only if its signer is a key of its owner, users only if they signed themselves, and that an owner is in the list
of a key only because one of the user manifests there were (`said`) names the key.
Lists only grow, also when a bridge of another branch teaches them something through a shared list, so what was accepted stays acceptable; this is why the
property says "has named" and not "names".  That a step takes one manifest after the other in the order of a directory is put
as the next of those selected (`Selected`), which exists by the well-foundedness of the naturals.

*Search: who reads.*  `ReadersAreNamed` compares a manifest with what its author knew.  `Closed` keeps, for each file, the script entry that wrote it last:
the container is encrypted for exactly the keys its signer then knew of the owner and the access list.  The storage inside is encrypted separately, and an author who
changes the access list but cannot read the storage leaves it as it was; so a storage is closed as *one* of the authors since the file was created closed it, and the
invariant, like the property, says that there is one.

*Mounting.*  A command reads the paths, then the info, gathers what to unmount container by container, and unmounts it entry by entry, while mount-watch unmounts
entries and mounts others; the property speaks of what was mounted when it began (`cli.before`) and of the table at the end.
`IInv` follows it.  Identifiers are never given out again (`Placed`), so what a copy of the table says of an identifier stays true as long as the entry is there:
`Known` says of both copies that they have what was mounted at the start and still is, and that they agree with the table on what both have, though they were read at different
times (`Read`).  Of what was mounted at the start and is unwanted, everything that is left is still to be unmounted, either now or, for caches, after their job was
stopped; and what is unmounted now is no cache that a job works on (`Queued`, `Busy`).  `Course` ties `pc` to where the command returns.
A step that is not the command's only takes entries away or adds new identifiers (`Aside`, `Later`), which leaves all of this alone.
`Subs` is the least set that is closed under "mounted for one of these"; that what it finds is closed, and so has the subcontainers of every depth, is `SubsIs`.
The lists are sequences that are sorted, joined and freed of repetitions (`Sorted`, `Distinct`, `WithPms`); that none of these loses an entry is proved by rank - the k-th
smallest of a finite set has k members up to it - and by the least position of each entry.
An earlier attempt corrected the property, which said that no job was left of a container that was unmounted; that is refuted by three commands in a row:
see "What the code gets wrong".

Only model-checked: `RefreshIsEffective` of `Accounts` (it holds while a user has one manifest file, which the instance's commands
see to and no invariant of the code does), `Exact` of `Search` (it compares a search with a recursive definition of what the graph leads to), `Settled`, `StaysUp` and `MountIsComplete` of
`Mounting` (they need what every command and mount-watch in the middle of a batch have left to do, with edits between any two calls), `DifferencesReported`,
`HashesAgree`, `ReplacesOnlyKnown` and `SourceUntouched` of two-way `NaiveSync` (below), the properties of `RemoteStorage`, and liveness (`LockReleased`,
`CommandsReturn`, `Quiesces`), which the prover does not reach.

## What the code gets wrong

The properties of the runs hold.  The following configurations end in a counterexample each; TLC shows the
behaviour with `tlc -config <configuration> <module>`.  They are kept because they explain why the properties have the
preconditions they have.

| configuration | property | what happens |
|---|---|---|
| `MCFSMount_eager` | `DeletedStoragesUnmounted` | an eager mount fetches the storage after leaving the lock (`fs_base.py:133`); an unmount in between leaves the backend mounted for ever |
| `MCFSMount_unmount_fails` | `RequestMountMounts` | `request_unmount` counts down before `unmount()` raises; the next unmount makes the count -1, and the next mount never mounts the backend |
| `MCFSMount_repeated_path` | `ResolverAgrees` | the container paths `/x:y` and `/x_y` give the same mount path; the second removal of it raises and the rest of the paths stays in the resolver |
| `MCConflict_forced_read_only` | `ForcedReadOnlyStays` | a directory that several storages can write to is "forced to be read only (i.e. the list of files cannot be modified" (`conflict.py:185-187`), but a file in it can be deleted: `unlink` and `rename` look the file up, not the directory |
| `MCConflict_open_file` | `EveryOpenIsReleased` | `release` resolves the path again: after an unmount, or when another storage now holds the path, the storage that opened the file is never told |
| `MCSyncDaemon_failed_jobs` | `CommandsReturn` | two jobs end by themselves and set `stop_event` once each; the first stop clears it, the second waits for ever with the lock taken |
| `MCSyncDaemon_error_race` | `ErrorAlwaysSticky` | the state setter's check and assignment interleave: a watcher thread overwrites ERROR |
| `MCNaiveSync_lost_delete` | `SourceUntouched` | a file is written and deleted before the MODIFY event is handled: `_sync_file` drops the source's hash, so the deletion looks like a conflict and is settled by bringing the old version back from the other side |
| `MCNaiveSync_stale_ignore` | `DifferencesReported` | what the syncer writes into a directory that is not watched yet is announced and never reported: the announcement swallows a user's change later |
| `MCNaiveSync_merged_event` | `DifferencesReported` | a user's write merges with the event of the syncer's own write and is ignored with it |
| `MCNaiveSync_both_edit` | `ReplacesOnlyKnown` | local storages have no `open_for_safe_replace`: a version written after the hash was compared is truncated |
| `MCRemoteStorage_webdav_truncate` | `SeesOwnChanges` | WebDAV's `truncate` does not clear the cache ("invalidate cache ... in all operations that might change the result", `cached.py`): the old size is shown |
| `MCRemoteStorage_hash_aba` | `HashIsRecent` | `get_hash` stores what it read under the token from before: a file that returns to that version has the hash of the one in between |
| `MCSearch_hint_later` | `Exact` | a path searched without its hint is remembered as leading nowhere; the hint is not looked at later |
| `MCSearch_foreign_local` | `Exact` | a local container below a bridge is taken for one of the forest the path began in, and what is behind it is checked against that owner |
| `MCCatalog_uuid_last` | `NoOrphans` | "remove /.uuid path last" (`file_children.py:265`) compares the first two parts of relative paths with `('/', '.uuid')`, which never matches: an interrupted removal leaves copies that nothing finds again |
| `MCMounting_overwritten_flag` | `WatchedBelow` | `handle_events` "returns whether there may be a need to recalculate watch patterns" (`remounter.py:195`), but what it returns is what the last event of the batch says (`remounter.py:211`): a container whose children have to be watched anew is overlooked, and its subcontainers are not mounted |
| `MCAccounts_forest_mount` | `UsersStay` | `forest mount` refreshes users with `force`: a user who is not here yet is saved under the name of the location, over the manifest of another user with that file name |

Further scenarios with a counterexample are named in the `MC` modules and take the place of the one in a configuration above:
`PathLists <- TwoMainPaths` with one backend, no failures and `Ops = {"mount", "unmount", "watch"}` (`WatchedHasWatcher`: two idents share a
backend, and `start_watcher` raises for the second one, whose watch stays without a watcher) in `MCFSMount`;
`Jobs <- FailedStart`, with `Paths = {f, g}` and `Parent <- Flat` (`ReplacesOnlyKnown`: a start that fails in the scan leaves handlers running with half of the hashes) and
`Jobs <- ErrorContinues` (`ErrorAborts`: after an error the handlers go on changing the storages) in `MCNaiveSync`;
`Loads <- Filtered` (`JobStateAgrees`: `active-events` filters the state events the daemon itself depends on),
`Loads <- FailedStarts` with one client and two runs (`SignalIsItsOwn`: a job whose start failed leaves its entry in `stop_queue` and `stop_event`
set; the next stop command of another job takes the signal for its own and raises "Internal sync error" - "something very wrong happened",
`daemon.py:355`; `Loads <- StopAlls` does the same to it and to `QueueHasJobs`, for stop-all leaves both as the workers set them) and `Loads <- OneShots` (`QueueHasJobs`: a one-shot job is removed when its worker is joined, with its events still queued)
in `MCSyncDaemon`;
`Kinds = WithSubs = FaultKinds = {"wlpath"}` with no deadlock check (`WlpathSettled`: a change of a watched file "results in a
Wildland path resolve again", `remounter.py:62-70`, but the search answers from its cache) in `MCMounting`, where `JobsHaveCaches` fails twice with
`Kinds = {"off"}`, no edits and no failures: with `Requests <- ForgottenRequests` and `MaxRequests <- ThreeRequests` (`delete-cache` removes the storage manifest while the cache is mounted, the next
unmount takes the cache for an ordinary storage and leaves its sync job running), and with `Requests <- SubCacheRequests` and `MaxRequests <- FourRequests`
(the caches of subcontainers are unmounted with their container and their jobs go on: `cli_container.py:1102` compares the storage's id with the ids of backends);
`Requests <- RefreshAllCommands` with `TwoTheirs`, `TwoNameOf` and `TwoServed` (`RefreshReachesAll`: "if None, will refresh all users with a bridge
present", `wildland_core_user.py:224`; locations are kept by the owner of the bridge, so one of all users is refreshed for each owner), and `FailedLeavesNoFile` in place of `FailedLeavesNothing` in
`MCAccounts_safety` ("Clean up created files if fails", `cli_user.py:69`: the file whose own write breaks off is not known to the cleaner) in `MCAccounts`;
`ReadOnly = {}` (`NothingHidden`: a container that is published while the first storage of a catalog container is down goes to the second one;
when the first is back, `is_published` and lookups ask it alone, and nothing names the container as unpublished) and `StoragesOf` giving `a` a storage, with
`FirstEntries` empty and four commands (`DeleteUnpublishes`: `RemoteCatalog` above), and `NoOrphansEver` in place of `NoOrphans` in `MCCatalog_publish` (the write of the copy at the
uuid path breaks off, `storage_driver.py:101-108`; `_fetch_from_uuid_path`, `file_children.py:240-244`, raises in every later publish and unpublish, and nothing removes the other
copies) in `MCCatalog`;
`Modes <- OddMode` (`EveryListedIsFound`: a file and a directory of one name; `ListedIsFound`: a real name of the form `x.wl_1`) in `MCConflict`;
`Modes <- CutOffRename` (`SeesOwnChanges`), `Modes <- HashOfOpenFile` (`HashIsRecent`), `Modes <- S3HashMode` (`HashIsRecentInS3`: `flush` and `release` put the attributes from before the write back into
the cache, `wildland_s3/backend.py:708-723`, so that the token does not "change when the file changes", `base.py:605`, and the old hash is answered) and `Modes <- LocatedMode` (`StaysInLocation`:
Dropbox's rename does not prepend the location, `wildland_dropbox/backend.py:305-307`, which is the "absolute POSIX path acting as a root directory", and renames files outside of it) in `MCRemoteStorage`;
`Chosen = "missing_catalog"` (`Exact`: one forest without its catalog ends a search over all of them) in `MCSearch`; `Faults = {"config"}`
(`ConfigDenotesUsers`: a configuration that cannot be written is no error, and the user it names is deleted) in `MCAccounts`.

This is why `RefcountExact` is checked without eager mounts and failing `unmount()`, `ResolverAlwaysAgrees` assumes
lists without repetitions, `NoInternalError` and `JobStateAgrees` hold of loads that are `Calm`, the jobs of `naive_safety` distinguish users
who wait, users of one side, and users of both, `SeesOwnChanges` is checked in scenarios that avoid the case
above, `HashIsRecent`, `NoOrphans` and `FailedLeavesNothing` name the exceptions above, `UnmountIsComplete` speaks of caches that are still known and were mounted with their own container, and `ListedIsFound` names its exceptions.

What mount-watch follows has more exceptions, each of them stated in the property and found by TLC when it is taken out of the run's properties.  `Settled`: a file that goes away while
watches are placed again is missed, since only the files that are there are announced then (`remounter.py:150-158`); of a container whose manifest goes away `handle_event` unmounts
the primary storage and leaves secondary ones mounted (`remounter.py:262-280`); and subcontainers are followed while their container's storage is watched, which it is no more
after the storage was replaced and the batch's last event said there was nothing to watch anew.  `StaysUp`: a container whose children are watched is never taken off that list
(`inside_containers`, `remounter.py:292-303`), so once its manifest went away and it was unmounted, the next registration asks the driver for a watch on a storage that is not mounted, and
mount-watch ends; a command that unmounts the container does the same.  `MountIsComplete`: pseudomanifests whose mount failed once are not asked for again.

## What is left out

In the modelled components:

- `FSMount`: `storage_extra`; the commands that only read; the delivery of events by `fs_watchers.py`.
- `Conflict`: attributes other than the kind of an entry and whether it can be written; eviction from the
  cache, which is a miss like others.
- `SyncDaemon`: `status`; progress and conflict events, which change nothing but what `status` prints;
  `shutdown`, which stops the jobs the way stop-all does; `StorageError` and `HashMismatchError`, which are `BaseException`s
  (`storage_backends/base.py:59-74`) and would pass the worker's `except Exception`.
- `NaiveSync`: storages other than local ones; renames of directories; attributes and times; the cache of
  hashes (a hash is the content; `RemoteStorage` has it); `iter_conflicts`.
- `RemoteStorage`: several calls of one backend at the same time; the arithmetic of pages in `buffered.py`; S3's multipart
  uploads and index pages beyond their place in a listing; Dropbox's cursors; S3 with others who change the same tree.
- `Search`: the parsing of paths; storages that are not one inline manifest; `auto_import_users`; containers inside user manifests that have an access list (`_encrypt_submanifests` encrypts them).
- `Catalog`: users, bridges and storages as published objects (containers stand for them); the contents of storages; two processes that publish at the same
  time; local manifests that a broken write left half-written.
- `Mounting`: the driver's start-up; more than one command beside mount-watch, and any beside a wildland path or an outside container; a control connection that breaks; unmounting in the middle of a file operation.
- `Accounts`: what a second process does while a command runs; writes over an existing file that break off half-way; passwords and the dummy signatures.

### Not modelled

`control_server.py` and `control_client.py` carry one request and one reply; their threads end with the process. `storage_sync/dispatch.py`
is a lookup.  `storage_backends/` has views without state (`delegate`, `static`, `timeline`, `transpose`, ...), and the plugins for `encfs`,
`sshfs`, `git`, `ipfs`, Google Drive and Redis wrap programs and services whose behaviour is not in the repository.
`core/wildland_core_api.py` is an interface.  The rest of the command line, templates, schemas, configuration files and logging read,
check and print.  About 30 % of the lines of the implementation are mapped; most of what is not mapped is of these kinds, and
comments and options of commands in the files that are.

## The plan

Done: `MountTable`, `FSMount` and its proofs; `SyncDaemon`; `NaiveSync`; `Conflict`; `RemoteStorage`; `Manifests` and `Search`; `Catalog`;
`Mounting`; `Accounts`; the proofs about `FSMount`, `SyncDaemon`, `NaiveSync` (one-way), `Conflict`, `Catalog`, `Search` (`Authentic`, `ReadersAreNamed`),
`Mounting` (`UnmountIsComplete`) and `Accounts`.

Theorems worth proving next: `StaysUp` of `Mounting`; the safety part of two-way `NaiveSync` (`HashesAgree`); `OnlyNamedFilesChange` of `RemoteStorage`.

Models worth writing next: the delivery of events by `fs_watchers.py` against `add_watch` and `_remove_watch`, and
the polling `SimpleStorageWatcher`.
