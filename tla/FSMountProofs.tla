--------------------------- MODULE FSMountProofs ---------------------------
(***************************************************************************)
(* Proofs about FSMount, for any number of threads, paths, backends and    *)
(* storages, any set of operations and of failures.                        *)
(***************************************************************************)
EXTENDS FSMount, SequenceTheorems, FiniteSetTheorems, TLAPS

-----------------------------------------------------------------------------
(* Type correctness. *)

(* Where a thread has its request, its ident and its backend, and that it is   *)
(* inside a "with mount_lock" block wherever the code changes the tables.      *)
InGet == {"get", "get_read", "get_write", "get_done"}

Locals ==
    \A t \in Threads :
        /\ pc[t] \in {"mount", "insert", "resolver_add"} => req[t] # None
        /\ cont[t] = "insert" => req[t] # None
        /\ pc[t] \in {"unmount", "access", "add_watch", "stop_watches", "uncount", "del",
                      "resolver_del", "resolver_add", "start_watcher"} \cup InGet
             => ident[t] # 0
        /\ pc[t] \in InGet => cont[t] \in {"use", "start_watcher"}
        /\ pc[t] \in {"access", "resolver_add"} => cont[t] = "use"
        /\ pc[t] \in {"get_read", "get_write", "get_done", "start_watcher"}
             => backend[t] # None
        /\ pc[t] = "uncount" => storages[ident[t]] # None

Owner == \A t \in Threads :
            pc[t] \in Critical \/ (pc[t] \in InGet /\ cont[t] = "start_watcher")
              => mount_lock = t

TypeInv == TypeOK /\ Locals /\ Owner

(* A path list has a first path, and what follows it is a path sequence.       *)
LEMMA PathListEnds ==
    /\ \A s \in PathLists : Head(s) \in Paths /\ Tail(s) \in Seq(Paths)
    /\ \A s \in PathLists \cup {<< >>} : s \in Seq(Paths)
<1>1. \A s \in PathLists : Head(s) \in Paths /\ Tail(s) \in Seq(Paths)
  BY PathListsAssumption, HeadTailProperties
<1>2. << >> \in Seq(Paths)
  BY EmptySeq
<1>3. \A s \in PathLists : s \in Seq(Paths)
  BY PathListsAssumption
<1> QED
  BY <1>1, <1>2, <1>3

(* Updating a function at any argument keeps its range.                         *)
LEMMA ExceptType ==
    ASSUME NEW S, NEW T, NEW f \in [S -> T], NEW x, NEW v \in T
    PROVE  [f EXCEPT ![x] = v] \in [S -> T]
OBVIOUS

(* Leaving an operation, normally or with an exception, keeps the invariant on  *)
(* the threads: the lock is released exactly by the thread that holds it.       *)
LEMMA ReturnKeeps ==
    ASSUME TypeInv, NEW t \in Threads, Return(t), UNCHANGED storages
    PROVE  ThreadsTypeOK' /\ Locals' /\ Owner'
<1> USE DEF TypeInv, TypeOK, ThreadsTypeOK, Return
<1>1. ThreadsTypeOK'
  BY DEF PCs
<1>2. Locals'
  BY DEF Locals, InGet, PCs
<1>3. Owner'
  BY NoneAssumption DEF Owner, Critical, InGet
<1> QED
  BY <1>1, <1>2, <1>3

(* Every step of a thread keeps the types and the facts about its locals.      *)
LEMMA TypeInvNext == TypeInv /\ [Next]_vars => TypeInv'
<1> SUFFICES ASSUME TypeInv, Next \/ UNCHANGED vars PROVE TypeInv'
  OBVIOUS
<1>a. TypeOK /\ Locals /\ Owner
  BY DEF TypeInv
<1>r. ASSUME NEW t \in Threads, Return(t), UNCHANGED storages
      PROVE  ThreadsTypeOK' /\ Locals' /\ Owner'
  BY <1>r, ReturnKeeps
<1> USE <1>a, PathListsAssumption, MaxIdentAssumption, NoneAssumption
    DEF TypeOK, TablesTypeOK, ThreadsTypeOK, Locals, Owner, InGet, Critical, PCs, Idents, tables, watchVars, At, Goto
<1>1. ASSUME NEW t \in Threads, MountBegin(t) PROVE TypeInv'
  <2>1. TablesTypeOK'
    BY <1>1 DEF MountBegin, Requests
  <2>2. ThreadsTypeOK'
    BY <1>1 DEF MountBegin, Requests
  <2>3. Locals'
    BY <1>1 DEF MountBegin, Requests
  <2>4. Owner'
    BY <1>1 DEF MountBegin, Requests
  <2> QED
    BY <2>1, <2>2, <2>3, <2>4 DEF TypeInv
<1>2. ASSUME NEW t \in Threads, MountLocked(t) PROVE TypeInv'
  <2>a. main_paths[Head(req[t].paths)] \in Idents \cup {0}
    BY <1>2, PathListEnds DEF MountLocked, Requests
  <2>1. TablesTypeOK'
    BY <1>2 DEF MountLocked
  <2>2. UNCHANGED storages
    BY <1>2 DEF MountLocked
  <2>3. CASE Return(t)
    <3> HIDE DEF TypeOK, TablesTypeOK, ThreadsTypeOK, Locals, Owner, InGet, Critical, PCs
    <3> QED
      BY <1>r, <2>1, <2>2, <2>3 DEF TypeInv, TypeOK
  <2>4. CASE ~Return(t)
    <3>1. CASE main_paths[Head(req[t].paths)] = 0
      <4>1. /\ pc[t] = "mount" /\ mount_lock = None /\ mount_lock' = t
            /\ pc' = [pc EXCEPT ![t] = "insert"]
            /\ UNCHANGED <<storages, req, ident, backend, todo, cont, count>>
        BY <1>2, <2>4, <3>1, <2>a DEF MountLocked, Acquire
      <4>2. ThreadsTypeOK'
        <5> HIDE DEF TablesTypeOK, Locals, Owner
        <5> QED
          BY <4>1
      <4>3. Locals'
        BY <4>1
      <4>4. Owner'
        BY <4>1
      <4> QED
        BY <2>1, <4>2, <4>3, <4>4 DEF TypeInv
    <3>2. CASE main_paths[Head(req[t].paths)] # 0
      <4>1. /\ pc[t] = "mount" /\ mount_lock = None /\ mount_lock' = t
            /\ pc' = [pc EXCEPT ![t] = "stop_watches"]
            /\ cont' = [cont EXCEPT ![t] = "insert"]
            /\ ident' = [ident EXCEPT ![t] = main_paths[Head(req[t].paths)]]
            /\ main_paths[Head(req[t].paths)] \in Idents
            /\ UNCHANGED <<storages, req, backend, todo, count>>
        BY <1>2, <2>4, <3>2, <2>a DEF MountLocked, Acquire
      <4>2. ThreadsTypeOK'
        <5> HIDE DEF TablesTypeOK, Locals, Owner
        <5> QED
          BY <4>1
      <4>3. Locals'
        BY <4>1
      <4>4. Owner'
        BY <4>1
      <4> QED
        BY <2>1, <4>2, <4>3, <4>4 DEF TypeInv
    <3> QED
      BY <3>1, <3>2
  <2> QED
    BY <2>3, <2>4
<1>3. ASSUME NEW t \in Threads, MountInsert(t) PROVE TypeInv'
  BY <1>3 DEF TypeInv, MountInsert, Requests
<1>4. ASSUME NEW t \in Threads, ResolverAdd(t) PROVE TypeInv'
  BY <1>4 DEF TypeInv, ResolverAdd
<1>5. ASSUME NEW t \in Threads, MountEnd(t) PROVE TypeInv'
  <2>1. TablesTypeOK'
    BY <1>5 DEF MountEnd
  <2>2. UNCHANGED storages
    BY <1>5 DEF MountEnd
  <2>3. CASE Return(t)
    <3> HIDE DEF TypeOK, TablesTypeOK, ThreadsTypeOK, Locals, Owner, InGet, Critical, PCs
    <3> QED
      BY <1>r, <2>1, <2>2, <2>3 DEF TypeInv, TypeOK
  <2>4. CASE ~Return(t)
    <3>1. /\ pc[t] = "resolver_add" /\ mount_lock' = None
          /\ pc' = [pc EXCEPT ![t] = "get"]
          /\ UNCHANGED <<storages, req, ident, backend, todo, cont, count>>
      BY <1>5, <2>4 DEF MountEnd, Release
    <3>2. ThreadsTypeOK'
      <4> HIDE DEF TablesTypeOK, Locals, Owner
      <4> QED
        BY <3>1
    <3>3. Locals'
      BY <3>1
    <3>4. Owner'
      BY <3>1
    <3> QED
      BY <2>1, <3>2, <3>3, <3>4 DEF TypeInv
  <2> QED
    BY <2>3, <2>4
<1>6. ASSUME NEW t \in Threads, UnmountBegin(t) PROVE TypeInv'
  BY <1>6 DEF TypeInv, UnmountBegin, Mounted
<1>7. ASSUME NEW t \in Threads, UnmountLocked(t) PROVE TypeInv'
  BY <1>7 DEF TypeInv, UnmountLocked, Acquire
<1>8. ASSUME NEW t \in Threads, StopWatches(t) PROVE TypeInv'
  <2>1. TablesTypeOK'
    BY <1>8 DEF StopWatches
  <2>2. UNCHANGED storages
    BY <1>8 DEF StopWatches
  <2>3. CASE Return(t)
    <3> HIDE DEF TypeOK, TablesTypeOK, ThreadsTypeOK, Locals, Owner, InGet, Critical, PCs
    <3> QED
      BY <1>r, <2>1, <2>2, <2>3 DEF TypeInv, TypeOK
  <2>4. CASE ~Return(t)
    <3>1. /\ pc[t] = "stop_watches" /\ storages[ident[t]] # None
          /\ pc' = [pc EXCEPT ![t] = IF initialized[ident[t]] THEN "uncount" ELSE "del"]
          /\ UNCHANGED <<storages, mount_lock, req, ident, backend, todo, cont, count>>
      BY <1>8, <2>4 DEF StopWatches, Mounted
    <3>2. ThreadsTypeOK'
      <4> HIDE DEF TablesTypeOK, Locals, Owner
      <4> QED
        BY <3>1
    <3>3. Locals'
      BY <3>1
    <3>4. Owner'
      BY <3>1
    <3> QED
      BY <2>1, <3>2, <3>3, <3>4 DEF TypeInv
  <2> QED
    BY <2>3, <2>4
<1>9. ASSUME NEW t \in Threads, Uncount(t) PROVE TypeInv'
  BY <1>9 DEF TypeInv, Uncount
<1>10. ASSUME NEW t \in Threads, DelTables(t) PROVE TypeInv'
  <2> DEFINE i == ident[t]
  <2>i. i \in Idents
    BY <1>10 DEF DelTables, DelEntries
  <2>1. TablesTypeOK'
    <3>1. mounted' \in [Backends -> Int]
      BY <1>10, <2>i DEF DelTables, DelEntries, UnmountBackend
    <3>2. up' \in [Backends -> BOOLEAN]
      BY <1>10, <2>i DEF DelTables, DelEntries, UnmountBackend
    <3> QED
      BY <1>10, <2>i, <3>1, <3>2 DEF DelTables, DelEntries
  <2>2. ThreadsTypeOK'
    <3>1. storage_paths[i] \in Seq(Paths)
      BY <2>i, PathListEnds
    <3> QED
      BY <1>10, <3>1 DEF DelTables, DelEntries
  <2>3. Locals'
    BY <1>10 DEF DelTables, DelEntries, UnmountBackend
  <2>4. Owner'
    BY <1>10 DEF DelTables, DelEntries, UnmountBackend
  <2> QED
    BY <2>1, <2>2, <2>3, <2>4 DEF TypeInv
<1>11. ASSUME NEW t \in Threads, UnmountFails(t) PROVE TypeInv'
  <2>1. TablesTypeOK'
    <3>1. mounted' \in [Backends -> Int]
      <4>1. PICK b : mounted' = [mounted EXCEPT ![b] = 0]
        BY <1>11 DEF UnmountFails
      <4> QED
        BY <4>1, <1>a, ExceptType, 0 \in Int
    <3>2. up' \in [Backends -> BOOLEAN]
      BY <1>11 DEF UnmountFails
    <3> QED
      BY <1>11, <3>1, <3>2 DEF UnmountFails
  <2>2. Return(t) /\ UNCHANGED storages
    BY <1>11 DEF UnmountFails
  <2> HIDE DEF TypeOK, TablesTypeOK, ThreadsTypeOK, Locals, Owner, InGet, Critical, PCs
  <2> QED
    BY <1>r, <2>1, <2>2 DEF TypeInv, TypeOK
<1>12. ASSUME NEW t \in Threads, ResolverDel(t) PROVE TypeInv'
  <2>h. Head(todo[t]) \in Paths /\ Tail(todo[t]) \in Seq(Paths)
    BY <1>12, HeadTailProperties DEF ResolverDel
  <2>1. TablesTypeOK'
    <3>1. resolver' \in [Paths -> SUBSET Idents]
      <4>1. \/ resolver' = [resolver EXCEPT ![Head(todo[t])] = @ \ {ident[t]}]
            \/ resolver' = resolver
        BY <1>12 DEF ResolverDel
      <4>2. resolver \in [Paths -> SUBSET Idents]
        OBVIOUS
      <4> HIDE DEF TypeOK, TablesTypeOK, ThreadsTypeOK, Locals, Owner, Idents
      <4> QED
        BY <4>1, <4>2
    <3> QED
      BY <1>12, <3>1 DEF ResolverDel
  <2>2. UNCHANGED storages
    BY <1>12 DEF ResolverDel
  <2>3. CASE ident[t] \notin resolver[Head(todo[t])]
    <3>1. Return(t)
      BY <1>12, <2>3 DEF ResolverDel
    <3> HIDE DEF TypeOK, TablesTypeOK, ThreadsTypeOK, Locals, Owner, InGet, Critical, PCs
    <3> QED
      BY <1>r, <2>1, <2>2, <3>1 DEF TypeInv, TypeOK
  <2>4. CASE ident[t] \in resolver[Head(todo[t])]
    <3>1. /\ pc[t] = "resolver_del"
          /\ todo' = [todo EXCEPT ![t] = Tail(@)]
          /\ UNCHANGED <<storages, pc, req, ident, backend, cont, count, mount_lock>>
      BY <1>12, <2>4 DEF ResolverDel
    <3>2. ThreadsTypeOK'
      <4> HIDE DEF TablesTypeOK, Locals, Owner
      <4> QED
        BY <3>1, <2>h
    <3>3. Locals'
      BY <3>1
    <3>4. Owner'
      BY <3>1
    <3> QED
      BY <2>1, <3>2, <3>3, <3>4 DEF TypeInv
  <2> QED
    BY <2>3, <2>4
<1>13. ASSUME NEW t \in Threads, UnmountEnd(t) PROVE TypeInv'
  <2>1. TablesTypeOK'
    BY <1>13 DEF UnmountEnd
  <2>2. UNCHANGED storages
    BY <1>13 DEF UnmountEnd
  <2>3. CASE Return(t)
    <3> HIDE DEF TypeOK, TablesTypeOK, ThreadsTypeOK, Locals, Owner, InGet, Critical, PCs
    <3> QED
      BY <1>r, <2>1, <2>2, <2>3 DEF TypeInv, TypeOK
  <2>4. CASE ~Return(t)
    <3>1. /\ pc[t] = "resolver_del" /\ cont[t] = "insert"
          /\ pc' = [pc EXCEPT ![t] = "insert"]
          /\ UNCHANGED <<storages, mount_lock, req, ident, backend, todo, cont, count>>
      BY <1>13, <2>4 DEF UnmountEnd
    <3>2. ThreadsTypeOK'
      <4> HIDE DEF TablesTypeOK, Locals, Owner
      <4> QED
        BY <3>1
    <3>3. Locals'
      BY <3>1
    <3>4. Owner'
      BY <3>1
    <3> QED
      BY <2>1, <3>2, <3>3, <3>4 DEF TypeInv
  <2> QED
    BY <2>3, <2>4
<1>14. ASSUME NEW t \in Threads, GetLookup(t) PROVE TypeInv'
  <2>1. TablesTypeOK'
    BY <1>14 DEF GetLookup, MountBackend
  <2>2. ThreadsTypeOK' /\ Locals'
    <3>1. CASE storages[ident[t]] = None
      <4>1. Return(t) /\ UNCHANGED storages
        BY <1>14, <3>1 DEF GetLookup
      <4> HIDE DEF TypeOK, TablesTypeOK, ThreadsTypeOK, Locals, Owner, InGet, Critical, PCs
      <4> QED
        BY <1>r, <4>1
    <3>2. CASE storages[ident[t]] # None /\ initialized[ident[t]]
      <4>1. /\ pc' = [pc EXCEPT ![t] = cont[t]]
            /\ backend' = [backend EXCEPT ![t] = storages[ident[t]]]
            /\ mount_lock' \in {None, mount_lock}
            /\ UNCHANGED <<storages, req, ident, todo, cont, count>>
        BY <1>14, <3>2 DEF GetLookup, GotStorage
      <4>2. /\ storages[ident[t]] \in Backends
            /\ cont[t] \in {"use", "start_watcher"}
        BY <1>14, <3>2 DEF GetLookup
      <4>3. ThreadsTypeOK'
        BY <4>1, <4>2
      <4> QED
        BY <1>14, <4>1, <4>2, <4>3 DEF GetLookup
    <3>3. CASE storages[ident[t]] # None /\ ~initialized[ident[t]]
      <4>1. /\ pc' = [pc EXCEPT ![t] = "get_read"]
            /\ backend' = [backend EXCEPT ![t] = storages[ident[t]]]
            /\ UNCHANGED <<storages, mount_lock, req, ident, todo, cont, count>>
        BY <1>14, <3>3 DEF GetLookup
      <4>2. storages[ident[t]] \in Backends
        BY <1>14, <3>3 DEF GetLookup
      <4>3. ThreadsTypeOK'
        BY <4>1, <4>2
      <4> QED
        BY <1>14, <4>1, <4>2, <4>3 DEF GetLookup
    <3> QED
      BY <3>1, <3>2, <3>3
  <2>3. Owner'
    <3>1. CASE storages[ident[t]] = None
      <4>1. Return(t) /\ UNCHANGED storages
        BY <1>14, <3>1 DEF GetLookup
      <4> HIDE DEF TypeOK, TablesTypeOK, ThreadsTypeOK, Locals, Owner, InGet, Critical, PCs
      <4> QED
        BY <1>r, <4>1
    <3>2. CASE storages[ident[t]] # None /\ initialized[ident[t]]
      <4>1. /\ pc[t] = "get" /\ cont' = cont /\ pc' = [pc EXCEPT ![t] = cont[t]]
            /\ mount_lock' = IF mount_lock = t /\ cont[t] = "use" THEN None ELSE mount_lock
        BY <1>14, <3>2 DEF GetLookup, GotStorage
      <4> HIDE DEF TablesTypeOK
      <4> QED
        BY <4>1
    <3>3. CASE storages[ident[t]] # None /\ ~initialized[ident[t]]
      <4>1. /\ pc[t] = "get" /\ UNCHANGED <<cont, mount_lock>>
            /\ pc' = [pc EXCEPT ![t] = "get_read"]
        BY <1>14, <3>3 DEF GetLookup
      <4> HIDE DEF TablesTypeOK
      <4> QED
        BY <4>1
    <3> QED
      BY <3>1, <3>2, <3>3
  <2> QED
    BY <2>1, <2>2, <2>3 DEF TypeInv
<1>15. ASSUME NEW t \in Threads, MountFails(t) PROVE TypeInv'
  <2>1. TablesTypeOK'
    BY <1>15 DEF MountFails
  <2>2. UNCHANGED storages
    BY <1>15 DEF MountFails
  <2>3. CASE Return(t)
    <3> HIDE DEF TypeOK, TablesTypeOK, ThreadsTypeOK, Locals, Owner, InGet, Critical, PCs
    <3> QED
      BY <1>r, <2>1, <2>2, <2>3 DEF TypeInv, TypeOK
  <2> QED
    BY <1>15, <2>3 DEF MountFails
<1>16. ASSUME NEW t \in Threads, GetRead(t) PROVE TypeInv'
  BY <1>16 DEF TypeInv, GetRead
<1>17. ASSUME NEW t \in Threads, GetWrite(t) PROVE TypeInv'
  BY <1>17 DEF TypeInv, GetWrite
<1>18. ASSUME NEW t \in Threads, GetDone(t) PROVE TypeInv'
  BY <1>18, SMTT(40) DEF TypeInv, GetDone, GotStorage
<1>19. ASSUME NEW t \in Threads, AccessResolve(t) PROVE TypeInv'
  BY <1>19 DEF TypeInv, AccessResolve
<1>20. ASSUME NEW t \in Threads, AccessLocked(t) PROVE TypeInv'
  <2>1. TablesTypeOK'
    BY <1>20 DEF AccessLocked, Acquire
  <2>2. ThreadsTypeOK'
    BY <1>20 DEF AccessLocked, Acquire
  <2>3. Locals'
    BY <1>20 DEF AccessLocked, Acquire
  <2>4. Owner'
    BY <1>20 DEF AccessLocked, Acquire
  <2> QED
    BY <2>1, <2>2, <2>3, <2>4 DEF TypeInv
<1>21. ASSUME NEW t \in Threads, FileInfo(t) PROVE TypeInv'
  BY <1>21 DEF TypeInv, FileInfo
<1>22. ASSUME NEW t \in Threads, UseEnd(t) PROVE TypeInv'
  <2>1. TablesTypeOK'
    BY <1>22 DEF UseEnd
  <2>2. UNCHANGED storages
    BY <1>22 DEF UseEnd
  <2>3. CASE Return(t)
    <3> HIDE DEF TypeOK, TablesTypeOK, ThreadsTypeOK, Locals, Owner, InGet, Critical, PCs
    <3> QED
      BY <1>r, <2>1, <2>2, <2>3 DEF TypeInv, TypeOK
  <2> QED
    BY <1>22, <2>3 DEF UseEnd
<1>23. ASSUME NEW t \in Threads, AddWatchBegin(t) PROVE TypeInv'
  BY <1>23 DEF TypeInv, AddWatchBegin, Mounted
<1>24. ASSUME NEW t \in Threads, AddWatchLocked(t) PROVE TypeInv'
  <2>1. TablesTypeOK'
    BY <1>24 DEF AddWatchLocked
  <2>2. UNCHANGED storages
    BY <1>24 DEF AddWatchLocked
  <2>3. CASE Return(t)
    <3> HIDE DEF TypeOK, TablesTypeOK, ThreadsTypeOK, Locals, Owner, InGet, Critical, PCs
    <3> QED
      BY <1>r, <2>1, <2>2, <2>3 DEF TypeInv, TypeOK
  <2>4. CASE ~Return(t)
    <3>1. /\ pc[t] = "add_watch" /\ mount_lock = None /\ mount_lock' = t
          /\ pc' = [pc EXCEPT ![t] = "get"] /\ cont' = [cont EXCEPT ![t] = "start_watcher"]
          /\ UNCHANGED <<storages, req, ident, backend, todo, count>>
      BY <1>24, <2>4 DEF AddWatchLocked
    <3>2. ThreadsTypeOK'
      <4> HIDE DEF TablesTypeOK, Locals, Owner
      <4> QED
        BY <3>1
    <3>3. Locals'
      BY <3>1
    <3>4. Owner'
      BY <3>1
    <3> QED
      BY <2>1, <3>2, <3>3, <3>4 DEF TypeInv
  <2> QED
    BY <2>3, <2>4
<1>25. ASSUME NEW t \in Threads, StartWatcher(t) PROVE TypeInv'
  <2>1. TablesTypeOK'
    BY <1>25 DEF StartWatcher
  <2>2. UNCHANGED storages
    BY <1>25 DEF StartWatcher
  <2>3. CASE Return(t)
    <3> HIDE DEF TypeOK, TablesTypeOK, ThreadsTypeOK, Locals, Owner, InGet, Critical, PCs
    <3> QED
      BY <1>r, <2>1, <2>2, <2>3 DEF TypeInv, TypeOK
  <2> QED
    BY <1>25, <2>3 DEF StartWatcher
<1>26. ASSUME NEW t \in Threads, CloseBegin(t) PROVE TypeInv'
  BY <1>26 DEF TypeInv, CloseBegin
<1>27. ASSUME NEW t \in Threads, CleanupWatch(t) PROVE TypeInv'
  <2>1. TablesTypeOK'
    BY <1>27 DEF CleanupWatch
  <2>2. UNCHANGED storages
    BY <1>27 DEF CleanupWatch
  <2>3. CASE Return(t)
    <3> HIDE DEF TypeOK, TablesTypeOK, ThreadsTypeOK, Locals, Owner, InGet, Critical, PCs
    <3> QED
      BY <1>r, <2>1, <2>2, <2>3 DEF TypeInv, TypeOK
  <2> QED
    BY <1>27, <2>3 DEF CleanupWatch
<1>28. CASE UNCHANGED vars
  BY <1>28 DEF TypeInv, vars
<1>29. QED
  BY <1>1, <1>2, <1>3, <1>4, <1>5, <1>6, <1>7, <1>8, <1>9, <1>10, <1>11, <1>12, <1>13, <1>14, <1>15, <1>16, <1>17, <1>18, <1>19, <1>20, <1>21, <1>22, <1>23, <1>24, <1>25, <1>26, <1>27, <1>28 DEF Next, Begin, Step, Quiet

(* They hold before the first operation.                                       *)
LEMMA TypeInvInit == Init => TypeInv
<1> SUFFICES ASSUME Init PROVE TypeInv
  OBVIOUS
<1>1. TablesTypeOK
  BY MaxIdentAssumption DEF Init, TablesTypeOK, Idents
<1>2. ThreadsTypeOK
  BY EmptySeq DEF Init, ThreadsTypeOK, PCs
<1>3. Locals /\ Owner
  BY DEF Init, Locals, Owner, InGet, Critical
<1> QED
  BY <1>1, <1>2, <1>3 DEF TypeInv, TypeOK

(* Every variable keeps its type: in particular a thread never goes on with an  *)
(* ident, a request or a backend it does not have, although the storage it      *)
(* looked up may be unmounted under it.                                         *)
THEOREM Typing == Spec => []TypeOK
<1>1. TypeInv => TypeOK
  BY DEF TypeInv
<1> QED
  BY <1>1, TypeInvInit, TypeInvNext, PTL DEF Spec

(* So they hold throughout.                                                    *)
LEMMA TypeInvAlways == Spec => []TypeInv
BY TypeInvInit, TypeInvNext, PTL DEF Spec

-----------------------------------------------------------------------------
(* The tables of the driver. *)

(* Idents still to be given out denote nothing. *)
CounterFresh == \A i \in Idents : i >= storage_counter => storages[i] = None

(* While a thread replaces the storage of a main path, that main path belongs   *)
(* to the old storage and is free once the old storage is out of the tables.    *)
Replacing ==
    \A t \in Threads :
        /\ pc[t] \in {"uncount", "del"} => storages[ident[t]] # None
        /\ pc[t] = "insert" => main_paths[Head(req[t].paths)] = 0
        /\ cont[t] = "insert" =>
              /\ pc[t] \in {"stop_watches", "uncount", "del", "resolver_del", "insert"}
              /\ pc[t] \in {"stop_watches", "uncount", "del"}
                   => main_paths[Head(req[t].paths)] = ident[t]
              /\ pc[t] = "resolver_del" => main_paths[Head(req[t].paths)] = 0

TablesInv == TablesAgree /\ CounterFresh /\ Replacing

(* A thread that returns, and so leaves the lock, breaks nothing about the others' replacements. *)
LEMMA ReturnKeepsReplacing ==
    ASSUME TypeInv, Replacing, NEW t \in Threads, Return(t),
           UNCHANGED <<storages, main_paths>>
    PROVE  Replacing'
BY DEF TypeInv, TypeOK, ThreadsTypeOK, Return, Replacing, PCs

(* With nothing mounted, the three tables agree.                               *)
LEMMA TablesInvInit == Init => TablesInv
BY DEF Init, TablesInv, TablesAgree, CounterFresh, Replacing, Idents

(* Every step of a mount or an unmount keeps the three tables in agreement.    *)
LEMMA TablesInvNext == TypeInv /\ TablesInv /\ [Next]_vars => TablesInv'
<1> SUFFICES ASSUME TypeInv, TablesInv, Next \/ UNCHANGED vars PROVE TablesInv'
  OBVIOUS
<1>a. TypeOK /\ Locals /\ Owner
  BY DEF TypeInv
<1>b. TablesAgree /\ CounterFresh /\ Replacing
  BY DEF TablesInv
<1> USE <1>a, <1>b, PathListsAssumption, MaxIdentAssumption, NoneAssumption
    DEF TypeOK, TablesTypeOK, ThreadsTypeOK, Locals, Owner, InGet, Critical, Replacing, Idents,
        tables, watchVars, At, Goto
<1>1. ASSUME NEW t \in Threads, MountBegin(t) PROVE TablesInv'
  <2>1. Replacing'
    BY <1>1 DEF MountBegin, Requests
  <2> QED
    BY <1>1, <2>1 DEF MountBegin, TablesAgree, CounterFresh, TablesInv
<1>2. ASSUME NEW t \in Threads, MountLocked(t) PROVE TablesInv'
  <2>1. Replacing'
    BY <1>2, SMTT(40) DEF MountLocked, Acquire, Return, Requests
  <2> QED
    BY <1>2, <2>1 DEF MountLocked, TablesAgree, CounterFresh, TablesInv
<1>3. ASSUME NEW t \in Threads, MountInsert(t) PROVE TablesInv'
  <2> DEFINE i == storage_counter
             paths == req[t].paths
  <2>1. /\ i \in Idents /\ storages[i] = None
        /\ paths \in PathLists /\ paths # << >> /\ Head(paths) \in Paths
        /\ main_paths[Head(paths)] = 0
        /\ req[t].backend \in Backends /\ req[t].backend # None
    BY <1>3, PathListEnds DEF MountInsert, CounterFresh, Requests
  <2>2. /\ storages' = [storages EXCEPT ![i] = req[t].backend]
        /\ storage_paths' = [storage_paths EXCEPT ![i] = paths]
        /\ main_paths' = [main_paths EXCEPT ![Head(paths)] = i]
        /\ storage_counter' = i + 1
    BY <1>3 DEF MountInsert
  <2>t. /\ storages \in [Idents -> Backends \cup {None}]
        /\ storage_paths \in [Idents -> PathLists \cup {<< >>}]
        /\ main_paths \in [Paths -> Idents \cup {0}]
    OBVIOUS
  <2>3. TablesAgree'
    <3> HIDE <1>a, <1>b DEF i, paths, TypeOK, TablesTypeOK, ThreadsTypeOK, Locals, Owner, Replacing
    <3>1. \A k \in Idents : storages'[k] = None <=> storage_paths'[k] = << >>
      BY <1>b, <2>1, <2>2, <2>t DEF TablesAgree
    <3>2. ASSUME NEW p \in Paths, NEW k \in Idents
          PROVE  main_paths'[p] = k <=> storages'[k] # None /\ Head(storage_paths'[k]) = p
      BY <1>b, <2>1, <2>2, <2>t DEF TablesAgree
    <3> QED
      BY <3>1, <3>2 DEF TablesAgree
  <2>4. CounterFresh'
    <3> HIDE <1>a, <1>b DEF paths, TypeOK, TablesTypeOK, ThreadsTypeOK, Locals, Owner, Replacing
    <3>1. i \in Int
      BY <2>1
    <3>2. ASSUME NEW k \in Idents, k >= i + 1
          PROVE  k # i /\ k >= i
      BY <3>1, <3>2
    <3> QED
      BY <1>b, <2>1, <2>2, <2>t, <3>2 DEF CounterFresh
  <2>5. Replacing'
    BY <1>3 DEF MountInsert
  <2> QED
    BY <2>3, <2>4, <2>5 DEF TablesInv
<1>4. ASSUME NEW t \in Threads, ResolverAdd(t) PROVE TablesInv'
  <2>1. Replacing'
    BY <1>4 DEF ResolverAdd
  <2> QED
    BY <1>4, <2>1 DEF ResolverAdd, TablesAgree, CounterFresh, TablesInv
<1>5. ASSUME NEW t \in Threads, MountEnd(t) PROVE TablesInv'
  <2>1. Replacing'
    BY <1>5 DEF MountEnd, Release, Return
  <2> QED
    BY <1>5, <2>1 DEF MountEnd, TablesAgree, CounterFresh, TablesInv
<1>6. ASSUME NEW t \in Threads, UnmountBegin(t) PROVE TablesInv'
  <2>1. Replacing'
    BY <1>6 DEF UnmountBegin, Mounted
  <2> QED
    BY <1>6, <2>1 DEF UnmountBegin, TablesAgree, CounterFresh, TablesInv
<1>7. ASSUME NEW t \in Threads, UnmountLocked(t) PROVE TablesInv'
  <2>1. Replacing'
    BY <1>7 DEF UnmountLocked, Acquire
  <2> QED
    BY <1>7, <2>1 DEF UnmountLocked, TablesAgree, CounterFresh, TablesInv
<1>8. ASSUME NEW t \in Threads, StopWatches(t) PROVE TablesInv'
  <2>1. Replacing'
    BY <1>8 DEF StopWatches, Return, Mounted
  <2> QED
    BY <1>8, <2>1 DEF StopWatches, TablesAgree, CounterFresh, TablesInv
<1>9. ASSUME NEW t \in Threads, Uncount(t) PROVE TablesInv'
  <2>1. Replacing'
    BY <1>9 DEF Uncount
  <2> QED
    BY <1>9, <2>1 DEF Uncount, TablesAgree, CounterFresh, TablesInv
<1>10. ASSUME NEW t \in Threads, DelTables(t) PROVE TablesInv'
  <2> DEFINE i == ident[t]
             path == Head(storage_paths[i])
  <2>1. /\ i \in Idents /\ storages[i] # None
        /\ storage_paths[i] # << >> /\ path \in Paths /\ main_paths[path] = i
    <3>1. i \in Idents /\ storages[i] # None
      BY <1>10 DEF DelTables, DelEntries
    <3>2. storage_paths[i] \in PathLists /\ storage_paths[i] # << >>
      BY <3>1 DEF TablesAgree
    <3> QED
      BY <3>1, <3>2, PathListEnds DEF TablesAgree
  <2>2. /\ storages' = [storages EXCEPT ![i] = None]
        /\ storage_paths' = [storage_paths EXCEPT ![i] = << >>]
        /\ main_paths' = [main_paths EXCEPT ![path] = 0]
        /\ pc' = [pc EXCEPT ![t] = "resolver_del"]
        /\ UNCHANGED <<storage_counter, req, ident, cont, mount_lock>>
    BY <1>10 DEF DelTables, DelEntries
  <2>t. /\ storages \in [Idents -> Backends \cup {None}]
        /\ storage_paths \in [Idents -> PathLists \cup {<< >>}]
        /\ main_paths \in [Paths -> Idents \cup {0}]
    OBVIOUS
  <2>3. TablesAgree'
    <3> HIDE <1>a, <1>b DEF i, path, TypeOK, TablesTypeOK, ThreadsTypeOK, Locals, Owner, Replacing
    <3>1. \A k \in Idents : storages'[k] = None <=> storage_paths'[k] = << >>
      BY <1>b, <2>1, <2>2, <2>t DEF TablesAgree
    <3>2. ASSUME NEW p \in Paths, NEW k \in Idents
          PROVE  main_paths'[p] = k <=> storages'[k] # None /\ Head(storage_paths'[k]) = p
      BY <1>b, <2>1, <2>2, <2>t DEF TablesAgree
    <3> QED
      BY <3>1, <3>2 DEF TablesAgree
  <2>4. CounterFresh'
    <3> HIDE <1>a, <1>b DEF i, path, TypeOK, TablesTypeOK, ThreadsTypeOK, Locals, Owner, Replacing
    <3> QED
      BY <1>b, <2>1, <2>2, <2>t DEF CounterFresh
  <2>5. Replacing'
    <3>1. At(t, "del") /\ mount_lock = t
      BY <1>10 DEF DelTables, DelEntries
    <3>2. \A u \in Threads : u # t => pc[u] \notin Critical
      BY <3>1
    <3>3. cont[t] = "insert" => main_paths'[Head(req[t].paths)] = 0
      BY <2>1, <2>2, <3>1 DEF TablesAgree, Requests
    <3> QED
      BY <2>2, <3>1, <3>2, <3>3
  <2> QED
    BY <2>3, <2>4, <2>5 DEF TablesInv
<1>11. ASSUME NEW t \in Threads, UnmountFails(t) PROVE TablesInv'
  <2>1. Replacing'
    BY <1>11 DEF UnmountFails, Return
  <2> QED
    BY <1>11, <2>1 DEF UnmountFails, TablesAgree, CounterFresh, TablesInv
<1>12. ASSUME NEW t \in Threads, ResolverDel(t) PROVE TablesInv'
  <2>1. Replacing'
    BY <1>12 DEF ResolverDel, Return
  <2> QED
    BY <1>12, <2>1 DEF ResolverDel, TablesAgree, CounterFresh, TablesInv
<1>13. ASSUME NEW t \in Threads, UnmountEnd(t) PROVE TablesInv'
  <2>1. Replacing'
    BY <1>13 DEF UnmountEnd, Return
  <2> QED
    BY <1>13, <2>1 DEF UnmountEnd, TablesAgree, CounterFresh, TablesInv
<1>14. ASSUME NEW t \in Threads, GetLookup(t) PROVE TablesInv'
  <2>1. Replacing'
    <3>1. CASE storages[ident[t]] = None
      BY <1>14, <3>1, ReturnKeepsReplacing DEF GetLookup
    <3>2. CASE storages[ident[t]] # None /\ initialized[ident[t]]
      BY <1>14, <3>2 DEF GetLookup, GotStorage
    <3>3. CASE storages[ident[t]] # None /\ ~initialized[ident[t]]
      BY <1>14, <3>3 DEF GetLookup
    <3> QED
      BY <3>1, <3>2, <3>3
  <2> QED
    BY <1>14, <2>1 DEF GetLookup, TablesAgree, CounterFresh, TablesInv
<1>15. ASSUME NEW t \in Threads, MountFails(t) PROVE TablesInv'
  <2>1. Replacing'
    BY <1>15 DEF MountFails, Return
  <2> QED
    BY <1>15, <2>1 DEF MountFails, TablesAgree, CounterFresh, TablesInv
<1>16. ASSUME NEW t \in Threads, GetRead(t) PROVE TablesInv'
  <2>1. Replacing'
    BY <1>16 DEF GetRead
  <2> QED
    BY <1>16, <2>1 DEF GetRead, TablesAgree, CounterFresh, TablesInv
<1>17. ASSUME NEW t \in Threads, GetWrite(t) PROVE TablesInv'
  <2>1. Replacing'
    BY <1>17 DEF GetWrite
  <2> QED
    BY <1>17, <2>1 DEF GetWrite, TablesAgree, CounterFresh, TablesInv
<1>18. ASSUME NEW t \in Threads, GetDone(t) PROVE TablesInv'
  <2>1. Replacing'
    BY <1>18 DEF GetDone, GotStorage
  <2> QED
    BY <1>18, <2>1 DEF GetDone, TablesAgree, CounterFresh, TablesInv
<1>19. ASSUME NEW t \in Threads, AccessResolve(t) PROVE TablesInv'
  <2>1. Replacing'
    BY <1>19 DEF AccessResolve
  <2> QED
    BY <1>19, <2>1 DEF AccessResolve, TablesAgree, CounterFresh, TablesInv
<1>20. ASSUME NEW t \in Threads, AccessLocked(t) PROVE TablesInv'
  <2>1. Replacing'
    BY <1>20 DEF AccessLocked, Acquire
  <2> QED
    BY <1>20, <2>1 DEF AccessLocked, TablesAgree, CounterFresh, TablesInv
<1>21. ASSUME NEW t \in Threads, FileInfo(t) PROVE TablesInv'
  <2>1. Replacing'
    BY <1>21 DEF FileInfo
  <2> QED
    BY <1>21, <2>1 DEF FileInfo, TablesAgree, CounterFresh, TablesInv
<1>22. ASSUME NEW t \in Threads, UseEnd(t) PROVE TablesInv'
  <2>1. Replacing'
    BY <1>22 DEF UseEnd, Return
  <2> QED
    BY <1>22, <2>1 DEF UseEnd, TablesAgree, CounterFresh, TablesInv
<1>23. ASSUME NEW t \in Threads, AddWatchBegin(t) PROVE TablesInv'
  <2>1. Replacing'
    BY <1>23 DEF AddWatchBegin, Mounted
  <2> QED
    BY <1>23, <2>1 DEF AddWatchBegin, TablesAgree, CounterFresh, TablesInv
<1>24. ASSUME NEW t \in Threads, AddWatchLocked(t) PROVE TablesInv'
  <2>1. Replacing'
    BY <1>24, SMTT(40) DEF AddWatchLocked, Return
  <2> QED
    BY <1>24, <2>1 DEF AddWatchLocked, TablesAgree, CounterFresh, TablesInv
<1>25. ASSUME NEW t \in Threads, StartWatcher(t) PROVE TablesInv'
  <2>1. Replacing'
    BY <1>25 DEF StartWatcher, Return
  <2> QED
    BY <1>25, <2>1 DEF StartWatcher, TablesAgree, CounterFresh, TablesInv
<1>26. ASSUME NEW t \in Threads, CloseBegin(t) PROVE TablesInv'
  <2>1. Replacing'
    BY <1>26 DEF CloseBegin
  <2> QED
    BY <1>26, <2>1 DEF CloseBegin, TablesAgree, CounterFresh, TablesInv
<1>27. ASSUME NEW t \in Threads, CleanupWatch(t) PROVE TablesInv'
  <2>1. Replacing'
    BY <1>27 DEF CleanupWatch, Return
  <2> QED
    BY <1>27, <2>1 DEF CleanupWatch, TablesAgree, CounterFresh, TablesInv
<1>28. CASE UNCHANGED vars
  BY <1>28 DEF TablesInv, TablesAgree, CounterFresh, vars
<1>29. QED
  BY <1>1, <1>2, <1>3, <1>4, <1>5, <1>6, <1>7, <1>8, <1>9, <1>10, <1>11, <1>12, <1>13, <1>14, <1>15, <1>16, <1>17, <1>18, <1>19, <1>20, <1>21, <1>22, <1>23, <1>24, <1>25, <1>26, <1>27, <1>28 DEF Next, Begin, Step, Quiet

(* So the tables agree throughout.                                             *)
LEMMA TablesInvAlways == Spec => []TablesInv
<1>1. Init => TypeInv /\ TablesInv
  BY TypeInvInit, TablesInvInit
<1>2. TypeInv /\ TablesInv /\ [Next]_vars => TypeInv' /\ TablesInv'
  BY TypeInvNext, TablesInvNext
<1> QED
  BY <1>1, <1>2, PTL DEF Spec

(* storages, storage_paths and main_paths always describe the same storages:    *)
(* whatever threads mount, replace and unmount, and whatever fails.             *)
THEOREM TablesAlwaysAgree == Spec => []TablesAgree
<1>1. TablesInv => TablesAgree
  BY DEF TablesInv
<1> QED
  BY <1>1, TablesInvAlways, PTL

(* Only a mount and an unmount write the tables.                                *)
LEMMA TablesFrame ==
    Next => \/ UNCHANGED tables
            \/ \E t \in Threads : MountInsert(t) \/ DelTables(t)
BY DEF Next, Begin, Step, Quiet, vars, tables, MountBegin, MountLocked, ResolverAdd, MountEnd,
       UnmountBegin, UnmountLocked, StopWatches, Uncount, UnmountFails, ResolverDel, UnmountEnd,
       GetLookup, MountFails, GetRead, GetWrite, GetDone, AccessResolve, AccessLocked, FileInfo,
       UseEnd, AddWatchBegin, AddWatchLocked, StartWatcher, CloseBegin, CleanupWatch

(* An ident resolved before the lock was taken denotes the same storage or none *)
(* when it is used, in proxy() and in control_unmount().                        *)
THEOREM IdentsAreNotReused == Spec => IdentsDenoteOneStorage
<1>1. TypeInv /\ TablesInv /\ [Next]_vars =>
        [\A i \in Idents : i < storage_counter => storages'[i] \in {storages[i], None}]_vars
  <2> SUFFICES ASSUME TypeInv, Next, NEW i \in Idents, i < storage_counter
               PROVE  storages'[i] \in {storages[i], None}
    BY DEF Quiet
  <2>1. storages \in [Idents -> Backends \cup {None}]
    BY DEF TypeInv, TypeOK, TablesTypeOK
  <2>2. CASE UNCHANGED tables
    BY <2>2 DEF tables
  <2>3. ASSUME NEW t \in Threads, MountInsert(t) PROVE storages'[i] \in {storages[i], None}
    BY <2>1, <2>3 DEF MountInsert, Idents
  <2>4. ASSUME NEW t \in Threads, DelTables(t) PROVE storages'[i] \in {storages[i], None}
    BY <2>1, <2>4 DEF DelTables, DelEntries
  <2> QED
    BY <2>2, <2>3, <2>4, TablesFrame
<1> QED
  BY <1>1, TypeInvAlways, TablesInvAlways, PTL DEF Spec, IdentsDenoteOneStorage

(* The driver implements the abstract mount table: every step of the driver is  *)
(* a mount at a free main path under a new ident, an unmount, or no change.     *)
THEOREM Refinement == Spec => ImplementsMountTable
<1>1. Init => Table!Init
  BY DEF Init, Table!Init, Table!Idents, Table!Unused, Idents
<1>2. TypeInv /\ TablesInv /\ [Next]_vars => [Table!Next]_(Table!vars)
  <2> SUFFICES ASSUME TypeInv, TablesInv, Next \/ UNCHANGED vars
               PROVE  Table!Next \/ UNCHANGED Table!vars
    OBVIOUS
  <2>1. /\ TablesAgree /\ Replacing /\ Locals
        /\ TablesTypeOK /\ ThreadsTypeOK
    BY DEF TypeInv, TypeOK, TablesInv
  <2>2. CASE UNCHANGED tables
    BY <2>2 DEF tables, Table!vars
  <2>3. ASSUME NEW t \in Threads, MountInsert(t) PROVE Table!Next
    <3>1. /\ req[t].paths \in PathLists
          /\ storage_counter \in Idents
          /\ main_paths[Head(req[t].paths)] = 0
          /\ storage_paths' = [storage_paths EXCEPT ![storage_counter] = req[t].paths]
          /\ storage_counter' = storage_counter + 1
      BY <2>1, <2>3, NoneAssumption
         DEF MountInsert, At, Locals, Replacing, ThreadsTypeOK, Requests
    <3>2. ASSUME NEW i \in Idents, storage_paths[i] # << >>
          PROVE  Head(storage_paths[i]) # Head(req[t].paths)
      <4>1. storage_paths[i] \in PathLists /\ storages[i] # None
        BY <2>1, <3>2 DEF TablesTypeOK, TablesAgree
      <4>2. main_paths[Head(storage_paths[i])] = i
        BY <2>1, <4>1, PathListEnds DEF TablesAgree
      <4> QED
        BY <3>1, <4>2, MaxIdentAssumption DEF Idents
    <3>3. Table!MountAt(req[t].paths)
      BY <3>1, <3>2 DEF Table!MountAt, Table!Live, Table!Idents, Table!Unused, Idents
    <3> QED
      BY <3>1, <3>3 DEF Table!Next
  <2>4. ASSUME NEW t \in Threads, DelTables(t) PROVE Table!Next
    <3>1. ident[t] \in Idents /\ storage_paths[ident[t]] # << >>
      BY <2>1, <2>4
         DEF DelTables, DelEntries, At, Locals, Replacing, ThreadsTypeOK, TablesAgree
    <3>2. /\ storage_paths' = [storage_paths EXCEPT ![ident[t]] = << >>]
          /\ storage_counter' = storage_counter
      BY <2>4 DEF DelTables, DelEntries
    <3>3. Table!UnmountAt(ident[t])
      BY <3>1, <3>2 DEF Table!UnmountAt, Table!Live, Table!Idents, Table!Unused, Idents
    <3> QED
      BY <3>1, <3>3 DEF Table!Next, Table!Idents, Idents
  <2> QED
    BY <2>2, <2>3, <2>4, TablesFrame DEF vars, tables
<1> QED
  BY <1>1, <1>2, TypeInvAlways, TablesInvAlways, PTL
     DEF Spec, ImplementsMountTable, Table!Spec
-----------------------------------------------------------------------------
(***************************************************************************)
(* What FSMount keeps beside its tables: the paths given to the resolver,  *)
(* the watcher threads of the clients' watches, and the reference counts   *)
(* of the backends, the last when every get() is made under mount_lock.    *)
(***************************************************************************)
-----------------------------------------------------------------------------
(* The resolver's tree. *)

NoRepetition(s) == \A j, k \in 1..Len(s) : s[j] = s[k] => j = k

(* Paths a critical section has still to give to, or to take from, the resolver. *)
Pending(where, i, p) ==
    \E t \in Threads : pc[t] = where /\ ident[t] = i /\ p \in Elems(todo[t])

(* Also in the middle of a critical section, the tree holds the mounted storages *)
(* at their paths but for the paths its loop has not come to.                    *)
ResolverInv ==
    /\ \A p \in Paths, i \in Idents :
          i \in resolver[p] <=>
             \/ /\ storages[i] # None /\ p \in Elems(storage_paths[i])
                /\ ~Pending("resolver_add", i, p)
             \/ Pending("resolver_del", i, p)
    /\ \A t \in Threads :
          /\ pc[t] = "resolver_add" =>
                /\ storages[ident[t]] # None
                /\ Elems(todo[t]) \subseteq Elems(storage_paths[ident[t]])
                /\ NoRepetition(todo[t])
          /\ pc[t] = "resolver_del" =>
                /\ storages[ident[t]] = None
                /\ NoRepetition(todo[t])

(* What a step that has no part in these loops leaves alone. *)
ResolverFrame ==
    /\ UNCHANGED <<storages, storage_paths, resolver>>
    /\ \A t \in Threads, where \in {"resolver_add", "resolver_del"} :
          /\ pc'[t] = where <=> pc[t] = where
          /\ pc[t] = where => ident'[t] = ident[t] /\ todo'[t] = todo[t]

(* The steps that write neither the resolver nor the tables keep ResolverInv.  *)
LEMMA OtherSteps ==
    ASSUME TypeInv, Next,
           ~ \E t \in Threads : \/ MountInsert(t) \/ ResolverAdd(t) \/ MountEnd(t)
                                \/ DelTables(t) \/ ResolverDel(t) \/ UnmountEnd(t)
    PROVE  ResolverFrame
<1>a. ThreadsTypeOK /\ Locals
  BY DEF TypeInv, TypeOK
<1> USE <1>a DEF ResolverFrame, ThreadsTypeOK, Locals, InGet, PCs, At, Goto, tables, watchVars
<1>1. ASSUME NEW t \in Threads, MountBegin(t) PROVE ResolverFrame
  BY <1>1 DEF MountBegin
<1>2. ASSUME NEW t \in Threads, MountLocked(t) PROVE ResolverFrame
  BY <1>2 DEF MountLocked, Acquire, Return
<1>3. ASSUME NEW t \in Threads, UnmountBegin(t) PROVE ResolverFrame
  BY <1>3 DEF UnmountBegin
<1>4. ASSUME NEW t \in Threads, UnmountLocked(t) PROVE ResolverFrame
  BY <1>4 DEF UnmountLocked, Acquire
<1>5. ASSUME NEW t \in Threads, StopWatches(t) PROVE ResolverFrame
  BY <1>5 DEF StopWatches, Return
<1>6. ASSUME NEW t \in Threads, Uncount(t) PROVE ResolverFrame
  BY <1>6 DEF Uncount
<1>7. ASSUME NEW t \in Threads, UnmountFails(t) PROVE ResolverFrame
  BY <1>7 DEF UnmountFails, Return
<1>8. ASSUME NEW t \in Threads, GetLookup(t) PROVE ResolverFrame
  BY <1>8 DEF GetLookup, Return, GotStorage
<1>9. ASSUME NEW t \in Threads, MountFails(t) PROVE ResolverFrame
  BY <1>9 DEF MountFails, Return
<1>10. ASSUME NEW t \in Threads, GetRead(t) PROVE ResolverFrame
  BY <1>10 DEF GetRead
<1>11. ASSUME NEW t \in Threads, GetWrite(t) PROVE ResolverFrame
  BY <1>11 DEF GetWrite
<1>12. ASSUME NEW t \in Threads, GetDone(t) PROVE ResolverFrame
  BY <1>12 DEF GetDone, GotStorage
<1>13. ASSUME NEW t \in Threads, AccessResolve(t) PROVE ResolverFrame
  BY <1>13 DEF AccessResolve
<1>14. ASSUME NEW t \in Threads, AccessLocked(t) PROVE ResolverFrame
  BY <1>14 DEF AccessLocked, Acquire
<1>15. ASSUME NEW t \in Threads, FileInfo(t) PROVE ResolverFrame
  BY <1>15 DEF FileInfo
<1>16. ASSUME NEW t \in Threads, UseEnd(t) PROVE ResolverFrame
  BY <1>16 DEF UseEnd, Return
<1>17. ASSUME NEW t \in Threads, AddWatchBegin(t) PROVE ResolverFrame
  BY <1>17 DEF AddWatchBegin
<1>18. ASSUME NEW t \in Threads, AddWatchLocked(t) PROVE ResolverFrame
  BY <1>18 DEF AddWatchLocked, Return
<1>19. ASSUME NEW t \in Threads, StartWatcher(t) PROVE ResolverFrame
  BY <1>19 DEF StartWatcher, Return
<1>20. ASSUME NEW t \in Threads, CloseBegin(t) PROVE ResolverFrame
  BY <1>20 DEF CloseBegin
<1>21. ASSUME NEW t \in Threads, CleanupWatch(t) PROVE ResolverFrame
  BY <1>21 DEF CleanupWatch, Return
<1> QED
  BY <1>1, <1>2, <1>3, <1>4, <1>5, <1>6, <1>7, <1>8, <1>9, <1>10, <1>11, <1>12, <1>13, <1>14, <1>15, <1>16, <1>17, <1>18, <1>19, <1>20, <1>21 DEF Next, Begin, Step, Quiet, vars, tables, watchVars

(* Taking the first path off a list without repetitions.                         *)
LEMMA TailElems ==
    ASSUME NEW S, NEW s \in Seq(S), s # << >>, NoRepetition(s)
    PROVE  /\ Head(s) \in Elems(s)
           /\ Elems(Tail(s)) = Elems(s) \ {Head(s)}
           /\ NoRepetition(Tail(s))
<1>1. /\ Len(s) \in Nat /\ Len(s) >= 1 /\ Head(s) = s[1]
      /\ Len(Tail(s)) = Len(s) - 1
      /\ \A k \in 1..(Len(s) - 1) : Tail(s)[k] = s[k + 1]
  BY LenProperties, HeadTailProperties
<1>2. Head(s) \in Elems(s)
  BY <1>1 DEF Elems
<1>3. NoRepetition(Tail(s))
  BY <1>1 DEF NoRepetition
<1>4. ASSUME NEW x \in Elems(Tail(s)) PROVE x \in Elems(s) \ {Head(s)}
  <2>1. PICK k \in 1..(Len(s) - 1) : x = s[k + 1]
    BY <1>1, <1>4 DEF Elems
  <2>2. k + 1 \in 1..Len(s) /\ 1 \in 1..Len(s) /\ k + 1 # 1
    BY <1>1
  <2> QED
    BY <1>1, <2>1, <2>2 DEF Elems, NoRepetition
<1>5. ASSUME NEW x \in Elems(s), x # Head(s) PROVE x \in Elems(Tail(s))
  <2>1. PICK k \in 1..Len(s) : x = s[k]
    BY DEF Elems
  <2>2. k # 1
    BY <1>1, <1>5, <2>1
  <2>3. k - 1 \in 1..(Len(s) - 1) /\ (k - 1) + 1 = k
    BY <1>1, <2>2
  <2>4. Tail(s)[k - 1] = x
    BY <1>1, <2>1, <2>3
  <2> QED
    BY <1>1, <2>3, <2>4 DEF Elems
<1> QED
  BY <1>2, <1>3, <1>4, <1>5

(* Critical sections exclude each other.                                         *)
LEMMA MutualExclusion ==
    ASSUME Owner, NEW t \in Threads, pc[t] \in Critical
    PROVE  \A u \in Threads : u # t => pc[u] \notin Critical
BY DEF Owner

(* The resolver starts empty, like the tables.                                 *)
LEMMA ResolverInvInit == Init => ResolverInv
BY DEF Init, ResolverInv, Pending

(* Every step keeps the resolver in agreement but for the paths still pending. *)
LEMMA ResolverInvNext ==
    ASSUME \A s \in PathLists : NoRepetition(s),
           TypeInv, TablesInv, ResolverInv, [Next]_vars
    PROVE  ResolverInv'
<1>a. TablesTypeOK /\ ThreadsTypeOK /\ Locals /\ Owner
  BY DEF TypeInv, TypeOK
<1>b. TablesAgree /\ CounterFresh /\ Replacing
  BY DEF TablesInv
<1>c. \A t \in Threads :
         pc[t] \in Critical => \A u \in Threads : u # t => pc[u] \notin Critical
  BY <1>a, MutualExclusion
<1>1. CASE ResolverFrame
  BY <1>1 DEF ResolverFrame, ResolverInv, Pending
<1>2. CASE UNCHANGED vars
  BY <1>2 DEF vars, ResolverInv, Pending
<1>3. ASSUME NEW t \in Threads, MountInsert(t) PROVE ResolverInv'
  <2> DEFINE i == storage_counter
             paths == req[t].paths
  <2>1. /\ i \in Idents /\ storages[i] = None /\ req[t].backend # None
        /\ paths \in PathLists
    BY <1>3, <1>a, <1>b, NoneAssumption
       DEF MountInsert, At, Locals, ThreadsTypeOK, CounterFresh, Requests, Idents
  <2>2. /\ storages' = [storages EXCEPT ![i] = req[t].backend]
        /\ storage_paths' = [storage_paths EXCEPT ![i] = paths]
        /\ pc' = [pc EXCEPT ![t] = "resolver_add"]
        /\ ident' = [ident EXCEPT ![t] = i]
        /\ todo' = [todo EXCEPT ![t] = paths]
        /\ resolver' = resolver
    BY <1>3 DEF MountInsert, Goto
  <2>3. \A u \in Threads : pc[u] \notin {"resolver_add", "resolver_del"}
    BY <1>3, <1>c DEF MountInsert, At, Critical
  <2>t. /\ storages \in [Idents -> Backends \cup {None}]
        /\ storage_paths \in [Idents -> PathLists \cup {<< >>}]
        /\ pc \in [Threads -> PCs] /\ ident \in [Threads -> Idents \cup {0}]
        /\ todo \in [Threads -> Seq(Paths)]
    BY <1>a DEF TablesTypeOK, ThreadsTypeOK
  <2> HIDE DEF i, paths
  <2>4. \A p \in Paths, k \in Idents :
           /\ Pending("resolver_add", k, p)' <=> k = i /\ p \in Elems(paths)
           /\ ~Pending("resolver_del", k, p)'
    BY <2>2, <2>3, <2>t DEF Pending
  <2>5. \A p \in Paths, k \in Idents :
           k \in resolver[p] <=> storages[k] # None /\ p \in Elems(storage_paths[k])
    BY <2>3 DEF ResolverInv, Pending
  <2>6. \A p \in Paths, k \in Idents :
           k \in resolver'[p] <=>
             \/ /\ storages'[k] # None /\ p \in Elems(storage_paths'[k])
                /\ ~Pending("resolver_add", k, p)'
             \/ Pending("resolver_del", k, p)'
    BY <2>1, <2>2, <2>4, <2>5, <2>t
  <2>7. \A u \in Threads :
          /\ pc'[u] = "resolver_add" =>
                /\ storages'[ident'[u]] # None
                /\ Elems(todo'[u]) \subseteq Elems(storage_paths'[ident'[u]])
                /\ NoRepetition(todo'[u])
          /\ pc'[u] # "resolver_del"
    BY <2>1, <2>2, <2>3, <2>t
  <2> QED
    BY <2>6, <2>7 DEF ResolverInv
<1>4. ASSUME NEW t \in Threads, ResolverAdd(t) PROVE ResolverInv'
  <2> DEFINE i == ident[t]
             path == Head(todo[t])
  <2>t. /\ storages \in [Idents -> Backends \cup {None}]
        /\ storage_paths \in [Idents -> PathLists \cup {<< >>}]
        /\ resolver \in [Paths -> SUBSET Idents]
        /\ pc \in [Threads -> PCs] /\ ident \in [Threads -> Idents \cup {0}]
        /\ todo \in [Threads -> Seq(Paths)]
    BY <1>a DEF TablesTypeOK, ThreadsTypeOK
  <2>1. /\ todo' = [todo EXCEPT ![t] = Tail(@)]
        /\ resolver' = [resolver EXCEPT ![path] = @ \cup {i}]
        /\ UNCHANGED <<storages, storage_paths, pc, ident>>
        /\ pc[t] = "resolver_add" /\ todo[t] # << >>
    BY <1>4 DEF ResolverAdd, At, tables
  <2>2. /\ storages[i] # None /\ i \in Idents
        /\ Elems(todo[t]) \subseteq Elems(storage_paths[i])
        /\ NoRepetition(todo[t])
    BY <2>1, <2>t, <1>a DEF ResolverInv, Locals
  <2>3. \A u \in Threads : u # t => pc[u] \notin {"resolver_add", "resolver_del"}
    BY <2>1, <1>c DEF Critical
  <2>4. /\ path \in Elems(todo[t])
        /\ Elems(Tail(todo[t])) = Elems(todo[t]) \ {path}
        /\ NoRepetition(Tail(todo[t]))
    BY <2>1, <2>2, <2>t, TailElems
  <2>5. path \in Paths
    BY <2>1, <2>t, HeadTailProperties
  <2> HIDE DEF i, path
  <2>6. \A p \in Paths, k \in Idents :
           /\ Pending("resolver_add", k, p) <=> k = i /\ p \in Elems(todo[t])
           /\ Pending("resolver_add", k, p)' <=> k = i /\ p \in Elems(todo[t]) \ {path}
           /\ ~Pending("resolver_del", k, p)
           /\ ~Pending("resolver_del", k, p)'
    <3>1. todo'[t] = Tail(todo[t]) /\ \A u \in Threads : u # t => todo'[u] = todo[u]
      BY <2>1, <2>t
    <3> QED
      BY <2>1, <2>3, <2>4, <3>1 DEF Pending, i
  <2>7. \A p \in Paths, k \in Idents :
           k \in resolver[p] <=>
             \/ /\ storages[k] # None /\ p \in Elems(storage_paths[k])
                /\ ~Pending("resolver_add", k, p)
             \/ Pending("resolver_del", k, p)
    BY DEF ResolverInv
  <2>8. \A p \in Paths, k \in Idents :
           k \in resolver'[p] <=> k \in resolver[p] \/ (p = path /\ k = i)
    BY <2>1, <2>5, <2>t
  <2>9. \A p \in Paths, k \in Idents :
           k \in resolver'[p] <=>
             \/ /\ storages'[k] # None /\ p \in Elems(storage_paths'[k])
                /\ ~Pending("resolver_add", k, p)'
             \/ Pending("resolver_del", k, p)'
    BY <2>1, <2>2, <2>4, <2>6, <2>7, <2>8
  <2>10. \A u \in Threads :
          /\ pc'[u] = "resolver_add" =>
                /\ storages'[ident'[u]] # None
                /\ Elems(todo'[u]) \subseteq Elems(storage_paths'[ident'[u]])
                /\ NoRepetition(todo'[u])
          /\ pc'[u] # "resolver_del"
    BY <2>1, <2>2, <2>3, <2>4, <2>t DEF i
  <2> QED
    BY <2>9, <2>10 DEF ResolverInv
<1>5. ASSUME NEW t \in Threads, DelTables(t) PROVE ResolverInv'
  <2> DEFINE i == ident[t]
  <2>t. /\ storages \in [Idents -> Backends \cup {None}]
        /\ storage_paths \in [Idents -> PathLists \cup {<< >>}]
        /\ resolver \in [Paths -> SUBSET Idents]
        /\ pc \in [Threads -> PCs] /\ ident \in [Threads -> Idents \cup {0}]
        /\ todo \in [Threads -> Seq(Paths)]
    BY <1>a DEF TablesTypeOK, ThreadsTypeOK
  <2>1. /\ storages' = [storages EXCEPT ![i] = None]
        /\ storage_paths' = [storage_paths EXCEPT ![i] = << >>]
        /\ pc' = [pc EXCEPT ![t] = "resolver_del"]
        /\ todo' = [todo EXCEPT ![t] = storage_paths[i]]
        /\ UNCHANGED <<ident, resolver>>
        /\ pc[t] = "del"
    BY <1>5 DEF DelTables, DelEntries, Goto, At
  <2>2. /\ i \in Idents /\ storages[i] # None
        /\ storage_paths[i] \in PathLists
    BY <2>1, <2>t, <1>a, <1>b DEF Locals, Replacing, TablesAgree
  <2>3. \A u \in Threads : pc[u] \notin {"resolver_add", "resolver_del"}
    BY <2>1, <1>c DEF Critical
  <2>4. \A p \in Paths, k \in Idents :
           /\ Pending("resolver_del", k, p)' <=> k = i /\ p \in Elems(storage_paths[i])
           /\ ~Pending("resolver_add", k, p)'
    BY <2>1, <2>3, <2>t DEF Pending
  <2>5. \A p \in Paths, k \in Idents :
           k \in resolver[p] <=> storages[k] # None /\ p \in Elems(storage_paths[k])
    BY <2>3 DEF ResolverInv, Pending
  <2> HIDE DEF i
  <2>6. \A p \in Paths, k \in Idents :
           k \in resolver'[p] <=>
             \/ /\ storages'[k] # None /\ p \in Elems(storage_paths'[k])
                /\ ~Pending("resolver_add", k, p)'
             \/ Pending("resolver_del", k, p)'
    BY <2>1, <2>2, <2>4, <2>5, <2>t
  <2>7. \A u \in Threads :
          /\ pc'[u] # "resolver_add"
          /\ pc'[u] = "resolver_del" =>
                storages'[ident'[u]] = None /\ NoRepetition(todo'[u])
    BY <2>1, <2>2, <2>3, <2>t DEF i
  <2> QED
    BY <2>6, <2>7 DEF ResolverInv
<1>6. ASSUME NEW t \in Threads, ResolverDel(t) PROVE ResolverInv'
  <2> DEFINE i == ident[t]
             path == Head(todo[t])
  <2>t. /\ storages \in [Idents -> Backends \cup {None}]
        /\ storage_paths \in [Idents -> PathLists \cup {<< >>}]
        /\ resolver \in [Paths -> SUBSET Idents]
        /\ pc \in [Threads -> PCs] /\ ident \in [Threads -> Idents \cup {0}]
        /\ todo \in [Threads -> Seq(Paths)]
    BY <1>a DEF TablesTypeOK, ThreadsTypeOK
  <2>1. /\ pc[t] = "resolver_del" /\ todo[t] # << >>
        /\ UNCHANGED <<storages, storage_paths>>
    BY <1>6 DEF ResolverDel, At, tables
  <2>2. /\ storages[i] = None /\ i \in Idents
        /\ NoRepetition(todo[t])
    BY <2>1, <2>t, <1>a DEF ResolverInv, Locals
  <2>3. \A u \in Threads : u # t => pc[u] \notin {"resolver_add", "resolver_del"}
    BY <2>1, <1>c DEF Critical
  <2>4. /\ path \in Elems(todo[t])
        /\ Elems(Tail(todo[t])) = Elems(todo[t]) \ {path}
        /\ NoRepetition(Tail(todo[t]))
    BY <2>1, <2>2, <2>t, TailElems
  <2>5. path \in Paths
    BY <2>1, <2>t, HeadTailProperties
  <2>6. i \in resolver[path]
    BY <2>1, <2>2, <2>4, <2>5 DEF ResolverInv, Pending
  <2>7. /\ todo' = [todo EXCEPT ![t] = Tail(@)]
        /\ resolver' = [resolver EXCEPT ![path] = @ \ {i}]
        /\ UNCHANGED <<pc, ident>>
    BY <1>6, <2>6 DEF ResolverDel
  <2> HIDE DEF i, path
  <2>8. \A p \in Paths, k \in Idents :
           /\ Pending("resolver_del", k, p) <=> k = i /\ p \in Elems(todo[t])
           /\ Pending("resolver_del", k, p)' <=> k = i /\ p \in Elems(todo[t]) \ {path}
           /\ ~Pending("resolver_add", k, p)
           /\ ~Pending("resolver_add", k, p)'
    <3>1. todo'[t] = Tail(todo[t]) /\ \A u \in Threads : u # t => todo'[u] = todo[u]
      BY <2>7, <2>t
    <3> QED
      BY <2>1, <2>3, <2>4, <2>7, <3>1 DEF Pending, i
  <2>9. \A p \in Paths, k \in Idents :
           k \in resolver[p] <=>
             \/ /\ storages[k] # None /\ p \in Elems(storage_paths[k])
                /\ ~Pending("resolver_add", k, p)
             \/ Pending("resolver_del", k, p)
    BY DEF ResolverInv
  <2>10. \A p \in Paths, k \in Idents :
           k \in resolver'[p] <=> k \in resolver[p] /\ ~(p = path /\ k = i)
    BY <2>7, <2>5, <2>t
  <2>11. \A p \in Paths, k \in Idents :
           k \in resolver'[p] <=>
             \/ /\ storages'[k] # None /\ p \in Elems(storage_paths'[k])
                /\ ~Pending("resolver_add", k, p)'
             \/ Pending("resolver_del", k, p)'
    BY <2>1, <2>2, <2>8, <2>9, <2>10
  <2>12. \A u \in Threads :
          /\ pc'[u] # "resolver_add"
          /\ pc'[u] = "resolver_del" =>
                storages'[ident'[u]] = None /\ NoRepetition(todo'[u])
    BY <2>1, <2>2, <2>3, <2>4, <2>7, <2>t DEF i
  <2> QED
    BY <2>11, <2>12 DEF ResolverInv
<1>7. ASSUME NEW t \in Threads, MountEnd(t) \/ UnmountEnd(t) PROVE ResolverInv'
  <2>t. /\ storages \in [Idents -> Backends \cup {None}]
        /\ storage_paths \in [Idents -> PathLists \cup {<< >>}]
        /\ resolver \in [Paths -> SUBSET Idents]
        /\ pc \in [Threads -> PCs] /\ ident \in [Threads -> Idents \cup {0}]
        /\ todo \in [Threads -> Seq(Paths)]
    BY <1>a DEF TablesTypeOK, ThreadsTypeOK
  <2>1. /\ pc[t] \in {"resolver_add", "resolver_del"} /\ todo[t] = << >>
        /\ pc'[t] \notin {"resolver_add", "resolver_del"}
        /\ UNCHANGED <<storages, storage_paths, resolver>>
        /\ \A u \in Threads : u # t => pc'[u] = pc[u] /\ ident'[u] = ident[u] /\ todo'[u] = todo[u]
    <3>1. CASE MountEnd(t)
      BY <3>1, <2>t DEF MountEnd, Return, Goto, At, tables
    <3>2. CASE UnmountEnd(t)
      BY <3>2, <2>t DEF UnmountEnd, Return, Goto, At, tables
    <3> QED
      BY <1>7, <3>1, <3>2
  <2>2. Elems(todo[t]) = {}
    BY <2>1 DEF Elems
  <2>3. \A p \in Paths, k \in Idents, where \in {"resolver_add", "resolver_del"} :
           Pending(where, k, p)' <=> Pending(where, k, p)
    BY <2>1, <2>2 DEF Pending
  <2>4. \A u \in Threads : pc'[u] \in {"resolver_add", "resolver_del"} => u # t
    BY <2>1
  <2> QED
    BY <2>1, <2>3, <2>4 DEF ResolverInv
<1> QED
  BY <1>1, <1>2, <1>3, <1>4, <1>5, <1>6, <1>7, OtherSteps

(* Outside the critical sections the resolver finds exactly the mounted storages *)
(* at exactly their paths, when no mount command repeats a path in its list (the *)
(* configuration MCFSMount_repeated_path shows that the condition is needed).    *)
THEOREM ResolverAlwaysAgrees ==
    ASSUME \A s \in PathLists : NoRepetition(s)
    PROVE  Spec => []ResolverAgrees
<1>1. Init => TypeInv /\ TablesInv /\ ResolverInv
  BY TypeInvInit, TablesInvInit, ResolverInvInit
<1>2. TypeInv /\ TablesInv /\ ResolverInv /\ [Next]_vars
        => TypeInv' /\ TablesInv' /\ ResolverInv'
  BY TypeInvNext, TablesInvNext, ResolverInvNext
<1>3. TypeInv /\ ResolverInv => ResolverAgrees
  <2> SUFFICES ASSUME TypeInv, ResolverInv, mount_lock = None, NEW p \in Paths
               PROVE  resolver[p] = {i \in Mounted : p \in Elems(storage_paths[i])}
    BY DEF ResolverAgrees
  <2>1. \A t \in Threads : pc[t] \notin {"resolver_add", "resolver_del"}
    BY NoneAssumption DEF TypeInv, Owner, Critical
  <2>2. resolver[p] \subseteq Idents
    BY DEF TypeInv, TypeOK, TablesTypeOK
  <2> QED
    BY <2>1, <2>2 DEF ResolverInv, Pending, Mounted
<1> QED
  BY <1>1, <1>2, <1>3, PTL DEF Spec

-----------------------------------------------------------------------------
(* Watches and their watcher threads. *)

(* Watches are registered before their watcher thread is started, and the thread *)
(* is started for the backend that the watched storage has.                      *)
WatchersWatched ==
    /\ \A i \in watchers : storages[i] # None /\ \E t \in Threads : watches[t] = i
    /\ \A i, j \in watchers : storages[i] = storages[j] => i = j

WatchLocals ==
    \A t \in Threads :
        /\ pc[t] \in {"uncount", "del"} => ident[t] \notin watchers
        /\ cont[t] = "start_watcher" /\ pc[t] \in InGet \cup {"start_watcher"}
              => watches[t] = ident[t]
        /\ pc[t] = "add_watch" => watches[t] = 0
        /\ pc[t] = "start_watcher" => cont[t] = "start_watcher"
        /\ \/ cont[t] = "start_watcher" /\ pc[t] \in InGet \ {"get"}
           \/ pc[t] = "start_watcher"
           => backend[t] = storages[ident[t]]

WatchInv == WatchersWatched /\ WatchLocals

(* There are no watches to begin with.                                         *)
LEMMA WatchInvInit == Init => WatchInv
BY DEF Init, WatchInv, WatchersWatched, WatchLocals, InGet

(* A thread that returns leaves what is known of the other threads' locals.    *)
LEMMA ReturnKeepsWatchLocals ==
    ASSUME TypeInv, WatchLocals, NEW t \in Threads, Return(t),
           watchers' \subseteq watchers, UNCHANGED <<storages, watches>>
    PROVE  WatchLocals'
BY DEF TypeInv, TypeOK, ThreadsTypeOK, Return, WatchLocals, PCs, InGet

(* Every step keeps watchers bound to watched, mounted storages.               *)
LEMMA WatchInvNext ==
    ASSUME TypeInv, TablesInv, WatchInv, [Next]_vars
    PROVE  WatchInv'
<1>a. TablesTypeOK /\ ThreadsTypeOK /\ Locals /\ Owner
  BY DEF TypeInv, TypeOK
<1>b. TablesAgree /\ CounterFresh /\ Replacing
  BY DEF TablesInv
<1>c. WatchersWatched /\ WatchLocals
  BY DEF WatchInv
<1>t. /\ storages \in [Idents -> Backends \cup {None}]
      /\ watches \in [Threads -> Idents \cup {0}]
      /\ watchers \subseteq Idents
  BY <1>a DEF TablesTypeOK
<1>d. \A t \in Threads :
         pc[t] \in Critical => \A u \in Threads : u # t => pc[u] \notin Critical
  BY <1>a, MutualExclusion
<1> USE <1>a, <1>c, NoneAssumption
    DEF ThreadsTypeOK, Locals, Owner, WatchLocals, InGet, Critical, PCs, At, Goto,
        tables, watchVars
<1>1. ASSUME NEW t \in Threads, MountBegin(t) PROVE WatchInv'
  <2>1. WatchLocals'
    BY <1>1 DEF MountBegin
  <2> QED
    BY <1>1, <2>1 DEF MountBegin, WatchInv, WatchersWatched
<1>2. ASSUME NEW t \in Threads, MountLocked(t) PROVE WatchInv'
  <2>1. WatchLocals'
    <3> DEFINE current == main_paths[Head(req[t].paths)]
    <3>1. CASE current = 0
      BY <1>2, <3>1 DEF MountLocked, Acquire
    <3>2. CASE current # 0 /\ req[t].remount
      <4>1. /\ pc' = [pc EXCEPT ![t] = "stop_watches"]
            /\ cont' = [cont EXCEPT ![t] = "insert"]
            /\ \A u \in Threads : u # t => ident'[u] = ident[u]
            /\ UNCHANGED <<backend, storages, watches, watchers>>
        BY <1>2, <3>2 DEF MountLocked
      <4> QED
        BY <4>1
    <3>3. CASE current # 0 /\ ~req[t].remount
      BY <1>2, <3>3, ReturnKeepsWatchLocals DEF MountLocked
    <3> QED
      BY <3>1, <3>2, <3>3
  <2> QED
    BY <1>2, <2>1 DEF MountLocked, WatchInv, WatchersWatched
<1>3. ASSUME NEW t \in Threads, ResolverAdd(t) PROVE WatchInv'
  <2>1. WatchLocals'
    BY <1>3 DEF ResolverAdd
  <2> QED
    BY <1>3, <2>1 DEF ResolverAdd, WatchInv, WatchersWatched
<1>4. ASSUME NEW t \in Threads, MountEnd(t) PROVE WatchInv'
  <2>1. WatchLocals'
    <3>1. CASE req[t].lazy
      BY <1>4, <3>1, ReturnKeepsWatchLocals DEF MountEnd
    <3>2. CASE ~req[t].lazy
      BY <1>4, <3>2 DEF MountEnd, Release
    <3> QED
      BY <3>1, <3>2
  <2> QED
    BY <1>4, <2>1 DEF MountEnd, WatchInv, WatchersWatched
<1>5. ASSUME NEW t \in Threads, UnmountBegin(t) PROVE WatchInv'
  <2>1. WatchLocals'
    BY <1>5 DEF UnmountBegin
  <2> QED
    BY <1>5, <2>1 DEF UnmountBegin, WatchInv, WatchersWatched
<1>6. ASSUME NEW t \in Threads, UnmountLocked(t) PROVE WatchInv'
  <2>1. WatchLocals'
    BY <1>6 DEF UnmountLocked, Acquire
  <2> QED
    BY <1>6, <2>1 DEF UnmountLocked, WatchInv, WatchersWatched
<1>7. ASSUME NEW t \in Threads, Uncount(t) PROVE WatchInv'
  <2>1. WatchLocals'
    BY <1>7 DEF Uncount
  <2> QED
    BY <1>7, <2>1 DEF Uncount, WatchInv, WatchersWatched
<1>8. ASSUME NEW t \in Threads, UnmountFails(t) PROVE WatchInv'
  <2>1. WatchLocals'
    BY <1>8 DEF UnmountFails, Return
  <2> QED
    BY <1>8, <2>1 DEF UnmountFails, WatchInv, WatchersWatched
<1>9. ASSUME NEW t \in Threads, ResolverDel(t) PROVE WatchInv'
  <2>1. WatchLocals'
    BY <1>9 DEF ResolverDel, Return
  <2> QED
    BY <1>9, <2>1 DEF ResolverDel, WatchInv, WatchersWatched
<1>10. ASSUME NEW t \in Threads, UnmountEnd(t) PROVE WatchInv'
  <2>1. WatchLocals'
    <3>1. CASE cont[t] = "insert"
      BY <1>10, <3>1 DEF UnmountEnd
    <3>2. CASE cont[t] # "insert"
      BY <1>10, <3>2, ReturnKeepsWatchLocals DEF UnmountEnd
    <3> QED
      BY <3>1, <3>2
  <2> QED
    BY <1>10, <2>1 DEF UnmountEnd, WatchInv, WatchersWatched
<1>11. ASSUME NEW t \in Threads, GetLookup(t) PROVE WatchInv'
  <2>1. WatchLocals'
    <3>1. CASE storages[ident[t]] = None
      BY <1>11, <3>1, ReturnKeepsWatchLocals DEF GetLookup
    <3>2. CASE storages[ident[t]] # None /\ initialized[ident[t]]
      BY <1>11, <3>2 DEF GetLookup, GotStorage
    <3>3. CASE storages[ident[t]] # None /\ ~initialized[ident[t]]
      BY <1>11, <3>3 DEF GetLookup
    <3> QED
      BY <3>1, <3>2, <3>3
  <2> QED
    BY <1>11, <2>1 DEF GetLookup, WatchInv, WatchersWatched
<1>12. ASSUME NEW t \in Threads, MountFails(t) PROVE WatchInv'
  <2>1. WatchLocals'
    BY <1>12 DEF MountFails, Return
  <2> QED
    BY <1>12, <2>1 DEF MountFails, WatchInv, WatchersWatched
<1>13. ASSUME NEW t \in Threads, GetRead(t) PROVE WatchInv'
  <2>1. WatchLocals'
    BY <1>13 DEF GetRead
  <2> QED
    BY <1>13, <2>1 DEF GetRead, WatchInv, WatchersWatched
<1>14. ASSUME NEW t \in Threads, GetWrite(t) PROVE WatchInv'
  <2>1. WatchLocals'
    BY <1>14 DEF GetWrite
  <2> QED
    BY <1>14, <2>1 DEF GetWrite, WatchInv, WatchersWatched
<1>15. ASSUME NEW t \in Threads, GetDone(t) PROVE WatchInv'
  <2>1. WatchLocals'
    BY <1>15 DEF GetDone, GotStorage
  <2> QED
    BY <1>15, <2>1 DEF GetDone, WatchInv, WatchersWatched
<1>16. ASSUME NEW t \in Threads, AccessResolve(t) PROVE WatchInv'
  <2>1. WatchLocals'
    BY <1>16 DEF AccessResolve
  <2> QED
    BY <1>16, <2>1 DEF AccessResolve, WatchInv, WatchersWatched
<1>17. ASSUME NEW t \in Threads, AccessLocked(t) PROVE WatchInv'
  <2>1. WatchLocals'
    BY <1>17 DEF AccessLocked, Acquire
  <2> QED
    BY <1>17, <2>1 DEF AccessLocked, WatchInv, WatchersWatched
<1>18. ASSUME NEW t \in Threads, FileInfo(t) PROVE WatchInv'
  <2>1. WatchLocals'
    BY <1>18 DEF FileInfo
  <2> QED
    BY <1>18, <2>1 DEF FileInfo, WatchInv, WatchersWatched
<1>19. ASSUME NEW t \in Threads, UseEnd(t) PROVE WatchInv'
  <2>1. WatchLocals'
    BY <1>19 DEF UseEnd, Return
  <2> QED
    BY <1>19, <2>1 DEF UseEnd, WatchInv, WatchersWatched
<1>20. ASSUME NEW t \in Threads, AddWatchBegin(t) PROVE WatchInv'
  <2>1. WatchLocals'
    BY <1>20 DEF AddWatchBegin
  <2> QED
    BY <1>20, <2>1 DEF AddWatchBegin, WatchInv, WatchersWatched
<1>21. ASSUME NEW t \in Threads, CloseBegin(t) PROVE WatchInv'
  <2>1. WatchLocals'
    BY <1>21 DEF CloseBegin
  <2> QED
    BY <1>21, <2>1 DEF CloseBegin, WatchInv, WatchersWatched
<1>22. ASSUME NEW t \in Threads, MountInsert(t) PROVE WatchInv'
  <2>1. WatchersWatched'
    <3>1. /\ storages[storage_counter] = None /\ storage_counter \in Idents
          /\ storages' = [storages EXCEPT ![storage_counter] = req[t].backend]
          /\ UNCHANGED <<watches, watchers>>
      BY <1>22, <1>b DEF MountInsert, CounterFresh, Idents
    <3>2. \A i \in watchers : i # storage_counter /\ storages'[i] = storages[i]
      BY <3>1, <1>t DEF WatchersWatched
    <3> QED
      BY <3>1, <3>2 DEF WatchersWatched
  <2>2. WatchLocals'
    BY <1>22 DEF MountInsert
  <2> QED
    BY <2>1, <2>2 DEF WatchInv
<1>23. ASSUME NEW t \in Threads, DelTables(t) PROVE WatchInv'
  <2>1. WatchersWatched'
    BY <1>23, <1>t DEF DelTables, DelEntries, WatchersWatched
  <2>2. WatchLocals'
    BY <1>23 DEF DelTables, DelEntries
  <2> QED
    BY <2>1, <2>2 DEF WatchInv
<1>24. ASSUME NEW t \in Threads, StopWatches(t) PROVE WatchInv'
  <2>0. /\ watches' = [u \in Threads |-> IF watches[u] = ident[t] THEN 0 ELSE watches[u]]
        /\ watchers' = watchers \ {ident[t]}
        /\ UNCHANGED storages
        /\ pc[t] = "stop_watches" /\ ident[t] # 0
    BY <1>24 DEF StopWatches
  <2>1. WatchersWatched'
    BY <2>0, <1>t DEF WatchersWatched
  <2>2. WatchLocals'
    <3>1. /\ pc'[t] \in {"idle", "uncount", "del"} /\ cont'[t] \in {"idle", cont[t]}
          /\ pc'[t] = "idle" \/ ident'[t] = ident[t]
      BY <1>24 DEF StopWatches, Return
    <3>2. \A u \in Threads : u # t => /\ pc'[u] = pc[u] /\ cont'[u] = cont[u]
                                      /\ ident'[u] = ident[u] /\ backend'[u] = backend[u]
      BY <1>24 DEF StopWatches, Return
    <3>3. \A u \in Threads : u # t => ~ \/ cont[u] = "start_watcher" /\ pc[u] \in InGet
                                        \/ pc[u] = "start_watcher"
      BY <2>0
    <3> HIDE DEF Locals, Owner, ThreadsTypeOK
    <3> QED
      BY <2>0, <3>1, <3>2, <3>3, <1>t
  <2> QED
    BY <2>1, <2>2 DEF WatchInv
<1>25. ASSUME NEW t \in Threads, AddWatchLocked(t) PROVE WatchInv'
  <2>0. /\ watches' = [watches EXCEPT ![t] = ident[t]]
        /\ UNCHANGED <<storages, watchers>>
        /\ pc[t] = "add_watch" /\ watches[t] = 0
    BY <1>25 DEF AddWatchLocked
  <2>1. WatchersWatched'
    BY <2>0, <1>t DEF WatchersWatched, Idents
  <2>2. WatchLocals'
    <3>1. \/ pc'[t] = "idle" /\ cont'[t] = "idle"
          \/ pc'[t] = "get" /\ cont'[t] = "start_watcher" /\ ident'[t] = ident[t]
      BY <1>25 DEF AddWatchLocked, Return
    <3>2. \A u \in Threads : u # t => /\ pc'[u] = pc[u] /\ cont'[u] = cont[u]
                                      /\ ident'[u] = ident[u] /\ backend'[u] = backend[u]
      BY <1>25 DEF AddWatchLocked, Return
    <3> QED
      BY <2>0, <3>1, <3>2, <1>t
  <2> QED
    BY <2>1, <2>2 DEF WatchInv
<1>26. ASSUME NEW t \in Threads, StartWatcher(t) PROVE WatchInv'
  <2>0. /\ \/ watchers' = watchers
           \/ /\ watchers' = watchers \cup {ident[t]}
              /\ \A i \in watchers : storages[i] # backend[t]
        /\ UNCHANGED <<storages, watches>>
        /\ pc[t] = "start_watcher" /\ ident[t] # 0
    BY <1>26 DEF StartWatcher, HasWatcher
  <2>1. WatchersWatched'
    <3>1. watches[t] = ident[t] /\ storages[ident[t]] = backend[t] /\ backend[t] # None
      BY <2>0
    <3> HIDE DEF Locals, Owner, ThreadsTypeOK, WatchLocals
    <3> QED
      BY <2>0, <3>1 DEF WatchersWatched
  <2>2. WatchLocals'
    BY <1>26 DEF StartWatcher, Return
  <2> QED
    BY <2>1, <2>2 DEF WatchInv
<1>27. ASSUME NEW t \in Threads, CleanupWatch(t) PROVE WatchInv'
  <2>0. /\ watches' = [watches EXCEPT ![t] = 0]
        /\ \/ watchers' = watchers /\ \E u \in Threads : u # t /\ watches[u] = watches[t]
           \/ watchers' = watchers \ {watches[t]}
        /\ UNCHANGED storages
    BY <1>27 DEF CleanupWatch, WatchesOf
  <2>1. WatchersWatched'
    BY <2>0, <1>t DEF WatchersWatched
  <2>2. WatchLocals'
    BY <1>27 DEF CleanupWatch, Return
  <2> QED
    BY <2>1, <2>2 DEF WatchInv
<1>28. CASE UNCHANGED vars
  BY <1>28 DEF vars, watchVars, WatchInv, WatchersWatched
<1> QED
  BY <1>1, <1>2, <1>3, <1>4, <1>5, <1>6, <1>7, <1>8, <1>9, <1>10, <1>11, <1>12, <1>13, <1>14, <1>15, <1>16, <1>17, <1>18, <1>19, <1>20, <1>21, <1>22, <1>23, <1>24, <1>25, <1>26, <1>27, <1>28 DEF Next, Begin, Step, Quiet

(* Outside the critical sections every watcher thread is that of a mounted and   *)
(* watched storage, and a backend has one watcher thread at most: unmounting and *)
(* closing the last connection leave no thread behind.                           *)
THEOREM NoWatcherIsOrphaned == Spec => []NoOrphanWatcher
<1>1. Init => TypeInv /\ TablesInv /\ WatchInv
  BY TypeInvInit, TablesInvInit, WatchInvInit
<1>2. TypeInv /\ TablesInv /\ WatchInv /\ [Next]_vars
        => TypeInv' /\ TablesInv' /\ WatchInv'
  BY TypeInvNext, TablesInvNext, WatchInvNext
<1>3. TypeInv /\ WatchInv => NoOrphanWatcher
  BY DEF TypeInv, TypeOK, TablesTypeOK, WatchInv, WatchersWatched, NoOrphanWatcher,
         Mounted, WatchesOf
<1> QED
  BY <1>1, <1>2, <1>3, PTL DEF Spec

-----------------------------------------------------------------------------
(* The reference counts: the invariant. *)

(* Every get() is made under mount_lock (proxy, add_watch): there is neither   *)
(* an eager mount nor a fileinfo, and no backend fails to unmount.            *)
Serialised == {"fileinfo", "eager"} \cap Ops = {} /\ "unmount" \notin Faults

(* Inside request_mount, from the mounting of the backend to the flag.        *)
Requesting == {"get_read", "get_write", "get_done"}

(* What the thread in the critical section knows of the storage it mounts or  *)
(* unmounts, and that the count it has read is the backend's.                 *)
RefLocal(t) ==
    /\ req[t] # None => req[t].lazy
    /\ pc[t] \in InGet => mount_lock = t
    /\ pc[t] \in Requesting => backend[t] = storages[ident[t]] /\ ~initialized[ident[t]]
    /\ pc[t] = "get_write" => count[t] = mounted[backend[t]]
    /\ pc[t] = "uncount" => initialized[ident[t]]
    /\ pc[t] = "del" => /\ storages[ident[t]] # None
                        /\ initialized[ident[t]] => count[t] = mounted[storages[ident[t]]]

RefLocals == \A t \in Threads : RefLocal(t)

Users(b) == {i \in Mounted : storages[i] = b /\ initialized[i]}
RequestAt(b, where) == \E t \in Threads : pc[t] \in where /\ backend[t] = b

(* The count runs ahead of the flag by the request that is about to set it,    *)
(* and the backend is up from the beginning of the first request.             *)
Counted ==
    \A b \in Backends :
        /\ mounted[b] = Cardinality(Users(b)) + IF RequestAt(b, {"get_done"}) THEN 1 ELSE 0
        /\ up[b] <=> Users(b) # {} \/ RequestAt(b, Requesting)

RefInv == RefLocals /\ Counted

-----------------------------------------------------------------------------
(* The threads. *)

(* The operations of a thread when every get() is serialised.                 *)
SerialStep(t) ==
    \/ MountBegin(t) \/ MountLocked(t) \/ MountInsert(t) \/ ResolverAdd(t) \/ MountEnd(t)
    \/ UnmountBegin(t) \/ UnmountLocked(t) \/ StopWatches(t) \/ Uncount(t) \/ DelTables(t)
    \/ ResolverDel(t) \/ UnmountEnd(t) \/ GetLookup(t) \/ MountFails(t) \/ GetRead(t)
    \/ GetWrite(t) \/ GetDone(t) \/ AccessResolve(t) \/ AccessLocked(t) \/ UseEnd(t)
    \/ AddWatchBegin(t) \/ AddWatchLocked(t) \/ StartWatcher(t) \/ CloseBegin(t) \/ CleanupWatch(t)

(* Without fileinfo, eager mounts and failing unmounts, these are all of them. *)
LEMMA SerialSteps ==
    ASSUME Serialised, NEW t \in Threads, Begin(t) \/ Step(t)
    PROVE  SerialStep(t)
  BY DEF Serialised, Begin, Step, SerialStep, FileInfo, UnmountFails

(* A thread works with its own locals, and while another one has mount_lock it *)
(* leaves the storages and the counts alone.                                  *)
LEMMA Bystander ==
    ASSUME TypeInv, RefLocals, NEW t \in Threads, SerialStep(t)
    PROVE  /\ \A u \in Threads \ {t} :
                 /\ pc'[u] = pc[u] /\ req'[u] = req[u] /\ ident'[u] = ident[u]
                 /\ backend'[u] = backend[u] /\ count'[u] = count[u]
           /\ \A u \in Threads \ {t} : mount_lock = u =>
                 UNCHANGED <<storages, initialized, mounted, mount_lock>>
<1> USE NoneAssumption
    DEF TypeInv, TypeOK, ThreadsTypeOK, Owner, Critical, RefLocals, RefLocal, InGet, tables, watchVars,
        At, Goto, Return, Acquire, Release
<1>1. CASE MountBegin(t)
  BY <1>1 DEF MountBegin
<1>2. CASE MountLocked(t)
  BY <1>2 DEF MountLocked
<1>3. CASE MountInsert(t)
  BY <1>3 DEF MountInsert
<1>4. CASE ResolverAdd(t)
  BY <1>4 DEF ResolverAdd
<1>5. CASE MountEnd(t)
  BY <1>5 DEF MountEnd
<1>6. CASE UnmountBegin(t)
  BY <1>6 DEF UnmountBegin
<1>7. CASE UnmountLocked(t)
  BY <1>7 DEF UnmountLocked
<1>8. CASE StopWatches(t)
  BY <1>8 DEF StopWatches
<1>9. CASE Uncount(t)
  BY <1>9 DEF Uncount
<1>10. CASE DelTables(t)
  BY <1>10 DEF DelTables, DelEntries, UnmountBackend
<1>11. CASE ResolverDel(t)
  BY <1>11 DEF ResolverDel
<1>12. CASE UnmountEnd(t)
  BY <1>12 DEF UnmountEnd
<1>13. CASE GetLookup(t)
  BY <1>13 DEF GetLookup, GotStorage
<1>14. CASE MountFails(t)
  BY <1>14 DEF MountFails
<1>15. CASE GetRead(t)
  BY <1>15 DEF GetRead
<1>16. CASE GetWrite(t)
  BY <1>16 DEF GetWrite
<1>17. CASE GetDone(t)
  BY <1>17 DEF GetDone, GotStorage
<1>18. CASE AccessResolve(t)
  BY <1>18 DEF AccessResolve
<1>19. CASE AccessLocked(t)
  BY <1>19 DEF AccessLocked
<1>20. CASE UseEnd(t)
  BY <1>20 DEF UseEnd
<1>21. CASE AddWatchBegin(t)
  BY <1>21 DEF AddWatchBegin
<1>22. CASE AddWatchLocked(t)
  BY <1>22 DEF AddWatchLocked
<1>23. CASE StartWatcher(t)
  BY <1>23 DEF StartWatcher
<1>24. CASE CloseBegin(t)
  BY <1>24 DEF CloseBegin
<1>25. CASE CleanupWatch(t)
  BY <1>25 DEF CleanupWatch
<1> QED
  BY <1>1, <1>2, <1>3, <1>4, <1>5, <1>6, <1>7, <1>8, <1>9, <1>10, <1>11, <1>12, <1>13, <1>14, <1>15, <1>16, <1>17, <1>18, <1>19, <1>20, <1>21, <1>22, <1>23, <1>24, <1>25 DEF SerialStep

-----------------------------------------------------------------------------
(* The local facts. *)

(* A thread's own step keeps what it knows: the count it reads is not written    *)
(* before it writes it back, and the storage it works with stays.               *)
LEMMA OwnStep ==
    ASSUME Serialised, TypeInv, TablesInv, RefLocals, NEW t \in Threads, SerialStep(t)
    PROVE  RefLocal(t)'
<1> USE NoneAssumption, RefLocals, Serialised
    DEF TypeInv, TypeOK, TablesTypeOK, ThreadsTypeOK, Locals, Owner, Critical, RefLocals, RefLocal, InGet,
        Requesting, Serialised, TablesInv, Replacing, tables, watchVars,
        At, Goto, Return, Acquire, Release, PCs
<1>1. CASE MountBegin(t)
  BY <1>1 DEF MountBegin, Requests
<1>2. CASE MountLocked(t)
  BY <1>2 DEF MountLocked
<1>3. CASE MountInsert(t)
  BY <1>3 DEF MountInsert
<1>4. CASE ResolverAdd(t)
  BY <1>4 DEF ResolverAdd
<1>5. CASE MountEnd(t)
  BY <1>5 DEF MountEnd
<1>6. CASE UnmountBegin(t)
  BY <1>6 DEF UnmountBegin, Mounted
<1>7. CASE UnmountLocked(t)
  BY <1>7 DEF UnmountLocked
<1>8. CASE StopWatches(t)
  BY <1>8 DEF StopWatches, Mounted
<1>9. CASE Uncount(t)
  BY <1>9 DEF Uncount
<1>10. CASE DelTables(t)
  BY <1>10 DEF DelTables, DelEntries, UnmountBackend
<1>11. CASE ResolverDel(t)
  BY <1>11 DEF ResolverDel
<1>12. CASE UnmountEnd(t)
  BY <1>12 DEF UnmountEnd
<1>13. CASE GetLookup(t)
  BY <1>13 DEF GetLookup, GotStorage
<1>14. CASE MountFails(t)
  BY <1>14 DEF MountFails
<1>15. CASE GetRead(t)
  BY <1>15 DEF GetRead
<1>16. CASE GetWrite(t)
  BY <1>16 DEF GetWrite
<1>17. CASE GetDone(t)
  BY <1>17 DEF GetDone, GotStorage
<1>18. CASE AccessResolve(t)
  BY <1>18 DEF AccessResolve
<1>19. CASE AccessLocked(t)
  BY <1>19 DEF AccessLocked
<1>20. CASE UseEnd(t)
  BY <1>20 DEF UseEnd
<1>21. CASE AddWatchBegin(t)
  BY <1>21 DEF AddWatchBegin
<1>22. CASE AddWatchLocked(t)
  BY <1>22 DEF AddWatchLocked
<1>23. CASE StartWatcher(t)
  BY <1>23 DEF StartWatcher
<1>24. CASE CloseBegin(t)
  BY <1>24 DEF CloseBegin
<1>25. CASE CleanupWatch(t)
  BY <1>25 DEF CleanupWatch
<1> QED
  BY <1>1, <1>2, <1>3, <1>4, <1>5, <1>6, <1>7, <1>8, <1>9, <1>10, <1>11, <1>12, <1>13, <1>14, <1>15, <1>16, <1>17, <1>18, <1>19, <1>20, <1>21, <1>22, <1>23, <1>24, <1>25 DEF SerialStep

(* So all threads keep it: while one works with a storage under mount_lock,      *)
(* nobody else touches the storages and the counts.                             *)
LEMMA RefLocalsStep ==
    ASSUME Serialised, TypeInv, TablesInv, RefLocals, NEW t \in Threads, SerialStep(t)
    PROVE  RefLocals'
<1> SUFFICES ASSUME NEW u \in Threads, u # t PROVE RefLocal(u)'
  BY OwnStep DEF RefLocals
<1>1. /\ pc'[u] = pc[u] /\ req'[u] = req[u] /\ ident'[u] = ident[u]
      /\ backend'[u] = backend[u] /\ count'[u] = count[u]
      /\ mount_lock = u => UNCHANGED <<storages, initialized, mounted, mount_lock>>
  BY Bystander
<1>2. RefLocal(u)
  BY DEF RefLocals
<1>3. pc[u] \in InGet \/ pc[u] \in {"uncount", "del"} => mount_lock = u
  BY <1>2 DEF RefLocal, TypeInv, Owner, Critical
<1>4. CASE mount_lock = u
  BY <1>1, <1>2, <1>4 DEF RefLocal
<1>5. CASE mount_lock # u
  BY <1>1, <1>2, <1>3, <1>5 DEF RefLocal, InGet, Requesting
<1> QED
  BY <1>4, <1>5

-----------------------------------------------------------------------------
(* The counts. *)

(* A backend has as many users as there are storages at most.                    *)
LEMMA UsersAreFinite ==
    ASSUME NEW b PROVE IsFiniteSet(Users(b)) /\ Cardinality(Users(b)) \in Nat
<1>1. IsFiniteSet(Idents)
  BY MaxIdentAssumption, FS_Interval DEF Idents
<1>2. Users(b) \in SUBSET Idents
  BY DEF Users, Mounted
<1> QED
  BY <1>1, <1>2, FS_Subset, FS_CardinalityType

(* One thread at a time is in request_mount, and none while another thread is in *)
(* the middle of an unmount.                                                    *)
LEMMA SoleRequest ==
    ASSUME TypeInv, RefLocals, NEW t \in Threads, pc[t] \in InGet \cup {"del"}
    PROVE  \A u \in Threads \ {t} : pc[u] \notin Requesting
<1>1. mount_lock = t
  BY DEF TypeInv, Owner, Critical, RefLocals, RefLocal
<1>2. \A u \in Threads : pc[u] \in Requesting => mount_lock = u
  BY DEF RefLocals, RefLocal, Requesting, InGet
<1> QED
  BY <1>1, <1>2

(* A step outside request_mount that changes neither the users of a backend nor  *)
(* its count keeps the counts.                                                  *)
LEMMA CountedFrame ==
    ASSUME Counted, NEW t \in Threads,
           \A u \in Threads \ {t} : pc'[u] = pc[u] /\ backend'[u] = backend[u],
           pc[t] \notin Requesting, pc'[t] \notin Requesting,
           \A b \in Backends : Users(b)' = Users(b),
           UNCHANGED <<mounted, up>>
    PROVE  Counted'
<1> SUFFICES ASSUME NEW b \in Backends
             PROVE  /\ mounted'[b] = Cardinality(Users(b)') + IF RequestAt(b, {"get_done"})' THEN 1 ELSE 0
                    /\ up'[b] <=> Users(b)' # {} \/ RequestAt(b, Requesting)'
  BY DEF Counted
<1>1. RequestAt(b, {"get_done"})' <=> RequestAt(b, {"get_done"})
  BY DEF RequestAt, Requesting
<1>2. RequestAt(b, Requesting)' <=> RequestAt(b, Requesting)
  BY DEF RequestAt
<1> QED
  BY <1>1, <1>2 DEF Counted

(* A new storage is not initialised yet, so it uses no backend.                  *)
LEMMA CountInsert ==
    ASSUME TypeInv, TablesInv, RefLocals, Counted, NEW t \in Threads, MountInsert(t)
    PROVE  Counted'
<1> DEFINE i == storage_counter
<1>1. /\ i \in Idents /\ storages[i] = None
      /\ storages' = [storages EXCEPT ![i] = req[t].backend]
      /\ initialized' = [initialized EXCEPT ![i] = FALSE]
      /\ pc[t] = "insert" /\ pc' = [pc EXCEPT ![t] = "resolver_add"]
      /\ UNCHANGED <<mounted, up, backend>>
  BY DEF MountInsert, At, Goto, TablesInv, CounterFresh, Idents
<1>2. /\ storages \in [Idents -> Backends \cup {None}] /\ initialized \in [Idents -> BOOLEAN]
      /\ pc \in [Threads -> PCs]
  BY DEF TypeInv, TypeOK, TablesTypeOK, ThreadsTypeOK
<1>3. ASSUME NEW b \in Backends PROVE Users(b)' = Users(b)
  <2>1. ASSUME NEW j PROVE j \in Users(b)' <=> j \in Users(b)
    BY <1>1, <1>2 DEF Users, Mounted
  <2> QED
    BY <2>1
<1> QED
  BY <1>1, <1>2, <1>3, CountedFrame DEF Requesting

(* An unmount takes its storage from the users as it takes one from the count,   *)
(* and unmounts the backend with its last user.                                 *)
LEMMA CountDel ==
    ASSUME TypeInv, TablesInv, RefLocals, Counted, NEW t \in Threads, DelTables(t)
    PROVE  Counted'
<1> DEFINE i == ident[t]
           b0 == storages[i]
<1>1. /\ pc[t] = "del" /\ pc' = [pc EXCEPT ![t] = "resolver_del"]
      /\ storages' = [storages EXCEPT ![i] = None]
      /\ initialized' = [initialized EXCEPT ![i] = FALSE]
      /\ UNCHANGED backend
      /\ IF initialized[i] THEN UnmountBackend(b0, count[t] - 1) ELSE UNCHANGED <<mounted, up>>
  BY DEF DelTables, DelEntries, At, Goto
<1>2. /\ storages \in [Idents -> Backends \cup {None}] /\ initialized \in [Idents -> BOOLEAN]
      /\ pc \in [Threads -> PCs] /\ mounted \in [Backends -> Int] /\ up \in [Backends -> BOOLEAN]
      /\ i \in Idents /\ b0 \in Backends /\ b0 # None
  BY <1>1, NoneAssumption DEF TypeInv, TypeOK, TablesTypeOK, ThreadsTypeOK, Locals, TablesInv, Replacing
<1>3. CASE ~initialized[i]
  <2>1. ASSUME NEW b \in Backends PROVE Users(b)' = Users(b)
    <3>1. ASSUME NEW j PROVE j \in Users(b)' <=> j \in Users(b)
      BY <1>1, <1>2, <1>3, NoneAssumption DEF Users, Mounted
    <3> QED
      BY <3>1
  <2> QED
    BY <1>1, <1>2, <1>3, <2>1, CountedFrame DEF Requesting
<1>4. CASE initialized[i]
  <2>1. count[t] = mounted[b0]
    BY <1>1, <1>4 DEF RefLocals, RefLocal
  <2>2. \A u \in Threads : pc[u] \notin Requesting /\ pc'[u] \notin Requesting
    BY <1>1, <1>2, SoleRequest DEF Requesting
  <2>3. ASSUME NEW b \in Backends
        PROVE  Users(b)' = IF b = b0 THEN Users(b) \ {i} ELSE Users(b)
    <3>1. ASSUME NEW j PROVE j \in Users(b)' <=> j \in Users(b) /\ ~(b = b0 /\ j = i)
      BY <1>1, <1>2, NoneAssumption DEF Users, Mounted
    <3> QED
      BY <3>1
  <2>4. ASSUME NEW b \in Backends
        PROVE  /\ mounted[b] = Cardinality(Users(b))
               /\ up[b] <=> Users(b) # {}
               /\ ~RequestAt(b, {"get_done"})'
               /\ ~RequestAt(b, Requesting)'
    <3>1. /\ ~RequestAt(b, {"get_done"}) /\ ~RequestAt(b, Requesting)
          /\ ~RequestAt(b, {"get_done"})' /\ ~RequestAt(b, Requesting)'
      BY <2>2 DEF RequestAt, Requesting
    <3> QED
      BY <3>1, UsersAreFinite DEF Counted
  <2>5. i \in Users(b0)
    BY <1>2, <1>4 DEF Users, Mounted
  <2>6. /\ Cardinality(Users(b0) \ {i}) = mounted[b0] - 1
        /\ Users(b0) \ {i} = {} <=> mounted[b0] - 1 = 0
    <3> DEFINE S == Users(b0)
    <3>1. IsFiniteSet(S) /\ mounted[b0] = Cardinality(S) /\ i \in S
      BY <1>2, <2>4, <2>5, UsersAreFinite
    <3> HIDE DEF S
    <3>2. IsFiniteSet(S \ {i}) /\ Cardinality(S \ {i}) = Cardinality(S) - 1
      BY <3>1, FS_RemoveElement
    <3>3. Cardinality(S \ {i}) = 0 <=> S \ {i} = {}
      BY <3>2, FS_EmptySet
    <3> QED
      BY <3>1, <3>2, <3>3 DEF S
  <2>7. /\ mounted' = [mounted EXCEPT ![b0] = mounted[b0] - 1]
        /\ up' = IF mounted[b0] - 1 = 0 THEN [up EXCEPT ![b0] = FALSE] ELSE up
    BY <1>1, <1>4, <2>1 DEF UnmountBackend
  <2>8. ASSUME NEW b \in Backends
        PROVE  /\ mounted'[b] = Cardinality(Users(b)')
               /\ up'[b] <=> Users(b)' # {}
               /\ ~RequestAt(b, {"get_done"})' /\ ~RequestAt(b, Requesting)'
               /\ Cardinality(Users(b)') \in Nat
    <3> DEFINE S == Users(b)'
    <3>1. S = IF b = b0 THEN Users(b) \ {i} ELSE Users(b)
      BY <2>3
    <3>2. /\ mounted[b] = Cardinality(Users(b))
          /\ up[b] <=> Users(b) # {}
          /\ ~RequestAt(b, {"get_done"})' /\ ~RequestAt(b, Requesting)'
          /\ mounted[b] \in Nat
      BY <2>4, UsersAreFinite
    <3> HIDE DEF S
    <3>3. CASE b = b0
      <4>1. /\ mounted'[b] = mounted[b0] - 1
            /\ up'[b] = IF mounted[b0] - 1 = 0 THEN FALSE ELSE up[b0]
            /\ Cardinality(S) = mounted[b0] - 1
            /\ S = {} <=> mounted[b0] - 1 = 0
        BY <1>2, <2>6, <2>7, <3>1, <3>3
      <4>2. mounted[b0] # 0 /\ up[b0]
        BY <2>5, <3>2, <3>3, FS_EmptySet, UsersAreFinite
      <4>3. mounted'[b] = Cardinality(S) /\ Cardinality(S) \in Nat
        BY <3>2, <3>3, <4>1, <4>2
      <4>4. up'[b] <=> S # {}
        BY <4>1, <4>2
      <4> QED
        BY <3>2, <4>3, <4>4 DEF S
    <3>4. CASE b # b0
      <4>1. mounted'[b] = mounted[b] /\ up'[b] = up[b] /\ S = Users(b)
        BY <1>2, <2>7, <3>1, <3>4
      <4> QED
        BY <3>2, <4>1 DEF S
    <3> QED
      BY <3>3, <3>4
  <2>9. Counted'
    BY <2>8 DEF Counted
  <2> QED
    BY <2>9
<1> QED
  BY <1>3, <1>4

(* The first request for a backend mounts it before it counts itself.            *)
LEMMA CountLookup ==
    ASSUME TypeInv, RefLocals, Counted, NEW t \in Threads, GetLookup(t)
    PROVE  Counted'
<1> DEFINE b0 == storages[ident[t]]
<1>1. /\ pc[t] = "get" /\ UNCHANGED <<storages, initialized, mounted>>
      /\ ident[t] \in Idents /\ cont[t] \in {"use", "start_watcher"}
      /\ pc \in [Threads -> PCs] /\ backend \in [Threads -> Backends \cup {None}]
      /\ mounted \in [Backends -> Int] /\ up \in [Backends -> BOOLEAN]
      /\ b0 \in Backends \cup {None}
  BY DEF GetLookup, At, tables, TypeInv, TypeOK, TablesTypeOK, ThreadsTypeOK, Locals, InGet
<1>2. \A b : Users(b)' = Users(b)
  BY <1>1 DEF Users, Mounted
<1>3. CASE b0 = None \/ initialized[ident[t]]
  <2>1. /\ UNCHANGED up
        /\ \A u \in Threads \ {t} : pc'[u] = pc[u] /\ backend'[u] = backend[u]
        /\ pc'[t] \notin Requesting
    BY <1>1, <1>3 DEF GetLookup, GotStorage, Return, Goto, Requesting
  <2> QED
    BY <1>1, <1>2, <2>1, CountedFrame DEF Requesting
<1>4. CASE b0 # None /\ ~initialized[ident[t]]
  <2>1. /\ b0 \in Backends
        /\ backend' = [backend EXCEPT ![t] = b0] /\ pc' = [pc EXCEPT ![t] = "get_read"]
        /\ up' = IF mounted[b0] = 0 THEN [up EXCEPT ![b0] = TRUE] ELSE up
    BY <1>1, <1>4 DEF GetLookup, MountBackend, Goto
  <2>2. \A u \in Threads : pc[u] \notin Requesting /\ (u # t => pc'[u] \notin Requesting)
    BY <1>1, <2>1, SoleRequest DEF Requesting, InGet
  <2>3. ASSUME NEW b \in Backends
        PROVE  /\ mounted[b] = Cardinality(Users(b)) /\ (up[b] <=> Users(b) # {})
               /\ ~RequestAt(b, {"get_done"})' /\ (RequestAt(b, Requesting)' <=> b = b0)
    <3>1. ~RequestAt(b, {"get_done"}) /\ ~RequestAt(b, Requesting)
      BY <2>2 DEF RequestAt, Requesting
    <3>2. ~RequestAt(b, {"get_done"})'
      BY <1>1, <2>1, <2>2 DEF RequestAt, Requesting
    <3>3. RequestAt(b, Requesting)' <=> b = b0
      BY <1>1, <2>1, <2>2 DEF RequestAt, Requesting
    <3> QED
      BY <3>1, <3>2, <3>3, UsersAreFinite DEF Counted
  <2>4. up'[b0]
    <3>1. Users(b0) = {} => mounted[b0] = 0
      BY <2>1, <2>3, FS_EmptySet
    <3> QED
      BY <1>1, <2>1, <2>3, <3>1
  <2>5. \A b \in Backends \ {b0} : up'[b] = up[b]
    BY <1>1, <2>1
  <2> QED
    BY <1>1, <1>2, <2>3, <2>4, <2>5, UsersAreFinite DEF Counted
<1> QED
  BY <1>3, <1>4

(* self.mounted += 1 counts the request, and the flag turns it into a user.      *)
LEMMA CountRequest ==
    ASSUME TypeInv, RefLocals, Counted, NEW t \in Threads, GetRead(t) \/ GetWrite(t) \/ GetDone(t)
    PROVE  Counted'
<1> DEFINE i == ident[t]
           b0 == backend[t]
<1>1. /\ pc[t] \in Requesting
      /\ i \in Idents /\ b0 \in Backends /\ b0 # None
      /\ storages[i] = b0 /\ ~initialized[i]
      /\ cont[t] \in {"use", "start_watcher"}
      /\ pc \in [Threads -> PCs] /\ initialized \in [Idents -> BOOLEAN]
      /\ mounted \in [Backends -> Int]
      /\ UNCHANGED <<storages, up, backend>>
  BY DEF GetRead, GetWrite, GetDone, At, tables, TypeInv, TypeOK, TablesTypeOK, ThreadsTypeOK, Locals, InGet,
         RefLocals, RefLocal, Requesting
<1>2. /\ \A u \in Threads \ {t} : pc[u] \notin Requesting /\ pc'[u] = pc[u]
  BY <1>1, SoleRequest DEF GetRead, GetWrite, GetDone, GotStorage, Goto, InGet, Requesting
<1>3. ASSUME NEW b \in Backends
      PROVE  /\ RequestAt(b, {"get_done"}) <=> b = b0 /\ pc[t] = "get_done"
             /\ RequestAt(b, Requesting) <=> b = b0
             /\ RequestAt(b, {"get_done"})' <=> b = b0 /\ pc'[t] = "get_done"
             /\ RequestAt(b, Requesting)' <=> b = b0 /\ pc'[t] \in Requesting
  <2>1. \A u \in Threads \ {t} : pc[u] \notin Requesting /\ pc'[u] \notin Requesting
    BY <1>2
  <2>2. /\ RequestAt(b, {"get_done"}) <=> b = b0 /\ pc[t] = "get_done"
        /\ RequestAt(b, Requesting) <=> b = b0
    BY <1>1, <2>1 DEF RequestAt, Requesting
  <2>3. /\ RequestAt(b, {"get_done"})' <=> b = b0 /\ pc'[t] = "get_done"
        /\ RequestAt(b, Requesting)' <=> b = b0 /\ pc'[t] \in Requesting
    BY <1>1, <2>1 DEF RequestAt, Requesting
  <2> QED
    BY <2>2, <2>3
<1>4. ASSUME NEW b \in Backends
      PROVE  /\ mounted[b] = Cardinality(Users(b)) + IF b = b0 /\ pc[t] = "get_done" THEN 1 ELSE 0
             /\ up[b] <=> Users(b) # {} \/ b = b0
             /\ Cardinality(Users(b)) \in Nat
  BY <1>3, UsersAreFinite DEF Counted
<1>5. CASE GetRead(t)
  <2>1. /\ pc[t] = "get_read" /\ pc'[t] = "get_write" /\ UNCHANGED <<initialized, mounted>>
    BY <1>1, <1>5 DEF GetRead, At, Goto
  <2>2. \A b : Users(b)' = Users(b)
    BY <1>1, <2>1 DEF Users, Mounted
  <2> QED
    BY <1>1, <1>3, <1>4, <2>1, <2>2 DEF Counted, Requesting
<1>6. CASE GetWrite(t)
  <2>1. /\ pc[t] = "get_write" /\ pc'[t] = "get_done" /\ UNCHANGED initialized
        /\ mounted' = [mounted EXCEPT ![b0] = mounted[b0] + 1]
    BY <1>1, <1>6 DEF GetWrite, At, Goto, RefLocals, RefLocal
  <2>2. \A b : Users(b)' = Users(b)
    BY <1>1, <2>1 DEF Users, Mounted
  <2>3. ASSUME NEW b \in Backends
        PROVE  mounted'[b] = Cardinality(Users(b)) + IF b = b0 THEN 1 ELSE 0
    BY <1>1, <1>4, <2>1
  <2> QED
    BY <1>1, <1>3, <1>4, <2>1, <2>2, <2>3 DEF Counted, Requesting
<1>7. CASE GetDone(t)
  <2>1. /\ pc[t] = "get_done" /\ pc'[t] \notin Requesting /\ UNCHANGED mounted
        /\ initialized' = [initialized EXCEPT ![i] = TRUE]
    BY <1>1, <1>7 DEF GetDone, GotStorage, At, Goto, Requesting
  <2>2. ASSUME NEW b \in Backends
        PROVE  Users(b)' = IF b = b0 THEN Users(b) \cup {i} ELSE Users(b)
    <3>1. ASSUME NEW j PROVE j \in Users(b)' <=> j \in Users(b) \/ (b = b0 /\ j = i)
      BY <1>1, <2>1 DEF Users, Mounted
    <3> QED
      BY <3>1
  <2>3. i \notin Users(b0)
    BY <1>1 DEF Users
  <2>4. ASSUME NEW b \in Backends
        PROVE  /\ mounted[b] = Cardinality(Users(b)')
               /\ up[b] <=> Users(b)' # {}
    <3> DEFINE S == Users(b)
               T == Users(b)'
    <3>1. /\ IsFiniteSet(S) /\ (b = b0 => i \notin S)
          /\ T = IF b = b0 THEN S \cup {i} ELSE S
          /\ mounted[b] = Cardinality(S) + IF b = b0 THEN 1 ELSE 0
          /\ up[b] <=> S # {} \/ b = b0
          /\ Cardinality(S) \in Nat
      BY <1>4, <2>1, <2>2, <2>3, UsersAreFinite
    <3> HIDE DEF S, T
    <3>2. i \notin S => Cardinality(S \cup {i}) = Cardinality(S) + 1
      BY <3>1, FS_AddElement
    <3>3. mounted[b] = Cardinality(T) /\ (up[b] <=> T # {})
      BY <3>1, <3>2
    <3> QED
      BY <3>3 DEF T
  <2>5. ASSUME NEW b \in Backends
        PROVE  /\ ~RequestAt(b, {"get_done"})' /\ ~RequestAt(b, Requesting)'
               /\ Cardinality(Users(b)') \in Nat
    BY <1>3, <1>4, <2>1, <2>4 DEF Requesting
  <2> QED
    BY <1>1, <2>1, <2>4, <2>5 DEF Counted
<1> QED
  BY <1>5, <1>6, <1>7

(* Every step of a thread keeps the counts.                                      *)
LEMMA CountedStep ==
    ASSUME TypeInv, TablesInv, RefLocals, Counted, NEW t \in Threads, SerialStep(t)
    PROVE  Counted'
<1>a. \A u \in Threads \ {t} : pc'[u] = pc[u] /\ backend'[u] = backend[u]
  BY Bystander
<1>b. pc \in [Threads -> PCs] /\ cont \in [Threads -> {"idle", "use", "insert", "start_watcher"}]
  BY DEF TypeInv, TypeOK, ThreadsTypeOK
<1>c. ASSUME UNCHANGED <<storages, initialized, mounted, up>>,
             pc[t] \notin Requesting, pc'[t] \notin Requesting
      PROVE  Counted'
  <2>1. \A b \in Backends : Users(b)' = Users(b)
    BY <1>c DEF Users, Mounted
  <2> QED
    BY <1>a, <1>c, <2>1, CountedFrame
<1> USE <1>b DEF Requesting, tables, At, Goto, Return
<1>1. CASE MountBegin(t)
  BY <1>1, <1>c DEF MountBegin
<1>2. CASE MountLocked(t)
  BY <1>2, <1>c DEF MountLocked
<1>3. CASE ResolverAdd(t)
  BY <1>3, <1>c DEF ResolverAdd
<1>4. CASE MountEnd(t)
  BY <1>4, <1>c DEF MountEnd
<1>5. CASE UnmountBegin(t)
  BY <1>5, <1>c DEF UnmountBegin
<1>6. CASE UnmountLocked(t)
  BY <1>6, <1>c DEF UnmountLocked
<1>7. CASE StopWatches(t)
  BY <1>7, <1>c DEF StopWatches
<1>8. CASE Uncount(t)
  BY <1>8, <1>c DEF Uncount
<1>9. CASE ResolverDel(t)
  BY <1>9, <1>c DEF ResolverDel
<1>10. CASE UnmountEnd(t)
  BY <1>10, <1>c DEF UnmountEnd
<1>11. CASE MountFails(t)
  BY <1>11, <1>c DEF MountFails
<1>12. CASE AccessResolve(t)
  BY <1>12, <1>c DEF AccessResolve
<1>13. CASE AccessLocked(t)
  BY <1>13, <1>c DEF AccessLocked
<1>14. CASE UseEnd(t)
  BY <1>14, <1>c DEF UseEnd
<1>15. CASE AddWatchBegin(t)
  BY <1>15, <1>c DEF AddWatchBegin
<1>16. CASE AddWatchLocked(t)
  BY <1>16, <1>c DEF AddWatchLocked
<1>17. CASE StartWatcher(t)
  BY <1>17, <1>c DEF StartWatcher
<1>18. CASE CloseBegin(t)
  BY <1>18, <1>c DEF CloseBegin
<1>19. CASE CleanupWatch(t)
  BY <1>19, <1>c DEF CleanupWatch
<1>20. CASE MountInsert(t)
  BY <1>20, CountInsert
<1>21. CASE DelTables(t)
  BY <1>21, CountDel
<1>22. CASE GetLookup(t)
  BY <1>22, CountLookup
<1>23. CASE GetRead(t) \/ GetWrite(t) \/ GetDone(t)
  BY <1>23, CountRequest
<1> QED
  BY <1>1, <1>2, <1>3, <1>4, <1>5, <1>6, <1>7, <1>8, <1>9, <1>10, <1>11, <1>12, <1>13, <1>14, <1>15, <1>16, <1>17, <1>18, <1>19, <1>20, <1>21, <1>22, <1>23 DEF SerialStep

-----------------------------------------------------------------------------
(* The theorem. *)

(* At the start nothing is counted and no backend is mounted.                    *)
LEMMA RefInvInit == Init => RefInv
<1> SUFFICES ASSUME Init PROVE RefInv
  OBVIOUS
<1>1. RefLocals
  BY DEF Init, RefLocals, RefLocal, InGet, Requesting
<1>2. ASSUME NEW b \in Backends PROVE /\ mounted[b] = Cardinality(Users(b)) /\ ~up[b] /\ Users(b) = {}
                                      /\ ~RequestAt(b, {"get_done"}) /\ ~RequestAt(b, Requesting)
  <2>1. Users(b) = {}
    BY DEF Init, Users, Mounted
  <2> QED
    BY <2>1, FS_EmptySet DEF Init, RequestAt, Requesting
<1>3. Counted
  BY <1>2, FS_EmptySet DEF Counted
<1> QED
  BY <1>1, <1>3 DEF RefInv

(* The invariant is inductive beside the type and the table invariants.          *)
LEMMA RefInvNext ==
    ASSUME Serialised, TypeInv, TablesInv, RefInv, [Next]_vars
    PROVE  RefInv'
<1>1. ASSUME NEW t \in Threads, Begin(t) \/ Step(t) PROVE RefInv'
  BY <1>1, SerialSteps, RefLocalsStep, CountedStep DEF RefInv
<1>2. ASSUME UNCHANGED vars PROVE RefInv'
  <2>1. RefLocals'
    BY <1>2 DEF RefInv, RefLocals, RefLocal, vars
  <2>2. ASSUME NEW b PROVE Users(b)' = Users(b)
    BY <1>2 DEF Users, Mounted, vars
  <2>3. ASSUME NEW b, NEW where PROVE RequestAt(b, where)' <=> RequestAt(b, where)
    BY <1>2 DEF RequestAt, vars
  <2>4. Counted'
    BY <1>2, <2>2, <2>3 DEF RefInv, Counted, Requesting, vars
  <2> QED
    BY <2>1, <2>4 DEF RefInv
<1> QED
  BY <1>1, <1>2 DEF Next, Quiet

(* While mount_lock is free no request is under way, so the counts are exact.    *)
LEMMA RefInvCounts == TypeInv /\ RefInv => RefcountExact
<1> SUFFICES ASSUME TypeInv, RefInv, mount_lock = None, NEW b \in Backends
             PROVE  /\ mounted[b] = Cardinality(Users(b))
                    /\ up[b] <=> Users(b) # {}
  BY DEF RefcountExact, Users
<1>1. \A t \in Threads : pc[t] \notin Requesting
  BY NoneAssumption DEF RefInv, RefLocals, RefLocal, InGet, Requesting
<1>2. ~RequestAt(b, {"get_done"}) /\ ~RequestAt(b, Requesting)
  BY <1>1 DEF RequestAt, Requesting
<1> QED
  BY <1>2, UsersAreFinite DEF RefInv, Counted

(* When every get() is made under mount_lock and unmount() does not raise, the   *)
(* count of every deduplicated backend is the number of initialised storages     *)
(* that use it, and the backend is mounted exactly while there is one, whatever  *)
(* threads mount, replace, unmount, access and watch (request_mount,             *)
(* request_unmount).                                                            *)
THEOREM RefcountsAreExact ==
    ASSUME Serialised
    PROVE  Spec => []RefcountExact
<1>1. Init => TypeInv /\ TablesInv /\ RefInv
  BY TypeInvInit, TablesInvInit, RefInvInit
<1>2. TypeInv /\ TablesInv /\ RefInv /\ [Next]_vars => TypeInv' /\ TablesInv' /\ RefInv'
  BY TypeInvNext, TablesInvNext, RefInvNext
<1>3. TypeInv /\ RefInv => RefcountExact
  BY RefInvCounts
<1> QED
  BY <1>1, <1>2, <1>3, PTL DEF Spec

(* And then request_mount, when it counts its caller, always has the backend     *)
(* mounted, by itself or by an earlier request.                                  *)
THEOREM RequestsAreMounted ==
    ASSUME Serialised
    PROVE  Spec => RequestMountMounts
<1>1. Init => TypeInv /\ TablesInv /\ RefInv
  BY TypeInvInit, TablesInvInit, RefInvInit
<1>2. TypeInv /\ TablesInv /\ RefInv /\ [Next]_vars => TypeInv' /\ TablesInv' /\ RefInv'
  BY TypeInvNext, TablesInvNext, RefInvNext
<1>3. TypeInv /\ RefInv =>
        [\A t \in Threads : At(t, "get_write") /\ pc'[t] = "get_done" => up[backend[t]]]_vars
  <2> SUFFICES ASSUME TypeInv, RefInv, NEW t \in Threads, pc[t] = "get_write"
               PROVE  up[backend[t]]
    BY DEF At
  <2>1. backend[t] \in Backends
    BY DEF TypeInv, TypeOK, ThreadsTypeOK, Locals
  <2>2. RequestAt(backend[t], Requesting)
    BY DEF RequestAt, Requesting
  <2> QED
    BY <2>1, <2>2 DEF RefInv, Counted
<1> QED
  BY <1>1, <1>2, <1>3, PTL DEF Spec, RequestMountMounts
=============================================================================
