-------------------------- MODULE NaiveSyncProofs --------------------------
(***************************************************************************)
(* Proofs about NaiveSync, for any storages' contents, jobs and users.      *)
(***************************************************************************)
EXTENDS NaiveSync, TLAPS

-----------------------------------------------------------------------------
(* The invariant of a one-way sync. *)

(* What the calls of a one-way sync consist of.                               *)
OneWayOps == {"watch", "one_shot", "scan", "scan_visit", "dirs", "mkdirs", "differ", "missing",
              "files", "MODIFY", "target", "open_new", "open", "copy", "write"}

(* They bring changes from the source to the target; the target is only read.  *)
Forward(t) ==
    /\ {"op", "src"} \subseteq DOMAIN t /\ t.op \in OneWayOps /\ t.src \in Storages
    /\ t.src = "source" \/ t.op \in {"scan", "scan_visit"}

Flows(tasks) == \E S : tasks \in Seq(S) /\ \A t \in S : Forward(t)

OneWay ==
    /\ job \in DOMAIN Jobs /\ edits \in Nat
    /\ fs = [s \in Storages |-> fs[s]]
    /\ Job.unidirectional => Flows(work)

-----------------------------------------------------------------------------
(* The stack of tasks. *)

(* A call that is over leaves the rest.                                       *)
LEMMA FlowsOn ==
    ASSUME NEW w, Flows(w), w # << >>
    PROVE  Forward(Head(w)) /\ Flows(Tail(w))
<1>1. PICK S : w \in Seq(S) /\ \A t \in S : Forward(t)
  BY DEF Flows
<1>2. Head(w) \in S /\ Tail(w) \in Seq(S)
  BY <1>1
<1> QED
  BY <1>1, <1>2 DEF Flows

(* New tasks come before the others.                                          *)
LEMMA FlowsTogether ==
    ASSUME NEW v, NEW w, Flows(v), Flows(w)
    PROVE  Flows(v \o w)
<1>1. PICK S : v \in Seq(S) /\ \A t \in S : Forward(t)
  BY DEF Flows
<1>2. PICK T : w \in Seq(T) /\ \A t \in T : Forward(t)
  BY DEF Flows
<1>3. v \in Seq(S \cup T) /\ w \in Seq(S \cup T)
  BY <1>1, <1>2
<1>4. v \o w \in Seq(S \cup T)
  BY <1>3
<1> QED
  BY <1>1, <1>2, <1>4 DEF Flows

(* One task, or two, or three, or none.                                       *)
LEMMA Few ==
    /\ Flows(<< >>)
    /\ \A t : Forward(t) => Flows(<<t>>)
    /\ \A t, u : Forward(t) /\ Forward(u) => Flows(<<t, u>>)
    /\ \A t, u, v : Forward(t) /\ Forward(u) /\ Forward(v) => Flows(<<t, u, v>>)
<1>1. \A S : << >> \in Seq(S)
  OBVIOUS
<1>2. \A S : \A t, u, v \in S : <<t>> \in Seq(S) /\ <<t, u>> \in Seq(S) /\ <<t, u, v>> \in Seq(S)
  OBVIOUS
<1>3. Flows(<< >>)
  <2> DEFINE S == {}
  <2>1. \A t \in S : Forward(t)
    OBVIOUS
  <2> HIDE DEF S
  <2> QED
    BY <1>1, <2>1 DEF Flows
<1>4. ASSUME NEW t, NEW u, NEW v, Forward(t), Forward(u), Forward(v)
      PROVE  Flows(<<t>>) /\ Flows(<<t, u>>) /\ Flows(<<t, u, v>>)
  <2> DEFINE S == {t, u, v}
  <2>1. t \in S /\ u \in S /\ v \in S /\ \A x \in S : Forward(x)
    BY <1>4
  <2> HIDE DEF S
  <2> QED
    BY <1>2, <2>1 DEF Flows
<1> QED
  BY <1>3, <1>4

(* A step that ends, goes on with its task, or puts one before it.             *)
LEMMA Going ==
    ASSUME Flows(work), work # << >>
    PROVE  /\ Forward(task)
           /\ Pop => Flows(work')
           /\ \A t : Forward(t) /\ Replace(<<t>>) => Flows(work')
           /\ \A t, u : Forward(t) /\ Forward(u) /\ Replace(<<t, u>>) => Flows(work')
           /\ \A op \in OneWayOps : Src = "source" /\ Then(op) => Flows(work')
<1>1. Forward(task) /\ Flows(Tail(work))
  BY FlowsOn DEF task
<1>2. Pop => Flows(work')
  BY <1>1, Few, FlowsTogether DEF Pop, Replace
<1>3. ASSUME NEW t, Forward(t), Replace(<<t>>) PROVE Flows(work')
  BY <1>1, <1>3, Few, FlowsTogether DEF Replace
<1>4. ASSUME NEW t, NEW u, Forward(t), Forward(u), Replace(<<t, u>>) PROVE Flows(work')
  BY <1>1, <1>4, Few, FlowsTogether DEF Replace
<1>5. ASSUME NEW op \in OneWayOps, Src = "source", Then(op) PROVE Flows(work')
  <2>1. Forward([task EXCEPT !.op = op])
    BY <1>1, <1>5 DEF Forward, Src, task
  <2> QED
    BY <1>5, <2>1, <1>3 DEF Then
<1> QED
  BY <1>1, <1>2, <1>3, <1>4, <1>5

(* Tasks as they are made.                                                    *)
LEMMA Made ==
    ASSUME NEW op \in OneWayOps, NEW s \in Storages, NEW p, NEW ps,
           s = "source" \/ op \in {"scan", "scan_visit"}
    PROVE  Forward(Do(op, s, p)) /\ Forward(Loop(op, s, p, ps))
  BY DEF Forward, Do, Loop, Storages

-----------------------------------------------------------------------------
(* The invariant holds at the start. *)

(* The initial sync of a one-way job reads both storages and goes one way.     *)
LEMMA StartsOneWay == Init => OneWay
<1> SUFFICES ASSUME Init PROVE OneWay
  OBVIOUS
<1>1. Job \in Range(Jobs)
  BY DEF Init, Job, Range
<1>2. fs \in [Storages -> Trees]
  BY <1>1, JobsAssumption DEF Init
<1>3. ASSUME Job.unidirectional PROVE Flows(work)
  <2>1. Directions = <<"source">>
    BY <1>3 DEF Directions
  <2>2. \A op \in OneWayOps : Each(op) = <<Do(op, "source", Root)>>
    BY <2>1 DEF Each
  <2>3. \A op \in OneWayOps : Flows(Each(op))
    <3> SUFFICES ASSUME NEW op \in OneWayOps PROVE Flows(Each(op))
      OBVIOUS
    <3>1. Forward(Do(op, "source", Root))
      BY Made DEF Storages
    <3> QED
      BY <3>1, <2>2, Few
  <2>4. Flows(<<Do("one_shot", "source", Root), Do("scan", "source", Root), Do("scan", "target", Root)>>)
    <3> DEFINE a == Do("one_shot", "source", Root)
               b == Do("scan", "source", Root)
               c == Do("scan", "target", Root)
    <3>1. Forward(a) /\ Forward(b) /\ Forward(c)
      BY Made DEF Storages, OneWayOps
    <3> QED
      BY <3>1, Few
  <2>5. Flows(<<Do("differ", "source", Root)>>)
    BY Made, Few DEF Storages, OneWayOps
  <2>6. Flows(IF Job.continuous THEN Each("watch") ELSE << >>)
    BY <2>3, Few DEF OneWayOps
  <2>7. Flows(Each("dirs")) /\ Flows(Each("missing"))
    BY <2>3 DEF OneWayOps
  <2>8. work = Startup
    BY DEF Init
  <2> QED
    BY <2>4, <2>5, <2>6, <2>7, <2>8, FlowsTogether DEF Startup
<1> QED
  BY <1>2, <1>3 DEF Init, OneWay

-----------------------------------------------------------------------------
(* A step of a one-way sync. *)

(* The step at hand belongs to a one-way sync.                                *)
LEMMA Heading ==
    ASSUME Flows(work), NEW op, Doing(op)
    PROVE  /\ work # << >> /\ op \in OneWayOps /\ Src \in Storages
           /\ op \notin {"scan", "scan_visit"} => Src = "source" /\ Dst = "target"
<1>1. work # << >> /\ task.op = op
  BY DEF Doing, task
<1>2. Forward(task)
  BY <1>1, Going
<1> QED
  BY <1>1, <1>2 DEF Forward, Src, Dst, Other

(* A node is put in one storage only.                                         *)
LEMMA PutsThere ==
    ASSUME fs = [s \in Storages |-> fs[s]], NEW s, NEW p, NEW node, NEW events, Put(s, p, node, events)
    PROVE  fs' = [t \in Storages |-> fs'[t]] /\ (s = "target" => fs'["source"] = fs["source"])
<1>1. fs' = [fs EXCEPT ![s][p] = node]
  BY DEF Put
<1> QED
  BY <1>1 DEF Storages

(* So is a directory.                                                         *)
LEMMA MakesThere ==
    ASSUME fs = [s \in Storages |-> fs[s]], NEW s, NEW p, MakeDir(s, p)
    PROVE  fs' = [t \in Storages |-> fs'[t]] /\ (s = "target" => fs'["source"] = fs["source"])
  BY PutsThere DEF MakeDir, disk

(* An exception ends the call.                                                *)
LEMMA FailFlows == Fail => Flows(work')
  BY Few DEF Fail

(* The initial sync, until it copies files.                                    *)
LEMMA StartFlows ==
    ASSUME Flows(work), fs = [s \in Storages |-> fs[s]], StartStep
    PROVE  Flows(work') /\ fs'["source"] = fs["source"]
<1>1. CASE Watch
  <2>1. UNCHANGED fs /\ Pop /\ Doing("watch")
    BY <1>1 DEF Watch
  <2> QED
    BY <2>1, Heading, Going
<1>2. CASE OneShot
  <2>1. UNCHANGED fs /\ work' = Tail(work) /\ Doing("one_shot")
    BY <1>2 DEF OneShot, disk
  <2> QED
    BY <2>1, Heading, FlowsOn
<1>3. CASE Scan
  <2>1. UNCHANGED fs /\ Doing("scan") /\ (Fail \/ Replace(<<Loop("scan_visit", Src, path, Children(Src, path))>>))
    BY <1>3 DEF Scan, ReadDir, Quietly, disk
  <2>2. Forward(Loop("scan_visit", Src, path, Children(Src, path)))
    BY <2>1, Heading, Made DEF OneWayOps
  <2> QED
    BY <2>1, <2>2, Heading, Going, FailFlows
<1>4. CASE ScanVisit
  <2>1. UNCHANGED fs /\ Doing("scan_visit")
    BY <1>4 DEF ScanVisit, Quietly, disk
  <2>2. Src \in Storages /\ work # << >>
    BY <2>1, Heading
  <2>3. \A p \in task.paths : /\ Forward(Loop("scan_visit", Src, path, task.paths \ {p}))
                              /\ Forward(Do("scan", Src, p))
    BY <2>2, Made DEF OneWayOps
  <2>4. \/ Pop \/ Fail
        \/ \E p \in task.paths :
              \/ Replace(<<Do("scan", Src, p), Loop("scan_visit", Src, path, task.paths \ {p})>>)
              \/ Replace(<<Loop("scan_visit", Src, path, task.paths \ {p})>>)
    BY <1>4 DEF ScanVisit
  <2> QED
    BY <2>1, <2>2, <2>3, <2>4, Going, FailFlows
<1>5. CASE SyncDirs
  <2>1. UNCHANGED fs /\ Doing("dirs") /\ Replace(<<Loop("mkdirs", Src, Root, dirs[Src] \ dirs[Dst])>>)
    BY <1>5 DEF SyncDirs, Quietly, disk
  <2>2. Forward(Loop("mkdirs", Src, Root, dirs[Src] \ dirs[Dst]))
    BY <2>1, Heading, Made DEF OneWayOps
  <2> QED
    BY <2>1, <2>2, Heading, Going
<1>6. CASE MakeDirs
  <2>1. Doing("mkdirs") /\ work # << >> /\ Src = "source" /\ Src \in Storages /\ Dst = "target"
    BY <1>6, Heading DEF MakeDirs, Storages
  <2>2. \A p \in task.paths : Forward(Loop("mkdirs", Src, Root, task.paths \ {p}))
    BY <2>1, Made DEF OneWayOps
  <2>3. \/ Pop /\ UNCHANGED fs
        \/ \E p \in task.paths : MakeDir(Dst, p) /\ Replace(<<Loop("mkdirs", Src, Root, task.paths \ {p})>>)
    BY <1>6 DEF MakeDirs, Quietly, disk
  <2> QED
    BY <2>1, <2>2, <2>3, Going, MakesThere
<1>7. CASE FindConflicts
  <2>1. UNCHANGED fs /\ Pop /\ Doing("differ")
    BY <1>7 DEF FindConflicts, Quietly, disk
  <2> QED
    BY <2>1, Heading, Going
<1>8. CASE FindMissing
  <2>1. UNCHANGED fs /\ Doing("missing") /\ Replace(<<Loop("files", Src, Root, Keys(Src) \ Keys(Dst))>>)
    BY <1>8 DEF FindMissing, Quietly, disk
  <2>2. Forward(Loop("files", Src, Root, Keys(Src) \ Keys(Dst)))
    BY <2>1, Heading, Made DEF OneWayOps
  <2> QED
    BY <2>1, <2>2, Heading, Going
<1>9. CASE SyncMissing
  <2>1. UNCHANGED fs /\ Doing("files") /\ work # << >> /\ Src = "source" /\ Src \in Storages
    BY <1>9, Heading DEF SyncMissing, Quietly, disk
  <2>2. \A p \in task.paths : /\ Forward(Loop("files", Src, Root, task.paths \ {p}))
                              /\ Forward(Do("MODIFY", Src, p))
    BY <2>1, Made DEF OneWayOps
  <2>3. \/ Pop
        \/ \E p \in task.paths :
              Replace(<<Do("MODIFY", Src, p), Loop("files", Src, Root, task.paths \ {p})>>)
    BY <1>9 DEF SyncMissing
  <2> QED
    BY <2>1, <2>2, <2>3, Going
<1> QED
  BY <1>1, <1>2, <1>3, <1>4, <1>5, <1>6, <1>7, <1>8, <1>9 DEF StartStep

(* Files are copied; nothing else is done to an object in a one-way sync.      *)
LEMMA ObjectFlows ==
    ASSUME Flows(work), fs = [s \in Storages |-> fs[s]], ObjectStep
    PROVE  Flows(work') /\ fs'["source"] = fs["source"]
<1>1. CASE SyncFile
  <2>1. UNCHANGED fs /\ Doing("MODIFY") /\ work # << >> /\ Src = "source" /\ Forward(task)
    BY <1>1, Heading, Going DEF SyncFile, Quietly, disk
  <2>2. Forward([task EXCEPT !.op = "target", !.old = hashes[Src][path]])
    BY <2>1 DEF Forward, OneWayOps, task, Src
  <2>3. Fail \/ Pop \/ Replace(<<[task EXCEPT !.op = "target", !.old = hashes[Src][path]]>>)
    BY <1>1 DEF SyncFile
  <2> QED
    BY <2>1, <2>2, <2>3, Going, FailFlows
<1>2. CASE SyncTarget
  <2>1. UNCHANGED fs /\ Doing("target") /\ work # << >> /\ Src = "source"
    BY <1>2, Heading DEF SyncTarget, Quietly, disk
  <2>2. Pop \/ Then("open") \/ Then("open_new")
    BY <1>2 DEF SyncTarget
  <2> QED
    BY <2>1, <2>2, Going DEF OneWayOps
<1>3. CASE OpenNew
  <2>1. Doing("open_new") /\ work # << >> /\ Src = "source" /\ Dst = "target"
    BY <1>3, Heading DEF OpenNew
  <2>2. UNCHANGED fs \/ Put(Dst, path, Empty, <<Event("CREATE", path, FALSE)>>)
    BY <1>3 DEF OpenNew, disk
  <2>3. Pop \/ Then("copy") \/ Fail
    BY <1>3 DEF OpenNew
  <2> QED
    BY <2>1, <2>2, <2>3, Going, FailFlows, PutsThere DEF OneWayOps
<1>4. CASE Open
  <2>1. UNCHANGED fs /\ Doing("open") /\ work # << >> /\ Src = "source"
    BY <1>4, Heading DEF Open, Quietly, disk
  <2>2. Then("copy") \/ Fail
    BY <1>4 DEF Open
  <2> QED
    BY <2>1, <2>2, Going, FailFlows DEF OneWayOps
<1>5. CASE Copy
  <2>1. Doing("copy") /\ work # << >> /\ Src = "source" /\ Dst = "target" /\ Forward(task)
    BY <1>5, Heading, Going DEF Copy
  <2>2. Forward([task EXCEPT !.op = "write", !.old = fs[Src][path]])
    BY <2>1 DEF Forward, OneWayOps, task, Src
  <2>3. fs' = fs \/ fs' = [fs EXCEPT ![Dst][path] = Empty]
    BY <1>5 DEF Copy
  <2>4. Fail \/ Replace(<<[task EXCEPT !.op = "write", !.old = fs[Src][path]]>>)
    BY <1>5 DEF Copy
  <2>5. fs'["source"] = fs["source"]
    BY <2>1, <2>3 DEF Storages
  <2> QED
    BY <2>1, <2>2, <2>4, <2>5, Going, FailFlows
<1>6. CASE Write
  <2>1. Doing("write") /\ work # << >> /\ Src = "source" /\ Dst = "target"
    BY <1>6, Heading DEF Write
  <2>2. fs' = fs \/ fs' = [fs EXCEPT ![Dst][path] = task.old]
    BY <1>6 DEF Write
  <2>3. Pop
    BY <1>6 DEF Write
  <2>4. fs'["source"] = fs["source"]
    BY <2>1, <2>2 DEF Storages
  <2> QED
    BY <2>1, <2>3, <2>4, Going
<1>7. CASE \/ CreateObject \/ Mkdir \/ ListDir \/ Visit \/ DeleteObject \/ CheckRemoved \/ Unlink
           \/ RemoveDir \/ CheckChild \/ RemoveChild \/ Rmdir
  <2>1. \E op \in {"CREATE", "mkdir", "list", "visit", "DELETE", "check", "unlink", "rmtree",
                   "rmchildren", "rmfile"} : Doing(op)
    BY <1>7 DEF CreateObject, Mkdir, ListDir, ReadDir, Visit, DeleteObject, CheckRemoved, Unlink, RemoveDir,
                CheckChild, RemoveChild, Rmdir
  <2> QED
    BY <2>1, Heading DEF OneWayOps
<1> QED
  BY <1>1, <1>2, <1>3, <1>4, <1>5, <1>6, <1>7 DEF ObjectStep

(* The watcher threads have nothing to bring anywhere.                         *)
LEMMA ThreadFlows ==
    ASSUME Flows(work), Job.unidirectional, ThreadStep
    PROVE  Flows(work')
<1>1. ASSUME NEW s \in Storages, HandleEvents(s) PROVE work' = << >>
  BY <1>1 DEF HandleEvents
<1>2. ASSUME NEW s \in Storages, WatcherReads(s) PROVE UNCHANGED work
  BY <1>2 DEF WatcherReads, control
<1>3. Unlock \/ StopSync => UNCHANGED work
  BY DEF Unlock, StopSync
<1> QED
  BY <1>1, <1>2, <1>3, Few DEF ThreadStep

-----------------------------------------------------------------------------
(* Every step. *)

(* There are always two storages.                                             *)
LEMMA TwoStorages ==
    ASSUME fs = [s \in Storages |-> fs[s]], Next
    PROVE  fs' = [s \in Storages |-> fs'[s]]
<1> USE DEF Quietly, disk
<1>1. ASSUME \/ UNCHANGED fs
             \/ \E s, p, node, events : Put(s, p, node, events)
             \/ \E s, p : MakeDir(s, p)
             \/ \E s, p, c : fs' = [fs EXCEPT ![s][p] = c]
      PROVE  fs' = [s \in Storages |-> fs'[s]]
  BY <1>1, PutsThere, MakesThere
<1>2. CASE StartStep
  <2>1. UNCHANGED fs \/ \E s, p : MakeDir(s, p)
    BY <1>2 DEF StartStep, Watch, OneShot, Scan, ReadDir, ScanVisit, SyncDirs, MakeDirs, FindConflicts, FindMissing,
                SyncMissing
  <2> QED
    BY <1>1, <2>1
<1>3. CASE OpenNew \/ Unlink \/ RemoveChild \/ Rmdir
  <2>1. UNCHANGED fs \/ \E s, p, node, events : Put(s, p, node, events)
    BY <1>3 DEF OpenNew, Unlink, RemoveChild, Rmdir
  <2> QED
    BY <1>1, <2>1
<1>4. CASE Copy \/ Write
  <2>1. UNCHANGED fs \/ \E s, p, c : fs' = [fs EXCEPT ![s][p] = c]
    BY <1>4 DEF Copy, Write
  <2> QED
    BY <1>1, <2>1
<1>5. CASE Mkdir
  BY <1>1, <1>5 DEF Mkdir
<1>6. CASE \/ CreateObject \/ ListDir \/ Visit \/ SyncFile \/ SyncTarget \/ Open \/ DeleteObject \/ CheckRemoved
           \/ RemoveDir \/ CheckChild
  BY <1>1, <1>6 DEF CreateObject, ListDir, ReadDir, Visit, SyncFile, SyncTarget, Open, DeleteObject, CheckRemoved,
                    RemoveDir, CheckChild
<1>7. CASE ThreadStep
  BY <1>1, <1>7 DEF ThreadStep, Unlock, StopSync, WatcherReads, HandleEvents
<1>8. CASE UserStep
  <2>1. ASSUME NEW s \in Storages, NEW p, NEW q, UserRenames(s, p, q) PROVE fs' = [t \in Storages |-> fs'[t]]
    BY <2>1 DEF UserRenames
  <2>2. ASSUME NEW s \in Storages, NEW p, NEW c,
               UserWrites(s, p, c) \/ UserDeletes(s, p) \/ UserMakesDir(s, p) \/ UserRemovesDir(s, p)
        PROVE  \E node, events : Put(s, p, node, events)
    BY <2>2 DEF UserWrites, UserDeletes, UserMakesDir, UserRemovesDir
  <2>3. \E s \in Storages, p \in Paths :
            \/ \E c : UserWrites(s, p, c) \/ UserDeletes(s, p) \/ UserMakesDir(s, p) \/ UserRemovesDir(s, p)
            \/ \E q : UserRenames(s, p, q)
    BY <1>8 DEF UserStep
  <2> QED
    BY <1>1, <2>1, <2>2, <2>3
<1> QED
  BY <1>2, <1>3, <1>4, <1>5, <1>6, <1>7, <1>8 DEF Next, SyncStep, ObjectStep

(* The syncer is no user.                                                     *)
LEMMA SyncerIsNoUser == SyncStep => UNCHANGED edits
<1>1. StartStep => UNCHANGED edits
  BY DEF StartStep, Watch, OneShot, Scan, ReadDir, ScanVisit, SyncDirs, MakeDirs, FindConflicts, FindMissing,
         SyncMissing, world
<1>2. ObjectStep => UNCHANGED edits
  BY DEF ObjectStep, CreateObject, Mkdir, ListDir, ReadDir, Visit, SyncFile, SyncTarget, OpenNew, Open, Copy, Write,
         DeleteObject, CheckRemoved, Unlink, RemoveDir, CheckChild, RemoveChild, Rmdir, world
<1>3. ThreadStep => UNCHANGED edits
  BY DEF ThreadStep, Unlock, StopSync, WatcherReads, HandleEvents, world
<1> QED
  BY <1>1, <1>2, <1>3 DEF SyncStep

(* An edit is counted, and leaves the syncer's call alone.                     *)
LEMMA UsersCount == UserStep => edits' = edits + 1 /\ UNCHANGED work
<1>1. ASSUME NEW kind, NEW s, Edit(kind, s) PROVE edits' = edits + 1 /\ UNCHANGED work
  BY <1>1 DEF Edit, control
<1> QED
  BY <1>1 DEF UserStep, UserWrites, UserDeletes, UserMakesDir, UserRemovesDir, UserRenames

(* No step turns a one-way sync round or touches its source.                  *)
LEMMA NextIsOneWay ==
    ASSUME OneWay, [Next]_vars
    PROVE  OneWay' /\ (Job.unidirectional /\ edits' = edits => fs'["source"] = fs["source"])
<1>1. CASE UNCHANGED vars
  <2>1. UNCHANGED <<job, edits, fs, work>>
    BY <1>1 DEF vars
  <2>2. Flows(work) => Flows(work')
    BY <2>1
  <2> QED
    BY <2>1, <2>2 DEF OneWay, Job
<1>2. CASE Next
  <2>1. UNCHANGED job /\ Job' = Job /\ fs' = [s \in Storages |-> fs'[s]]
    BY <1>2, TwoStorages DEF Next, OneWay, Job
  <2>2. CASE SyncStep
    <3>1. UNCHANGED edits
      BY <2>2, SyncerIsNoUser
    <3>2. ASSUME Job.unidirectional PROVE Flows(work') /\ fs'["source"] = fs["source"]
      <4>1. Flows(work)
        BY <3>2 DEF OneWay
      <4>2. ThreadStep => UNCHANGED fs
        BY DEF ThreadStep, Unlock, StopSync, WatcherReads, HandleEvents, disk
      <4> QED
        BY <2>2, <3>2, <4>1, <4>2, StartFlows, ObjectFlows, ThreadFlows DEF SyncStep, OneWay
    <3> QED
      BY <2>1, <3>1, <3>2 DEF OneWay
  <2>3. CASE UserStep
    <3>1. edits' = edits + 1 /\ UNCHANGED work
      BY <2>3, UsersCount
    <3>2. Flows(work) => Flows(work')
      BY <3>1
    <3> QED
      BY <2>1, <3>1, <3>2 DEF OneWay
  <2> QED
    BY <1>2, <2>2, <2>3 DEF Next
<1> QED
  BY <1>1, <1>2

(* A one-way sync never writes to its source, whatever the users of either      *)
(* storage do meanwhile and whatever fails (NaiveSyncer with unidirectional).  *)
THEOREM OneWaySparesSource == Spec => [][Job.unidirectional /\ edits' = edits => fs'["source"] = fs["source"]]_vars
<1> DEFINE A == Job.unidirectional /\ edits' = edits => fs'["source"] = fs["source"]
<1>1. OneWay /\ [Next]_vars => OneWay' /\ [A]_vars
  BY NextIsOneWay
<1> QED
  BY <1>1, StartsOneWay, PTL DEF Spec
=============================================================================
