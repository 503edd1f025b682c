------------------------ MODULE SyncDaemonProofs ------------------------
(***************************************************************************)
(* Proofs about SyncDaemon, for any number of clients, containers and runs *)
(* and for any load.                                                       *)
(***************************************************************************)
EXTENDS SyncDaemon, SequenceTheorems, FiniteSetTheorems, TLAPS

-----------------------------------------------------------------------------
(* The invariant of every load. *)

Stopping == {"join", "wait", "clear", "check"}
Watching == {"wait", "report", "check_ERROR", "set_ERROR", "put_ERROR", "stop_sync"}

(* Runs are numbered in the order they are started, and a run that was not    *)
(* started has no thread.                                                     *)
RunsInOrder ==
    /\ \A r \in Started, q \in Runs : q <= r => q \in Started
    /\ \A r \in Runs : worker[r] = "new" <=> r \notin Started

(* What a job id denotes is a run of that job.                                *)
JobsDenoteRuns == \A j \in JobIds : jobs[j] # 0 => run_job[jobs[j]] = j

(* The watchers of a syncer exist between its start_sync and its stop_sync,    *)
(* and only a continuous job has any.                                         *)
WatcherWithinWorker ==
    \A r \in Runs : watcher[r] # "off" => worker[r] \in Watching /\ continuous[r]

(* What a command that is under way knows of the job it stops.                *)
Stops(c) ==
    /\ pc[c] \in Stopping \cup {"stop"} => cmd_job[c] \in JobIds
    /\ pc[c] \in Stopping => jobs[cmd_job[c]] # 0
    /\ pc[c] \in {"wait", "clear", "check"} => worker[jobs[cmd_job[c]]] = "done"

(* stop-all has joined the workers of the jobs it no longer lists.            *)
StopsAll(c) ==
    pc[c] = "stop_all" => \A r \in Registered \ rest[c] : worker[r] = "done"

(* The commands that wait for a worker keep SyncDaemon.lock meanwhile.        *)
Locked(c) == pc[c] \in Stopping \cup {"stop_all"} => lock = c

CommandsInv == \A c \in Clients : Stops(c) /\ StopsAll(c) /\ Locked(c)

Inv == TypeOK /\ RunsInOrder /\ JobsDenoteRuns /\ WatcherWithinWorker /\ CommandsInv
           /\ NoOrphanWorker

-----------------------------------------------------------------------------
(* Lemmas about the queue and about the numbers of runs. *)

(* What a thread of a run that was started puts on event_queue (Put, notify_event) *)
(* follows what is there: it names that run, its job and the events in order.   *)
LEMMA PutAppends ==
    ASSUME event_queue \in Seq(QueueItems), NEW r \in Runs, run_job[r] \in JobIds,
           NEW events \in Seq(Events), Put(r, events)
    PROVE  /\ event_queue' \in Seq(QueueItems)
           /\ Len(event_queue') = Len(event_queue) + Len(events)
           /\ \A k \in 1..Len(event_queue) : event_queue'[k] = event_queue[k]
           /\ \A k \in 1..Len(events) :
                 event_queue'[Len(event_queue) + k] =
                     [job |-> run_job[r], run |-> r, event |-> events[k]]
<1> DEFINE items == [k \in 1..Len(events) |->
                        [job |-> run_job[r], run |-> r, event |-> events[k]]]
<1>1. Len(events) \in Nat /\ \A k \in 1..Len(events) : events[k] \in Events
  BY ElementOfSeq, LenProperties
<1>2. items \in Seq(QueueItems) /\ Len(items) = Len(events)
  BY <1>1 DEF QueueItems
<1>3. event_queue' = event_queue \o items
  BY DEF Put
<1> HIDE DEF items
<1>4. /\ event_queue' \in Seq(QueueItems)
      /\ Len(event_queue') = Len(event_queue) + Len(items)
      /\ \A i \in 1..(Len(event_queue) + Len(items)) : event_queue'[i] =
            IF i <= Len(event_queue) THEN event_queue[i] ELSE items[i - Len(event_queue)]
  <2> DEFINE both == event_queue \o items
  <2>1. /\ both \in Seq(QueueItems) /\ Len(both) = Len(event_queue) + Len(items)
        /\ \A i \in 1..(Len(event_queue) + Len(items)) : both[i] =
              IF i <= Len(event_queue) THEN event_queue[i] ELSE items[i - Len(event_queue)]
    BY <1>2, ConcatProperties
  <2> HIDE DEF both
  <2>2. event_queue' = both
    BY <1>3 DEF both
  <2> QED
    BY <2>1, <2>2
<1>5. Len(event_queue) \in Nat
  BY LenProperties
<1>6. \A k \in 1..Len(events) : event_queue'[Len(event_queue) + k] = items[k]
  <2> TAKE k \in 1..Len(events)
  <2> DEFINE i == Len(event_queue) + k
  <2>1. i \in 1..(Len(event_queue) + Len(items)) /\ ~(i <= Len(event_queue)) /\ i - Len(event_queue) = k
    BY <1>1, <1>2, <1>5
  <2> QED
    BY <2>1, <1>4
<1>7. \A k \in 1..Len(events) :
        items[k] = [job |-> run_job[r], run |-> r, event |-> events[k]]
  BY DEF items
<1>8. \A k \in 1..Len(event_queue) : event_queue'[k] = event_queue[k]
  BY <1>1, <1>2, <1>4, <1>5
<1>9. \A k \in 1..Len(events) :
        event_queue'[Len(event_queue) + k] =
            [job |-> run_job[r], run |-> r, event |-> events[k]]
  BY <1>6, <1>7
<1> QED
  BY <1>2, <1>4, <1>8, <1>9

(* The next run (start_sync) is one that no job was started as.               *)
LEMMA NextRunIsNew ==
    ASSUME BoundsAssumption, RunsInOrder
    PROVE  /\ NextRun \in Nat \ {0} /\ NextRun \notin Started
           /\ \A q \in Runs : q < NextRun => q \in Started
<1>1. Started \subseteq Runs /\ Runs \subseteq Nat
  BY BoundsAssumption DEF Started, Runs
<1>2. IsFiniteSet(Runs)
  BY BoundsAssumption, FS_Interval DEF Runs
<1>3. IsFiniteSet(Started) /\ Cardinality(Started) \in Nat
  BY <1>1, <1>2, FS_Subset, FS_CardinalityType
<1>4. \A n \in Nat : IsFiniteSet(1..n) /\ Cardinality(1..n) = n
  BY FS_Interval
<1>5. NextRun \notin Started
  <2> SUFFICES ASSUME NextRun \in Started PROVE FALSE
    OBVIOUS
  <2>1. 1..NextRun \subseteq Started
    BY <1>1, <1>3, BoundsAssumption DEF RunsInOrder, NextRun, Runs
  <2>2. Cardinality(1..NextRun) <= Cardinality(Started)
    BY <2>1, <1>3, FS_Subset
  <2> QED
    BY <2>2, <1>3, <1>4 DEF NextRun
<1>6. ASSUME NEW q \in Runs, q < NextRun, q \notin Started PROVE FALSE
  <2>1. Started \subseteq 1..(q - 1)
    BY <1>1, <1>6, BoundsAssumption DEF RunsInOrder, Runs
  <2>2. q - 1 \in Nat
    BY <1>6, BoundsAssumption DEF Runs
  <2>3. IsFiniteSet(1..(q - 1)) /\ Cardinality(1..(q - 1)) = q - 1
    BY <2>2, <1>4
  <2>4. Cardinality(Started) <= q - 1
    BY <2>1, <2>3, FS_Subset
  <2> QED
    BY <2>4, <1>1, <1>3, <1>6 DEF NextRun
<1> QED
  BY <1>3, <1>5, <1>6 DEF NextRun

(* notify_event and the state setter leave a queue of items, whatever the     *)
(* active events are.                                                         *)
LEMMA NotifyType ==
    ASSUME event_queue \in Seq(QueueItems), NEW r \in Runs, run_job[r] \in JobIds
    PROVE  /\ \A kind, s, t : s \in Events /\ t \in Events /\ Notify(r, kind, <<s, t>>)
                             => event_queue' \in Seq(QueueItems)
           /\ \A kind, s : s \in Events /\ Notify(r, kind, <<s>>)
                             => event_queue' \in Seq(QueueItems)
<1>1. \A s \in Events : <<s>> \in Seq(Events)
  OBVIOUS
<1>2. \A s, t \in Events : <<s, t>> \in Seq(Events)
  OBVIOUS
<1>3. ASSUME NEW kind, NEW s \in Events, NEW t \in Events, Notify(r, kind, <<s, t>>)
      PROVE  event_queue' \in Seq(QueueItems)
  BY <1>2, <1>3, PutAppends DEF Notify
<1>4. ASSUME NEW kind, NEW s \in Events, Notify(r, kind, <<s>>)
      PROVE  event_queue' \in Seq(QueueItems)
  BY <1>1, <1>4, PutAppends DEF Notify
<1> QED
  BY <1>3, <1>4

(* What a load says of the failures, filters and batches of the commands.     *)
LEMMA LoadType ==
    ASSUME LoadsAssumption, load \in DOMAIN Loads
    PROVE  /\ Load.failures \subseteq {"start", "batch", "stop"}
           /\ Load.filters \subseteq SUBSET {"state", "error"}
           /\ Load.batches \in Nat
  BY DEF LoadsAssumption, Load

(* What a syncer reports with notify_event is among the events of the queue.  *)
LEMMA StateEvents == States \subseteq Events /\ Message \in Events /\ Finished \in Events
  BY DEF Events

-----------------------------------------------------------------------------
(* Type correctness. *)

(* A worker thread that runs belongs to a run that was started.               *)
LEMMA RunningIsStarted ==
    ASSUME TypeOK, RunsInOrder, NEW r \in Runs, worker[r] # "new"
    PROVE  run_job[r] \in JobIds
  BY DEF TypeOK, RunsInOrder, Started

(* A worker's step (_worker) keeps every variable in its type.                *)
LEMMA WorkerTypes ==
    ASSUME TypeOK, RunsInOrder, Same, NEW r \in Runs, WorkerStep(r)
    PROVE  TypeOK'
<1> USE DEF TypeOK, WorkerAt, WorkerGoto, daemonVars, clientVars, syncerVars, Same
<1>1. worker[r] # "new"
  BY DEF WorkerStep, WorkerStart, WorkerStartFails, WorkerOneShot, WorkerOneShotFails,
         WorkerWakes, WorkerReports, WorkerChecksError, WorkerSetsError,
         WorkerNotifiesError, WorkerStopsSync, WorkerStopFails, WorkerFinishes
<1>2. run_job[r] \in JobIds
  BY <1>1, RunningIsStarted
<1>3. event_queue \in Seq(QueueItems) /\ {"ONE_SHOT", "SYNCED", "ERROR", "STOPPED"} \subseteq Events
  BY StateEvents DEF States
<1>4. ASSUME NEW s \in States, Set(r, s)
      PROVE  state' \in [Runs -> States] /\ event_queue' \in Seq(QueueItems)
  <2>1. s \in Events
    BY StateEvents
  <2>2. state' = [state EXCEPT ![r] = s] \/ UNCHANGED state
    BY <1>4 DEF Set, Assign
  <2>3. Notify(r, "state", <<s>>) \/ UNCHANGED event_queue
    BY <1>4 DEF Set
  <2>4. event_queue' \in Seq(QueueItems)
    BY <1>2, <1>3, <2>1, <2>3, NotifyType
  <2>5. state \in [Runs -> States]
    OBVIOUS
  <2> HIDE DEF TypeOK, Same, daemonVars, clientVars, syncerVars
  <2> QED
    BY <2>2, <2>4, <2>5
<1>5. Load' = Load
  BY DEF Load
<1>10. CASE WorkerStart(r)
  <2>1. event_queue' \in Seq(QueueItems)
    BY <1>2, <1>3, NotifyType, <1>10 DEF WorkerStart
  <2> QED
    BY <2>1, <1>5, <1>10 DEF WorkerStart, States, AfterError
<1>11. CASE WorkerStartFails(r)
  <2>1. state' \in [Runs -> States] /\ event_queue' \in Seq(QueueItems)
    BY <1>4, <1>11 DEF WorkerStartFails, States
  <2> QED
    BY <2>1, <1>5, <1>11 DEF WorkerStartFails
<1>12. CASE WorkerOneShot(r)
  <2>1. event_queue' \in Seq(QueueItems)
    BY <1>2, <1>3, NotifyType, <1>12 DEF WorkerOneShot
  <2> QED
    BY <2>1, <1>5, <1>12 DEF WorkerOneShot, States, AfterError
<1>13. CASE WorkerOneShotFails(r)
  <2>1. state' \in [Runs -> States] /\ event_queue' \in Seq(QueueItems)
    BY <1>4, <1>13 DEF WorkerOneShotFails, States
  <2> QED
    BY <2>1, <1>5, <1>13 DEF WorkerOneShotFails
<1>14. CASE WorkerWakes(r)
  BY <1>5, <1>14 DEF WorkerWakes, Assign, AfterError, States
<1>15. CASE WorkerReports(r)
  <2>1. <<Message, "ERROR">> \in Seq(Events)
    BY <1>3, StateEvents
  <2>2. event_queue' \in Seq(QueueItems)
    BY <2>1, <1>2, <1>3, <1>15, PutAppends DEF WorkerReports
  <2> QED
    BY <2>2, <1>5, <1>15 DEF WorkerReports
<1>16. CASE WorkerChecksError(r)
  BY <1>5, <1>16 DEF WorkerChecksError, Assign, AfterError, States
<1>17. CASE WorkerSetsError(r)
  BY <1>5, <1>17 DEF WorkerSetsError, Assign, AfterError, States
<1>18. CASE WorkerNotifiesError(r)
  <2>1. event_queue' \in Seq(QueueItems)
    BY <1>2, <1>3, NotifyType, <1>18 DEF WorkerNotifiesError
  <2> QED
    BY <2>1, <1>5, <1>18 DEF WorkerNotifiesError, States, AfterError
<1>19. CASE WorkerStopsSync(r)
  <2>1. state' \in [Runs -> States] /\ event_queue' \in Seq(QueueItems)
    BY <1>4, <1>19 DEF WorkerStopsSync, States
  <2> QED
    BY <2>1, <1>5, <1>19 DEF WorkerStopsSync
<1>20. CASE WorkerStopFails(r)
  BY <1>5, <1>20 DEF WorkerStopFails, Assign, AfterError, States
<1>21. CASE WorkerFinishes(r)
  <2>1. <<Finished>> \in Seq(Events)
    BY <1>3, StateEvents
  <2>2. event_queue' \in Seq(QueueItems)
    BY <2>1, <1>2, <1>3, <1>21, PutAppends DEF WorkerFinishes
  <2> QED
    BY <2>2, <1>5, <1>21 DEF WorkerFinishes
<1> QED
  BY <1>10, <1>11, <1>12, <1>13, <1>14, <1>15, <1>16, <1>17, <1>18, <1>19, <1>20, <1>21 DEF WorkerStep

(* A watcher's step (_handle_events) does too.                                *)
LEMMA WatcherTypes ==
    ASSUME TypeOK, RunsInOrder, WatcherWithinWorker, LoadsAssumption, Same, NEW r \in Runs,
           WatcherBatch(r) \/ WatcherStep(r)
    PROVE  TypeOK'
<1> USE DEF TypeOK, WatcherAt, WatcherGoto, daemonVars, clientVars, jobVars,
            watcherUnchanged, Same
<1>1. watcher[r] # "off"
  BY DEF WatcherBatch, WatcherStep, WatcherAssigns, WatcherChecks, WatcherSets,
         WatcherNotifies, WatcherWorks, WatcherFails
<1>2. run_job[r] \in JobIds
  BY <1>1, RunningIsStarted DEF WatcherWithinWorker, Watching
<1>3. /\ event_queue \in Seq(QueueItems)
      /\ {"RUNNING", "ERROR", "SYNCED"} \subseteq States /\ States \subseteq Events
      /\ Message \in Events
  BY StateEvents DEF States
<1>4. Load' = Load
  BY DEF Load
<1>5. ASSUME NEW s \in {"RUNNING", "ERROR", "SYNCED"},
             NEW here, NEW set \in {"set_RUNNING", "set_ERROR", "set_SYNCED"},
             NEW then \in {"work", "check_SYNCED", "idle"},
             WatcherChecks(r, s, here, set, then)
      PROVE  TypeOK'
  BY <1>4, <1>5 DEF WatcherChecks
<1>6. ASSUME NEW s \in {"RUNNING", "ERROR", "SYNCED"},
             NEW here, NEW put \in {"put_RUNNING", "put_ERROR", "put_SYNCED"},
             WatcherSets(r, s, here, put)
      PROVE  TypeOK'
  BY <1>3, <1>4, <1>6 DEF WatcherSets, Assign
<1>7. ASSUME NEW s \in {"RUNNING", "ERROR", "SYNCED"},
             NEW here, NEW then \in {"work", "check_SYNCED", "idle"},
             WatcherNotifies(r, s, here, then)
      PROVE  TypeOK'
  <2>1. event_queue' \in Seq(QueueItems)
    BY <1>2, <1>3, <1>7, NotifyType DEF WatcherNotifies
  <2> QED
    BY <2>1, <1>4, <1>7 DEF WatcherNotifies
<1>8. CASE WatcherBatch(r)
  <2>1. Load.batches \in Nat
    BY LoadType
  <2>2. batches[r] + 1 \in 0..Load.batches
    BY <2>1, <1>8 DEF WatcherBatch
  <2> QED
    BY <2>2, <1>4, <1>8 DEF WatcherBatch
<1>9. CASE WatcherWorks(r)
  BY <1>4, <1>9 DEF WatcherWorks
<1>10. CASE WatcherFails(r)
  <2>1. event_queue' \in Seq(QueueItems)
    BY <1>2, <1>3, <1>10, NotifyType DEF WatcherFails
  <2> QED
    BY <2>1, <1>4, <1>10 DEF WatcherFails
<1> QED
  BY <1>5, <1>6, <1>7, <1>8, <1>9, <1>10 DEF WatcherStep, WatcherAssigns

(* The event thread (_event_thread_proc) does: what it takes off event_queue   *)
(* is an item, and the job it finds for it is a run.                          *)
LEMMA EventTypes ==
    ASSUME TypeOK, Same, EventStep
    PROVE  TypeOK'
<1> USE DEF TypeOK, clientVars, jobVars, syncerVars, Same
<1>1. Load' = Load
  BY DEF Load
<1>2. CASE EventGet
  <2> DEFINE item == Head(event_queue)
  <2>1. event_queue \in Seq(QueueItems) /\ event_queue # << >>
    BY <1>2 DEF EventGet
  <2>2. item \in QueueItems /\ Tail(event_queue) \in Seq(QueueItems)
    BY <2>1, HeadTailProperties
  <2>3. item.job \in JobIds
    BY <2>2 DEF QueueItems
  <2>4. event_queue' \in Seq(QueueItems)
    BY <2>2, <1>2 DEF EventGet
  <2>5. CASE jobs[item.job] = 0
    BY <2>4, <2>5, <1>1, <1>2 DEF EventGet
  <2>6. CASE jobs[item.job] # 0 /\ item.event = Finished /\ continuous[jobs[item.job]]
    BY <2>3, <2>4, <2>6, <1>1, <1>2 DEF EventGet
  <2>7. CASE jobs[item.job] # 0 /\ ~(item.event = Finished /\ continuous[jobs[item.job]])
    BY <2>3, <2>4, <2>7, <1>1, <1>2 DEF EventGet
  <2> QED
    BY <2>5, <2>6, <2>7
<1>3. CASE EventSet
  BY <1>1, <1>3 DEF EventSet
<1> QED
  BY <1>2, <1>3 DEF EventStep

(* The commands (start_sync, stop_sync, stop_all, active_events, test_error)  *)
(* do.                                                                        *)
LEMMA CommandTypes ==
    ASSUME TypeOK, RunsInOrder, LoadsAssumption, BoundsAssumption, Same,
           NEW c \in Clients, Stops(c), Command(c) \/ CommandStep(c)
    PROVE  TypeOK'
<1> USE DEF TypeOK, Same, At, Goto
<1>1. Load' = Load
  BY DEF Load
<1>2. Load.filters \subseteq SUBSET {"state", "error"}
  BY LoadType
<1>3. Started \subseteq Runs /\ Registered \subseteq Runs
  BY DEF Started, Registered
<1>18. ASSUME Return(c)
       PROVE  (/\ lock \in Clients \cup {None}
               /\ pc \in [Clients -> {"idle", "stop", "join", "wait", "clear", "check",
                                       "test_join", "stop_all"}]
               /\ cmd_job \in [Clients -> JobIds \cup {None}]
               /\ rest \in [Clients -> SUBSET Runs])'
  BY <1>18 DEF Return
<1>19. ASSUME NEW r \in Runs, Signal(r)
       PROVE  job_stop' \in [Runs -> BOOLEAN]
  BY <1>19 DEF Signal
<1>4. CASE Start(c)
  <2>1. NextRun \in Runs
    BY <1>4 DEF Start
  <2>2. PICK j \in JobIds, k \in BOOLEAN, f \in Load.filters :
           /\ jobs' = [jobs EXCEPT ![j] = NextRun]
           /\ run_job' = [run_job EXCEPT ![NextRun] = j]
           /\ continuous' = [continuous EXCEPT ![NextRun] = k]
           /\ active' = [active EXCEPT ![NextRun] = f]
    BY <1>4 DEF Start
  <2> HIDE DEF NextRun
  <2> QED
    BY <2>1, <2>2, <1>1, <1>2, <1>4 DEF Start, clientVars
<1>5. CASE ActiveEvents(c)
  <2>1. PICK r \in Registered, f \in Load.filters : active' = [active EXCEPT ![r] = f]
    BY <1>5 DEF ActiveEvents
  <2> QED
    BY <2>1, <1>1, <1>2, <1>3, <1>5 DEF ActiveEvents, daemonVars, clientVars, jobVars
<1>6. CASE StopBegin(c)
  BY <1>1, <1>2, <1>3, <1>6 DEF StopBegin, daemonVars, jobVars, syncerVars
<1>7. CASE TestError(c)
  BY <1>1, <1>2, <1>3, <1>7 DEF TestError, daemonVars, syncerVars, Signal
<1>8. CASE StopAll(c)
  BY <1>1, <1>2, <1>3, <1>8 DEF StopAll, jobVars, syncerVars
<1>9. CASE StopLocked(c)
  <2>1. cmd_job[c] \in JobIds
    BY <1>9 DEF StopLocked, Stops
  <2>2. CASE jobs[cmd_job[c]] = 0
    <3>1. Return(c) /\ UNCHANGED job_stop
      BY <2>2, <1>9 DEF StopLocked
    <3> QED
      BY <3>1, <1>1, <1>9, <1>18 DEF StopLocked, syncerVars
  <2>3. CASE jobs[cmd_job[c]] # 0
    <3>1. jobs[cmd_job[c]] \in Runs
      BY <2>1, <2>3
    <3>2. /\ lock' = c /\ Signal(jobs[cmd_job[c]])
          /\ pc' = [pc EXCEPT ![c] = "join"] /\ UNCHANGED <<cmd_job, rest>>
      BY <2>3, <1>9 DEF StopLocked
    <3>3. job_stop' \in [Runs -> BOOLEAN]
      BY <3>1, <3>2, <1>19
    <3> QED
      BY <3>2, <3>3, <1>1, <1>9 DEF StopLocked, syncerVars
  <2> QED
    BY <2>2, <2>3
<1>10. CASE StopJoined(c)
  <2>1. cmd_job[c] \in JobIds /\ jobs[cmd_job[c]] \in Runs
    BY <1>10 DEF StopJoined, Stops, Stopping
  <2>2. CASE continuous[jobs[cmd_job[c]]]
    <3>1. pc' = [pc EXCEPT ![c] = "wait"] /\ UNCHANGED <<jobs, lock, cmd_job, rest>>
      BY <2>2, <1>10 DEF StopJoined
    <3> QED
      BY <3>1, <1>1, <1>10 DEF StopJoined, jobVars, syncerVars
  <2>3. CASE ~continuous[jobs[cmd_job[c]]]
    <3>1. Unregister(cmd_job[c]) /\ Return(c)
      BY <2>1, <2>3, <1>10 DEF StopJoined
    <3>2. jobs' \in [JobIds -> Runs \cup {0}]
      BY <3>1 DEF Unregister
    <3>3. UNCHANGED <<stop_queue, stop_event, ev_pc, ev_job, event_queue, jobVars, syncerVars>>
      BY <1>10 DEF StopJoined
    <3> QED
      BY <3>1, <3>2, <3>3, <1>1, <1>18 DEF jobVars, syncerVars
  <2> QED
    BY <2>2, <2>3
<1>11. CASE StopWaited(c)
  BY <1>1, <1>2, <1>3, <1>11 DEF StopWaited, daemonVars, jobVars, syncerVars
<1>12. CASE StopClears(c)
  BY <1>1, <1>2, <1>3, <1>12 DEF StopClears, jobVars, syncerVars
<1>13. CASE StopChecks(c)
  <2>1. stop_queue' \subseteq stop_queue /\ (Unregister(cmd_job[c]) \/ UNCHANGED jobs)
    BY <1>13 DEF StopChecks
  <2>2. jobs' \in [JobIds -> Runs \cup {0}]
    BY <2>1 DEF Unregister
  <2> QED
    BY <2>1, <2>2, <1>1, <1>13, <1>18 DEF StopChecks, jobVars, syncerVars
<1>14. CASE TestErrorJoined(c)
  BY <1>1, <1>2, <1>3, <1>14 DEF TestErrorJoined, Return, jobVars, syncerVars
<1>15. CASE StopAllSignals(c)
  BY <1>1, <1>2, <1>3, <1>15 DEF StopAllSignals, Signal, daemonVars, clientVars, syncerVars
<1>16. CASE StopAllJoins(c)
  BY <1>1, <1>2, <1>3, <1>16 DEF StopAllJoins, daemonVars, jobVars, syncerVars
<1>17. CASE StopAllEnds(c)
  BY <1>1, <1>2, <1>3, <1>17 DEF StopAllEnds, Return, jobVars, syncerVars
<1> QED
  BY <1>4, <1>5, <1>6, <1>7, <1>8, <1>9, <1>10, <1>11, <1>12, <1>13, <1>14, <1>15, <1>16, <1>17 DEF Command, CommandStep

-----------------------------------------------------------------------------
(* The threads of a syncer. *)

(* What a worker's step (_worker) does to its run: it was started and had not  *)
(* ended, and the watchers run only between start_sync and stop_sync.         *)
LEMMA WorkerSteps ==
    ASSUME TypeOK, WatcherWithinWorker, Same, NEW r \in Runs, WorkerStep(r)
    PROVE  /\ worker[r] \notin {"new", "done"}
           /\ worker'[r] # "new"
           /\ \A q \in Runs \ {r} : worker'[q] = worker[q] /\ watcher'[q] = watcher[q]
           /\ watcher'[r] # "off" => worker'[r] \in Watching /\ continuous[r]
           /\ UNCHANGED <<jobs, lock, clientVars, run_job, continuous>>
<1> USE DEF TypeOK, WatcherWithinWorker, WorkerAt, WorkerGoto, daemonVars, clientVars,
            syncerVars, Watching
<1>1. CASE WorkerStart(r)
  BY <1>1 DEF WorkerStart
<1>2. CASE WorkerStartFails(r)
  BY <1>2 DEF WorkerStartFails
<1>3. CASE WorkerOneShot(r)
  BY <1>3 DEF WorkerOneShot
<1>4. CASE WorkerOneShotFails(r)
  BY <1>4 DEF WorkerOneShotFails
<1>5. CASE WorkerWakes(r)
  BY <1>5 DEF WorkerWakes
<1>6. CASE WorkerReports(r)
  BY <1>6 DEF WorkerReports
<1>7. CASE WorkerChecksError(r)
  BY <1>7 DEF WorkerChecksError, AfterError
<1>8. CASE WorkerSetsError(r)
  BY <1>8 DEF WorkerSetsError
<1>9. CASE WorkerNotifiesError(r)
  BY <1>9 DEF WorkerNotifiesError, AfterError
<1>10. CASE WorkerStopsSync(r)
  BY <1>10 DEF WorkerStopsSync
<1>11. CASE WorkerStopFails(r)
  BY <1>11 DEF WorkerStopFails
<1>12. CASE WorkerFinishes(r)
  BY <1>12 DEF WorkerFinishes
<1> QED
  BY <1>1, <1>2, <1>3, <1>4, <1>5, <1>6, <1>7, <1>8, <1>9, <1>10, <1>11, <1>12 DEF WorkerStep

(* A watcher's step (_handle_events) leaves the worker and the daemon alone and *)
(* does not end the watcher.                                                  *)
LEMMA WatcherSteps ==
    ASSUME TypeOK, Same, NEW r \in Runs, WatcherBatch(r) \/ WatcherStep(r)
    PROVE  /\ watcher[r] # "off" /\ \A q \in Runs \ {r} : watcher'[q] = watcher[q]
           /\ UNCHANGED <<daemonVars, clientVars, jobVars>>
  BY DEF TypeOK, WatcherBatch, WatcherStep, WatcherAssigns, WatcherChecks, WatcherSets,
         WatcherNotifies, WatcherWorks, WatcherFails, WatcherAt, WatcherGoto,
         watcherUnchanged

(* Steps of the threads of one run keep what the daemon knows of all runs.    *)
LEMMA ThreadsKeepInv ==
    ASSUME Inv, Same, NEW r \in Runs, WorkerStep(r) \/ WatcherBatch(r) \/ WatcherStep(r)
    PROVE  /\ RunsInOrder' /\ JobsDenoteRuns' /\ WatcherWithinWorker' /\ CommandsInv'
           /\ NoOrphanWorker'
<1>1. CASE WorkerStep(r)
  <2>1. /\ worker[r] \notin {"new", "done"} /\ worker'[r] # "new"
        /\ \A q \in Runs \ {r} : worker'[q] = worker[q] /\ watcher'[q] = watcher[q]
        /\ watcher'[r] # "off" => worker'[r] \in Watching /\ continuous[r]
        /\ UNCHANGED <<jobs, lock, pc, cmd_job, rest, run_job, continuous>>
    BY <1>1, WorkerSteps DEF Inv, clientVars
  <2>2. Started' = Started /\ Registered' = Registered /\ Registered \subseteq Runs
    BY <2>1 DEF Started, Registered
  <2>3. \A q \in Runs : worker[q] = "done" => worker'[q] = "done"
    BY <2>1
  <2>4. RunsInOrder' /\ JobsDenoteRuns'
    BY <2>1, <2>2 DEF Inv, RunsInOrder, JobsDenoteRuns
  <2>5. WatcherWithinWorker'
    BY <2>1 DEF Inv, WatcherWithinWorker
  <2>6. CommandsInv'
    BY <2>1, <2>2, <2>3 DEF Inv, TypeOK, CommandsInv, Stops, StopsAll, Locked, Stopping
  <2>7. NoOrphanWorker'
    BY <2>1, <2>2 DEF Inv, NoOrphanWorker, Started
  <2> QED
    BY <2>4, <2>5, <2>6, <2>7
<1>2. CASE WatcherBatch(r) \/ WatcherStep(r)
  <2>1. /\ watcher[r] # "off" /\ \A q \in Runs \ {r} : watcher'[q] = watcher[q]
        /\ UNCHANGED <<jobs, lock, pc, cmd_job, rest, run_job, continuous, worker>>
    BY <1>2, WatcherSteps DEF Inv, daemonVars, clientVars, jobVars
  <2>2. Started' = Started /\ Registered' = Registered
    BY <2>1 DEF Started, Registered
  <2>3. RunsInOrder' /\ JobsDenoteRuns'
    BY <2>1, <2>2 DEF Inv, RunsInOrder, JobsDenoteRuns
  <2>4. WatcherWithinWorker'
    BY <2>1 DEF Inv, WatcherWithinWorker
  <2>5. CommandsInv'
    BY <2>1, <2>2 DEF Inv, CommandsInv, Stops, StopsAll, Locked
  <2>6. NoOrphanWorker'
    BY <2>1, <2>2 DEF Inv, NoOrphanWorker, Started, WatcherWithinWorker, Watching
  <2> QED
    BY <2>3, <2>4, <2>5, <2>6
<1> QED
  BY <1>1, <1>2

(* The event thread neither starts nor ends anything.                         *)
LEMMA EventsKeepInv ==
    ASSUME Inv, EventStep
    PROVE  /\ RunsInOrder' /\ JobsDenoteRuns' /\ WatcherWithinWorker' /\ CommandsInv'
           /\ NoOrphanWorker'
<1>1. UNCHANGED <<jobs, lock, pc, cmd_job, rest, run_job, continuous, worker, watcher>>
  BY DEF EventStep, EventGet, EventSet, clientVars, jobVars, syncerVars
<1>2. Started' = Started /\ Registered' = Registered
  BY <1>1 DEF Started, Registered
<1> QED
  BY <1>1, <1>2 DEF Inv, RunsInOrder, JobsDenoteRuns, WatcherWithinWorker, CommandsInv,
     Stops, StopsAll, Locked, NoOrphanWorker

-----------------------------------------------------------------------------
(* The commands. *)

(* The steps of a command that leave jobs and the threads as they are.        *)
LEMMA QuietCommands ==
    ASSUME Inv, NEW c \in Clients,
           \/ ActiveEvents(c) \/ StopBegin(c) \/ StopWaited(c) \/ StopClears(c)
           \/ TestError(c) \/ TestErrorJoined(c) \/ StopAll(c) \/ StopAllSignals(c)
           \/ StopAllJoins(c) \/ StopLocked(c)
    PROVE  /\ UNCHANGED <<jobs, run_job, worker, watcher, continuous>>
           /\ CommandsInv'
<1> USE DEF At, Goto
<1>1. UNCHANGED <<jobs, run_job, worker, watcher, continuous>>
  BY DEF ActiveEvents, StopBegin, StopWaited, StopClears, TestError, TestErrorJoined,
         StopAll, StopAllSignals, StopAllJoins, StopLocked, daemonVars, jobVars, syncerVars
<1>2. Registered' = Registered /\ Registered \subseteq Runs
  BY <1>1 DEF Started, Registered
<1>3. /\ TypeOK /\ CommandsInv
      /\ \A d \in Clients : pc[d] \in Stopping \cup {"stop_all"} => lock = d
  BY DEF Inv, CommandsInv, Locked
<1> USE DEF TypeOK, CommandsInv, Stops, StopsAll, Locked, Stopping
<1>4. CASE ActiveEvents(c)
  BY <1>1, <1>2, <1>3, <1>4 DEF ActiveEvents, daemonVars, clientVars
<1>5. CASE StopBegin(c)
  BY <1>1, <1>2, <1>3, <1>5 DEF StopBegin, daemonVars
<1>6. CASE StopWaited(c)
  BY <1>1, <1>2, <1>3, <1>6 DEF StopWaited, daemonVars
<1>7. CASE StopClears(c)
  BY <1>1, <1>2, <1>3, <1>7 DEF StopClears
<1>8. CASE TestError(c)
  BY <1>1, <1>2, <1>3, <1>8 DEF TestError, daemonVars
<1>9. CASE TestErrorJoined(c)
  BY <1>1, <1>2, <1>3, <1>9 DEF TestErrorJoined, Return
<1>10. CASE StopAll(c)
  BY <1>1, <1>2, <1>3, <1>10, NoneAssumption DEF StopAll
<1>11. CASE StopAllSignals(c)
  BY <1>1, <1>2, <1>3, <1>11 DEF StopAllSignals, daemonVars, clientVars
<1>12. CASE StopAllJoins(c)
  <2>1. PICK r \in rest[c] : worker[r] = "done" /\ rest' = [rest EXCEPT ![c] = @ \ {r}]
    BY <1>12 DEF StopAllJoins
  <2> QED
    BY <2>1, <1>1, <1>2, <1>3, <1>12 DEF StopAllJoins, daemonVars
<1>13. CASE StopLocked(c)
  BY <1>1, <1>2, <1>3, <1>13, NoneAssumption DEF StopLocked, Return
<1> QED
  BY <1>1, <1>4, <1>5, <1>6, <1>7, <1>8, <1>9, <1>10, <1>11, <1>12, <1>13

(* start_sync registers a run that no thread was started for.                 *)
LEMMA StartKeepsInv ==
    ASSUME Inv, BoundsAssumption, NEW c \in Clients, Start(c)
    PROVE  /\ RunsInOrder' /\ JobsDenoteRuns' /\ WatcherWithinWorker' /\ CommandsInv'
           /\ NoOrphanWorker'
<1> DEFINE n == NextRun
<1>1. TypeOK /\ RunsInOrder
  BY DEF Inv
<1>2. n \in Runs /\ n \notin Started /\ \A q \in Runs : q < n => q \in Started
  BY <1>1, NextRunIsNew DEF Start
<1>3. PICK j \in JobIds, k \in BOOLEAN :
         /\ jobs[j] = 0
         /\ jobs' = [jobs EXCEPT ![j] = n]
         /\ run_job' = [run_job EXCEPT ![n] = j]
         /\ continuous' = [continuous EXCEPT ![n] = k]
  BY DEF Start
<1>4. /\ worker' = [worker EXCEPT ![n] = "start"] /\ lock = None
      /\ UNCHANGED <<lock, pc, cmd_job, rest, watcher>>
  BY DEF Start, clientVars
<1> HIDE DEF n
<1>5. Runs \subseteq Nat \ {0}
  BY BoundsAssumption DEF Runs
<1>6. worker[n] = "new" /\ watcher[n] = "off"
  BY <1>2 DEF Inv, RunsInOrder, WatcherWithinWorker, Watching
<1>7. Started' = Started \cup {n}
  BY <1>1, <1>2, <1>3, NoneAssumption DEF TypeOK, Started
<1>8. Registered' = Registered \cup {n}
  BY <1>1, <1>2, <1>3, <1>5, <1>7 DEF TypeOK, Registered, Started
<1>9. RunsInOrder'
  <2>1. \A r \in Started', q \in Runs : q <= r => q \in Started'
    BY <1>1, <1>2, <1>5, <1>7 DEF RunsInOrder
  <2>2. \A r \in Runs : worker'[r] = "new" <=> r \notin Started'
    BY <1>1, <1>2, <1>4, <1>7 DEF RunsInOrder, TypeOK
  <2> QED
    BY <2>1, <2>2 DEF RunsInOrder
<1>10. JobsDenoteRuns'
  <2> SUFFICES ASSUME NEW i \in JobIds, jobs'[i] # 0 PROVE run_job'[jobs'[i]] = i
    BY DEF JobsDenoteRuns
  <2>1. CASE i = j
    BY <2>1, <1>1, <1>2, <1>3 DEF TypeOK
  <2>2. CASE i # j
    <3>1. jobs'[i] = jobs[i] /\ jobs[i] \in Runs /\ run_job[jobs[i]] = i
      BY <2>2, <1>1, <1>3 DEF TypeOK, Inv, JobsDenoteRuns
    <3>2. jobs[i] # n
      BY <3>1, <1>2, NoneAssumption DEF Started
    <3> QED
      BY <3>1, <3>2, <1>1, <1>3 DEF TypeOK
  <2> QED
    BY <2>1, <2>2
<1>11. WatcherWithinWorker'
  BY <1>1, <1>3, <1>4, <1>6 DEF Inv, WatcherWithinWorker, TypeOK
<1>12. CommandsInv'
  BY <1>1, <1>4, NoneAssumption DEF Inv, CommandsInv, Stops, StopsAll, Locked, Stopping
<1>13. NoOrphanWorker'
  BY <1>1, <1>4, <1>7, <1>8 DEF Inv, NoOrphanWorker, TypeOK, Started
<1> QED
  BY <1>9, <1>10, <1>11, <1>12, <1>13

(* A job whose worker was joined is removed (stop_sync), and no other command  *)
(* is under way meanwhile that holds SyncDaemon.lock.                         *)
LEMMA UnregisterKeepsInv ==
    ASSUME Inv, NEW c \in Clients, pc[c] \in Stopping, worker[jobs[cmd_job[c]]] = "done",
           Unregister(cmd_job[c]), Return(c),
           UNCHANGED <<run_job, worker, watcher, continuous>>
    PROVE  /\ RunsInOrder' /\ JobsDenoteRuns' /\ WatcherWithinWorker' /\ CommandsInv'
           /\ NoOrphanWorker'
<1> DEFINE j == cmd_job[c]
<1>1. TypeOK /\ j \in JobIds /\ jobs[j] \in Runs /\ lock = c /\ run_job[jobs[j]] = j
  BY DEF Inv, TypeOK, CommandsInv, Stops, Locked, JobsDenoteRuns, Stopping
<1>2. jobs' = [jobs EXCEPT ![j] = 0]
  BY DEF Unregister
<1>3. /\ pc' = [pc EXCEPT ![c] = "idle"] /\ cmd_job' = [cmd_job EXCEPT ![c] = None]
      /\ rest' = [rest EXCEPT ![c] = {}]
  BY DEF Return
<1>4. \A d \in Clients \ {c} : pc[d] \notin Stopping \cup {"stop_all"}
  BY <1>1 DEF Inv, CommandsInv, Locked
<1>5. Started' = Started /\ Started \subseteq Runs
  BY DEF Started
<1>6. \A r \in Started' \ Registered' : r \in Started \ Registered \/ r = jobs[j]
  BY <1>1, <1>2, <1>5 DEF Registered, Started, TypeOK
<1>7. worker[jobs[j]] = "done" /\ watcher[jobs[j]] = "off"
  BY <1>1 DEF Inv, WatcherWithinWorker, Watching
<1>8. NoOrphanWorker'
  BY <1>5, <1>6, <1>7 DEF Inv, NoOrphanWorker
<1>9. RunsInOrder' /\ WatcherWithinWorker'
  BY <1>5 DEF Inv, RunsInOrder, WatcherWithinWorker
<1>10. JobsDenoteRuns'
  BY <1>1, <1>2 DEF Inv, JobsDenoteRuns, TypeOK
<1>11. \A d \in Clients :
          /\ pc'[d] \notin Stopping \cup {"stop_all"}
          /\ pc'[d] = "stop" => cmd_job'[d] \in JobIds
  BY <1>1, <1>3, <1>4 DEF Inv, TypeOK, CommandsInv, Stops, Stopping
<1>12. CommandsInv'
  BY <1>11 DEF CommandsInv, Stops, StopsAll, Locked, Stopping
<1> QED
  BY <1>8, <1>9, <1>10, <1>12

(* stop-all drops the jobs when it has joined every one of them.              *)
LEMMA StopAllEndsKeepsInv ==
    ASSUME Inv, BoundsAssumption, NEW c \in Clients, StopAllEnds(c)
    PROVE  /\ RunsInOrder' /\ JobsDenoteRuns' /\ WatcherWithinWorker' /\ CommandsInv'
           /\ NoOrphanWorker'
<1>1. TypeOK /\ pc[c] = "stop_all" /\ rest[c] = {} /\ lock = c
  BY DEF Inv, StopAllEnds, At, CommandsInv, Locked
<1>2. /\ jobs' = [j \in JobIds |-> 0]
      /\ pc' = [pc EXCEPT ![c] = "idle"] /\ cmd_job' = [cmd_job EXCEPT ![c] = None]
      /\ UNCHANGED <<run_job, worker, watcher, continuous>>
  BY DEF StopAllEnds, Return, jobVars, syncerVars
<1>3. Started' = Started /\ Started \subseteq Runs
  BY <1>2 DEF Started
<1>4. \A r \in Started : worker[r] = "done" /\ watcher[r] = "off"
  <2>1. \A r \in Registered : worker[r] = "done"
    BY <1>1 DEF Inv, CommandsInv, StopsAll
  <2>2. \A r \in Started : worker[r] = "done"
    BY <2>1 DEF Inv, NoOrphanWorker
  <2> QED
    BY <2>2, <1>3 DEF Inv, WatcherWithinWorker, Watching
<1>5. NoOrphanWorker'
  BY <1>2, <1>3, <1>4 DEF NoOrphanWorker
<1>6. RunsInOrder' /\ WatcherWithinWorker'
  BY <1>2, <1>3 DEF Inv, RunsInOrder, WatcherWithinWorker
<1>7. JobsDenoteRuns'
  BY <1>2 DEF JobsDenoteRuns
<1>8. \A d \in Clients :
         /\ pc'[d] \notin Stopping \cup {"stop_all"}
         /\ pc'[d] = "stop" => cmd_job'[d] \in JobIds
  BY <1>1, <1>2 DEF Inv, TypeOK, CommandsInv, Stops, Locked, Stopping
<1>9. CommandsInv'
  BY <1>8 DEF CommandsInv, Stops, StopsAll, Locked, Stopping
<1> QED
  BY <1>5, <1>6, <1>7, <1>9

(* Every step of a command (the control commands) keeps it.                   *)
LEMMA CommandsKeepInv ==
    ASSUME Inv, BoundsAssumption, NEW c \in Clients, Command(c) \/ CommandStep(c)
    PROVE  /\ RunsInOrder' /\ JobsDenoteRuns' /\ WatcherWithinWorker' /\ CommandsInv'
           /\ NoOrphanWorker'
<1>1. CASE \/ ActiveEvents(c) \/ StopBegin(c) \/ StopWaited(c) \/ StopClears(c)
           \/ TestError(c) \/ TestErrorJoined(c) \/ StopAll(c) \/ StopAllSignals(c)
           \/ StopAllJoins(c) \/ StopLocked(c)
  <2>1. UNCHANGED <<jobs, run_job, worker, watcher, continuous>> /\ CommandsInv'
    BY <1>1, QuietCommands
  <2>2. Started' = Started /\ Registered' = Registered
    BY <2>1 DEF Started, Registered
  <2> QED
    BY <2>1, <2>2 DEF Inv, RunsInOrder, JobsDenoteRuns, WatcherWithinWorker, NoOrphanWorker
<1>2. CASE Start(c)
  BY <1>2, StartKeepsInv
<1>3. CASE StopAllEnds(c)
  BY <1>3, StopAllEndsKeepsInv
<1>4. CASE StopJoined(c)
  <2>1. /\ pc[c] = "join" /\ worker[jobs[cmd_job[c]]] = "done"
        /\ UNCHANGED <<run_job, worker, watcher, continuous>>
    BY <1>4 DEF StopJoined, At, jobVars, syncerVars
  <2>2. CASE continuous[jobs[cmd_job[c]]]
    <3>1. pc' = [pc EXCEPT ![c] = "wait"] /\ UNCHANGED <<jobs, lock, cmd_job, rest>>
      BY <1>4, <2>2 DEF StopJoined, Goto
    <3>2. Started' = Started /\ Registered' = Registered
      BY <2>1, <3>1 DEF Started, Registered
    <3>3. CommandsInv'
      BY <2>1, <3>1, <3>2 DEF Inv, TypeOK, CommandsInv, Stops, StopsAll, Locked, Stopping
    <3> QED
      BY <2>1, <3>1, <3>2, <3>3 DEF Inv, RunsInOrder, JobsDenoteRuns, WatcherWithinWorker,
         NoOrphanWorker
  <2>3. CASE ~continuous[jobs[cmd_job[c]]]
    <3>1. Unregister(cmd_job[c]) /\ Return(c)
      BY <1>4, <2>3 DEF StopJoined
    <3> QED
      BY <2>1, <3>1, UnregisterKeepsInv DEF Stopping
  <2> QED
    BY <2>2, <2>3
<1>5. CASE StopChecks(c)
  <2>1. /\ pc[c] = "check" /\ Return(c)
        /\ UNCHANGED <<run_job, worker, watcher, continuous>>
    BY <1>5 DEF StopChecks, At, jobVars, syncerVars
  <2>2. CASE cmd_job[c] \in stop_queue
    <3>1. Unregister(cmd_job[c]) /\ worker[jobs[cmd_job[c]]] = "done"
      BY <1>5, <2>1, <2>2 DEF StopChecks, Inv, CommandsInv, Stops
    <3> QED
      BY <2>1, <3>1, UnregisterKeepsInv DEF Stopping
  <2>3. CASE cmd_job[c] \notin stop_queue
    <3>1. UNCHANGED jobs
      BY <1>5, <2>3 DEF StopChecks
    <3>2. Started' = Started /\ Registered' = Registered
      BY <2>1, <3>1 DEF Started, Registered
    <3>3. \A d \in Clients \ {c} : pc[d] \notin Stopping \cup {"stop_all"}
      BY <2>1 DEF Inv, CommandsInv, Locked, Stopping
    <3>4. \A d \in Clients :
             /\ pc'[d] \notin Stopping \cup {"stop_all"}
             /\ pc'[d] = "stop" => cmd_job'[d] \in JobIds
      BY <2>1, <3>3 DEF Inv, TypeOK, CommandsInv, Stops, Stopping, Return
    <3>5. CommandsInv'
      BY <3>4 DEF CommandsInv, Stops, StopsAll, Locked, Stopping
    <3> QED
      BY <2>1, <3>1, <3>2, <3>5 DEF Inv, RunsInOrder, JobsDenoteRuns, WatcherWithinWorker,
         NoOrphanWorker
  <2> QED
    BY <2>2, <2>3
<1> QED
  BY <1>1, <1>2, <1>3, <1>4, <1>5 DEF Command, CommandStep

-----------------------------------------------------------------------------
(* The invariant holds. *)

(* When the daemon starts, it has no jobs and no threads but the event thread. *)
LEMMA InitInv ==
    ASSUME Init, LoadsAssumption, NoneAssumption
    PROVE  Inv
<1>1. Load.batches \in Nat
  BY LoadType DEF Init
<1>2. TypeOK
  <2>1. event_queue \in Seq(QueueItems)
    BY EmptySeq DEF Init
  <2>2. batches \in [Runs -> 0..Load.batches]
    BY <1>1 DEF Init
  <2>3. "STOPPED" \in States
    BY DEF States
  <2> QED
    BY <2>1, <2>2, <2>3 DEF Init, TypeOK
<1>3. Started = {} /\ Registered = {}
  BY DEF Init, Started, Registered
<1>4. RunsInOrder /\ NoOrphanWorker
  BY <1>3 DEF RunsInOrder, NoOrphanWorker, Init
<1>5. JobsDenoteRuns /\ WatcherWithinWorker /\ CommandsInv
  BY DEF Init, JobsDenoteRuns, WatcherWithinWorker, CommandsInv, Stops, StopsAll, Locked,
         Stopping
<1> QED
  BY <1>2, <1>4, <1>5 DEF Inv

(* Every step of the daemon keeps the invariant.                              *)
LEMMA NextInv ==
    ASSUME Inv, [Next]_vars, LoadsAssumption, BoundsAssumption
    PROVE  Inv'
<1>1. CASE UNCHANGED vars
  <2>1. TypeOK'
    BY <1>1 DEF vars, Inv, TypeOK, Load
  <2>2. Started' = Started /\ Registered' = Registered
    BY <1>1 DEF vars, Started, Registered
  <2>3. RunsInOrder' /\ JobsDenoteRuns' /\ WatcherWithinWorker' /\ NoOrphanWorker'
    BY <1>1, <2>2 DEF vars, Inv, RunsInOrder, JobsDenoteRuns, WatcherWithinWorker,
       NoOrphanWorker
  <2>4. CommandsInv'
    BY <1>1, <2>2 DEF vars, Inv, CommandsInv, Stops, StopsAll, Locked
  <2> QED
    BY <2>1, <2>3, <2>4 DEF Inv
<1>2. CASE EventStep /\ Same
  BY <1>2, EventTypes, EventsKeepInv DEF Inv
<1>3. ASSUME NEW r \in Runs, WorkerStep(r), Same PROVE Inv'
  BY <1>3, WorkerTypes, ThreadsKeepInv DEF Inv
<1>4. ASSUME NEW r \in Runs, WatcherBatch(r) \/ WatcherStep(r), Same PROVE Inv'
  BY <1>4, WatcherTypes, ThreadsKeepInv DEF Inv
<1>5. ASSUME NEW c \in Clients, Command(c) \/ CommandStep(c), Same PROVE Inv'
  BY <1>5, CommandTypes, CommandsKeepInv DEF Inv, CommandsInv
<1> QED
  BY <1>1, <1>2, <1>3, <1>4, <1>5 DEF Next

(* What ties the threads, the commands and the table of jobs together (daemon.py)  *)
(* holds in every reachable state.                                            *)
THEOREM Invariance == Spec => []Inv
<1>1. Init => Inv
  BY InitInv, NoneAssumption, LoadsAssumption
<1>2. Inv /\ [Next]_vars => Inv'
  BY NextInv, LoadsAssumption, BoundsAssumption
<1> QED
  BY <1>1, <1>2, PTL DEF Spec

(* Type correctness of the daemon's state, whatever the load.                 *)
THEOREM TypeCorrect == Spec => []TypeOK
<1>1. Inv => TypeOK
  BY DEF Inv
<1> QED
  BY <1>1, Invariance, PTL

(* No worker, syncer or watcher thread outlives the registration of its job    *)
(* (stop_sync, stop_all), so two syncers never run on one container.           *)
THEOREM WorkersAreJoined == Spec => []NoOrphanWorker
<1>1. Inv => NoOrphanWorker
  BY DEF Inv
<1> QED
  BY <1>1, Invariance, PTL
-----------------------------------------------------------------------------
(***************************************************************************)
(* The loads that no counterexample needs: continuous jobs whose syncers   *)
(* start and stop, and whose batches may fail.                             *)
(***************************************************************************)
-----------------------------------------------------------------------------
(* The invariant. *)

(* The client that is stopping the job of r, with SyncDaemon.lock.            *)
IsStopped(r) ==
    \E c \in Clients : lock = c /\ pc[c] \in Stopping /\ cmd_job[c] = run_job[r]

(* The life of a run: a worker leaves its wait only for a stop command, and    *)
(* until then the daemon has nothing to report about it.                      *)
CalmRuns ==
    \A r \in Runs :
        /\ ~test_error[r]
        /\ worker[r] \in {"new", "start", "wait", "stop_sync", "finish", "done"}
        /\ worker[r] = "new" =>
              state[r] = "STOPPED" /\ job_state[r] = "STOPPED" /\ ~job_stop[r]
        /\ worker[r] \in {"stop_sync", "finish", "done"} => job_stop[r]
        /\ r \in Started => continuous[r] /\ active[r] \in Load.filters
        /\ r \in Registered /\ job_stop[r] => IsStopped(r)

CalmClients == \A c \in Clients : pc[c] \in {"idle", "stop"} \cup Stopping

Positions == 1..Len(event_queue)

(* The [job_id, None] item of a worker is the last one of its run.            *)
FinishedIsLast ==
    \A k \in Positions :
        event_queue[k].event = Finished =>
            /\ worker[event_queue[k].run] = "done"
            /\ \A l \in Positions : l > k => event_queue[l].run # event_queue[k].run

(* stop_queue holds a job when the event thread took its run's last item.     *)
SignalledJobs ==
    \A j \in stop_queue :
        /\ jobs[j] # 0 /\ worker[jobs[j]] = "done"
        /\ \A k \in Positions : event_queue[k].run # jobs[j]

(* The hand-shake of the event thread and the stop command.                   *)
HandShake ==
    /\ ev_pc = "set" => ev_job \in stop_queue /\ ~stop_event
    /\ stop_event => stop_queue # {}
    /\ \A c \in Clients :
          /\ pc[c] = "clear" => stop_event
          /\ pc[c] = "check" => cmd_job[c] \in stop_queue /\ ~stop_event /\ ev_pc = "get"

(* What the daemon's state of a run will be when the queue is drained.        *)
StateItems(r) ==
    {k \in Positions : event_queue[k].run = r /\ event_queue[k].event \in States}
WillSay(r, s) ==
    \/ StateItems(r) = {} /\ job_state[r] = s
    \/ \E k \in StateItems(r) :
          event_queue[k].event = s /\ \A l \in StateItems(r) : l <= k

Putting == {"put_RUNNING", "put_ERROR", "put_SYNCED"}

StatesReported ==
    \A r \in Runs :
        /\ watcher[r] = "put_RUNNING" => state[r] = "RUNNING"
        /\ watcher[r] = "put_ERROR" => state[r] = "ERROR"
        /\ watcher[r] = "put_SYNCED" => state[r] = "SYNCED"
        /\ r \in Registered /\ "state" \in active[r] /\ watcher[r] \notin Putting
             => WillSay(r, state[r])

CalmInv == CalmRuns /\ CalmClients /\ QueueHasJobs /\ FinishedIsLast /\ SignalledJobs
               /\ HandShake /\ StatesReported

-----------------------------------------------------------------------------
(* What is put on the queue. *)

(* The queue grows, if at all, by items of r whose events are in E.           *)
Grows(r, E) ==
    /\ Len(event_queue) \in Nat /\ Len(event_queue') \in Nat
    /\ Len(event_queue) <= Len(event_queue')
    /\ \A k \in Positions : event_queue'[k] = event_queue[k]
    /\ \A k \in Positions' \ Positions :
          event_queue'[k].run = r /\ event_queue'[k].job = run_job[r]
              /\ event_queue'[k].event \in E

(* The last item on the queue is the event s of r.                            *)
EndsWith(r, s) ==
    /\ Len(event_queue) \in Nat \ {0}
    /\ event_queue[Len(event_queue)].run = r /\ event_queue[Len(event_queue)].event = s

(* A put lets the queue grow by the events of its list, the last one last.     *)
LEMMA PutGrows ==
    ASSUME event_queue \in Seq(QueueItems), NEW r \in Runs, run_job[r] \in JobIds
    PROVE  /\ \A s \in Events : Put(r, <<s>>) =>
                 /\ Grows(r, {s}) /\ EndsWith(r, s)'
                 /\ Len(event_queue') = Len(event_queue) + 1
           /\ \A s, t \in Events : Put(r, <<s, t>>) =>
                 Grows(r, {s, t}) /\ EndsWith(r, t)'
<1> USE DEF Grows, EndsWith, Positions
<1>1. Len(event_queue) \in Nat
  BY LenProperties
<1>2. ASSUME NEW s \in Events, Put(r, <<s>>)
      PROVE  /\ Grows(r, {s}) /\ EndsWith(r, s)'
             /\ Len(event_queue') = Len(event_queue) + 1
  <2> DEFINE events == <<s>>
  <2>1. /\ events \in Seq(Events) /\ Len(events) = 1 /\ events[1] = s
        /\ Put(r, events)
    BY <1>2
  <2> HIDE DEF events
  <2>2. /\ Len(event_queue') = Len(event_queue) + Len(events)
        /\ \A k \in 1..Len(event_queue) : event_queue'[k] = event_queue[k]
        /\ \A k \in 1..Len(events) : event_queue'[Len(event_queue) + k] =
                [job |-> run_job[r], run |-> r, event |-> events[k]]
    BY <2>1, PutAppends
  <2>3. /\ Len(event_queue') = Len(event_queue) + 1
        /\ \A k \in 1..Len(event_queue) : event_queue'[k] = event_queue[k]
        /\ event_queue'[Len(event_queue) + 1] = [job |-> run_job[r], run |-> r, event |-> s]
    BY <2>1, <2>2, <1>1
  <2>4. \A k \in Positions' \ Positions : k = Len(event_queue) + 1
    BY <2>3, <1>1
  <2>5. EndsWith(r, s)'
    BY <2>3, <1>1
  <2>6. Grows(r, {s})
    BY <2>3, <2>4, <1>1
  <2> QED
    BY <2>3, <2>5, <2>6
<1>3. ASSUME NEW s \in Events, NEW t \in Events, Put(r, <<s, t>>)
      PROVE  Grows(r, {s, t}) /\ EndsWith(r, t)'
  <2> DEFINE events == <<s, t>>
  <2>1. /\ events \in Seq(Events) /\ Len(events) = 2 /\ events[1] = s /\ events[2] = t
        /\ Put(r, events)
    BY <1>3
  <2> HIDE DEF events
  <2>2. /\ Len(event_queue') = Len(event_queue) + Len(events)
        /\ \A k \in 1..Len(event_queue) : event_queue'[k] = event_queue[k]
        /\ \A k \in 1..Len(events) : event_queue'[Len(event_queue) + k] =
                [job |-> run_job[r], run |-> r, event |-> events[k]]
    BY <2>1, PutAppends
  <2>3. /\ Len(event_queue') = Len(event_queue) + 2
        /\ \A k \in 1..Len(event_queue) : event_queue'[k] = event_queue[k]
        /\ event_queue'[Len(event_queue) + 1] = [job |-> run_job[r], run |-> r, event |-> s]
        /\ event_queue'[Len(event_queue) + 2] = [job |-> run_job[r], run |-> r, event |-> t]
    BY <2>1, <2>2, <1>1
  <2>4. \A k \in Positions' \ Positions : k \in {Len(event_queue) + 1, Len(event_queue) + 2}
    BY <2>3, <1>1
  <2>5. EndsWith(r, t)'
    BY <2>3, <1>1
  <2>6. Grows(r, {s, t})
    BY <2>3, <2>4, <1>1
  <2> QED
    BY <2>5, <2>6
<1> QED
  BY <1>2, <1>3

(* What the daemon will say of a run is not changed by items of other runs or  *)
(* by items that are no states, and follows the last state that was put.      *)
LEMMA WillSayFollows ==
    ASSUME NEW r, NEW E, Grows(r, E), UNCHANGED job_state
    PROVE  /\ \A q, s : q # r /\ WillSay(q, s) => WillSay(q, s)'
           /\ E \cap States = {} => \A q, s : WillSay(q, s) => WillSay(q, s)'
           /\ \A s \in States : EndsWith(r, s)' => WillSay(r, s)'
<1>1. ASSUME NEW q, q # r \/ E \cap States = {}
      PROVE  StateItems(q)' = StateItems(q)
  BY <1>1 DEF Grows, StateItems, Positions
<1>2. ASSUME NEW q, NEW s, q # r \/ E \cap States = {}, WillSay(q, s)
      PROVE  WillSay(q, s)'
  BY <1>1, <1>2 DEF WillSay, StateItems, Grows
<1>3. ASSUME NEW s \in States, EndsWith(r, s)'
      PROVE  WillSay(r, s)'
  <2>1. Len(event_queue)' \in StateItems(r)'
    BY <1>3 DEF StateItems, Positions, EndsWith
  <2>2. \A l \in StateItems(r)' : l <= Len(event_queue)'
    BY <1>3 DEF StateItems, Positions, EndsWith
  <2> QED
    BY <2>1, <2>2, <1>3 DEF WillSay, EndsWith
<1> QED
  BY <1>2, <1>3

(* A thread of a run that is not done puts items: whatever else is queued or   *)
(* signalled stays right.                                                     *)
LEMMA GrowthKeepsQueue ==
    ASSUME Inv, CalmInv, NEW r \in Runs, r \in Registered, worker[r] # "done",
           NEW E, Grows(r, E),
           UNCHANGED <<daemonVars, clientVars, run_job>>,
           \A q \in Runs : worker[q] = "done" => worker'[q] = "done",
           \/ Finished \notin E
           \/ Len(event_queue') = Len(event_queue) + 1 /\ worker'[r] = "done"
    PROVE  QueueHasJobs' /\ FinishedIsLast' /\ SignalledJobs' /\ HandShake'
<1>1. \A k \in Positions' : k \in Positions \/ event_queue'[k].run = r
  BY DEF Grows
<1>2. event_queue \in Seq(QueueItems) /\ Len(event_queue) \in Nat
  BY LenProperties DEF Inv, TypeOK
<1>3. \A k \in Positions : event_queue[k] \in QueueItems /\ event_queue[k].run \in Runs
  <2> SUFFICES ASSUME NEW k \in Positions
               PROVE  event_queue[k] \in QueueItems
    BY DEF QueueItems
  <2> QED
    BY <1>2, ElementOfSeq DEF Positions
<1>4. QueueHasJobs'
  <2> SUFFICES ASSUME NEW k \in Positions'
               PROVE  jobs'[event_queue'[k].job] = event_queue'[k].run
    BY DEF QueueHasJobs, Positions
  <2>1. CASE k \in Positions
    BY <2>1 DEF CalmInv, QueueHasJobs, Grows, Positions, daemonVars
  <2>2. CASE k \notin Positions
    BY <2>2 DEF Grows, Registered, daemonVars
  <2> QED
    BY <2>1, <2>2
<1>5. FinishedIsLast'
  <2> SUFFICES ASSUME NEW k \in Positions', event_queue'[k].event = Finished
               PROVE  /\ worker'[event_queue'[k].run] = "done"
                      /\ \A l \in Positions' :
                            l > k => event_queue'[l].run # event_queue'[k].run
    BY DEF FinishedIsLast
  <2>1. CASE k \in Positions
    <3>1. /\ event_queue'[k] = event_queue[k] /\ worker[event_queue[k].run] = "done"
          /\ \A l \in Positions : l > k => event_queue[l].run # event_queue[k].run
      BY <2>1 DEF CalmInv, FinishedIsLast, Grows
    <3> QED
      BY <2>1, <3>1, <1>1, <1>3 DEF Grows
  <2>2. CASE k \notin Positions
    <3>1. event_queue'[k].run = r /\ Finished \in E
      BY <2>2 DEF Grows
    <3>2. Len(event_queue') = Len(event_queue) + 1 /\ worker'[r] = "done"
      BY <3>1
    <3>3. \A l \in Positions' : ~(l > k)
      BY <2>2, <3>2, <1>2 DEF Positions
    <3> QED
      BY <3>1, <3>2, <3>3
  <2> QED
    BY <2>1, <2>2
<1>6. SignalledJobs'
  <2> SUFFICES ASSUME NEW j \in stop_queue
               PROVE  /\ jobs[j] # 0 /\ worker'[jobs[j]] = "done"
                      /\ \A k \in Positions' : event_queue'[k].run # jobs[j]
    BY DEF SignalledJobs, daemonVars
  <2>1. /\ jobs[j] # 0 /\ worker[jobs[j]] = "done" /\ jobs[j] \in Runs
        /\ \A k \in Positions : event_queue[k].run # jobs[j]
    BY DEF CalmInv, SignalledJobs, Inv, TypeOK
  <2> QED
    BY <2>1, <1>1 DEF Grows
<1>7. HandShake'
  BY DEF CalmInv, HandShake, daemonVars, clientVars
<1> QED
  BY <1>4, <1>5, <1>6, <1>7

-----------------------------------------------------------------------------
(* The threads of a run. *)

(* A step of the threads of r that puts nothing, or puts items of r, keeps the *)
(* invariant when it keeps r's own part of it.                                *)
LEMMA ThreadStep ==
    ASSUME Inv, CalmInv, Same, NEW r \in Runs, r \in Registered, worker[r] # "done",
           NEW E, Grows(r, E),
           \/ Finished \notin E
           \/ Len(event_queue') = Len(event_queue) + 1 /\ worker'[r] = "done",
           UNCHANGED <<daemonVars, clientVars, run_job, continuous, job_state, job_stop,
                       test_error, active>>,
           \A q \in Runs \ {r} : worker'[q] = worker[q] /\ watcher'[q] = watcher[q]
                                    /\ state'[q] = state[q],
           worker'[r] \in {"start", "wait", "stop_sync", "finish", "done"},
           worker'[r] \in {"stop_sync", "finish", "done"} => job_stop[r],
           watcher'[r] = "put_RUNNING" => state'[r] = "RUNNING",
           watcher'[r] = "put_ERROR" => state'[r] = "ERROR",
           watcher'[r] = "put_SYNCED" => state'[r] = "SYNCED",
           watcher'[r] \notin Putting /\ "state" \in active[r] => WillSay(r, state[r])'
    PROVE  CalmInv'
<1>1. /\ Started' = Started /\ Registered' = Registered
      /\ UNCHANGED <<jobs, lock, pc, cmd_job>>
  BY DEF Started, Registered, daemonVars, clientVars
<1>2. Load' = Load
  BY DEF Same, Load
<1>3. \A q \in Runs : IsStopped(q) => IsStopped(q)'
  BY <1>1 DEF IsStopped
<1>4. CalmRuns'
  <2> SUFFICES ASSUME NEW q \in Runs
               PROVE  /\ ~test_error[q]
                      /\ worker'[q] \in {"new", "start", "wait", "stop_sync", "finish", "done"}
                      /\ worker'[q] = "new" =>
                            state'[q] = "STOPPED" /\ job_state[q] = "STOPPED" /\ ~job_stop[q]
                      /\ worker'[q] \in {"stop_sync", "finish", "done"} => job_stop[q]
                      /\ q \in Started => continuous[q] /\ active[q] \in Load.filters
                      /\ q \in Registered /\ job_stop[q] => IsStopped(q)
    BY <1>1, <1>2, <1>3 DEF CalmRuns
  <2>1. CASE q = r
    BY <2>1 DEF CalmInv, CalmRuns
  <2>2. CASE q # r
    BY <2>2 DEF CalmInv, CalmRuns
  <2> QED
    BY <2>1, <2>2
<1>5. CalmClients'
  BY <1>1 DEF CalmInv, CalmClients
<1>6. \A q \in Runs : worker[q] = "done" => worker'[q] = "done"
  OBVIOUS
<1>7. QueueHasJobs' /\ FinishedIsLast' /\ SignalledJobs' /\ HandShake'
  BY <1>6, GrowthKeepsQueue
<1>8. StatesReported'
  <2> SUFFICES ASSUME NEW q \in Runs
               PROVE  /\ watcher'[q] = "put_RUNNING" => state'[q] = "RUNNING"
                      /\ watcher'[q] = "put_ERROR" => state'[q] = "ERROR"
                      /\ watcher'[q] = "put_SYNCED" => state'[q] = "SYNCED"
                      /\ q \in Registered /\ "state" \in active[q] /\ watcher'[q] \notin Putting
                           => WillSay(q, state[q])'
    BY <1>1 DEF StatesReported
  <2>1. CASE q = r
    BY <2>1
  <2>2. CASE q # r
    <3>1. state'[q] = state[q]
      BY <2>2
    <3>2. WillSay(q, state[q]) => WillSay(q, state[q])'
      <4>1. PICK s : s = state[q]
        OBVIOUS
      <4>2. WillSay(q, s) => WillSay(q, s)'
        BY <2>2, WillSayFollows
      <4> QED
        BY <4>1, <4>2, <3>1 DEF WillSay
    <3> QED
      BY <2>2, <3>1, <3>2 DEF CalmInv, StatesReported
  <2> QED
    BY <2>1, <2>2
<1> QED
  BY <1>4, <1>5, <1>7, <1>8 DEF CalmInv

(* A step that puts nothing into event_queue takes back none of the states   *)
(* that the daemon is still going to report.                                  *)
LEMMA QuietGrows ==
    ASSUME event_queue \in Seq(QueueItems), UNCHANGED event_queue, NEW r
    PROVE  Grows(r, {}) /\ (UNCHANGED job_state => \A s : WillSay(r, s) => WillSay(r, s)')
<1>1. Len(event_queue) \in Nat
  BY LenProperties
<1> QED
  BY <1>1 DEF Grows, Positions, WillSay, StateItems

(* What notify_event reports of r is what the daemon will say of it; a state   *)
(* event that is not active leaves the queue alone.                           *)
LEMMA NotifyFollows ==
    ASSUME TypeOK, NEW r \in Runs, run_job[r] \in JobIds, UNCHANGED job_state
    PROVE  /\ \A s \in States : Notify(r, "state", <<s>>) =>
                 Grows(r, States) /\ ("state" \in active[r] => WillSay(r, s)')
           /\ \A s, t \in States : Notify(r, "state", <<s, t>>) =>
                 Grows(r, States) /\ ("state" \in active[r] => WillSay(r, t)')
           /\ Notify(r, "error", <<Message>>) =>
                 Grows(r, {Message}) /\ \A s : WillSay(r, s) => WillSay(r, s)'
<1>1. event_queue \in Seq(QueueItems) /\ States \subseteq Events /\ Message \in Events
  BY StateEvents DEF TypeOK
<1>2. \A E, F : E \subseteq F /\ Grows(r, E) => Grows(r, F)
  BY DEF Grows
<1>3. ASSUME NEW s \in States, Notify(r, "state", <<s>>)
      PROVE  Grows(r, States) /\ ("state" \in active[r] => WillSay(r, s)')
  <2>1. CASE "state" \in active[r]
    <3>1. Grows(r, {s}) /\ EndsWith(r, s)'
      BY <2>1, <1>1, <1>3, PutGrows DEF Notify
    <3> QED
      BY <3>1, <1>2, WillSayFollows
  <2>2. CASE "state" \notin active[r]
    BY <2>2, <1>1, <1>2, <1>3, QuietGrows DEF Notify
  <2> QED
    BY <2>1, <2>2
<1>4. ASSUME NEW s \in States, NEW t \in States, Notify(r, "state", <<s, t>>)
      PROVE  Grows(r, States) /\ ("state" \in active[r] => WillSay(r, t)')
  <2>1. CASE "state" \in active[r]
    <3>1. Grows(r, {s, t}) /\ EndsWith(r, t)'
      BY <2>1, <1>1, <1>4, PutGrows DEF Notify
    <3> QED
      BY <3>1, <1>2, WillSayFollows
  <2>2. CASE "state" \notin active[r]
    BY <2>2, <1>1, <1>2, <1>4, QuietGrows DEF Notify
  <2> QED
    BY <2>1, <2>2
<1>5. ASSUME Notify(r, "error", <<Message>>)
      PROVE  Grows(r, {Message}) /\ \A s : WillSay(r, s) => WillSay(r, s)'
  <2>1. CASE "error" \in active[r]
    <3>1. Grows(r, {Message})
      BY <2>1, <1>1, <1>5, PutGrows DEF Notify
    <3>2. {Message} \cap States = {}
      BY DEF Message, States
    <3> QED
      BY <3>1, <3>2, WillSayFollows
  <2>2. CASE "error" \notin active[r]
    BY <2>2, <1>1, <1>2, <1>5, QuietGrows DEF Notify
  <2> QED
    BY <2>1, <2>2
<1> QED
  BY <1>3, <1>4, <1>5

(* A worker's step (_worker) when its syncer starts and stops.                *)
LEMMA CalmWorkerStep ==
    ASSUME Inv, Calm, CalmInv, Same, NEW r \in Runs, WorkerStep(r)
    PROVE  CalmInv'
<1> USE DEF WorkerAt, WorkerGoto, daemonVars, clientVars, syncerVars
<1>1. /\ worker[r] \in {"start", "wait", "stop_sync", "finish"} /\ ~test_error[r]
      /\ TypeOK /\ event_queue \in Seq(QueueItems)
  BY WorkerSteps DEF Inv, TypeOK, CalmInv, CalmRuns
<1>2. r \in Started /\ r \in Registered /\ run_job[r] \in JobIds /\ continuous[r]
  BY <1>1, RunningIsStarted DEF Inv, RunsInOrder, NoOrphanWorker, CalmInv, CalmRuns
<1>3. "start" \notin Load.failures /\ "stop" \notin Load.failures
  BY DEF Calm
<1>4. CASE WorkerStart(r)
  <2>1. Grows(r, States) /\ ("state" \in active[r] => WillSay(r, "SYNCED")')
    BY <1>1, <1>2, <1>4, NotifyFollows DEF WorkerStart, States
  <2>2. state'[r] = "SYNCED" /\ worker'[r] = "wait" /\ watcher'[r] = "idle"
    BY <1>1, <1>4 DEF WorkerStart, TypeOK
  <2>3. "state" \in active[r] => WillSay(r, state[r])'
    BY <2>1, <2>2 DEF WillSay
  <2>4. Finished \notin States
    BY DEF Finished, States
  <2>5. UNCHANGED <<daemonVars, clientVars, run_job, continuous, job_state, job_stop,
                   test_error, active>>
    BY <1>4 DEF WorkerStart
  <2>6. \A q \in Runs \ {r} : worker'[q] = worker[q] /\ watcher'[q] = watcher[q]
                              /\ state'[q] = state[q]
    BY <1>1, <1>4 DEF WorkerStart, TypeOK
  <2> QED
    BY <2>1, <2>2, <2>3, <2>4, <2>5, <2>6, <1>1, <1>2, ThreadStep
<1>5. CASE WorkerWakes(r)
  <2>1. /\ job_stop[r] /\ worker' = [worker EXCEPT ![r] = "stop_sync"]
        /\ UNCHANGED <<daemonVars, clientVars, event_queue, run_job, continuous, job_state,
                       job_stop, test_error, syncerVars>>
    BY <1>1, <1>5 DEF WorkerWakes
  <2>2. Grows(r, {}) /\ (WillSay(r, state[r]) => WillSay(r, state[r])')
    BY <2>1, <1>1, QuietGrows DEF WillSay
  <2>3. /\ worker'[r] = "stop_sync" /\ watcher'[r] = watcher[r] /\ state'[r] = state[r]
        /\ \A q \in Runs \ {r} : worker'[q] = worker[q] /\ watcher'[q] = watcher[q]
                                 /\ state'[q] = state[q]
    BY <2>1, <1>1 DEF TypeOK
  <2>4. watcher[r] \notin Putting /\ "state" \in active[r] => WillSay(r, state[r])
    BY <1>2 DEF CalmInv, StatesReported
  <2>5. /\ watcher[r] = "put_RUNNING" => state[r] = "RUNNING"
        /\ watcher[r] = "put_ERROR" => state[r] = "ERROR"
        /\ watcher[r] = "put_SYNCED" => state[r] = "SYNCED"
    BY DEF CalmInv, StatesReported
  <2> QED
    BY <2>1, <2>2, <2>3, <2>4, <2>5, <1>1, <1>2, ThreadStep
<1>6. CASE WorkerStopsSync(r)
  <2>1. /\ watcher[r] \in {"off", "idle"} /\ watcher' = [watcher EXCEPT ![r] = "off"]
        /\ Set(r, "STOPPED") /\ worker' = [worker EXCEPT ![r] = "finish"]
        /\ UNCHANGED <<daemonVars, clientVars, run_job, continuous, job_state, job_stop,
                       test_error, active, batches>>
    BY <1>6 DEF WorkerStopsSync
  <2>2. "STOPPED" \in States /\ Finished \notin States /\ Finished \notin {}
    BY DEF States, Finished
  <2>3. "state" \in active[r] => WillSay(r, state[r])
    BY <2>1, <1>2 DEF CalmInv, StatesReported, Putting
  <2>4. /\ Grows(r, States) \/ Grows(r, {})
        /\ "state" \in active[r] => WillSay(r, state[r])'
        /\ \A q \in Runs \ {r} : state'[q] = state[q]
    <3>1. CASE Changes(r, "STOPPED")
      <4>1. Notify(r, "state", <<"STOPPED">>) /\ state' = [state EXCEPT ![r] = "STOPPED"]
        BY <2>1, <3>1 DEF Set, Assign
      <4>2. Grows(r, States) /\ ("state" \in active[r] => WillSay(r, "STOPPED")')
        BY <4>1, <2>1, <2>2, <1>1, <1>2, NotifyFollows
      <4>3. state'[r] = "STOPPED" /\ \A q \in Runs \ {r} : state'[q] = state[q]
        BY <4>1, <1>1 DEF TypeOK
      <4> QED
        BY <4>2, <4>3 DEF WillSay
    <3>2. CASE ~Changes(r, "STOPPED")
      <4>1. UNCHANGED <<state, event_queue>>
        BY <2>1, <3>2 DEF Set
      <4> QED
        BY <4>1, <2>1, <2>3, <1>1, QuietGrows DEF WillSay
    <3> QED
      BY <3>1, <3>2
  <2>5. /\ worker'[r] = "finish" /\ watcher'[r] = "off"
        /\ \A q \in Runs \ {r} : worker'[q] = worker[q] /\ watcher'[q] = watcher[q]
    BY <2>1, <1>1 DEF TypeOK
  <2>6. job_stop[r]
    BY <1>1, <1>6 DEF CalmInv, CalmRuns, WorkerStopsSync
  <2> QED
    BY <2>1, <2>2, <2>4, <2>5, <2>6, <1>1, <1>2, ThreadStep
<1>7. CASE WorkerFinishes(r)
  <2>1. /\ worker[r] = "finish" /\ Put(r, <<Finished>>)
        /\ worker' = [worker EXCEPT ![r] = "done"]
        /\ UNCHANGED <<daemonVars, clientVars, run_job, continuous, job_state, job_stop,
                       test_error, syncerVars>>
    BY <1>7 DEF WorkerFinishes
  <2>2. Grows(r, {Finished}) /\ Len(event_queue') = Len(event_queue) + 1
    BY <2>1, <1>1, <1>2, StateEvents, PutGrows
  <2>3. watcher[r] = "off"
    BY <2>1 DEF Inv, WatcherWithinWorker, Watching
  <2>4. "state" \in active[r] => WillSay(r, state[r])
    BY <2>3, <1>2 DEF CalmInv, StatesReported, Putting
  <2>5. {Finished} \cap States = {}
    BY DEF Finished, States
  <2>6. WillSay(r, state[r]) => WillSay(r, state[r])'
    <3>1. PICK s : s = state[r]
      OBVIOUS
    <3>2. WillSay(r, s) => WillSay(r, s)'
      BY <2>1, <2>2, <2>5, WillSayFollows
    <3> QED
      BY <3>1, <3>2, <2>1 DEF WillSay
  <2>7. /\ worker'[r] = "done" /\ watcher'[r] = "off" /\ job_stop[r]
        /\ \A q \in Runs \ {r} : worker'[q] = worker[q] /\ watcher'[q] = watcher[q]
                                 /\ state'[q] = state[q]
    BY <2>1, <2>3, <1>1 DEF TypeOK, CalmInv, CalmRuns
  <2> QED
    BY <2>1, <2>2, <2>4, <2>6, <2>7, <1>1, <1>2, ThreadStep
<1>8. WorkerStart(r) \/ WorkerWakes(r) \/ WorkerStopsSync(r) \/ WorkerFinishes(r)
  BY <1>1, <1>2, <1>3 DEF WorkerStep, WorkerStartFails, WorkerOneShot, WorkerOneShotFails,
     WorkerReports, WorkerChecksError, WorkerSetsError, WorkerNotifiesError, WorkerStopFails
<1> QED
  BY <1>4, <1>5, <1>6, <1>7, <1>8

(* A watcher's step (_handle_events), also of a batch that fails: the setter    *)
(* reports what it assigned, because nothing else assigns the state meanwhile. *)
LEMMA CalmWatcherStep ==
    ASSUME Inv, Calm, CalmInv, Same, NEW r \in Runs, WatcherBatch(r) \/ WatcherStep(r)
    PROVE  CalmInv'
<1> USE DEF WatcherAt, WatcherGoto
<1>1. TypeOK /\ event_queue \in Seq(QueueItems) /\ watcher[r] # "off"
  BY WatcherSteps DEF Inv, TypeOK
<1>2. worker[r] \in {"wait", "stop_sync"}
  BY <1>1 DEF Inv, WatcherWithinWorker, Watching, CalmInv, CalmRuns
<1>3. r \in Started /\ r \in Registered /\ run_job[r] \in JobIds
  BY <1>1, <1>2, RunningIsStarted DEF Inv, RunsInOrder, NoOrphanWorker
<1>4. /\ UNCHANGED <<daemonVars, clientVars, run_job, continuous, job_state, job_stop,
                     test_error, worker>>
      /\ \A q \in Runs \ {r} : watcher'[q] = watcher[q]
  BY <1>1, WatcherSteps DEF jobVars
<1>5. /\ watcher[r] = "put_RUNNING" => state[r] = "RUNNING"
      /\ watcher[r] = "put_ERROR" => state[r] = "ERROR"
      /\ watcher[r] = "put_SYNCED" => state[r] = "SYNCED"
      /\ watcher[r] \notin Putting /\ "state" \in active[r] => WillSay(r, state[r])
  BY <1>3 DEF CalmInv, StatesReported
<1>6. Finished \notin States /\ Finished \notin {} /\ Finished \notin {Message}
  BY DEF Finished, States, Message
<1>7. worker'[r] \in {"start", "wait", "stop_sync", "finish", "done"} /\ worker[r] # "done"
      /\ (worker'[r] \in {"stop_sync", "finish", "done"} => job_stop[r])
  BY <1>2, <1>4 DEF CalmInv, CalmRuns
(* A step that changes only where the thread is.                              *)
<1>8. ASSUME UNCHANGED <<event_queue, state, active>>, watcher[r] \notin Putting,
             watcher'[r] \notin Putting
      PROVE  CalmInv'
  <2>1. Grows(r, {}) /\ (WillSay(r, state[r]) => WillSay(r, state[r])')
    BY <1>1, <1>4, <1>8, QuietGrows DEF WillSay
  <2> QED
    BY <2>1, <1>3, <1>4, <1>5, <1>6, <1>7, <1>8, ThreadStep DEF Putting
<1>9. ASSUME NEW s, NEW here, NEW set, NEW then, WatcherChecks(r, s, here, set, then),
             here \notin Putting, set \notin Putting, then \notin Putting
      PROVE  CalmInv'
  <2>1. /\ UNCHANGED <<event_queue, state, active>> /\ watcher[r] = here
        /\ watcher'[r] \in {set, then}
    BY <1>1, <1>9 DEF WatcherChecks, TypeOK
  <2> QED
    BY <2>1, <1>8, <1>9
<1>10. ASSUME NEW s, NEW here, NEW put, WatcherSets(r, s, here, put),
              put \in Putting,
              put = "put_RUNNING" => s = "RUNNING", put = "put_ERROR" => s = "ERROR",
              put = "put_SYNCED" => s = "SYNCED"
       PROVE  CalmInv'
  <2>1. /\ UNCHANGED <<event_queue, active>> /\ watcher'[r] = put /\ state'[r] = s
        /\ \A q \in Runs \ {r} : state'[q] = state[q]
    BY <1>1, <1>10 DEF WatcherSets, Assign, TypeOK
  <2>2. Grows(r, {})
    BY <2>1, <1>1, QuietGrows
  <2> QED
    BY <2>1, <2>2, <1>3, <1>4, <1>6, <1>7, <1>10, ThreadStep
<1>11. ASSUME NEW s \in States, NEW here, NEW then, WatcherNotifies(r, s, here, then),
              here = "put_RUNNING" => s = "RUNNING", here = "put_ERROR" => s = "ERROR",
              here = "put_SYNCED" => s = "SYNCED", here \in Putting, then \notin Putting
       PROVE  CalmInv'
  <2>1. /\ UNCHANGED <<state, active>> /\ watcher[r] = here /\ watcher'[r] = then
        /\ Notify(r, "state", <<s>>)
    BY <1>1, <1>11 DEF WatcherNotifies, TypeOK
  <2>2. state[r] = s
    BY <2>1, <1>5, <1>11 DEF Putting
  <2>3. Grows(r, States) /\ ("state" \in active[r] => WillSay(r, s)')
    BY <2>1, <1>1, <1>3, <1>4, NotifyFollows
  <2>4. "state" \in active[r] => WillSay(r, state[r])'
    BY <2>1, <2>2, <2>3 DEF WillSay
  <2> QED
    BY <2>1, <2>3, <2>4, <1>3, <1>4, <1>6, <1>7, <1>11, ThreadStep DEF Putting
<1>12. CASE WatcherBatch(r)
  <2>1. /\ UNCHANGED <<event_queue, state, active>>
        /\ watcher[r] = "idle" /\ watcher'[r] = "check_RUNNING"
    BY <1>1, <1>12 DEF WatcherBatch, TypeOK
  <2> QED
    BY <2>1, <1>8 DEF Putting
<1>13. CASE WatcherWorks(r)
  <2>1. /\ UNCHANGED <<event_queue, state, active>>
        /\ watcher[r] = "work" /\ watcher'[r] = "check_SYNCED"
    BY <1>1, <1>13 DEF WatcherWorks, TypeOK
  <2> QED
    BY <2>1, <1>8 DEF Putting
<1>14. CASE WatcherFails(r)
  <2>1. /\ UNCHANGED <<state, active>> /\ Notify(r, "error", <<Message>>)
        /\ watcher[r] = "work" /\ watcher'[r] = "check_ERROR"
    BY <1>1, <1>14 DEF WatcherFails, TypeOK
  <2>2. Grows(r, {Message}) /\ \A s : WillSay(r, s) => WillSay(r, s)'
    BY <2>1, <1>1, <1>3, <1>4, NotifyFollows
  <2>3. WillSay(r, state[r]) => WillSay(r, state[r])'
    <3>1. PICK s : s = state[r]
      OBVIOUS
    <3>2. WillSay(r, s) => WillSay(r, s)'
      BY <2>2
    <3> QED
      BY <3>1, <3>2, <2>1 DEF WillSay
  <2> QED
    BY <2>1, <2>2, <2>3, <1>3, <1>4, <1>5, <1>6, <1>7, ThreadStep DEF Putting
<1>15. CASE WatcherAssigns(r, "RUNNING", "check_RUNNING", "set_RUNNING", "put_RUNNING", "work")
  BY <1>9, <1>10, <1>11, <1>15 DEF WatcherAssigns, Putting, States
<1>16. CASE WatcherAssigns(r, "ERROR", "check_ERROR", "set_ERROR", "put_ERROR", "check_SYNCED")
  BY <1>9, <1>10, <1>11, <1>16 DEF WatcherAssigns, Putting, States
<1>17. CASE WatcherAssigns(r, "SYNCED", "check_SYNCED", "set_SYNCED", "put_SYNCED", "idle")
  BY <1>9, <1>10, <1>11, <1>17 DEF WatcherAssigns, Putting, States
<1> QED
  BY <1>12, <1>13, <1>14, <1>15, <1>16, <1>17 DEF WatcherStep

-----------------------------------------------------------------------------
(* The event thread. *)

(* The event thread takes the first item off the queue, the others move up.   *)
Pops ==
    /\ event_queue \in Seq(QueueItems) /\ event_queue # << >>
    /\ event_queue' = Tail(event_queue)

(* event_queue.get() takes the first item, every other one is one place nearer *)
(* to the front.                                                              *)
LEMMA PopsMovesUp ==
    ASSUME Pops
    PROVE  /\ Head(event_queue) = event_queue[1] /\ 1 \in Positions
           /\ Len(event_queue) \in Nat /\ Len(event_queue') = Len(event_queue) - 1
           /\ \A k \in Positions' : k + 1 \in Positions /\ event_queue'[k] = event_queue[k + 1]
           /\ \A k \in Positions : k # 1 => k - 1 \in Positions' /\ event_queue'[k - 1] = event_queue[k]
           /\ \A k \in Positions : event_queue[k] \in QueueItems
<1>1. Len(event_queue) \in Nat \ {0} /\ \A k \in 1..Len(event_queue) : event_queue[k] \in QueueItems
  BY LenProperties, EmptySeq, ElementOfSeq DEF Pops
<1>2. /\ Len(event_queue') = Len(event_queue) - 1
      /\ \A k \in 1..Len(event_queue') : event_queue'[k] = event_queue[k + 1]
  BY HeadTailProperties DEF Pops
<1>3. Head(event_queue) = event_queue[1]
  BY DEF Pops
<1> QED
  BY <1>1, <1>2, <1>3 DEF Positions

(* Taking an item keeps what the daemon will say: a state becomes job.state,   *)
(* and a later one of the same run is still to come.                          *)
LEMMA PopsKeepsWillSay ==
    ASSUME Pops, NEW q, NEW s, WillSay(q, s),
           IF 1 \in StateItems(q) THEN job_state'[q] = event_queue[1].event
                                  ELSE job_state'[q] = job_state[q]
    PROVE  WillSay(q, s)'
<1>1. \A k : k \in StateItems(q)' <=> k \in Positions' /\ k + 1 \in StateItems(q)
  BY PopsMovesUp DEF StateItems
<1>2. \A k \in StateItems(q) : k # 1 => k - 1 \in StateItems(q)'
  BY PopsMovesUp DEF StateItems, Positions
<1>3. StateItems(q) \subseteq Nat
  BY PopsMovesUp DEF StateItems, Positions
<1>4. CASE StateItems(q) = {} /\ job_state[q] = s
  BY <1>1, <1>4 DEF WillSay
<1>5. ASSUME NEW k \in StateItems(q), event_queue[k].event = s,
             \A l \in StateItems(q) : l <= k
      PROVE  WillSay(q, s)'
  <2>1. CASE k = 1
    <3>1. StateItems(q)' = {}
      <4> SUFFICES ASSUME NEW l \in StateItems(q)' PROVE FALSE
        OBVIOUS
      <4>1. l \in Positions' /\ l + 1 \in StateItems(q)
        BY <1>1
      <4>2. l + 1 <= 1 /\ l >= 1 /\ l \in Nat
        BY <4>1, <2>1, <1>5, PopsMovesUp DEF Positions
      <4> QED
        BY <4>2
    <3> QED
      BY <3>1, <2>1, <1>5 DEF WillSay
  <2>2. CASE k # 1
    <3>1. k - 1 \in StateItems(q)' /\ event_queue'[k - 1].event = s
      BY <2>2, <1>2, <1>5, PopsMovesUp DEF StateItems
    <3>2. \A l \in StateItems(q)' : l <= k - 1
      BY <1>1, <1>3, <1>5, PopsMovesUp DEF Positions
    <3> QED
      BY <3>1, <3>2 DEF WillSay
  <2> QED
    BY <2>1, <2>2
<1> QED
  BY <1>4, <1>5 DEF WillSay

(* A run that is being stopped: the command that stops it is the one that has  *)
(* SyncDaemon.lock, so there is no other.                                     *)
LEMMA OneIsStopped ==
    ASSUME Inv, CalmInv
    PROVE  /\ \A r \in Registered : worker[r] \in {"stop_sync", "finish", "done"} => IsStopped(r)
           /\ \A j \in stop_queue : j \in JobIds /\ jobs[j] \in Registered /\ IsStopped(jobs[j])
           /\ \A j \in stop_queue, c \in Clients : pc[c] \in Stopping => cmd_job[c] = j
           /\ \A j, i \in stop_queue : i = j
           /\ \A j \in JobIds : jobs[j] # 0 => jobs[j] \in Registered /\ run_job[jobs[j]] = j
<1>1. \A r \in Registered : r \in Runs
  BY DEF Registered, Started
<1>2. \A r \in Registered : worker[r] \in {"stop_sync", "finish", "done"} => IsStopped(r)
  BY <1>1 DEF CalmInv, CalmRuns
<1>3. \A j \in JobIds : jobs[j] # 0 => jobs[j] \in Registered /\ run_job[jobs[j]] = j
  BY NoneAssumption DEF Inv, TypeOK, JobsDenoteRuns, Registered, Started
<1>4. \A j \in stop_queue : /\ j \in JobIds /\ jobs[j] \in Registered /\ IsStopped(jobs[j])
                            /\ run_job[jobs[j]] = j
  BY <1>2, <1>3 DEF Inv, TypeOK, CalmInv, SignalledJobs
<1>5. \A j \in stop_queue, c \in Clients : pc[c] \in Stopping => cmd_job[c] = j
  BY <1>4 DEF IsStopped, Inv, CommandsInv, Locked
<1>6. \A j, i \in stop_queue : i = j
  BY <1>4 DEF IsStopped
<1> QED
  BY <1>2, <1>3, <1>4, <1>5, <1>6

(* The event thread's first step (_event_thread_proc): an item it takes is     *)
(* about the registered run, and the end of a worker is its run's last item.   *)
LEMMA CalmEventGet ==
    ASSUME Inv, CalmInv, Same, EventGet
    PROVE  CalmInv'
<1> DEFINE item == event_queue[1]
           r == item.run
<1>1. Pops /\ Head(event_queue) = item /\ 1 \in Positions
  BY PopsMovesUp DEF Pops, EventGet, Inv, TypeOK
<1>2. item \in QueueItems
  BY <1>1, PopsMovesUp
<1>3. item.job \in JobIds /\ r \in Runs /\ jobs[item.job] = r /\ r # 0
  BY <1>1, <1>2, BoundsAssumption DEF QueueItems, CalmInv, QueueHasJobs, Positions, Runs
<1>4. r \in Registered /\ r \in Started /\ run_job[r] = item.job /\ continuous[r]
  BY <1>3, OneIsStopped DEF Registered, CalmInv, CalmRuns
<1>5. UNCHANGED <<load, jobs, lock, stop_event, pc, cmd_job, run_job, continuous, job_stop,
                  test_error, worker, state, active, watcher>>
  BY DEF EventGet, clientVars, syncerVars, Same
<1>6. Started' = Started /\ Registered' = Registered /\ Load' = Load
  BY <1>5 DEF Started, Registered, Load
<1>7. \A k \in Positions' : k + 1 \in Positions /\ event_queue'[k] = event_queue[k + 1]
                            /\ k \in Nat
  BY <1>1, PopsMovesUp DEF Positions
<1>8. worker[r] # "new" /\ TypeOK
  BY <1>3, <1>4 DEF Inv, RunsInOrder
<1> HIDE DEF item
<1>9. QueueHasJobs'
  BY <1>5, <1>7 DEF CalmInv, QueueHasJobs, Positions
<1>10. FinishedIsLast'
  BY <1>5, <1>7 DEF CalmInv, FinishedIsLast
<1>11. CalmClients'
  BY <1>5 DEF CalmInv, CalmClients
<1>12. CASE item.event = Finished
  <2>1. stop_queue' = stop_queue \cup {item.job} /\ ev_pc' = "set" /\ ev_job' = item.job
        /\ UNCHANGED job_state
    BY <1>1, <1>3, <1>4, <1>12 DEF EventGet
  <2>2. worker[r] = "done" /\ \A k \in Positions : k > 1 => event_queue[k].run # r
    BY <1>1, <1>12 DEF CalmInv, FinishedIsLast, item
  <2>3. \A k \in Positions' : event_queue'[k].run # r
    BY <2>2, <1>7, <1>1, PopsMovesUp DEF Positions
  <2>4. SignalledJobs'
    <3> SUFFICES ASSUME NEW j \in stop_queue'
                 PROVE  /\ jobs[j] # 0 /\ worker[jobs[j]] = "done"
                        /\ \A k \in Positions' : event_queue'[k].run # jobs[j]
      BY <1>5 DEF SignalledJobs
    <3>1. CASE j \in stop_queue
      BY <3>1, <1>7 DEF CalmInv, SignalledJobs
    <3>2. CASE j = item.job
      BY <3>2, <2>2, <2>3, <1>3
    <3> QED
      BY <3>1, <3>2, <2>1
  <2>5. \A j \in stop_queue : j # item.job
    BY <1>1, <1>3 DEF CalmInv, SignalledJobs, item
  <2>6. IsStopped(r)
    BY <2>2, <1>4, OneIsStopped
  <2>7. stop_queue = {}
    BY <2>5, <2>6, <1>4, OneIsStopped DEF IsStopped
  <2>8. ~stop_event /\ \A c \in Clients : pc[c] # "check" /\ pc[c] # "clear"
    BY <2>7 DEF CalmInv, HandShake
  <2>9. HandShake'
    BY <2>1, <2>8, <1>5 DEF HandShake
  <2>10. 1 \notin StateItems(r) /\ \A q : q # r => 1 \notin StateItems(q)
    BY <1>12 DEF StateItems, States, Finished, item
  <2>11. \A q, s : WillSay(q, s) => WillSay(q, s)'
    BY <2>1, <2>10, <1>1, PopsKeepsWillSay
  <2>12. CalmRuns'
    BY <2>1, <1>5, <1>6 DEF CalmInv, CalmRuns, IsStopped
  <2>13. StatesReported'
    <3> SUFFICES ASSUME NEW q \in Runs
                 PROVE  WillSay(q, state[q]) => WillSay(q, state[q])'
      BY <1>5, <1>6 DEF CalmInv, StatesReported
    <3>1. PICK s : s = state[q]
      OBVIOUS
    <3>2. WillSay(q, s) => WillSay(q, s)'
      BY <2>11
    <3> QED
      BY <3>1, <3>2, <1>5 DEF WillSay
  <2> QED
    BY <1>9, <1>10, <1>11, <2>4, <2>9, <2>12, <2>13 DEF CalmInv
<1>13. CASE item.event # Finished
  <2>1. UNCHANGED <<stop_queue, ev_pc, ev_job>>
        /\ job_state' = IF item.event \in States
                        THEN [job_state EXCEPT ![r] = item.event]
                        ELSE job_state
    BY <1>1, <1>3, <1>13 DEF EventGet
  <2>2. SignalledJobs'
    BY <2>1, <1>5, <1>7 DEF CalmInv, SignalledJobs
  <2>3. HandShake'
    BY <2>1, <1>5 DEF CalmInv, HandShake
  <2>4. \A q \in Runs : IF 1 \in StateItems(q) THEN job_state'[q] = event_queue[1].event
                                              ELSE job_state'[q] = job_state[q]
    BY <2>1, <1>1, <1>3, <1>8 DEF StateItems, TypeOK, item
  <2>5. \A q \in Runs : \A s : WillSay(q, s) => WillSay(q, s)'
    BY <2>4, <1>1, PopsKeepsWillSay
  <2>6. CalmRuns'
    <3>1. \A q \in Runs : worker[q] = "new" => job_state'[q] = job_state[q]
      BY <2>1, <1>3, <1>8 DEF TypeOK
    <3> QED
      BY <3>1, <1>5, <1>6 DEF CalmInv, CalmRuns, IsStopped
  <2>7. StatesReported'
    <3> SUFFICES ASSUME NEW q \in Runs
                 PROVE  WillSay(q, state[q]) => WillSay(q, state[q])'
      BY <1>5, <1>6 DEF CalmInv, StatesReported
    <3>1. PICK s : s = state[q]
      OBVIOUS
    <3>2. WillSay(q, s) => WillSay(q, s)'
      BY <2>5
    <3> QED
      BY <3>1, <3>2, <1>5 DEF WillSay
  <2> QED
    BY <1>9, <1>10, <1>11, <2>2, <2>3, <2>6, <2>7 DEF CalmInv
<1> QED
  BY <1>12, <1>13

(* Its second step wakes the stop command, which has not been woken for this   *)
(* job before.                                                                *)
LEMMA CalmEventSet ==
    ASSUME Inv, CalmInv, Same, EventSet
    PROVE  CalmInv'
<1>1. /\ UNCHANGED <<load, jobs, lock, stop_queue, event_queue, pc, cmd_job, run_job, continuous,
                     job_state, job_stop, test_error, worker, state, active, watcher>>
      /\ stop_event' = TRUE /\ ev_pc = "set" /\ ev_pc' = "get"
  BY DEF EventSet, clientVars, jobVars, syncerVars, Same
<1>2. /\ Started' = Started /\ Registered' = Registered /\ Load' = Load
      /\ Positions' = Positions
  BY <1>1 DEF Started, Registered, Load, Positions
<1>3. \A q, s : WillSay(q, s) => WillSay(q, s)'
  BY <1>1, <1>2 DEF WillSay, StateItems
<1>4. StatesReported'
  <2> SUFFICES ASSUME NEW q \in Runs
               PROVE  WillSay(q, state[q]) => WillSay(q, state[q])'
    BY <1>1, <1>2 DEF CalmInv, StatesReported
  <2>1. PICK s : s = state[q]
    OBVIOUS
  <2>2. WillSay(q, s) => WillSay(q, s)'
    BY <1>3
  <2> QED
    BY <2>1, <2>2, <1>1 DEF WillSay
<1>5. HandShake'
  BY <1>1 DEF CalmInv, HandShake
<1>6. CalmRuns' /\ CalmClients' /\ QueueHasJobs' /\ FinishedIsLast' /\ SignalledJobs'
  BY <1>1, <1>2 DEF CalmInv, CalmRuns, IsStopped, CalmClients, QueueHasJobs, FinishedIsLast,
     SignalledJobs
<1> QED
  BY <1>4, <1>5, <1>6 DEF CalmInv

-----------------------------------------------------------------------------
(* The commands. *)

(* The commands leave what the syncers report as it is.                       *)
LEMMA SilentSteps ==
    ASSUME UNCHANGED <<event_queue, job_state, state, watcher>>
    PROVE  /\ Positions' = Positions
           /\ \A q : WillSay(q, state[q]) => WillSay(q, state[q])'
<1>1. Positions' = Positions
  BY DEF Positions
<1> QED
  BY <1>1 DEF WillSay, StateItems

(* While nobody has SyncDaemon.lock, no job is being stopped and no signal is  *)
(* left over.                                                                 *)
LEMMA NothingLeftOver ==
    ASSUME Inv, CalmInv, lock = None
    PROVE  /\ stop_queue = {} /\ ~stop_event /\ ev_pc # "set"
           /\ \A q \in Registered : ~IsStopped(q) /\ ~job_stop[q]
           /\ \A d \in Clients : pc[d] \notin Stopping
<1>1. \A q : ~IsStopped(q)
  BY NoneAssumption DEF IsStopped
<1>2. stop_queue = {}
  BY <1>1, OneIsStopped
<1>3. \A q \in Registered : ~job_stop[q]
  BY <1>1 DEF CalmInv, CalmRuns, Registered, Started
<1>4. \A d \in Clients : pc[d] \notin Stopping
  BY NoneAssumption DEF Inv, CommandsInv, Locked
<1> QED
  BY <1>1, <1>2, <1>3, <1>4 DEF CalmInv, HandShake

(* A stop command's steps that neither register nor remove a job.             *)
LEMMA CalmQuietCommands ==
    ASSUME Inv, Calm, CalmInv, Same, NEW c \in Clients,
           \/ StopBegin(c) \/ StopLocked(c) \/ StopWaited(c) \/ StopClears(c)
           \/ StopJoined(c)
    PROVE  CalmInv'
<1> USE DEF At, Goto
<1>1. /\ TypeOK /\ CalmRuns /\ CalmClients /\ HandShake /\ SignalledJobs
      /\ \A d \in Clients : pc[d] \in Stopping => lock = d
  BY DEF Inv, CalmInv, CommandsInv, Locked
<1>2. UNCHANGED <<load, event_queue, run_job, continuous, job_state, test_error, worker, state,
                  active, watcher, stop_queue, ev_pc, ev_job>>
  BY DEF Same, StopBegin, StopLocked, StopWaited, StopClears, StopJoined, daemonVars,
     jobVars, syncerVars
<1>3. StopJoined(c) => /\ cmd_job[c] \in JobIds /\ continuous[jobs[cmd_job[c]]]
                       /\ pc[c] = "join"
  <2> SUFFICES ASSUME StopJoined(c)
               PROVE  cmd_job[c] \in JobIds /\ continuous[jobs[cmd_job[c]]] /\ pc[c] = "join"
    OBVIOUS
  <2>1. cmd_job[c] \in JobIds /\ jobs[cmd_job[c]] # 0 /\ pc[c] = "join"
    BY DEF StopJoined, Inv, CommandsInv, Stops, Stopping
  <2> QED
    BY <2>1, OneIsStopped DEF CalmInv, CalmRuns, Registered, Started
<1>4. UNCHANGED jobs
  BY <1>3 DEF StopBegin, StopLocked, StopWaited, StopClears, StopJoined, daemonVars
<1>5. /\ Started' = Started /\ Registered' = Registered /\ Load' = Load
      /\ Positions' = Positions
  BY <1>2, <1>4 DEF Started, Registered, Load, Positions
<1>6. QueueHasJobs' /\ FinishedIsLast' /\ SignalledJobs'
  BY <1>2, <1>4, <1>5 DEF CalmInv, QueueHasJobs, FinishedIsLast, SignalledJobs
<1>7. StatesReported'
  BY <1>2, <1>5, SilentSteps DEF CalmInv, StatesReported
<1>8. \A q \in Runs :
         \/ job_stop'[q] = job_stop[q] /\ (IsStopped(q) => IsStopped(q)')
         \/ lock = None /\ worker[q] # "new" /\ IsStopped(q)'
         \/ lock = None /\ job_stop'[q] = job_stop[q]
  <2>1. CASE StopBegin(c)
    <3>1. /\ pc[c] = "idle" /\ UNCHANGED <<lock, job_stop>> /\ pc' = [pc EXCEPT ![c] = "stop"]
          /\ \A d \in Clients \ {c} : cmd_job'[d] = cmd_job[d]
      BY <2>1, <1>1 DEF StopBegin, daemonVars, jobVars, TypeOK
    <3>2. \A d \in Clients \ {c} : pc'[d] = pc[d]
      BY <3>1, <1>1 DEF TypeOK
    <3>3. pc[c] \notin Stopping
      BY <3>1 DEF Stopping
    <3>4. \A q : IsStopped(q) => IsStopped(q)'
      BY <3>1, <3>2, <3>3, <1>2 DEF IsStopped
    <3> QED
      BY <3>1, <3>4
  <2>2. CASE StopLocked(c) /\ jobs[cmd_job[c]] = 0
    BY <2>2, <1>2 DEF StopLocked
  <2>3. CASE StopLocked(c) /\ jobs[cmd_job[c]] # 0
    <3>1. /\ lock = None /\ lock' = c /\ pc'[c] = "join" /\ cmd_job'[c] = cmd_job[c]
          /\ job_stop' = [job_stop EXCEPT ![jobs[cmd_job[c]]] = @ \/ continuous[jobs[cmd_job[c]]]]
          /\ cmd_job[c] \in JobIds
      BY <2>3, <1>1 DEF StopLocked, Signal, TypeOK, Inv, CommandsInv, Stops
    <3>2. /\ jobs[cmd_job[c]] \in Registered /\ run_job[jobs[cmd_job[c]]] = cmd_job[c]
      BY <2>3, <3>1, OneIsStopped
    <3>3. \A q \in Runs : q # jobs[cmd_job[c]] => job_stop'[q] = job_stop[q]
      BY <3>1, <1>1 DEF TypeOK
    <3>4. \A q : q = jobs[cmd_job[c]] => IsStopped(q)' /\ worker[q] # "new"
      BY <3>1, <3>2, <1>2, <1>4 DEF IsStopped, Stopping, Registered, Started, Inv, RunsInOrder
    <3> SUFFICES ASSUME NEW q \in Runs
                 PROVE  \/ worker[q] # "new" /\ IsStopped(q)'
                        \/ job_stop'[q] = job_stop[q]
      BY <3>1
    <3>5. CASE q = jobs[cmd_job[c]]
      BY <3>4, <3>5
    <3> QED
      BY <3>3, <3>5
  <2>4. CASE StopWaited(c) \/ StopClears(c) \/ StopJoined(c)
    <3>1. /\ UNCHANGED <<lock, cmd_job, job_stop>>
          /\ pc[c] \in Stopping /\ pc'[c] \in Stopping
          /\ \A d \in Clients \ {c} : pc'[d] = pc[d]
      BY <2>4, <1>1, <1>3 DEF StopWaited, StopClears, StopJoined, daemonVars, jobVars, Stopping,
         TypeOK
    <3>2. \A q : IsStopped(q) => IsStopped(q)'
      BY <3>1, <1>2 DEF IsStopped
    <3> QED
      BY <3>1, <3>2
  <2> QED
    BY <2>1, <2>2, <2>3, <2>4
<1>9. CalmRuns'
  <2> SUFFICES ASSUME NEW q \in Runs
               PROVE  /\ worker[q] = "new" => ~job_stop'[q]
                      /\ job_stop[q] => job_stop'[q]
                      /\ q \in Registered /\ job_stop'[q] => IsStopped(q)'
    BY <1>1, <1>2, <1>5 DEF CalmRuns
  <2>1. job_stop[q] => job_stop'[q]
    BY <1>1 DEF StopBegin, StopLocked, StopWaited, StopClears, StopJoined, Signal, jobVars, TypeOK
  <2>2. lock = None /\ q \in Registered => ~job_stop[q]
    BY NothingLeftOver
  <2> QED
    BY <2>1, <2>2, <1>1, <1>8 DEF CalmRuns
<1>10. CalmClients'
  BY <1>1, <1>3 DEF CalmClients, StopBegin, StopLocked, StopWaited, StopClears, StopJoined, Return,
     Stopping, TypeOK
<1>11. HandShake'
  <2>1. CASE StopBegin(c) \/ StopLocked(c) \/ StopJoined(c)
    <3>1. UNCHANGED stop_event
      BY <2>1 DEF StopBegin, StopLocked, StopJoined, daemonVars
    <3>2. \A d \in Clients : pc'[d] \in {"clear", "check"} => pc[d] = pc'[d] /\ cmd_job'[d] = cmd_job[d]
      BY <2>1, <1>1, <1>3 DEF StopBegin, StopLocked, StopJoined, Return, TypeOK
    <3> QED
      BY <3>1, <3>2, <1>1, <1>2 DEF HandShake
  <2>2. CASE StopWaited(c)
    <3>1. /\ stop_event /\ UNCHANGED <<stop_event, cmd_job>>
          /\ pc' = [pc EXCEPT ![c] = "clear"]
      BY <2>2 DEF StopWaited, daemonVars
    <3> QED
      BY <3>1, <1>1, <1>2 DEF HandShake, TypeOK
  <2>3. CASE StopClears(c)
    <3>1. /\ pc[c] = "clear" /\ stop_event' = FALSE /\ UNCHANGED cmd_job
          /\ pc' = [pc EXCEPT ![c] = "check"]
      BY <2>3 DEF StopClears
    <3>2. stop_event /\ stop_queue # {} /\ ev_pc = "get"
      BY <3>1, <1>1 DEF HandShake, TypeOK
    <3>3. cmd_job[c] \in stop_queue
      BY <3>1, <3>2, OneIsStopped DEF Stopping
    <3>4. \A d \in Clients \ {c} : pc'[d] \notin {"clear", "check"}
      BY <3>1, <1>1 DEF TypeOK, Stopping
    <3> QED
      BY <3>1, <3>2, <3>3, <3>4, <1>1, <1>2 DEF HandShake, TypeOK
  <2> QED
    BY <2>1, <2>2, <2>3
<1> QED
  BY <1>6, <1>7, <1>9, <1>10, <1>11 DEF CalmInv

(* start_sync begins with nothing left over from the runs before.             *)
LEMMA CalmStart ==
    ASSUME Inv, Calm, CalmInv, Same, BoundsAssumption, NEW c \in Clients, Start(c)
    PROVE  CalmInv'
<1> DEFINE n == NextRun
<1>1. TypeOK /\ RunsInOrder /\ lock = None
  BY DEF Inv, Start
<1>2. n \in Runs /\ n \notin Started
  BY <1>1, NextRunIsNew DEF Start
<1>3. PICK j \in JobIds, k \in BOOLEAN, f \in Load.filters :
         /\ jobs[j] = 0 /\ (IF k THEN "start" ELSE "one_shot") \in Load.ops
         /\ jobs' = [jobs EXCEPT ![j] = n]
         /\ run_job' = [run_job EXCEPT ![n] = j]
         /\ continuous' = [continuous EXCEPT ![n] = k]
         /\ active' = [active EXCEPT ![n] = f]
  BY DEF Start
<1>4. k = TRUE
  BY <1>3 DEF Calm
<1>5. /\ worker' = [worker EXCEPT ![n] = "start"]
      /\ UNCHANGED <<load, lock, stop_queue, stop_event, ev_pc, ev_job, event_queue, pc, cmd_job,
                     job_state, job_stop, test_error, state, watcher>>
  BY DEF Start, clientVars, Same
<1> HIDE DEF n
<1>6. Runs \subseteq Nat \ {0}
  BY BoundsAssumption DEF Runs
<1>7. worker[n] = "new" /\ watcher[n] = "off"
  BY <1>1, <1>2 DEF Inv, RunsInOrder, WatcherWithinWorker, Watching
<1>8. state[n] = "STOPPED" /\ job_state[n] = "STOPPED" /\ ~job_stop[n]
  BY <1>2, <1>7 DEF CalmInv, CalmRuns
<1>9. Started' = Started \cup {n}
  BY <1>1, <1>2, <1>3, NoneAssumption DEF TypeOK, Started
<1>10. Registered' = Registered \cup {n}
  BY <1>1, <1>2, <1>3, <1>6, <1>9 DEF TypeOK, Registered, Started
<1>11. Load' = Load /\ Positions' = Positions
  BY <1>5 DEF Load, Positions
<1>12. \A i \in Positions : /\ event_queue[i].job \in JobIds /\ event_queue[i].run \in Started
                            /\ event_queue[i].job # j
  <2> SUFFICES ASSUME NEW i \in Positions
               PROVE  /\ event_queue[i].job \in JobIds /\ event_queue[i].run \in Started
                      /\ event_queue[i].job # j
    OBVIOUS
  <2>1. event_queue[i] \in QueueItems
    BY <1>1, ElementOfSeq DEF TypeOK, Positions
  <2>2. /\ event_queue[i].job \in JobIds /\ event_queue[i].run \in Runs
        /\ jobs[event_queue[i].job] = event_queue[i].run
    BY <2>1 DEF QueueItems, CalmInv, QueueHasJobs, Positions
  <2> QED
    BY <2>2, <1>3, <1>6, OneIsStopped DEF Registered
<1>13. QueueHasJobs'
  BY <1>1, <1>3, <1>5, <1>11, <1>12 DEF CalmInv, QueueHasJobs, Positions, TypeOK
<1>14. FinishedIsLast'
  BY <1>1, <1>2, <1>5, <1>11, <1>12 DEF CalmInv, FinishedIsLast, TypeOK, Started
<1>15. SignalledJobs' /\ HandShake'
  BY <1>1, <1>5, NothingLeftOver DEF SignalledJobs, HandShake, Stopping
<1>16. CalmClients'
  BY <1>5 DEF CalmInv, CalmClients
<1>17. CalmRuns'
  <2> SUFFICES ASSUME NEW q \in Runs
               PROVE  /\ ~test_error[q]
                      /\ worker'[q] \in {"new", "start", "wait", "stop_sync", "finish", "done"}
                      /\ worker'[q] = "new" =>
                            state[q] = "STOPPED" /\ job_state[q] = "STOPPED" /\ ~job_stop[q]
                      /\ worker'[q] \in {"stop_sync", "finish", "done"} => job_stop[q]
                      /\ q \in Started' => continuous'[q] /\ active'[q] \in Load.filters
                      /\ q \in Registered' => ~job_stop[q]
    BY <1>5, <1>11 DEF CalmRuns
  <2>1. CASE q = n
    BY <2>1, <1>1, <1>2, <1>3, <1>4, <1>5, <1>8 DEF TypeOK, CalmInv, CalmRuns
  <2>2. CASE q # n
    BY <2>2, <1>1, <1>3, <1>5, <1>9, <1>10, NothingLeftOver DEF TypeOK, CalmInv, CalmRuns
  <2> QED
    BY <2>1, <2>2
<1>18. StatesReported'
  <2> SUFFICES ASSUME NEW q \in Runs
               PROVE  q \in Registered' /\ "state" \in active'[q] /\ watcher[q] \notin Putting
                        => WillSay(q, state[q])'
    BY <1>5 DEF CalmInv, StatesReported
  <2>1. WillSay(q, state[q]) => WillSay(q, state[q])'
    BY <1>5, SilentSteps
  <2>2. CASE q = n
    <3>1. StateItems(n) = {}
      BY <1>2, <1>12 DEF StateItems
    <3>2. WillSay(n, state[n])
      BY <3>1, <1>8 DEF WillSay
    <3> QED
      BY <2>1, <2>2, <3>2
  <2>3. CASE q # n
    BY <2>1, <2>3, <1>1, <1>3, <1>10 DEF CalmInv, StatesReported, TypeOK
  <2> QED
    BY <2>2, <2>3
<1> QED
  BY <1>13, <1>14, <1>15, <1>16, <1>17, <1>18 DEF CalmInv

(* stop_sync finds the signal it waited for, and the job it removes has no     *)
(* event left.                                                                *)
LEMMA CalmStopChecks ==
    ASSUME Inv, Calm, CalmInv, Same, NEW c \in Clients, StopChecks(c)
    PROVE  CalmInv'
<1> DEFINE j == cmd_job[c]
           n == jobs[j]
<1>1. TypeOK /\ pc[c] = "check"
  BY DEF Inv, StopChecks, At
<1>2. j \in stop_queue /\ ~stop_event /\ ev_pc = "get"
  BY <1>1 DEF CalmInv, HandShake
<1>3. /\ j \in JobIds /\ n \in Registered /\ n \in Runs /\ n # 0 /\ run_job[n] = j
      /\ \A k \in Positions : event_queue[k].run # n
      /\ IsStopped(n) /\ lock = c /\ stop_queue = {j}
  BY <1>1, <1>2, OneIsStopped DEF CalmInv, SignalledJobs, Registered, Started, Inv,
     CommandsInv, Locked, Stopping
<1>4. /\ stop_queue' = {} /\ jobs' = [jobs EXCEPT ![j] = 0]
      /\ pc' = [pc EXCEPT ![c] = "idle"]
  BY <1>2, <1>3 DEF StopChecks, Unregister, Return
<1>5. UNCHANGED <<load, stop_event, ev_pc, ev_job, event_queue, run_job, continuous, job_state,
                  job_stop, test_error, worker, state, active, watcher>>
  BY DEF StopChecks, jobVars, syncerVars, Same
<1> HIDE DEF j, n
<1>6. /\ Started' = Started /\ Load' = Load /\ Positions' = Positions
      /\ Registered' = Registered \ {n}
  <2>1. Started' = Started /\ Load' = Load /\ Positions' = Positions
    BY <1>5 DEF Started, Load, Positions
  <2>2. \A r \in Started : jobs'[run_job[r]] = r <=> jobs[run_job[r]] = r /\ r # n
    <3> SUFFICES ASSUME NEW r \in Started
                 PROVE  jobs'[run_job[r]] = r <=> jobs[run_job[r]] = r /\ r # n
      OBVIOUS
    <3>1. run_job[r] \in JobIds /\ r # 0
      BY <1>1, BoundsAssumption DEF Started, TypeOK, Runs
    <3>2. CASE run_job[r] = j
      BY <3>1, <3>2, <1>1, <1>3, <1>4 DEF TypeOK, n
    <3>3. CASE run_job[r] # j
      BY <3>1, <3>3, <1>1, <1>3, <1>4 DEF TypeOK
    <3> QED
      BY <3>2, <3>3
  <2> QED
    BY <2>1, <2>2, <1>5 DEF Registered
<1>7. QueueHasJobs'
  <2> SUFFICES ASSUME NEW k \in Positions
               PROVE  jobs'[event_queue[k].job] = event_queue[k].run
    BY <1>5, <1>6 DEF QueueHasJobs, Positions
  <2>1. event_queue[k] \in QueueItems
    BY <1>1, ElementOfSeq DEF TypeOK, Positions
  <2>2. jobs[event_queue[k].job] = event_queue[k].run /\ event_queue[k].job \in JobIds
    BY <2>1 DEF CalmInv, QueueHasJobs, Positions, QueueItems
  <2>3. event_queue[k].job # j
    BY <2>2, <1>3 DEF n
  <2> QED
    BY <2>2, <2>3, <1>1, <1>4 DEF TypeOK
<1>8. FinishedIsLast' /\ SignalledJobs'
  BY <1>4, <1>5, <1>6 DEF CalmInv, FinishedIsLast, SignalledJobs
<1>9. HandShake' /\ CalmClients'
  <2>1. \A d \in Clients : d # c => pc[d] \notin Stopping
    BY <1>3 DEF Inv, CommandsInv, Locked
  <2> QED
    BY <2>1, <1>1, <1>2, <1>4, <1>5 DEF HandShake, CalmInv, CalmClients, TypeOK, Stopping
<1>10. CalmRuns'
  <2>1. \A r \in Registered : job_stop[r] => r = n
    <3> SUFFICES ASSUME NEW r \in Registered, job_stop[r] PROVE r = n
      OBVIOUS
    <3>1. IsStopped(r) /\ r \in Runs
      BY DEF CalmInv, CalmRuns, Registered, Started
    <3>2. run_job[r] = j
      BY <3>1, <1>3 DEF IsStopped, j
    <3> QED
      BY <3>2 DEF Registered, n
  <2> QED
    BY <2>1, <1>5, <1>6 DEF CalmInv, CalmRuns
<1>11. StatesReported'
  BY <1>5, <1>6, SilentSteps DEF CalmInv, StatesReported
<1> QED
  BY <1>7, <1>8, <1>9, <1>10, <1>11 DEF CalmInv

-----------------------------------------------------------------------------
(* The invariant holds in a calm load. *)

(* When the daemon starts, nothing is queued and nobody waits.                *)
LEMMA CalmInit ==
    ASSUME Init, NoneAssumption
    PROVE  CalmInv
<1>1. Started = {} /\ Registered = {} /\ Positions = {}
  BY DEF Init, Started, Registered, Positions
<1>2. CalmRuns /\ CalmClients
  BY <1>1 DEF Init, CalmRuns, CalmClients
<1>3. QueueHasJobs /\ FinishedIsLast /\ SignalledJobs /\ HandShake
  BY <1>1 DEF Init, QueueHasJobs, FinishedIsLast, SignalledJobs, HandShake, Positions
<1>4. StatesReported
  BY <1>1 DEF Init, StatesReported
<1> QED
  BY <1>2, <1>3, <1>4 DEF CalmInv

(* Every step of the daemon keeps it.                                         *)
LEMMA CalmNext ==
    ASSUME Inv, Calm, CalmInv, BoundsAssumption, [Next]_vars
    PROVE  CalmInv'
<1>1. CASE UNCHANGED vars
  <2>1. /\ UNCHANGED <<load, jobs, lock, event_queue, stop_queue, stop_event, ev_pc, ev_job, pc,
                       cmd_job, run_job, continuous, job_state, job_stop, test_error, worker,
                       state, active, watcher>>
    BY <1>1 DEF vars
  <2>2. /\ Started' = Started /\ Registered' = Registered /\ Load' = Load
        /\ Positions' = Positions
    BY <2>1 DEF Started, Registered, Load, Positions
  <2>3. CalmRuns' /\ CalmClients' /\ QueueHasJobs'
    BY <2>1, <2>2 DEF CalmInv, CalmRuns, IsStopped, CalmClients, QueueHasJobs
  <2>4. FinishedIsLast' /\ SignalledJobs' /\ HandShake'
    BY <2>1, <2>2 DEF CalmInv, FinishedIsLast, SignalledJobs, HandShake
  <2>5. StatesReported'
    BY <2>1, <2>2, SilentSteps DEF CalmInv, StatesReported
  <2> QED
    BY <2>3, <2>4, <2>5 DEF CalmInv
<1>2. CASE EventStep /\ Same
  BY <1>2, CalmEventGet, CalmEventSet DEF EventStep
<1>3. ASSUME NEW r \in Runs, WorkerStep(r) \/ WatcherBatch(r) \/ WatcherStep(r), Same
      PROVE  CalmInv'
  BY <1>3, CalmWorkerStep, CalmWatcherStep
<1>4. ASSUME NEW c \in Clients, Command(c) \/ CommandStep(c), Same
      PROVE  CalmInv'
  <2>1. pc[c] \notin {"test_join", "stop_all"}
    BY DEF CalmInv, CalmClients, Stopping
  <2>2. \/ StopBegin(c) \/ StopLocked(c) \/ StopWaited(c) \/ StopClears(c) \/ StopJoined(c)
        \/ Start(c) \/ StopChecks(c)
    BY <2>1, <1>4 DEF Command, CommandStep, ActiveEvents, TestError, StopAll, Calm,
       TestErrorJoined, StopAllSignals, StopAllJoins, StopAllEnds, At
  <2> QED
    BY <2>2, <1>4, CalmQuietCommands, CalmStart, CalmStopChecks
<1> QED
  BY <1>1, <1>2, <1>3, <1>4 DEF Next

(* The life of the runs, the queue and the hand-shake of a calm load           *)
(* (daemon.py) are as the invariant says in every reachable state.            *)
THEOREM CalmInvariance == Spec => [](Calm => CalmInv)
<1>1. Init => CalmInv
  BY CalmInit, NoneAssumption
<1>2. Inv /\ (Calm => CalmInv) /\ [Next]_vars => (Calm => CalmInv)'
  <2> SUFFICES ASSUME Inv, Calm => CalmInv, [Next]_vars, Calm'
               PROVE  CalmInv'
    OBVIOUS
  <2>1. Calm
    BY DEF Next, Same, vars, Calm, Load
  <2> QED
    BY <2>1, CalmNext, BoundsAssumption
<1> QED
  BY <1>1, <1>2, Invariance, PTL DEF Spec

(* Neither "nonexistent job, shouldn't happen" (_event_thread_proc) nor        *)
(* "something very wrong happened" (stop_sync) is ever reached.               *)
THEOREM NoInternalErrors == Spec => []NoInternalError
<1>1. (Calm => CalmInv) => NoInternalError
  BY DEF CalmInv, NoInternalError, HandShake, SignalIsItsOwn, At
<1> QED
  BY <1>1, CalmInvariance, PTL

(* When clients ask for state events, the state the daemon reports for a job   *)
(* at rest (job_state) is the state of its syncer.                            *)
THEOREM JobStatesAgree ==
    ASSUME \A k \in DOMAIN Loads : \A f \in Loads[k].filters : "state" \in f
    PROVE  Spec => []JobStateAgrees
<1>1. Inv /\ (Calm => CalmInv) => JobStateAgrees
  <2> SUFFICES ASSUME Inv, CalmInv, Calm, NEW r \in Registered,
                      watcher[r] \in {"off", "idle"},
                      \A k \in 1..Len(event_queue) : event_queue[k].run # r
               PROVE  job_state[r] = state[r]
    BY DEF JobStateAgrees
  <2>1. r \in Started /\ r \in Runs
    BY DEF Registered, Started
  <2>2. "state" \in active[r]
    BY <2>1 DEF CalmInv, CalmRuns, Inv, TypeOK, Load
  <2>3. StateItems(r) = {}
    BY DEF StateItems, Positions
  <2>4. WillSay(r, state[r])
    BY <2>1, <2>2 DEF CalmInv, StatesReported, Putting
  <2> QED
    BY <2>3, <2>4 DEF WillSay
<1> QED
  BY <1>1, Invariance, CalmInvariance, PTL
=============================================================================
