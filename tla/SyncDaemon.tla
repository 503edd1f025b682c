---------------------------- MODULE SyncDaemon ----------------------------
(***************************************************************************)
(* The sync daemon (wildland/storage_sync/daemon.py): control connections  *)
(* start and stop sync jobs, each job has a worker thread around a syncer, *)
(* the syncer's watcher thread reports events on its own, and one event    *)
(* thread drains the queue all of them write to.                           *)
(*                                                                         *)
(* What a syncer does to the storages is NaiveSync.tla; here it is its     *)
(* state property (storage_sync/base.py) and the calls that may raise.     *)
(* A job is known to the daemon by its id; Runs numbers the SyncJob        *)
(* objects, so that an id started again is another run.                    *)
(***************************************************************************)
EXTENDS Naturals, Sequences, FiniteSets

CONSTANTS
    Clients,    \* control connections, one handler thread each
    JobIds,     \* containers
    MaxRuns,    \* bound: jobs started during a behaviour
    Loads,      \* what may happen during a behaviour, by name
    None

ASSUME NoneAssumption == None \notin Clients \cup JobIds
ASSUME BoundsAssumption == MaxRuns \in Nat

(* A load: ops, the commands clients send; failures, which of a syncer's calls *)
(* may raise; filters, the active events clients ask for; batches, the bound   *)
(* on batches of storage events per run.                                       *)
ASSUME LoadsAssumption ==
    \A k \in DOMAIN Loads :
        /\ DOMAIN Loads[k] = {"ops", "failures", "filters", "batches"}
        /\ Loads[k].failures \subseteq {"start", "batch", "stop"}
        /\ Loads[k].filters \subseteq SUBSET {"state", "error"}
        /\ Loads[k].batches \in Nat

VARIABLES
    load,        \* the name of the load, which never changes
    jobs,        \* SyncDaemon.jobs: job id -> run, 0 when absent
    lock,        \* SyncDaemon.lock: the client inside, or None
    event_queue, \* what workers and watchers reported: [job, run, event]
    stop_queue, stop_event,          \* the hand-shake of stop_sync
    ev_pc, ev_job,                   \* the event thread
    pc, cmd_job, rest,               \* each client: command, its job, runs to stop
    run_job, continuous, job_state,  \* each SyncJob
    job_stop, test_error, worker,
    state, active, watcher, batches  \* its syncer

daemonVars == <<jobs, lock, stop_queue, stop_event, ev_pc, ev_job>>
clientVars == <<pc, cmd_job, rest>>
jobVars == <<run_job, continuous, job_state, job_stop, test_error, worker>>
syncerVars == <<state, active, watcher, batches>>
Load == Loads[load]

vars == <<load, jobs, lock, event_queue, stop_queue, stop_event, ev_pc, ev_job, pc, cmd_job, rest,
          run_job, continuous, job_state, job_stop, test_error, worker, state,
          active, watcher, batches>>

Runs == 1..MaxRuns
States == {"STOPPED", "RUNNING", "SYNCED", "ONE_SHOT", "ERROR"}
Finished == "finished"       \* the [job_id, None] item a worker ends with
Message == "error"           \* a SyncErrorEvent
Events == States \cup {Finished, Message}
QueueItems == [job : JobIds, run : Runs, event : Events]

Started == {r \in Runs : run_job[r] # None}
Registered == {r \in Started : jobs[run_job[r]] = r}

TypeOK ==
    /\ load \in DOMAIN Loads
    /\ jobs \in [JobIds -> Runs \cup {0}]
    /\ lock \in Clients \cup {None}
    /\ event_queue \in Seq(QueueItems)
    /\ stop_queue \in SUBSET JobIds
    /\ stop_event \in BOOLEAN
    /\ ev_pc \in {"get", "set"}
    /\ ev_job \in JobIds \cup {None}
    /\ pc \in [Clients -> {"idle", "stop", "join", "wait", "clear", "check",
                           "test_join", "stop_all"}]
    /\ cmd_job \in [Clients -> JobIds \cup {None}]
    /\ rest \in [Clients -> SUBSET Runs]
    /\ run_job \in [Runs -> JobIds \cup {None}]
    /\ continuous \in [Runs -> BOOLEAN]
    /\ job_state \in [Runs -> States]
    /\ job_stop \in [Runs -> BOOLEAN]
    /\ test_error \in [Runs -> BOOLEAN]
    /\ worker \in [Runs -> {"new", "start", "wait", "report", "check_ERROR", "set_ERROR",
                            "put_ERROR", "stop_sync", "finish", "done"}]
    /\ state \in [Runs -> States]
    /\ active \in [Runs -> SUBSET {"state", "error"}]
    /\ watcher \in [Runs -> {"off", "idle", "work", "check_RUNNING", "set_RUNNING",
                             "put_RUNNING", "check_ERROR", "set_ERROR", "put_ERROR",
                             "check_SYNCED", "set_SYNCED", "put_SYNCED"}]
    /\ batches \in [Runs -> 0..Load.batches]

Init ==
    /\ load \in DOMAIN Loads
    /\ jobs = [j \in JobIds |-> 0]
    /\ lock = None
    /\ event_queue = << >>
    /\ stop_queue = {}
    /\ stop_event = FALSE
    /\ ev_pc = "get"
    /\ ev_job = None
    /\ pc = [c \in Clients |-> "idle"]
    /\ cmd_job = [c \in Clients |-> None]
    /\ rest = [c \in Clients |-> {}]
    /\ run_job = [r \in Runs |-> None]
    /\ continuous = [r \in Runs |-> FALSE]
    /\ job_state = [r \in Runs |-> "STOPPED"]
    /\ job_stop = [r \in Runs |-> FALSE]
    /\ test_error = [r \in Runs |-> FALSE]
    /\ worker = [r \in Runs |-> "new"]
    /\ state = [r \in Runs |-> "STOPPED"]
    /\ active = [r \in Runs |-> {}]
    /\ watcher = [r \in Runs |-> "off"]
    /\ batches = [r \in Runs |-> 0]

-----------------------------------------------------------------------------
(* The queue, and the state setter of BaseSyncer: the check, the assignment   *)
(* and the notification are three steps, and no lock spans them.              *)

Put(r, events) ==
    event_queue' = event_queue \o
        [k \in 1..Len(events) |-> [job |-> run_job[r], run |-> r, event |-> events[k]]]

(* notify_event: an event of a kind that is not active is not reported.       *)
Notify(r, kind, events) ==
    IF kind \in active[r] THEN Put(r, events) ELSE UNCHANGED event_queue

Changes(r, s) == state[r] # "ERROR" /\ state[r] # s

Assign(r, s) == state' = [state EXCEPT ![r] = s]

(* The setter where no other thread of the syncer can run meanwhile.          *)
Set(r, s) == IF Changes(r, s) THEN Assign(r, s) /\ Notify(r, "state", <<s>>)
             ELSE UNCHANGED <<state, event_queue>>

-----------------------------------------------------------------------------
(* The worker thread: SyncJob._worker. *)

WorkerAt(r, where) == worker[r] = where
WorkerGoto(r, where) == worker' = [worker EXCEPT ![r] = where]

(* start_sync of a continuous job, from its watchers to its first full sync.  *)
WorkerStart(r) ==
    /\ WorkerAt(r, "start") /\ continuous[r]
    /\ watcher' = [watcher EXCEPT ![r] = "idle"]
    /\ state' = [state EXCEPT ![r] = "SYNCED"]
    /\ Notify(r, "state", <<"ONE_SHOT", "SYNCED">>)
    /\ WorkerGoto(r, "wait")
    /\ UNCHANGED <<daemonVars, clientVars, run_job, continuous, job_state, job_stop,
                   test_error, active, batches>>

(* It may raise before or after the watchers run.                             *)
WorkerStartFails(r) ==
    /\ "start" \in Load.failures /\ WorkerAt(r, "start") /\ continuous[r]
    /\ \E w \in {"off", "idle"} : watcher' = [watcher EXCEPT ![r] = w]
    /\ Set(r, "ONE_SHOT")
    /\ WorkerGoto(r, "report")
    /\ UNCHANGED <<daemonVars, clientVars, run_job, continuous, job_state, job_stop,
                   test_error, active, batches>>

WorkerOneShot(r) ==
    /\ WorkerAt(r, "start") /\ ~continuous[r]
    /\ state' = [state EXCEPT ![r] = "SYNCED"]
    /\ Notify(r, "state", <<"ONE_SHOT", "SYNCED">>)
    /\ WorkerGoto(r, "finish")
    /\ UNCHANGED <<daemonVars, clientVars, run_job, continuous, job_state, job_stop,
                   test_error, active, watcher, batches>>

WorkerOneShotFails(r) ==
    /\ "start" \in Load.failures /\ WorkerAt(r, "start") /\ ~continuous[r]
    /\ Set(r, "ONE_SHOT")
    /\ WorkerGoto(r, "report")
    /\ UNCHANGED <<daemonVars, clientVars, run_job, continuous, job_state, job_stop,
                   test_error, active, watcher, batches>>

(* stop_event.wait(); test_error makes the worker raise afterwards.           *)
WorkerWakes(r) ==
    /\ WorkerAt(r, "wait") /\ job_stop[r]
    /\ WorkerGoto(r, IF test_error[r] THEN "report" ELSE "stop_sync")
    /\ UNCHANGED <<daemonVars, clientVars, event_queue, run_job, continuous, job_state,
                   job_stop, test_error, syncerVars>>

(* The except clause: both events are queued, then the syncer's state is set. *)
WorkerReports(r) ==
    /\ WorkerAt(r, "report")
    /\ Put(r, <<Message, "ERROR">>)
    /\ WorkerGoto(r, "check_ERROR")
    /\ UNCHANGED <<daemonVars, clientVars, run_job, continuous, job_state, job_stop,
                   test_error, syncerVars>>

AfterError(r) == IF continuous[r] THEN "stop_sync" ELSE "finish"

WorkerChecksError(r) ==
    /\ WorkerAt(r, "check_ERROR")
    /\ WorkerGoto(r, IF Changes(r, "ERROR") THEN "set_ERROR" ELSE AfterError(r))
    /\ UNCHANGED <<daemonVars, clientVars, event_queue, run_job, continuous, job_state,
                   job_stop, test_error, syncerVars>>

WorkerSetsError(r) ==
    /\ WorkerAt(r, "set_ERROR")
    /\ Assign(r, "ERROR")
    /\ WorkerGoto(r, "put_ERROR")
    /\ UNCHANGED <<daemonVars, clientVars, event_queue, run_job, continuous, job_state,
                   job_stop, test_error, active, watcher, batches>>

WorkerNotifiesError(r) ==
    /\ WorkerAt(r, "put_ERROR")
    /\ Notify(r, "state", <<"ERROR">>)
    /\ WorkerGoto(r, AfterError(r))
    /\ UNCHANGED <<daemonVars, clientVars, run_job, continuous, job_state, job_stop,
                   test_error, syncerVars>>

(* Mutant: the state is assigned behind the setter's back. *)
WorkerStopsSyncSilently(r) ==
    /\ WorkerAt(r, "stop_sync") /\ watcher[r] \in {"off", "idle"}
    /\ watcher' = [watcher EXCEPT ![r] = "off"]
    /\ state' = [state EXCEPT ![r] = "STOPPED"]
    /\ WorkerGoto(r, "finish")
    /\ UNCHANGED <<daemonVars, clientVars, event_queue, run_job, continuous, job_state,
                   job_stop, test_error, active, batches>>

(* stop_sync joins the watcher threads, so it waits for a batch in progress.  *)
WorkerStopsSync(r) ==
    /\ WorkerAt(r, "stop_sync") /\ watcher[r] \in {"off", "idle"}
    /\ watcher' = [watcher EXCEPT ![r] = "off"]
    /\ Set(r, "STOPPED")
    /\ WorkerGoto(r, "finish")
    /\ UNCHANGED <<daemonVars, clientVars, run_job, continuous, job_state, job_stop,
                   test_error, active, batches>>

(* It raises out of the finally clause: the thread ends, nothing is queued.   *)
WorkerStopFails(r) ==
    /\ "stop" \in Load.failures
    /\ WorkerAt(r, "stop_sync") /\ watcher[r] \in {"off", "idle"}
    /\ watcher' = [watcher EXCEPT ![r] = "off"]
    /\ WorkerGoto(r, "done")
    /\ UNCHANGED <<daemonVars, clientVars, event_queue, run_job, continuous, job_state,
                   job_stop, test_error, state, active, batches>>

WorkerFinishes(r) ==
    /\ WorkerAt(r, "finish")
    /\ Put(r, <<Finished>>)
    /\ WorkerGoto(r, "done")
    /\ UNCHANGED <<daemonVars, clientVars, run_job, continuous, job_state, job_stop,
                   test_error, syncerVars>>

-----------------------------------------------------------------------------
(* A watcher thread of the syncer: NaiveSyncer._handle_events as far as the    *)
(* state goes.  The syncer's own lock leaves one such thread running.          *)

WatcherAt(r, where) == watcher[r] = where
WatcherGoto(r, where) == watcher' = [watcher EXCEPT ![r] = where]
watcherUnchanged == <<daemonVars, clientVars, jobVars>>

WatcherBatch(r) ==
    /\ WatcherAt(r, "idle") /\ batches[r] < Load.batches
    /\ batches' = [batches EXCEPT ![r] = @ + 1]
    /\ WatcherGoto(r, "check_RUNNING")
    /\ UNCHANGED <<watcherUnchanged, event_queue, state, active>>

WatcherChecks(r, s, here, set, then) ==
    /\ WatcherAt(r, here)
    /\ WatcherGoto(r, IF Changes(r, s) THEN set ELSE then)
    /\ UNCHANGED <<watcherUnchanged, event_queue, state, active, batches>>

WatcherSets(r, s, here, put) ==
    /\ WatcherAt(r, here)
    /\ Assign(r, s)
    /\ WatcherGoto(r, put)
    /\ UNCHANGED <<watcherUnchanged, event_queue, active, batches>>

WatcherNotifies(r, s, here, then) ==
    /\ WatcherAt(r, here)
    /\ Notify(r, "state", <<s>>)
    /\ WatcherGoto(r, then)
    /\ UNCHANGED <<watcherUnchanged, state, active, batches>>

(* self.state = s, at the steps check, set and put; then is where the thread  *)
(* goes on.                                                                   *)
WatcherAssigns(r, s, check, set, put, then) ==
    \/ WatcherChecks(r, s, check, set, then)
    \/ WatcherSets(r, s, set, put)
    \/ WatcherNotifies(r, s, put, then)

WatcherWorks(r) ==
    /\ WatcherAt(r, "work")
    /\ WatcherGoto(r, "check_SYNCED")
    /\ UNCHANGED <<watcherUnchanged, event_queue, state, active, batches>>

WatcherFails(r) ==
    /\ "batch" \in Load.failures /\ WatcherAt(r, "work")
    /\ Notify(r, "error", <<Message>>)
    /\ WatcherGoto(r, "check_ERROR")
    /\ UNCHANGED <<watcherUnchanged, state, active, batches>>

WatcherStep(r) ==
    \/ WatcherAssigns(r, "RUNNING", "check_RUNNING", "set_RUNNING", "put_RUNNING", "work")
    \/ WatcherWorks(r) \/ WatcherFails(r)
    \/ WatcherAssigns(r, "ERROR", "check_ERROR", "set_ERROR", "put_ERROR", "check_SYNCED")
    \/ WatcherAssigns(r, "SYNCED", "check_SYNCED", "set_SYNCED", "put_SYNCED", "idle")

-----------------------------------------------------------------------------
(* The event thread: _event_thread_proc. *)

(* Mutant: the end of a worker is not signalled to stop_sync. *)
EventGetSilent ==
    /\ ev_pc = "get" /\ event_queue # << >>
    /\ event_queue' = Tail(event_queue)
    /\ LET item == Head(event_queue) IN
       IF jobs[item.job] # 0 /\ item.event \in States
       THEN job_state' = [job_state EXCEPT ![jobs[item.job]] = item.event]
       ELSE UNCHANGED job_state
    /\ UNCHANGED <<daemonVars, clientVars, run_job, continuous, job_stop, test_error,
                   worker, syncerVars>>

(* Mutant: whatever a job reports becomes its state. *)
EventGetAnyState ==
    /\ ev_pc = "get" /\ event_queue # << >>
    /\ event_queue' = Tail(event_queue)
    /\ LET item == Head(event_queue) IN
       job_state' = [job_state EXCEPT ![jobs[item.job]] = item.event]
    /\ UNCHANGED <<daemonVars, clientVars, run_job, continuous, job_stop, test_error,
                   worker, syncerVars>>

(* An item for a job that is gone is dropped with a warning.                  *)
EventGet ==
    /\ ev_pc = "get" /\ event_queue # << >>
    /\ event_queue' = Tail(event_queue)
    /\ LET item == Head(event_queue)
           r == jobs[item.job]
       IN IF r = 0
          THEN UNCHANGED <<job_state, stop_queue, ev_pc, ev_job>>
          ELSE IF item.event = Finished /\ continuous[r]
          THEN /\ stop_queue' = stop_queue \cup {item.job}
               /\ ev_pc' = "set"
               /\ ev_job' = item.job
               /\ UNCHANGED job_state
          ELSE /\ job_state' = IF item.event \in States
                               THEN [job_state EXCEPT ![r] = item.event]
                               ELSE job_state
               /\ UNCHANGED <<stop_queue, ev_pc, ev_job>>
    /\ UNCHANGED <<jobs, lock, stop_event, clientVars, run_job, continuous, job_stop,
                   test_error, worker, syncerVars>>

(* stop_event.set(), after stop_queue.add().                                  *)
EventSet ==
    /\ ev_pc = "set"
    /\ stop_event' = TRUE
    /\ ev_pc' = "get"
    /\ ev_job' = None
    /\ UNCHANGED <<jobs, lock, stop_queue, event_queue, clientVars, jobVars, syncerVars>>

-----------------------------------------------------------------------------
(* The control commands. *)

At(c, where) == pc[c] = where
Goto(c, where) == pc' = [pc EXCEPT ![c] = where]

Return(c) ==
    /\ pc' = [pc EXCEPT ![c] = "idle"]
    /\ cmd_job' = [cmd_job EXCEPT ![c] = None]
    /\ rest' = [rest EXCEPT ![c] = {}]
    /\ lock' = IF lock = c THEN None ELSE lock

(* job.stop(): a continuous worker is told to stop; a one-shot is only joined. *)
Signal(r) == job_stop' = [job_stop EXCEPT ![r] = @ \/ continuous[r]]

(* start_sync: under the lock from the look-up to the start of the worker.  A  *)
(* job that is registered already is refused, which changes nothing.          *)
NextRun == Cardinality(Started) + 1

Start(c) ==
    /\ At(c, "idle") /\ lock = None
    /\ NextRun \in Runs                                   \* bound
    /\ \E j \in JobIds, k \in BOOLEAN, f \in Load.filters :
          /\ jobs[j] = 0
          /\ (IF k THEN "start" ELSE "one_shot") \in Load.ops
          /\ jobs' = [jobs EXCEPT ![j] = NextRun]
          /\ run_job' = [run_job EXCEPT ![NextRun] = j]
          /\ continuous' = [continuous EXCEPT ![NextRun] = k]
          /\ active' = [active EXCEPT ![NextRun] = f]
    /\ worker' = [worker EXCEPT ![NextRun] = "start"]
    /\ UNCHANGED <<lock, stop_queue, stop_event, ev_pc, ev_job, event_queue, clientVars,
                   job_state, job_stop, test_error, state, watcher, batches>>

(* control_active_events. *)
ActiveEvents(c) ==
    /\ "active_events" \in Load.ops /\ At(c, "idle") /\ lock = None
    /\ \E r \in Registered, f \in Load.filters : active' = [active EXCEPT ![r] = f]
    /\ UNCHANGED <<daemonVars, clientVars, event_queue, jobVars, state, watcher, batches>>

StopBegin(c) ==
    /\ "stop" \in Load.ops /\ At(c, "idle")
    /\ \E j \in JobIds : cmd_job' = [cmd_job EXCEPT ![c] = j]
    /\ Goto(c, "stop")
    /\ UNCHANGED <<daemonVars, event_queue, rest, jobVars, syncerVars>>

StopLocked(c) ==
    /\ At(c, "stop") /\ lock = None
    /\ LET r == jobs[cmd_job[c]] IN
       IF r = 0
       THEN Return(c) /\ UNCHANGED job_stop     \* not running
       ELSE /\ lock' = c
            /\ Signal(r)
            /\ Goto(c, "join")
            /\ UNCHANGED <<cmd_job, rest>>
    /\ UNCHANGED <<jobs, stop_queue, stop_event, ev_pc, ev_job, event_queue, run_job,
                   continuous, job_state, test_error, worker, syncerVars>>

Unregister(j) == jobs' = [jobs EXCEPT ![j] = 0]

(* The worker is joined; a one-shot job is then removed at once.              *)
StopJoined(c) ==
    /\ At(c, "join")
    /\ LET r == jobs[cmd_job[c]] IN
       /\ worker[r] = "done"
       /\ IF continuous[r]
          THEN Goto(c, "wait") /\ UNCHANGED <<jobs, lock, cmd_job, rest>>
          ELSE Unregister(cmd_job[c]) /\ Return(c)
    /\ UNCHANGED <<stop_queue, stop_event, ev_pc, ev_job, event_queue, jobVars, syncerVars>>

StopWaited(c) ==
    /\ At(c, "wait") /\ stop_event
    /\ Goto(c, "clear")
    /\ UNCHANGED <<daemonVars, event_queue, cmd_job, rest, jobVars, syncerVars>>

(* Mutant: stop_event is not cleared for the next stop. *)
StopClearsNothing(c) ==
    /\ At(c, "clear")
    /\ Goto(c, "check")
    /\ UNCHANGED <<daemonVars, event_queue, cmd_job, rest, jobVars, syncerVars>>

StopClears(c) ==
    /\ At(c, "clear")
    /\ stop_event' = FALSE
    /\ Goto(c, "check")
    /\ UNCHANGED <<jobs, lock, stop_queue, ev_pc, ev_job, event_queue, cmd_job, rest, jobVars, syncerVars>>

(* "Internal sync error" leaves the job registered.                           *)
StopChecks(c) ==
    /\ At(c, "check")
    /\ IF cmd_job[c] \in stop_queue
       THEN /\ stop_queue' = stop_queue \ {cmd_job[c]}
            /\ Unregister(cmd_job[c])
       ELSE UNCHANGED <<stop_queue, jobs>>
    /\ Return(c)
    /\ UNCHANGED <<stop_event, ev_pc, ev_job, event_queue, jobVars, syncerVars>>

(* control_test_error takes no lock; it asserts a continuous job.             *)
TestError(c) ==
    /\ "test_error" \in Load.ops /\ At(c, "idle")
    /\ \E j \in JobIds :
          /\ jobs[j] # 0 /\ continuous[jobs[j]]
          /\ rest' = [rest EXCEPT ![c] = {jobs[j]}]
          /\ test_error' = [test_error EXCEPT ![jobs[j]] = TRUE]
          /\ Signal(jobs[j])
    /\ Goto(c, "test_join")
    /\ UNCHANGED <<daemonVars, event_queue, cmd_job, run_job, continuous,
                   job_state, worker, syncerVars>>

TestErrorJoined(c) ==
    /\ At(c, "test_join")
    /\ \A r \in rest[c] : worker[r] = "done"
    /\ Return(c)
    /\ UNCHANGED <<jobs, stop_queue, stop_event, ev_pc, ev_job, event_queue, jobVars,
                   syncerVars>>

(* control_stop_all: the jobs are told to stop and joined one after another.  *)
StopAll(c) ==
    /\ "stop_all" \in Load.ops /\ At(c, "idle") /\ lock = None
    /\ lock' = c
    /\ rest' = [rest EXCEPT ![c] = Registered]
    /\ Goto(c, "stop_all")
    /\ UNCHANGED <<jobs, stop_queue, stop_event, ev_pc, ev_job, event_queue, cmd_job, jobVars, syncerVars>>

StopAllSignals(c) ==
    /\ At(c, "stop_all")
    /\ \E r \in rest[c] :
          /\ continuous[r] /\ ~job_stop[r]
          /\ \A q \in rest[c] : job_stop[q] => worker[q] = "done"
          /\ Signal(r)
    /\ UNCHANGED <<daemonVars, clientVars, event_queue, run_job, continuous, job_state,
                   test_error, worker, syncerVars>>

StopAllJoins(c) ==
    /\ At(c, "stop_all")
    /\ \E r \in rest[c] :
          /\ worker[r] = "done"
          /\ rest' = [rest EXCEPT ![c] = @ \ {r}]
    /\ UNCHANGED <<daemonVars, event_queue, pc, cmd_job, jobVars, syncerVars>>

(* Mutant: the jobs are dropped while their workers are still being stopped. *)
StopAllEndsEarly(c) ==
    /\ At(c, "stop_all")
    /\ jobs' = [j \in JobIds |-> 0]
    /\ Return(c)
    /\ UNCHANGED <<stop_queue, stop_event, ev_pc, ev_job, event_queue, jobVars, syncerVars>>

StopAllEnds(c) ==
    /\ At(c, "stop_all") /\ rest[c] = {}
    /\ jobs' = [j \in JobIds |-> 0]
    /\ Return(c)
    /\ UNCHANGED <<stop_queue, stop_event, ev_pc, ev_job, event_queue, jobVars, syncerVars>>

-----------------------------------------------------------------------------

WorkerStep(r) ==
    \/ WorkerStart(r) \/ WorkerStartFails(r) \/ WorkerOneShot(r) \/ WorkerOneShotFails(r)
    \/ WorkerWakes(r) \/ WorkerReports(r) \/ WorkerChecksError(r) \/ WorkerSetsError(r)
    \/ WorkerNotifiesError(r) \/ WorkerStopsSync(r) \/ WorkerStopFails(r) \/ WorkerFinishes(r)

EventStep == EventGet \/ EventSet

(* The steps of a command that has begun. *)
CommandStep(c) ==
    \/ StopLocked(c) \/ StopJoined(c) \/ StopWaited(c) \/ StopClears(c) \/ StopChecks(c)
    \/ TestErrorJoined(c) \/ StopAllSignals(c) \/ StopAllJoins(c) \/ StopAllEnds(c)

Command(c) == Start(c) \/ ActiveEvents(c) \/ StopBegin(c) \/ TestError(c) \/ StopAll(c)

Same == UNCHANGED load

Next ==
    /\ \/ EventStep
       \/ \E r \in Runs : WorkerStep(r) \/ WatcherBatch(r) \/ WatcherStep(r)
       \/ \E c \in Clients : Command(c) \/ CommandStep(c)
    /\ Same

Spec == Init /\ [][Next]_vars

(* Threads are scheduled; clients need not send commands nor storages change. *)
FairSpec ==
    /\ Spec
    /\ WF_vars(EventStep /\ Same)
    /\ \A r \in Runs : WF_vars(WorkerStep(r) /\ Same) /\ WF_vars(WatcherStep(r) /\ Same)
    /\ \A c \in Clients : WF_vars(CommandStep(c) /\ Same)

-----------------------------------------------------------------------------
(* Properties. *)

(* A worker, and with it the syncer and its watchers, never outlives the      *)
(* registration of its job, so two syncers never run on one container: stop   *)
(* and stop-all remove a job only after its worker thread was joined.         *)
NoOrphanWorker ==
    \A r \in Started \ Registered : worker[r] = "done" /\ watcher[r] = "off"

(* The daemon without the failures its counterexamples need: continuous jobs   *)
(* whose syncers start and stop.                                              *)
Calm == Load.failures \subseteq {"batch"} /\ Load.ops \subseteq {"start", "stop"}

(* "nonexistent job, shouldn't happen" (_event_thread_proc): whatever is still *)
(* queued belongs to the registered run of its job.                           *)
QueueHasJobs ==
    \A k \in 1..Len(event_queue) : jobs[event_queue[k].job] = event_queue[k].run

(* "something very wrong happened" (stop_sync): the signal stop_sync waited   *)
(* for was about the job it stops.                                            *)
SignalIsItsOwn == \A c \in Clients : At(c, "check") => cmd_job[c] \in stop_queue

(* Neither "shouldn't happen" (_event_thread_proc) nor "something very wrong  *)
(* happened" (stop_sync): the hand-shake of the event thread and a stop       *)
(* command loses no signal, and no event outlives its job.                    *)
NoInternalError == Calm => QueueHasJobs /\ SignalIsItsOwn

(* Once a registered job's events are drained and its threads are at rest,    *)
(* the state the daemon reports for it is the state of its syncer.            *)
JobStateAgrees ==
    Calm => \A r \in Registered :
               /\ worker[r] \in {"wait", "done"}
               /\ watcher[r] \in {"off", "idle"}
               /\ \A k \in 1..Len(event_queue) : event_queue[k].run # r
               => job_state[r] = state[r]

(* "Doesn't change the state if current state is SyncState.ERROR" (setter).   *)
ErrorAlwaysSticky ==
    [][\A r \in Runs : state[r] = "ERROR" => state'[r] = "ERROR"]_vars

(* "it's safe to return from stop command" (_event_thread_proc): the signal    *)
(* arrives, so no command keeps SyncDaemon.lock - which every other command    *)
(* needs - for ever.                                                           *)
CommandsReturn == \A c \in Clients : lock = c ~> lock # c
=============================================================================
