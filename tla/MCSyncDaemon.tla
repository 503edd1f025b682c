---------------------------- MODULE MCSyncDaemon ----------------------------
(* Instances of SyncDaemon for TLC. *)
EXTENDS SyncDaemon, TLC

CONSTANTS c1, c2, j1, j2

AllEvents == {{"state", "error"}}
OnlyErrors == {{"state", "error"}, {"error"}}

LoadOf(ops, fails, filters, n) ==
    [ops |-> ops, failures |-> fails, filters |-> filters, batches |-> n]

(* Continuous jobs with failing batches; all commands and all failures, for   *)
(* continuous jobs and for one-shot jobs.                                     *)
SafeLoads ==
    <<LoadOf({"start", "stop"}, {"batch"}, AllEvents, 1),
      LoadOf({"start", "stop", "test_error"}, {"start", "stop"}, AllEvents, 0),
      LoadOf({"start", "stop_all", "test_error"}, {"start", "stop"}, AllEvents, 0),
      LoadOf({"one_shot", "stop", "stop_all"}, {"start", "stop"}, AllEvents, 0)>>
LiveLoads == <<LoadOf({"start", "stop", "stop_all", "active_events"}, {}, OnlyErrors, 0)>>
FailedStarts == <<LoadOf({"start", "stop"}, {"start"}, AllEvents, 0)>>
OneShots == <<LoadOf({"one_shot", "stop"}, {}, AllEvents, 0)>>
StopAlls == <<LoadOf({"start", "stop", "stop_all"}, {}, AllEvents, 0)>>
ErrorRace == <<LoadOf({"start"}, {"start"}, AllEvents, 1)>>
Filtered == <<LoadOf({"start"}, {"batch"}, OnlyErrors, 1)>>

Symmetry == Permutations({c1, c2}) \cup Permutations({j1, j2})
=============================================================================
