---------------------------- MODULE MCNaiveSync ----------------------------
(* Instances of NaiveSync for TLC. *)
EXTENDS NaiveSync

CONSTANTS d, f, g, x, y

(* A directory d that holds f, and a file g beside it; or single files. *)
Tree == (d :> Root) @@ (f :> d) @@ (g :> Root)
Flat == (f :> Root) @@ (g :> Root)
Nested == (d :> Root) @@ (f :> d)
Single == (f :> Root)

Same == {[s \in Storages |-> t] : t \in Trees}
(* f differs from the start, g does not. *)
Differ == {[source |-> (f :> Empty) @@ (g :> x), target |-> (f :> y) @@ (g :> x)]}
(* The same names on both sides; the files may differ. *)
SameNames == {i \in [Storages -> Trees] :
                  \A p \in Paths : i["source"][p] = i["target"][p] \/ {i["source"][p], i["target"][p]} \subseteq Files}
Anything == [Storages -> Trees]
OneContent == {i \in Anything : \A s \in Storages, p \in Paths : i[s][p] # y}

JobOf(initial, editors, edits_, max, pace) ==
    [initial |-> initial, continuous |-> TRUE, unidirectional |-> FALSE,
     editors |-> editors, edits |-> edits_, max |-> max, pace |-> pace]
All == {"write", "delete", "mkdir", "rmdir", "rename"}

(* Any two trees that nobody touches. *)
Untouched == JobOf(Anything, {}, {}, 0, "any")
(* Users of both storages who wait until the last change is synced. *)
Patient == JobOf(Same, Storages, All, 4, "synced")
(* A user of the source who writes while the syncer copies. *)
OneWriter == JobOf(SameNames, {"source"}, {"write", "mkdir"}, 3, "started")
(* A one-way one-shot sync, and users of both storages. *)
OneWay == [JobOf(OneContent, Storages, All, 2, "any")
              EXCEPT !.continuous = FALSE, !.unidirectional = TRUE]

SafeJobs == <<Untouched, Patient, OneWriter, OneWay>>
LiveJobs == <<JobOf(Same, {"source"}, All, 2, "any")>>
LostDelete == <<JobOf(Same, {"source"}, {"write", "delete"}, 2, "started")>>
StaleIgnore == <<JobOf(Anything, {"source"}, {"write"}, 1, "synced")>>
MergedEvent == <<JobOf(Anything, {"source"}, {"write"}, 1, "any")>>
BothEdit == <<JobOf(Same, Storages, {"write"}, 2, "started")>>
FailedStart == <<JobOf(Differ, {"source"}, {"write", "delete"}, 2, "any")>>
ErrorContinues == <<JobOf(Same, Storages, All, 2, "started")>>
=============================================================================
