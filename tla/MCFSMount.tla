----------------------------- MODULE MCFSMount -----------------------------
(* Instances of FSMount for TLC. *)
EXTENDS FSMount, TLC

CONSTANTS pA, pB, pC, t1, t2, b1, b2

(* Two storages that share the path pC; one alone. *)
SharedPath == {<<pA, pC>>, <<pB, pC>>}
SinglePath == {<<pA>>}
TwoMainPaths == {<<pA>>, <<pB>>}
(* What join_bridge_paths_for_mount makes of the container paths /x:y and /x_y. *)
RepeatedPath == {<<pA, pC, pC, pB>>}

Symmetry == Permutations({t1, t2})
=============================================================================
