---------------------------- MODULE MountTable ----------------------------
(***************************************************************************)
(* What the FUSE driver promises to its control clients about mounted      *)
(* storages: a table from storage identifiers to lists of mount paths, in  *)
(* which two live entries never share a main path (the first path of the   *)
(* list) and in which an identifier, once given out, is never given out    *)
(* again.  FSMount.tla is the driver that implements it.                   *)
(***************************************************************************)
EXTENDS Naturals, Sequences

CONSTANTS
    PathLists,  \* the path lists clients ask for
    MaxIdent    \* bound on the identifiers ever given out

VARIABLES
    table,      \* identifier -> its path list, or Unused
    next        \* the next identifier to give out

vars == <<table, next>>

Idents == 1..MaxIdent
Unused == << >>

Live == {i \in Idents : table[i] # Unused}

Init == /\ table = [i \in Idents |-> Unused]
        /\ next = 1

(* A mount takes the next identifier; its main path must be free. *)
MountAt(paths) ==
    /\ next \in Idents
    /\ \A i \in Live : Head(table[i]) # Head(paths)
    /\ table' = [table EXCEPT ![next] = paths]
    /\ next' = next + 1

UnmountAt(i) ==
    /\ i \in Live
    /\ table' = [table EXCEPT ![i] = Unused]
    /\ UNCHANGED next

Next == \/ \E paths \in PathLists : MountAt(paths)
        \/ \E i \in Idents : UnmountAt(i)

Spec == Init /\ [][Next]_vars
===========================================================================
