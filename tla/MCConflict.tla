----------------------------- MODULE MCConflict -----------------------------
(* Instances of Conflict for TLC. *)
EXTENDS Conflict, TLC

A == <<"a">>
B == <<"b">>
MCFileNames == {A, B, <<"a", 1>>}
Op(op, path) == [op |-> op, path |-> path, to |-> None]
Move(path, to) == [op |-> "rename", path |-> path, to |-> to]

Empty == << >> :> "dir"
With(r, kind) == Empty @@ (r :> kind)
File == With(<<A>>, "file")
Dir == With(<<A>>, "dir")
FileInDir == Dir @@ (<<A, B>> :> "file")
RdirOnly == With(<<A>>, "rdir")
Odd == With(<<<<"a", 1>>>>, "file")

Pairs(contents) == {1 :> c @@ 2 :> d : c \in contents, d \in contents}
Same(f) == [t \in Threads |-> f]
Quiet(t, f) == [u \in Threads |-> IF u = t THEN f ELSE {}]

(* Two storages, one of them under two paths; mounting races with lookups. *)
RaceMode ==
    [paths |-> 1 :> <<<<A>>, <<A, B>>>> @@ 2 :> <<<<A>>>>,
     ro |-> {}, mounted |-> {1}, mounts |-> 2, faults |-> FALSE,
     stores |-> {1 :> Empty @@ 2 :> Empty},
     calls |-> Same({Op("getattr", <<A>>), Op("create", <<A, A>>), Op("readdir", <<A, B>>),
                   Op("create", <<<<"a", 1>>, A>>)})]

(* Both storages under the root, with every pair of contents.              *)
Merge(ro, t) ==
    [paths |-> 1 :> <<<< >>>> @@ 2 :> <<<< >>>>,
     ro |-> ro, mounted |-> {1, 2}, mounts |-> 1, faults |-> ro = {},
     stores |-> Pairs({Empty, File, Dir, FileInDir, RdirOnly}),
     calls |-> Quiet(t, {Op("create", <<A, B>>), Op("mkdir", <<A>>), Op("create", <<B>>),
                 Op("unlink", <<A, B>>), Op("rmdir", <<A>>), Op("find", <<A>>),
                 Move(<<A, B>>, <<A, A>>), Move(<<<<"a", 1>>>>, <<B>>)})]

(* One storage inside a directory of the other.                            *)
Nested(t) ==
    [paths |-> 1 :> <<<< >>>> @@ 2 :> <<<<A>>>>,
     ro |-> {}, mounted |-> {1, 2}, mounts |-> 1, faults |-> FALSE,
     stores |-> Pairs({Empty, File, FileInDir, With(<<B>>, "dir")}),
     calls |-> Quiet(t, {Op("create", <<A, B>>), Op("mkdir", <<A, B>>), Op("rmdir", <<A>>),
                 Op("create", <<B>>), Op("open", <<A, B>>), Op("release", <<A, B>>)})]

(* Both storages under the root and once more inside it: the directories   *)
(* that the mounts make have the names of files.                           *)
Twice(t) ==
    [paths |-> 1 :> <<<< >>, <<A>>>> @@ 2 :> <<<<A>>, << >>>>,
     ro |-> {}, mounted |-> {1, 2}, mounts |-> 2, faults |-> FALSE,
     stores |-> Pairs({Empty, File, FileInDir}),
     calls |-> Quiet(t, {Op("create", <<B>>), Op("getattr", <<<<"a", 1>>>>)})]

CONSTANTS t1, t2
Threads2 == {t1, t2}
AllModes == {RaceMode, Merge({}, t1), Merge({2}, t1), Nested(t1), Twice(t1)}
OddMode == {[Merge({}, t1) EXCEPT !.stores = Pairs({Odd, File, Dir})]}
NestedOnly == {Nested(t1)}
=============================================================================
