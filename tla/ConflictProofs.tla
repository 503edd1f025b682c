--------------------------- MODULE ConflictProofs ---------------------------
(***************************************************************************)
(* Proofs about Conflict, for any number of threads and storages, any mount *)
(* paths and any contents of the storages.                                 *)
(***************************************************************************)
EXTENDS Conflict, SequenceTheorems, FiniteSetTheorems, WellFoundedInduction, TLAPS

-----------------------------------------------------------------------------
(* The invariant: the tree. *)

(* The paths of the storage that is being mounted or unmounted which still have *)
(* to be added, or to be removed.                                              *)
Remaining == IF mount.pc \in {"grow", "leave"} THEN Range(mount.todo) ELSE Range(Tail(mount.todo))

(* The paths under which a storage is in the tree now.                          *)
PathsNow(i) ==
    IF i = mount.id
    THEN IF i \in live THEN PathsOf(mode, i) \ Remaining ELSE Remaining
    ELSE IF i \in live THEN PathsOf(mode, i) ELSE {}

(* The nodes MountDir.mount and unmount are on their way through, which may lead *)
(* to no storage.                                                              *)
Way == IF mount.pc \in {"grow", "prune"} THEN mount.at ELSE Root

(* A node of the tree leads to a storage, or is on that way; the nodes above it *)
(* are there, too, and it holds the storages that are mounted exactly there.    *)
Led(n) == n = Root \/ IsPrefix(n, Way) \/ \E i \in Idents : \E p \in PathsNow(i) : IsPrefix(n, p)

TreeShape ==
    /\ Root \in Nodes /\ Way \in Nodes
    /\ \A i \in Idents : PathsNow(i) \subseteq Nodes
    /\ \A n \in Nodes : n \in Paths /\ Led(n) /\ Prefixes(n) \subseteq Nodes
    /\ tree = [n \in Nodes |-> {i \in Idents : n \in PathsNow(i)}]

(* A mount or an unmount has its own paths before it, none of them twice.       *)
MountOK ==
    mount = NoMount \/
        /\ DOMAIN mount = {"pc", "id", "todo", "at"}
        /\ mount.pc \in {"grow", "leave", "prune", "clear"}
        /\ mount.id \in Idents /\ mount.todo \in Seq(Paths) \ {<< >>} /\ mount.at \in Paths
        /\ Range(mount.todo) \subseteq PathsOf(mode, mount.id)
        /\ \A j, k \in 1..Len(mount.todo) : mount.todo[j] = mount.todo[k] => j = k
        /\ mount.pc = "grow" => mount.id \in live /\ IsPrefix(mount.at, Head(mount.todo))
        /\ mount.pc \in {"leave", "prune"} => mount.id \notin live

TreeInv ==
    /\ mode \in Modes
    /\ live \subseteq Idents
    /\ MountOK
    /\ TreeShape

-----------------------------------------------------------------------------
(* The invariant: the lookups. *)

(* What a lookup finds at the nodes above and above or at one of its path.      *)
ClaimsUpTo(path, k) ==
    {[ident |-> a[2], relpath |-> Rest(path, a[1])] :
        a \in {a \in Nodes \X Idents : IsPrefix(a[1], path) /\ Len(a[1]) < k /\ a[2] \in tree[a[1]]}}

Steps == {"resolve", "visit", "leave", "stat", "call"}

CallOK(c) ==
    /\ DOMAIN c = {"pc", "call", "path", "at", "ids", "acc", "src", "res", "raced"}
    /\ c.pc \in Steps
    /\ c.call.path \in Paths /\ (c.call.op = "rename" => c.call.to \in Paths)
    /\ c.path \in Paths /\ c.at \in Paths
    /\ c.raced \in BOOLEAN
    /\ MakesEntry(c.call.op) => c.path = Front(c.call.path)
    /\ c.call.op # "rename" => c.src = None

(* As long as nothing has overtaken it, a lookup knows what the tree says of the *)
(* nodes it has been to, and a call that goes to a directory that can be written *)
(* to goes to the only one.                                                    *)
Knows(c) ==
    /\ c.pc = "resolve" => c.at = Root /\ c.acc = {}
    /\ c.pc \in {"visit", "leave"} =>
          /\ c.at \in Nodes /\ IsPrefix(c.at, KeyOf(c))
          /\ c.acc = ClaimsUpTo(KeyOf(c), Len(c.at))
    /\ c.pc = "leave" => c.ids = tree[c.at]
    /\ c.pc \in {"stat", "call"} => c.acc = Claims(KeyOf(c))
    /\ c.pc = "call" => c.res \in c.acc /\ (StorageGetattr(c.res) = "dir" => WritableOf(c.acc) = {c.res})

CallFine(c) == c = NoCall \/ (CallOK(c) /\ (c.raced \/ Knows(c)))
Lookups == \A t \in Threads : CallFine(thread[t])

CacheOK ==
    \A key \in DOMAIN cache :
        /\ key \in Paths /\ cache[key].raced \in BOOLEAN
        /\ mount.pc \notin {"prune", "clear"} => cache[key].raced \/ cache[key].ans = Claims(key)

ConflictInv == TreeInv /\ DOMAIN thread = Threads /\ Lookups /\ CacheOK
               /\ down \subseteq Idents /\ DOMAIN store = Idents

-----------------------------------------------------------------------------
(* Paths. *)

(* The first part of a path is a path.                                          *)
LEMMA PathPart ==
    ASSUME NEW p \in Paths, NEW k \in 0..Len(p)
    PROVE  /\ SubSeq(p, 1, k) \in Paths
           /\ Len(SubSeq(p, 1, k)) = k
           /\ \A j \in 1..k : SubSeq(p, 1, k)[j] = p[j]
<1>1. Len(p) \in Nat /\ \A j \in 1..Len(p) : p[j] \in FileNames
  BY LenProperties, ElementOfSeq DEF Paths
<1>2. \A j \in 1..k : p[j] \in FileNames
  BY <1>1
<1>3. k \in Int
  OBVIOUS
<1> QED
  BY <1>2, <1>3, SubSeqProperties DEF Paths

(* A path begins with another one where their names agree ...                    *)
LEMMA PrefixMeans ==
    ASSUME NEW s \in Paths, NEW t \in Paths
    PROVE  IsPrefix(s, t) <=> Len(s) <= Len(t) /\ \A j \in 1..Len(s) : s[j] = t[j]
<1>1. Len(s) \in Nat /\ Len(t) \in Nat
  BY LenProperties DEF Paths
<1>2. SubSeq(s, 1, Len(s)) = s
  BY SubSeqFull DEF Paths
<1>3. CASE Len(s) <= Len(t)
  <2> DEFINE u == SubSeq(t, 1, Len(s))
  <2>1. u \in Paths /\ Len(u) = Len(s) /\ \A j \in 1..Len(s) : u[j] = t[j]
    BY <1>1, <1>3, PathPart
  <2> HIDE DEF u
  <2>2. s = u <=> \A j \in 1..Len(s) : s[j] = u[j]
    BY <2>1, SeqEqual DEF Paths
  <2> QED
    BY <1>2, <1>3, <2>1, <2>2 DEF IsPrefix, u
<1>4. CASE ~(Len(s) <= Len(t))
  BY <1>4 DEF IsPrefix
<1> QED
  BY <1>3, <1>4

(* ... and then it is the first part of it.                                      *)
LEMMA PrefixCut ==
    ASSUME NEW s \in Paths, NEW t \in Paths, IsPrefix(s, t)
    PROVE  s = SubSeq(t, 1, Len(s))
BY SubSeqFull DEF IsPrefix, Paths

(* Beginning with is an order, in which the beginnings of a path form a chain.   *)
LEMMA PrefixOrder ==
    /\ Root \in Paths /\ Len(Root) = 0 /\ \A s \in Paths : IsPrefix(Root, s) /\ IsPrefix(s, s)
    /\ \A s \in Paths : Len(s) \in Nat /\ (Len(s) = 0 <=> s = Root)
    /\ \A r, s, t \in Paths : IsPrefix(r, s) /\ IsPrefix(s, t) => IsPrefix(r, t)
    /\ \A s, t \in Paths : IsPrefix(s, t) => Len(s) <= Len(t) /\ (Len(s) = Len(t) => s = t)
    /\ \A r, s, t \in Paths :
          IsPrefix(r, t) /\ IsPrefix(s, t) /\ Len(r) <= Len(s) => IsPrefix(r, s)
<1>1. Root \in Paths /\ Len(Root) = 0
  BY EmptySeq DEF Paths, Root
<1>2. \A s \in Paths : Len(s) \in Nat /\ (Len(s) = 0 <=> s = Root)
  BY EmptySeq, LenProperties DEF Paths, Root
<1>3. \A s \in Paths : IsPrefix(Root, s) /\ IsPrefix(s, s)
  BY <1>1, <1>2, PrefixMeans
<1>4. ASSUME NEW r \in Paths, NEW s \in Paths, NEW t \in Paths, IsPrefix(r, s), IsPrefix(s, t)
      PROVE  IsPrefix(r, t)
  BY <1>2, <1>4, PrefixMeans
<1>5. ASSUME NEW s \in Paths, NEW t \in Paths, IsPrefix(s, t)
      PROVE  Len(s) <= Len(t) /\ (Len(s) = Len(t) => s = t)
  <2>1. Len(s) <= Len(t) /\ \A j \in 1..Len(s) : s[j] = t[j]
    BY <1>5, PrefixMeans
  <2> QED
    BY <2>1, SeqEqual DEF Paths
<1>6. ASSUME NEW r \in Paths, NEW s \in Paths, NEW t \in Paths,
             IsPrefix(r, t), IsPrefix(s, t), Len(r) <= Len(s)
      PROVE  IsPrefix(r, s)
  <2>1. /\ \A j \in 1..Len(r) : r[j] = t[j]
        /\ \A j \in 1..Len(s) : s[j] = t[j]
    BY <1>6, PrefixMeans
  <2>2. Len(r) \in Nat /\ Len(s) \in Nat
    BY <1>2
  <2>3. \A j \in 1..Len(r) : j \in 1..Len(s) /\ r[j] = s[j]
    BY <1>6, <2>1, <2>2
  <2> QED
    BY <1>6, <2>3, PrefixMeans
<1> QED
  BY <1>1, <1>2, <1>3, <1>4, <1>5, <1>6

(* The step from a node to the next one on the way to a path.                    *)
LEMMA NextPart ==
    ASSUME NEW s \in Paths, NEW t \in Paths, IsPrefix(s, t), s # t
    PROVE  /\ SubSeq(t, 1, Len(s) + 1) \in Paths
           /\ Len(SubSeq(t, 1, Len(s) + 1)) = Len(s) + 1
           /\ IsPrefix(SubSeq(t, 1, Len(s) + 1), t)
<1>1. Len(s) \in Nat /\ Len(t) \in Nat /\ Len(s) <= Len(t) /\ Len(s) # Len(t)
  BY PrefixOrder
<1>2. Len(s) + 1 \in 0..Len(t)
  BY <1>1
<1> DEFINE c == SubSeq(t, 1, Len(s) + 1)
<1>3. c \in Paths /\ Len(c) = Len(s) + 1 /\ \A j \in 1..Len(c) : c[j] = t[j]
  BY <1>2, PathPart
<1> HIDE DEF c
<1>4. Len(c) <= Len(t)
  BY <1>2, <1>3
<1>5. IsPrefix(c, t)
  BY <1>3, <1>4, PrefixMeans
<1> QED
  BY <1>3, <1>5 DEF c

(* It is below that node, above the path, and nothing is in between.             *)
LEMMA ChildOnTheWay ==
    ASSUME NEW s \in Paths, NEW t \in Paths, IsPrefix(s, t),
           NEW c \in Paths, Len(c) = Len(s) + 1, IsPrefix(c, t)
    PROVE  /\ c # Root /\ IsPrefix(s, c) /\ Front(c) = s
           /\ \A n \in Paths : IsPrefix(n, t) /\ Len(n) > Len(s) => IsPrefix(c, n)
           /\ \A n \in Paths : IsPrefix(n, c) <=> n = c \/ IsPrefix(n, s)
<1>1. Len(s) \in Nat /\ Len(s) <= Len(c) /\ Len(c) # 0
  <2>1. Len(s) \in Nat
    BY PrefixOrder
  <2> QED
    BY <2>1
<1>2. c # Root
  BY <1>1, PrefixOrder
<1>3. IsPrefix(s, c)
  BY <1>1, PrefixOrder
<1>4. Front(c) = s
  <2>1. Front(c) = SubSeq(c, 1, Len(s))
    BY <1>1 DEF Front
  <2> QED
    BY <1>3, <2>1, PrefixCut
<1>5. ASSUME NEW n \in Paths, IsPrefix(n, t), Len(n) > Len(s) PROVE IsPrefix(c, n)
  <2>1. Len(n) \in Nat
    BY PrefixOrder
  <2>2. Len(c) <= Len(n)
    BY <1>1, <1>5, <2>1
  <2> QED
    BY <1>5, <2>2, PrefixOrder
<1>6. ASSUME NEW n \in Paths PROVE IsPrefix(n, c) <=> n = c \/ IsPrefix(n, s)
  <2>1. Len(n) \in Nat
    BY PrefixOrder
  <2>2. ASSUME IsPrefix(n, c), n # c PROVE IsPrefix(n, s)
    <3>1. Len(n) <= Len(c) /\ Len(n) # Len(c)
      BY <2>2, PrefixOrder
    <3>2. Len(n) <= Len(s)
      BY <1>1, <2>1, <3>1
    <3> QED
      BY <1>3, <2>2, <3>2, PrefixOrder
  <2>3. IsPrefix(n, s) => IsPrefix(n, c)
    BY <1>3, PrefixOrder
  <2>4. IsPrefix(c, c)
    BY PrefixOrder
  <2> QED
    BY <2>2, <2>3, <2>4
<1> QED
  BY <1>2, <1>3, <1>4, <1>5, <1>6

(* The step from a node to the one above it.                                     *)
LEMMA FrontIsAbove ==
    ASSUME NEW s \in Paths, s # Root
    PROVE  /\ Front(s) \in Paths /\ Len(Front(s)) = Len(s) - 1 /\ IsPrefix(Front(s), s)
           /\ \A n \in Paths : IsPrefix(n, s) <=> n = s \/ IsPrefix(n, Front(s))
<1>1. Len(s) \in Nat \ {0}
  BY PrefixOrder
<1>2. /\ Front(s) \in Paths /\ Len(Front(s)) = Len(s) - 1
      /\ \A j \in 1..Len(s) - 1 : Front(s)[j] = s[j]
  <2>1. Len(s) - 1 \in 0..Len(s)
    BY <1>1
  <2> QED
    BY <2>1, PathPart DEF Front
<1> DEFINE f == Front(s)
<1> HIDE DEF f
<1>3. f \in Paths /\ Len(f) = Len(s) - 1 /\ \A j \in 1..Len(f) : f[j] = s[j]
  BY <1>2 DEF f
<1>4. IsPrefix(f, s) /\ f # s /\ Len(s) = Len(f) + 1 /\ IsPrefix(s, s)
  <2>1. Len(f) <= Len(s) /\ Len(f) # Len(s) /\ Len(s) = Len(f) + 1
    BY <1>1, <1>3
  <2> QED
    BY <1>3, <2>1, PrefixMeans, PrefixOrder
<1>5. \A n \in Paths : IsPrefix(n, s) <=> n = s \/ IsPrefix(n, f)
  BY <1>3, <1>4, ChildOnTheWay
<1> QED
  BY <1>2, <1>3, <1>4, <1>5 DEF f

(* The beginnings of a path, as Prefixes enumerates them.                        *)
LEMMA PrefixesAre ==
    ASSUME NEW p \in Paths
    PROVE  \A n : n \in Prefixes(p) <=> n \in Paths /\ IsPrefix(n, p)
<1>1. Len(p) \in Nat
  BY PrefixOrder
<1>2. ASSUME NEW n \in Prefixes(p) PROVE n \in Paths /\ IsPrefix(n, p)
  <2>1. PICK k \in 0..Len(p) : n = SubSeq(p, 1, k)
    BY <1>2 DEF Prefixes
  <2>2. n \in Paths /\ Len(n) = k /\ \A j \in 1..k : n[j] = p[j]
    BY <2>1, PathPart
  <2> QED
    BY <1>1, <2>2, PrefixMeans
<1>3. ASSUME NEW n \in Paths, IsPrefix(n, p) PROVE n \in Prefixes(p)
  <2>1. n = SubSeq(p, 1, Len(n)) /\ Len(n) \in 0..Len(p)
    BY <1>1, <1>3, PrefixCut, PrefixOrder
  <2> QED
    BY <2>1 DEF Prefixes
<1> QED
  BY <1>2, <1>3

(* The paths that remain when the first one is done: all but that one.           *)
LEMMA HeadAndTail ==
    ASSUME NEW s \in Seq(Paths), s # << >>,
           \A j, k \in 1..Len(s) : s[j] = s[k] => j = k
    PROVE  /\ Head(s) \in Paths /\ Head(s) \in Range(s) /\ Tail(s) \in Seq(Paths)
           /\ Range(Tail(s)) = Range(s) \ {Head(s)}
           /\ \A j, k \in 1..Len(Tail(s)) : Tail(s)[j] = Tail(s)[k] => j = k
           /\ Len(s) = 1 <=> Tail(s) = << >>
           /\ Len(s) = 1 => Range(Tail(s)) = {}
<1>1. Len(s) \in Nat \ {0} /\ DOMAIN s = 1..Len(s) /\ \A j \in 1..Len(s) : s[j] \in Paths
  BY EmptySeq, LenProperties, ElementOfSeq
<1>2. Head(s) = s[1] /\ 1 \in 1..Len(s)
  BY <1>1, HeadTailProperties
<1>3. Tail(s) \in Seq(Paths) /\ Len(Tail(s)) = Len(s) - 1
      /\ \A j \in 1..Len(s) - 1 : Tail(s)[j] = s[j + 1]
  BY HeadTailProperties
<1> DEFINE u == Tail(s)
<1> HIDE DEF u
<1>4. u \in Seq(Paths) /\ Len(u) = Len(s) - 1 /\ DOMAIN u = 1..Len(u)
      /\ \A j \in 1..Len(u) : u[j] = s[j + 1] /\ j + 1 \in 1..Len(s)
  BY <1>1, <1>3, LenProperties DEF u
<1>5. \A j, k \in 1..Len(u) : u[j] = u[k] => j = k
  <2> SUFFICES ASSUME NEW j \in 1..Len(u), NEW k \in 1..Len(u), u[j] = u[k] PROVE j = k
    OBVIOUS
  <2>1. j + 1 = k + 1
    BY <1>4
  <2> QED
    BY <2>1
<1>6. Range(u) = Range(s) \ {Head(s)}
  <2>1. ASSUME NEW x \in Range(u) PROVE x \in Range(s) \ {Head(s)}
    <3>1. PICK j \in 1..Len(u) : x = u[j]
      BY <1>4, <2>1 DEF Range
    <3>2. x = s[j + 1] /\ j + 1 \in 1..Len(s) /\ j + 1 # 1
      BY <1>4, <3>1
    <3> QED
      BY <1>1, <1>2, <3>2 DEF Range
  <2>2. ASSUME NEW x \in Range(s), x # Head(s) PROVE x \in Range(u)
    <3>1. PICK j \in 1..Len(s) : x = s[j]
      BY <1>1, <2>2 DEF Range
    <3>2. j # 1
      BY <1>2, <2>2, <3>1
    <3>3. j - 1 \in 1..Len(u) /\ (j - 1) + 1 = j
      BY <1>1, <1>4, <3>2
    <3>4. x = u[j - 1]
      BY <1>4, <3>1, <3>3
    <3> QED
      BY <1>4, <3>3, <3>4 DEF Range
  <2> QED
    BY <2>1, <2>2
<1>7. Len(s) = 1 <=> u = << >>
  BY <1>1, <1>4, EmptySeq
<1>8. Len(s) = 1 => Range(u) = {}
  <2>1. Len(s) = 1 => DOMAIN u = {}
    BY <1>4
  <2> QED
    BY <2>1 DEF Range
<1>9. Head(s) \in Paths /\ Head(s) \in Range(s)
  BY <1>1, <1>2 DEF Range
<1> QED
  BY <1>4, <1>5, <1>6, <1>7, <1>8, <1>9 DEF u

-----------------------------------------------------------------------------
(* The tree, step by step. *)

(* What a storage's mount paths are.                                             *)
LEMMA MountPaths ==
    ASSUME mode \in Modes, NEW i \in Idents
    PROVE  /\ mode.paths[i] \in Seq(Paths) /\ mode.paths[i] # << >>
           /\ \A j, k \in 1..Len(mode.paths[i]) : mode.paths[i][j] = mode.paths[i][k] => j = k
           /\ PathsOf(mode, i) \subseteq Paths
<1>1. mode.paths[i] \in Seq(Paths) /\ mode.paths[i] # << >>
      /\ \A j, k \in 1..Len(mode.paths[i]) : mode.paths[i][j] = mode.paths[i][k] => j = k
  BY ModesAssumption
<1>2. PathsOf(mode, i) \subseteq Paths
  BY <1>1, LenProperties, ElementOfSeq DEF PathsOf, Range
<1> QED
  BY <1>1, <1>2

(* A step that leaves the tree, the way and everybody's paths leaves the shape.  *)
LEMMA ShapeStays ==
    ASSUME TreeShape, tree' = tree, Way' = Way, \A i \in Idents : PathsNow(i)' = PathsNow(i)
    PROVE  TreeShape'
<1>1. Nodes' = Nodes
  BY DEF Nodes
<1>2. \A n \in Nodes : Led(n)' <=> Led(n)
  BY DEF Led
<1>3. tree' = [n \in Nodes' |-> {i \in Idents : n \in PathsNow(i)'}]
  BY <1>1 DEF TreeShape
<1> QED
  BY <1>1, <1>2, <1>3 DEF TreeShape

(* MountDir at the start: the storages of the mode at all of their paths.        *)
LEMMA TreeStarts == Init => TreeInv
<1> SUFFICES ASSUME Init PROVE TreeInv
  OBVIOUS
<1>1. mode \in Modes /\ live = mode.mounted /\ live \subseteq Idents /\ mount = NoMount
  BY ModesAssumption DEF Init
<1>2. Way = Root /\ \A i \in Idents : PathsNow(i) = IF i \in live THEN PathsOf(mode, i) ELSE {}
  BY <1>1, IdentsAssumption DEF NoMount, Way, PathsNow
<1>3. tree = TreeOf(mode, live)
  BY DEF Init
<1>4. Nodes = {Root} \cup UNION {UNION {Prefixes(p) : p \in PathsOf(mode, i)} : i \in live}
  BY <1>3 DEF TreeOf, Nodes
<1>5. \A n \in Nodes : tree[n] = {i \in Idents : n \in PathsNow(i)}
  BY <1>1, <1>2, <1>3, <1>4 DEF TreeOf
<1>6. tree = [n \in Nodes |-> {i \in Idents : n \in PathsNow(i)}]
  BY <1>3, <1>5 DEF TreeOf, Nodes
<1>7. \A i \in Idents : PathsNow(i) \subseteq Paths
  BY <1>1, <1>2, MountPaths
<1>8. \A i \in Idents : PathsNow(i) \subseteq Nodes
  <2> SUFFICES ASSUME NEW i \in Idents, NEW p \in PathsNow(i) PROVE p \in Nodes
    OBVIOUS
  <2>1. p \in Prefixes(p)
    BY <1>7, PrefixesAre, PrefixOrder
  <2> QED
    BY <1>2, <1>4, <2>1
<1>9. ASSUME NEW n \in Nodes PROVE n \in Paths /\ Led(n) /\ Prefixes(n) \subseteq Nodes
  <2>1. CASE n = Root
    <3>1. \A r \in Prefixes(Root) : r = Root
      <4> SUFFICES ASSUME NEW r \in Prefixes(Root) PROVE r = Root
        OBVIOUS
      <4>1. r \in Paths /\ IsPrefix(r, Root)
        BY PrefixesAre, PrefixOrder
      <4>2. Len(r) \in Nat /\ Len(r) <= 0
        BY <4>1, PrefixOrder
      <4>3. Len(r) = 0
        BY <4>2
      <4> QED
        BY <4>1, <4>3, PrefixOrder
    <3> QED
      BY <1>4, <2>1, <3>1, PrefixOrder DEF Led
  <2>2. ASSUME NEW i \in live, NEW p \in PathsOf(mode, i), n \in Prefixes(p)
        PROVE  n \in Paths /\ Led(n) /\ Prefixes(n) \subseteq Nodes
    <3>1. p \in Paths /\ p \in PathsNow(i) /\ i \in Idents
      BY <1>1, <1>2, MountPaths
    <3>2. n \in Paths /\ IsPrefix(n, p)
      BY <2>2, <3>1, PrefixesAre
    <3>3. ASSUME NEW r \in Prefixes(n) PROVE r \in Prefixes(p)
      <4>1. r \in Paths /\ IsPrefix(r, n)
        BY <3>2, PrefixesAre
      <4>2. IsPrefix(r, p)
        BY <3>1, <3>2, <4>1, PrefixOrder
      <4> QED
        BY <3>1, <4>1, <4>2, PrefixesAre
    <3> QED
      BY <1>4, <3>1, <3>2, <3>3 DEF Led
  <2> QED
    BY <1>4, <2>1, <2>2
<1>10. TreeShape
  BY <1>2, <1>4, <1>6, <1>8, <1>9 DEF TreeShape
<1> QED
  BY <1>1, <1>10 DEF TreeInv, MountOK

(* MountBegin: none of the paths of the storage is in the tree yet.             *)
LEMMA MountBeginTree == ASSUME TreeInv, NEW id \in Idents, MountBegin(id) PROVE TreeInv'
<1>1. mount = NoMount /\ id \notin live /\ live' = live \cup {id} /\ tree' = tree /\ mode' = mode
      /\ mount' = [pc |-> "grow", id |-> id, todo |-> mode.paths[id], at |-> << >>]
  BY DEF TreeInv, MountOK, MountBegin, tables
<1>2. mode \in Modes /\ live \subseteq Idents /\ TreeShape
  BY DEF TreeInv
<1>3. \A i \in Idents : PathsNow(i) = IF i \in live THEN PathsOf(mode, i) ELSE {}
  BY <1>1, IdentsAssumption DEF NoMount, PathsNow
<1>4. Remaining' = PathsOf(mode, id)
  BY <1>1 DEF Remaining, PathsOf
<1>5. \A i \in Idents : PathsNow(i)' = PathsNow(i)
  <2> SUFFICES ASSUME NEW i \in Idents PROVE PathsNow(i)' = PathsNow(i)
    OBVIOUS
  <2>1. PathsOf(mode, i)' = PathsOf(mode, i)
    BY <1>1 DEF PathsOf
  <2>2. CASE i = id
    <3>1. PathsNow(i)' = PathsOf(mode, i) \ Remaining'
      BY <1>1, <2>1, <2>2 DEF PathsNow
    <3> QED
      BY <1>1, <1>3, <1>4, <2>2, <3>1
  <2>3. CASE i # id
    <3>1. PathsNow(i)' = IF i \in live' THEN PathsOf(mode, i) ELSE {}
      BY <1>1, <2>1, <2>3 DEF PathsNow
    <3> QED
      BY <1>1, <1>3, <2>3, <3>1
  <2> QED
    BY <2>2, <2>3
<1>6. Way' = Way
  BY <1>1 DEF Way, NoMount, Root
<1>7. TreeShape'
  BY <1>1, <1>2, <1>5, <1>6, ShapeStays
<1>8. MountOK'
  <2>1. /\ mode.paths[id] \in Seq(Paths) \ {<< >>}
        /\ \A j, k \in 1..Len(mode.paths[id]) : mode.paths[id][j] = mode.paths[id][k] => j = k
        /\ Head(mode.paths[id]) \in Paths
    BY <1>2, MountPaths, HeadAndTail
  <2>2. IsPrefix(<< >>, Head(mode.paths[id])) /\ << >> \in Paths
    BY <2>1, PrefixOrder DEF Root
  <2>3. PathsOf(mode, id)' = Range(mode.paths[id])
    BY <1>1 DEF PathsOf
  <2> QED
    BY <1>1, <2>1, <2>2, <2>3 DEF MountOK
<1> QED
  BY <1>1, <1>2, <1>7, <1>8 DEF TreeInv

(* UnmountBegin: all of them are in the tree still.                             *)
LEMMA UnmountBeginTree == ASSUME TreeInv, NEW id \in Idents, UnmountBegin(id) PROVE TreeInv'
<1>1. mount = NoMount /\ id \in live /\ live' = live \ {id} /\ tree' = tree /\ mode' = mode
      /\ mount' = [pc |-> "leave", id |-> id, todo |-> mode.paths[id], at |-> << >>]
  BY DEF TreeInv, MountOK, UnmountBegin, tables
<1>2. mode \in Modes /\ live \subseteq Idents /\ TreeShape
  BY DEF TreeInv
<1>3. \A i \in Idents : PathsNow(i) = IF i \in live THEN PathsOf(mode, i) ELSE {}
  BY <1>1, IdentsAssumption DEF NoMount, PathsNow
<1>4. Remaining' = PathsOf(mode, id)
  BY <1>1 DEF Remaining, PathsOf
<1>5. \A i \in Idents : PathsNow(i)' = PathsNow(i)
  <2> SUFFICES ASSUME NEW i \in Idents PROVE PathsNow(i)' = PathsNow(i)
    OBVIOUS
  <2>1. PathsOf(mode, i)' = PathsOf(mode, i)
    BY <1>1 DEF PathsOf
  <2>2. CASE i = id
    <3>1. PathsNow(i)' = Remaining'
      BY <1>1, <2>2 DEF PathsNow
    <3> QED
      BY <1>1, <1>3, <1>4, <2>2, <3>1
  <2>3. CASE i # id
    <3>1. PathsNow(i)' = IF i \in live' THEN PathsOf(mode, i) ELSE {}
      BY <1>1, <2>1, <2>3 DEF PathsNow
    <3> QED
      BY <1>1, <1>3, <2>3, <3>1
  <2> QED
    BY <2>2, <2>3
<1>6. Way' = Way
  BY <1>1 DEF Way, NoMount, Root
<1>7. TreeShape'
  BY <1>1, <1>2, <1>5, <1>6, ShapeStays
<1>8. MountOK'
  <2>1. /\ mode.paths[id] \in Seq(Paths) \ {<< >>}
        /\ \A j, k \in 1..Len(mode.paths[id]) : mode.paths[id][j] = mode.paths[id][k] => j = k
    BY <1>2, MountPaths
  <2>2. << >> \in Paths
    BY PrefixOrder DEF Root
  <2>3. PathsOf(mode, id)' = Range(mode.paths[id])
    BY <1>1 DEF PathsOf
  <2> QED
    BY <1>1, <2>1, <2>2, <2>3 DEF MountOK
<1> QED
  BY <1>1, <1>2, <1>7, <1>8 DEF TreeInv

(* What is known of a mount or an unmount that is going on.                     *)
LEMMA Underway ==
    ASSUME TreeInv, mount # NoMount
    PROVE  /\ mount.id \in Idents /\ mount.at \in Paths /\ mount.todo \in Seq(Paths) /\ mount.todo # << >>
           /\ Head(mount.todo) \in Paths /\ Head(mount.todo) \in Range(mount.todo)
           /\ Range(mount.todo) \subseteq PathsOf(mode, mount.id)
           /\ Tail(mount.todo) \in Seq(Paths)
           /\ Range(Tail(mount.todo)) = Range(mount.todo) \ {Head(mount.todo)}
           /\ \A j, k \in 1..Len(Tail(mount.todo)) : Tail(mount.todo)[j] = Tail(mount.todo)[k] => j = k
           /\ Len(mount.todo) = 1 <=> Tail(mount.todo) = << >>
           /\ Len(mount.todo) = 1 => Range(Tail(mount.todo)) = {}
<1>1. /\ mount.id \in Idents /\ mount.at \in Paths /\ mount.todo \in Seq(Paths) /\ mount.todo # << >>
      /\ Range(mount.todo) \subseteq PathsOf(mode, mount.id)
      /\ \A j, k \in 1..Len(mount.todo) : mount.todo[j] = mount.todo[k] => j = k
  BY DEF TreeInv, MountOK
<1> DEFINE s == mount.todo
<1>2. s \in Seq(Paths) /\ s # << >> /\ \A j, k \in 1..Len(s) : s[j] = s[k] => j = k
  BY <1>1
<1> HIDE DEF s
<1>3. /\ Head(s) \in Paths /\ Head(s) \in Range(s) /\ Tail(s) \in Seq(Paths)
      /\ Range(Tail(s)) = Range(s) \ {Head(s)}
      /\ \A j, k \in 1..Len(Tail(s)) : Tail(s)[j] = Tail(s)[k] => j = k
      /\ Len(s) = 1 <=> Tail(s) = << >>
      /\ Len(s) = 1 => Range(Tail(s)) = {}
  BY <1>2, HeadAndTail
<1> QED
  BY <1>1, <1>3 DEF s

(* CacheClear: on to the next path, or the storage is mounted or unmounted.     *)
LEMMA CacheClearTree == ASSUME TreeInv, CacheClear PROVE TreeInv'
<1>1. mount.pc = "clear" /\ mount' = AfterClear /\ live' = live /\ tree' = tree /\ mode' = mode
  BY DEF CacheClear, tables
<1>2. mount # NoMount /\ mode \in Modes /\ live \subseteq Idents /\ TreeShape /\ MountOK
  BY <1>1 DEF NoMount, TreeInv
<1>3. mount.id \in Idents /\ Remaining = Range(Tail(mount.todo))
  BY <1>1, <1>2, Underway DEF Remaining
<1>4. \A i \in Idents : PathsOf(mode, i)' = PathsOf(mode, i)
  BY <1>1 DEF PathsOf
<1>5. Way = Root
  BY <1>1 DEF Way
<1>6. CASE Len(mount.todo) = 1
  <2>1. mount' = NoMount
    BY <1>1, <1>6 DEF AfterClear
  <2>2. Remaining = {}
    BY <1>2, <1>3, <1>6, Underway
  <2>3. \A i \in Idents : PathsNow(i) = IF i \in live THEN PathsOf(mode, i) ELSE {}
    BY <2>2 DEF PathsNow
  <2>4. \A i \in Idents : PathsNow(i)' = IF i \in live THEN PathsOf(mode, i) ELSE {}
    BY <1>1, <1>4, <2>1, IdentsAssumption DEF NoMount, PathsNow
  <2>5. Way' = Root
    BY <2>1 DEF Way, NoMount
  <2>6. TreeShape'
    BY <1>1, <1>2, <1>5, <2>3, <2>4, <2>5, ShapeStays
  <2> QED
    BY <1>1, <1>2, <2>1, <2>6 DEF TreeInv, MountOK
<1>7. CASE Len(mount.todo) # 1
  <2>1. /\ mount' = [mount EXCEPT !.todo = Tail(mount.todo), !.at = Root,
                                  !.pc = IF mount.id \in live THEN "grow" ELSE "leave"]
        /\ DOMAIN mount = {"pc", "id", "todo", "at"}
    <3>1. mount' = [mount EXCEPT !.todo = Tail(@), !.at = Root,
                                  !.pc = IF mount.id \in live THEN "grow" ELSE "leave"]
      BY <1>1, <1>7 DEF AfterClear
    <3> QED
      BY <1>2, <3>1 DEF MountOK
  <2>2. /\ mount'.id = mount.id /\ mount'.todo = Tail(mount.todo) /\ mount'.at = Root
        /\ mount'.pc = IF mount.id \in live THEN "grow" ELSE "leave"
    BY <2>1
  <2>3. Remaining' = Remaining
    BY <1>3, <2>2 DEF Remaining
  <2>4. \A i \in Idents : PathsNow(i)' = PathsNow(i)
    BY <1>1, <1>4, <2>2, <2>3 DEF PathsNow
  <2>5. Way' = Root
    BY <2>2 DEF Way
  <2>6. TreeShape'
    BY <1>1, <1>2, <1>5, <2>4, <2>5, ShapeStays
  <2> DEFINE u == Tail(mount.todo)
  <2>7. /\ u \in Seq(Paths) /\ u # << >>
        /\ \A j, k \in 1..Len(u) : u[j] = u[k] => j = k
        /\ Range(u) \subseteq PathsOf(mode, mount.id)
    BY <1>2, <1>7, Underway
  <2> HIDE DEF u
  <2>8. Head(u) \in Paths
    BY <2>7, HeadAndTail
  <2>9. Root \in Paths /\ IsPrefix(Root, Head(u))
    BY <2>8, PrefixOrder
  <2>10. MountOK'
    <3>1. mount'.todo = u
      BY <2>2 DEF u
    <3>2. DOMAIN mount' = {"pc", "id", "todo", "at"} /\ mount'.pc \in {"grow", "leave", "prune", "clear"}
      BY <2>1
    <3>3. mount'.id \in Idents /\ mount'.at \in Paths /\ Range(u) \subseteq PathsOf(mode, mount.id)'
      BY <1>3, <1>4, <2>2, <2>7, <2>9
    <3>4. /\ mount'.pc = "grow" => mount'.id \in live' /\ IsPrefix(mount'.at, Head(mount'.todo))
          /\ mount'.pc \in {"leave", "prune"} => mount'.id \notin live'
      BY <1>1, <2>2, <2>9, <3>1
    <3>5. PathsOf(mode, mount.id)' = PathsOf(mode', mount'.id)
      BY <2>2 
    <3> QED
      BY <2>7, <3>1, <3>2, <3>3, <3>4, <3>5 DEF MountOK
  <2> QED
    BY <1>1, <1>2, <2>6, <2>10 DEF TreeInv
<1> QED
  BY <1>6, <1>7

(* MountNode: a node on the way, or the storage at the end of it.               *)
LEMMA MountNodeTree == ASSUME TreeInv, MountNode PROVE TreeInv'
<1> DEFINE path == Head(mount.todo)
           next == SubSeq(path, 1, Len(mount.at) + 1)
<1>1. mount.pc = "grow" /\ live' = live /\ mode' = mode
  BY DEF MountNode
<1>2. mount # NoMount /\ mode \in Modes /\ live \subseteq Idents /\ TreeShape /\ MountOK
  BY <1>1 DEF NoMount, TreeInv
<1>3. /\ mount.id \in Idents /\ mount.id \in live /\ Remaining = Range(mount.todo)
      /\ path \in Paths /\ path \in PathsOf(mode, mount.id) /\ path \in Range(mount.todo)
      /\ mount.at \in Paths /\ IsPrefix(mount.at, path) /\ Way = mount.at
      /\ DOMAIN mount = {"pc", "id", "todo", "at"}
  BY <1>1, <1>2, Underway DEF Remaining, MountOK, Way
<1>4. \A i \in Idents : PathsOf(mode, i)' = PathsOf(mode, i)
  BY <1>1 DEF PathsOf
<1>5. CASE mount.at = path
  <2>1. tree' = [tree EXCEPT ![path] = @ \cup {mount.id}] /\ mount' = [mount EXCEPT !.pc = "clear"]
    BY <1>5 DEF MountNode
  <2>2. mount'.pc = "clear" /\ mount'.id = mount.id /\ mount'.todo = mount.todo /\ mount'.at = mount.at
        /\ DOMAIN mount' = DOMAIN mount
    BY <1>3, <2>1
  <2>3. Remaining' = Remaining \ {path}
    BY <1>2, <1>3, <2>2, Underway DEF Remaining
  <2>4. PathsNow(mount.id) = PathsOf(mode, mount.id) \ Remaining
    BY <1>3 DEF PathsNow
  <2>5. ASSUME NEW i \in Idents
        PROVE  PathsNow(i)' = IF i = mount.id THEN PathsNow(i) \cup {path} ELSE PathsNow(i)
    <3>1. CASE i = mount.id
      <4>1. PathsNow(i)' = PathsOf(mode, i) \ Remaining'
        BY <1>1, <1>3, <1>4, <2>2, <3>1 DEF PathsNow
      <4> QED
        BY <1>3, <2>3, <2>4, <3>1, <4>1
    <3>2. CASE i # mount.id
      BY <1>1, <1>4, <2>2, <3>2 DEF PathsNow
    <3> QED
      BY <3>1, <3>2
  <2>6. Nodes' = Nodes /\ Way' = Root /\ path \in Nodes /\ Root \in Nodes
    BY <1>2, <1>3, <1>5, <2>1, <2>2 DEF Nodes, Way, TreeShape
  <2>7. tree' = [n \in Nodes' |-> {i \in Idents : n \in PathsNow(i)'}]
    <3>1. tree = [n \in Nodes |-> {i \in Idents : n \in PathsNow(i)}]
      BY <1>2 DEF TreeShape
    <3>2. \A n \in Nodes : tree'[n] = IF n = path THEN tree[n] \cup {mount.id} ELSE tree[n]
      BY <2>1, <3>1
    <3>3. \A n \in Nodes : tree'[n] = {i \in Idents : n \in PathsNow(i)'}
      BY <1>3, <2>5, <3>1, <3>2
    <3>4. tree' = [n \in Nodes |-> tree'[n]]
      BY <2>1, <3>1
    <3> QED
      BY <2>6, <3>3, <3>4
  <2>8. ASSUME NEW n \in Nodes PROVE Led(n)'
    <3>1. Led(n)
      BY <1>2 DEF TreeShape
    <3>2. \A i \in Idents : PathsNow(i) \subseteq PathsNow(i)'
      BY <2>5
    <3>3. \E i \in Idents : path \in PathsNow(i)'
      BY <1>3, <2>5
    <3> QED
      BY <1>3, <1>5, <3>1, <3>2, <3>3 DEF Led
  <2>9. \A i \in Idents : PathsNow(i)' \subseteq Nodes
    BY <1>2, <2>5, <2>6 DEF TreeShape
  <2>10. TreeShape'
    BY <1>2, <2>6, <2>7, <2>8, <2>9 DEF TreeShape
  <2>11. PathsOf(mode, mount.id)' = PathsOf(mode, mount.id)
    BY <1>1, <2>2
  <2>12. MountOK'
    BY <1>1, <1>2, <2>2, <2>11 DEF MountOK
  <2> QED
    BY <1>1, <1>2, <2>10, <2>12 DEF TreeInv
<1>6. CASE mount.at # path
  <2>1. /\ tree' = IF next \in Nodes THEN tree
                   ELSE [n \in Nodes \cup {next} |-> IF n = next THEN {} ELSE tree[n]]
        /\ mount' = [mount EXCEPT !.at = next]
    BY <1>6 DEF MountNode
  <2>2. mount'.pc = "grow" /\ mount'.id = mount.id /\ mount'.todo = mount.todo /\ mount'.at = next
        /\ DOMAIN mount' = DOMAIN mount
    BY <1>1, <1>3, <2>1
  <2>3. next \in Paths /\ Len(next) = Len(mount.at) + 1 /\ IsPrefix(next, path)
    BY <1>3, <1>6, NextPart
  <2>4. IsPrefix(mount.at, next) /\ \A n \in Paths : IsPrefix(n, next) <=> n = next \/ IsPrefix(n, mount.at)
    <3> HIDE DEF next, path
    <3> QED
      BY <1>3, <2>3, ChildOnTheWay
  <2> HIDE DEF next
  <2>5. Remaining' = Remaining
    BY <1>1, <2>2 DEF Remaining
  <2>6. \A i \in Idents : PathsNow(i)' = PathsNow(i)
    BY <1>1, <1>4, <2>2, <2>5 DEF PathsNow
  <2>7. Way' = next /\ Nodes' = Nodes \cup {next} /\ Root \in Nodes /\ mount.at \in Nodes
    BY <1>2, <1>3, <2>1, <2>2 DEF Nodes, Way, TreeShape
  <2>8. tree' = [n \in Nodes' |-> {i \in Idents : n \in PathsNow(i)'}]
    <3>1. tree = [n \in Nodes |-> {i \in Idents : n \in PathsNow(i)}]
      BY <1>2 DEF TreeShape
    <3>2. next \notin Nodes => \A i \in Idents : next \notin PathsNow(i)
      BY <1>2 DEF TreeShape
    <3>3. CASE next \in Nodes
      BY <2>1, <2>6, <2>7, <3>1, <3>3
    <3>4. CASE next \notin Nodes
      <4>1. \A n \in Nodes' : tree'[n] = {i \in Idents : n \in PathsNow(i)'}
        BY <2>1, <2>6, <2>7, <3>1, <3>2, <3>4
      <4>2. tree' = [n \in Nodes' |-> tree'[n]]
        BY <2>1, <2>7, <3>4
      <4> QED
        BY <4>1, <4>2
    <3> QED
      BY <3>3, <3>4
  <2>9. ASSUME NEW n \in Nodes' PROVE n \in Paths /\ Led(n)' /\ Prefixes(n) \subseteq Nodes'
    <3>1. CASE n \in Nodes
      <4>1. n \in Paths /\ Led(n) /\ Prefixes(n) \subseteq Nodes
        BY <1>2, <3>1 DEF TreeShape
      <4>2. IsPrefix(n, mount.at) => IsPrefix(n, next)
        BY <2>4, <4>1
      <4> QED
        BY <1>3, <2>6, <2>7, <4>1, <4>2 DEF Led
    <3>2. CASE n = next
      <4>1. IsPrefix(next, next)
        BY <2>3, PrefixOrder
      <4>2. Led(n)'
        BY <2>7, <3>2, <4>1 DEF Led
      <4>3. ASSUME NEW r \in Prefixes(n) PROVE r \in Nodes'
        <5>1. r \in Paths /\ (r = next \/ IsPrefix(r, mount.at))
          BY <2>3, <2>4, <3>2, PrefixesAre
        <5>2. IsPrefix(r, mount.at) => r \in Prefixes(mount.at)
          BY <1>3, <5>1, PrefixesAre
        <5> QED
          BY <1>2, <2>7, <5>1, <5>2 DEF TreeShape
      <4> QED
        BY <2>3, <3>2, <4>2, <4>3
    <3> QED
      BY <2>7, <3>1, <3>2
  <2>10. TreeShape'
    BY <1>2, <2>6, <2>7, <2>8, <2>9 DEF TreeShape
  <2>11. PathsOf(mode, mount.id)' = PathsOf(mode, mount.id)
    BY <1>1, <2>2
  <2>12. MountOK'
    BY <1>1, <1>2, <2>2, <2>3, <2>11 DEF MountOK
  <2> QED
    BY <1>1, <1>2, <2>10, <2>12 DEF TreeInv
<1> QED
  BY <1>5, <1>6

(* UnmountNode: the storage leaves its node, which the way back begins at.       *)
LEMMA UnmountNodeTree == ASSUME TreeInv, UnmountNode PROVE TreeInv'
<1> DEFINE path == Head(mount.todo)
<1>1. mount.pc = "leave" /\ live' = live /\ mode' = mode
      /\ tree' = [tree EXCEPT ![path] = @ \ {mount.id}]
      /\ mount' = [mount EXCEPT !.pc = "prune", !.at = path]
  BY DEF UnmountNode
<1>2. mount # NoMount /\ mode \in Modes /\ live \subseteq Idents /\ TreeShape /\ MountOK
  BY <1>1 DEF NoMount, TreeInv
<1>3. /\ mount.id \in Idents /\ mount.id \notin live /\ Remaining = Range(mount.todo)
      /\ path \in Paths /\ path \in Range(mount.todo) /\ Way = Root
      /\ DOMAIN mount = {"pc", "id", "todo", "at"}
  BY <1>1, <1>2, Underway DEF Remaining, MountOK, Way
<1>4. \A i \in Idents : PathsOf(mode, i)' = PathsOf(mode, i)
  BY <1>1 DEF PathsOf
<1>5. mount'.pc = "prune" /\ mount'.id = mount.id /\ mount'.todo = mount.todo /\ mount'.at = path
      /\ DOMAIN mount' = DOMAIN mount
  BY <1>1, <1>3
<1>6. Remaining' = Remaining \ {path}
  BY <1>2, <1>3, <1>5, Underway DEF Remaining
<1>7. ASSUME NEW i \in Idents
      PROVE  PathsNow(i)' = IF i = mount.id THEN PathsNow(i) \ {path} ELSE PathsNow(i)
  BY <1>1, <1>3, <1>4, <1>5, <1>6 DEF PathsNow
<1>8. path \in PathsNow(mount.id)
  BY <1>3 DEF PathsNow
<1>9. Nodes' = Nodes /\ Way' = path /\ path \in Nodes
  BY <1>1, <1>2, <1>3, <1>5, <1>8 DEF Nodes, Way, TreeShape
<1>10. tree' = [n \in Nodes' |-> {i \in Idents : n \in PathsNow(i)'}]
  <2>1. tree = [n \in Nodes |-> {i \in Idents : n \in PathsNow(i)}]
    BY <1>2 DEF TreeShape
  <2>2. \A n \in Nodes : tree'[n] = IF n = path THEN tree[n] \ {mount.id} ELSE tree[n]
    BY <1>1, <2>1
  <2>3. ASSUME NEW n \in Nodes
        PROVE  tree'[n] = {i \in Idents : n \in PathsNow(i)'}
    <3>1. tree[n] = {i \in Idents : n \in PathsNow(i)}
      BY <2>1
    <3>2. CASE n = path
      <4>1. tree'[n] = tree[n] \ {mount.id}
        BY <2>2, <3>2
      <4>2. ASSUME NEW i \in Idents
            PROVE  n \in PathsNow(i)' <=> n \in PathsNow(i) /\ i # mount.id
        <5>1. CASE i = mount.id
          BY <1>7, <3>2, <5>1
        <5>2. CASE i # mount.id
          BY <1>7, <5>2
        <5> QED
          BY <5>1, <5>2
      <4> QED
        BY <3>1, <4>1, <4>2
    <3>3. CASE n # path
      <4>1. tree'[n] = tree[n]
        BY <2>2, <3>3
      <4>2. ASSUME NEW i \in Idents
            PROVE  n \in PathsNow(i)' <=> n \in PathsNow(i)
        BY <1>7, <3>3
      <4> QED
        BY <3>1, <4>1, <4>2
    <3> QED
      BY <3>2, <3>3
  <2>4. tree' = [n \in Nodes |-> tree'[n]]
    BY <1>1, <2>1
  <2> QED
    BY <1>9, <2>3, <2>4
<1>11. ASSUME NEW n \in Nodes PROVE Led(n)'
  <2>1. Led(n) /\ n \in Paths
    BY <1>2 DEF TreeShape
  <2>2. IsPrefix(n, Root) => n = Root
    <3>1. IsPrefix(n, Root) => Len(n) <= 0 /\ Len(n) \in Nat
      BY <2>1, PrefixOrder
    <3>2. IsPrefix(n, Root) => Len(n) = 0
      BY <3>1
    <3> QED
      BY <2>1, <3>2, PrefixOrder
  <2>3. ASSUME NEW i \in Idents, NEW p \in PathsNow(i), IsPrefix(n, p) PROVE Led(n)'
    <3>1. CASE p = path
      BY <1>9, <2>3, <3>1 DEF Led
    <3>2. CASE p # path
      BY <1>7, <2>3, <3>2 DEF Led
    <3> QED
      BY <3>1, <3>2
  <2> QED
    BY <1>3, <2>1, <2>2, <2>3 DEF Led
<1>12. \A i \in Idents : PathsNow(i)' \subseteq Nodes
  BY <1>2, <1>7 DEF TreeShape
<1>13. TreeShape'
  BY <1>2, <1>9, <1>10, <1>11, <1>12 DEF TreeShape
<1>14. PathsOf(mode, mount.id)' = PathsOf(mode, mount.id)
  BY <1>1, <1>5
<1>15. MountOK'
  BY <1>1, <1>2, <1>3, <1>5, <1>14 DEF MountOK
<1> QED
  BY <1>1, <1>2, <1>13, <1>15 DEF TreeInv

(* Prune: a node that leads to no storage has nothing below it, and one that    *)
(* stays leads to a storage.                                                    *)
LEMMA PruneTree == ASSUME TreeInv, Prune PROVE TreeInv'
<1>1. mount.pc = "prune" /\ live' = live /\ mode' = mode
  BY DEF Prune
<1>2. mount # NoMount /\ mode \in Modes /\ live \subseteq Idents /\ TreeShape /\ MountOK
  BY <1>1 DEF NoMount, TreeInv
<1> DEFINE at == mount.at
<1>3. /\ mount.id \in Idents /\ mount.id \notin live /\ Remaining = Range(Tail(mount.todo))
      /\ at \in Paths /\ Way = at /\ DOMAIN mount = {"pc", "id", "todo", "at"}
  BY <1>1, <1>2, Underway DEF Remaining, MountOK, Way
<1>4. \A i \in Idents : PathsOf(mode, i)' = PathsOf(mode, i)
  BY <1>1 DEF PathsOf
<1>5. CASE at = Root
  <2>1. tree' = tree /\ mount' = [mount EXCEPT !.pc = "clear"]
    BY <1>5 DEF Prune
  <2>2. mount'.pc = "clear" /\ mount'.id = mount.id /\ mount'.todo = mount.todo /\ mount'.at = at
        /\ DOMAIN mount' = DOMAIN mount
    BY <1>3, <2>1
  <2>3. Remaining' = Remaining
    BY <1>3, <2>2 DEF Remaining
  <2>4. \A i \in Idents : PathsNow(i)' = PathsNow(i)
    BY <1>1, <1>4, <2>2, <2>3 DEF PathsNow
  <2>5. Way' = Way
    BY <1>3, <1>5, <2>2 DEF Way
  <2>6. TreeShape'
    BY <1>2, <2>1, <2>4, <2>5, ShapeStays
  <2>7. PathsOf(mode, mount.id)' = PathsOf(mode, mount.id)
    BY <1>1, <2>2
  <2>8. MountOK'
    BY <1>1, <1>2, <2>2, <2>7 DEF MountOK
  <2> QED
    BY <1>1, <1>2, <2>6, <2>8 DEF TreeInv
<1>6. CASE at # Root
  <2>1. /\ tree' = IF IsEmpty(at) THEN [n \in Nodes \ {at} |-> tree[n]] ELSE tree
        /\ mount' = [mount EXCEPT !.at = Front(at)]
    BY <1>6 DEF Prune
  <2> DEFINE up == Front(at)
  <2>2. mount'.pc = "prune" /\ mount'.id = mount.id /\ mount'.todo = mount.todo /\ mount'.at = up
        /\ DOMAIN mount' = DOMAIN mount
    BY <1>1, <1>3, <2>1
  <2>3. up \in Paths /\ IsPrefix(up, at) /\ up # at
        /\ \A n \in Paths : IsPrefix(n, at) <=> n = at \/ IsPrefix(n, up)
    <3>1. /\ Front(at) \in Paths /\ Len(Front(at)) = Len(at) - 1 /\ IsPrefix(Front(at), at)
          /\ \A n \in Paths : IsPrefix(n, at) <=> n = at \/ IsPrefix(n, Front(at))
      BY <1>3, <1>6, FrontIsAbove
    <3>2. Len(at) \in Nat
      BY <1>3, PrefixOrder
    <3> HIDE DEF at
    <3>3. Len(Front(at)) # Len(at)
      BY <3>1, <3>2
    <3> QED
      BY <3>1, <3>3
  <2> HIDE DEF up, at
  <2>4. Remaining' = Remaining
    BY <1>1, <2>2 DEF Remaining
  <2>5. \A i \in Idents : PathsNow(i)' = PathsNow(i)
    BY <1>1, <1>4, <2>2, <2>4 DEF PathsNow
  <2>6. Way' = up
    BY <2>2 DEF Way
  <2>7. at \in Nodes /\ Root \in Nodes /\ tree = [n \in Nodes |-> {i \in Idents : n \in PathsNow(i)}]
    BY <1>2, <1>3 DEF TreeShape
  <2>8. up \in Nodes
    <3>1. Prefixes(at) \subseteq Nodes
      BY <1>2, <2>7 DEF TreeShape
    <3> QED
      BY <1>3, <2>3, <3>1, PrefixesAre
  (* What is below a node comes through one of its children. *)
  <2>9. ASSUME NEW n \in Nodes, IsPrefix(at, n), n # at
        PROVE  \E c \in Children(at) : c \in Nodes /\ Led(c) /\ c \in Paths /\ IsPrefix(at, c) /\ ~IsPrefix(c, at)
    <3>1. n \in Paths /\ Prefixes(n) \subseteq Nodes
      BY <1>2, <2>9 DEF TreeShape
    <3> DEFINE c == SubSeq(n, 1, Len(at) + 1)
    <3>2. c \in Paths /\ Len(c) = Len(at) + 1 /\ IsPrefix(c, n)
      BY <1>3, <2>9, <3>1, NextPart
    <3> HIDE DEF c
    <3>3. c # Root /\ IsPrefix(at, c) /\ Front(c) = at
      BY <1>3, <2>9, <3>1, <3>2, ChildOnTheWay
    <3>4. c \in Nodes
      BY <3>1, <3>2, PrefixesAre
    <3>5. ~IsPrefix(c, at)
      <4>1. Len(at) \in Nat
        BY <1>3, PrefixOrder
      <4>2. ~(Len(c) <= Len(at))
        BY <3>2, <4>1
      <4> QED
        BY <1>3, <3>2, <4>2, PrefixOrder
    <3>6. c \in Children(at)
      BY <3>3, <3>4 DEF Children
    <3>7. Led(c)
      BY <1>2, <3>4 DEF TreeShape
    <3> QED
      BY <3>2, <3>3, <3>4, <3>5, <3>6, <3>7
  <2>10. ASSUME IsEmpty(at) PROVE TreeShape'
    <3>1. Children(at) = {} /\ tree[at] = {}
      BY <2>10 DEF IsEmpty
    <3>2. tree' = [n \in Nodes \ {at} |-> tree[n]] /\ Nodes' = Nodes \ {at}
      BY <2>1, <2>10 DEF Nodes
    <3>3. \A i \in Idents : at \notin PathsNow(i)
      BY <2>7, <3>1
    <3>4. \A n \in Nodes : IsPrefix(at, n) => n = at
      BY <2>9, <3>1
    <3>5. tree' = [n \in Nodes' |-> {i \in Idents : n \in PathsNow(i)'}]
      <4>1. \A n \in Nodes' : tree'[n] = {i \in Idents : n \in PathsNow(i)'}
        BY <2>5, <2>7, <3>2
      <4> QED
        BY <3>2, <4>1
    <3>6. ASSUME NEW n \in Nodes' PROVE n \in Paths /\ Led(n)' /\ Prefixes(n) \subseteq Nodes'
      <4>1. n \in Nodes /\ n # at
        BY <3>2
      <4>2. n \in Paths /\ Led(n) /\ Prefixes(n) \subseteq Nodes
        BY <1>2, <4>1 DEF TreeShape
      <4>3. Led(n)'
        BY <1>3, <2>3, <2>5, <2>6, <4>1, <4>2 DEF Led, at
      <4>4. at \notin Prefixes(n)
        BY <3>4, <4>1, <4>2, PrefixesAre
      <4> QED
        BY <3>2, <4>2, <4>3, <4>4
    <3>7. Root \in Nodes' /\ up \in Nodes'
      BY <1>6, <2>3, <2>7, <2>8, <3>2
    <3>8. \A i \in Idents : PathsNow(i)' \subseteq Nodes'
      BY <1>2, <2>5, <3>2, <3>3 DEF TreeShape
    <3> QED
      BY <2>6, <3>5, <3>6, <3>7, <3>8 DEF TreeShape
  <2>11. ASSUME ~IsEmpty(at) PROVE TreeShape'
    <3>1. tree' = tree /\ Nodes' = Nodes
      BY <2>1, <2>11 DEF Nodes
    <3>2. \E i \in Idents : \E p \in PathsNow(i) : IsPrefix(at, p)
      <4>1. CASE tree[at] # {}
        <5>1. PICK i \in Idents : at \in PathsNow(i)
          BY <2>7, <4>1
        <5> QED
          BY <1>3, <5>1, PrefixOrder
      <4>2. CASE Children(at) # {}
        <5>1. PICK n \in Nodes : n # Root /\ Front(n) = at
          BY <4>2 DEF Children
        <5>2. n \in Paths
          BY <1>2 DEF TreeShape
        <5>3. IsPrefix(at, n) /\ n # at
          <6>1. Len(at) = Len(n) - 1 /\ IsPrefix(at, n) /\ Len(n) \in Nat
            BY <5>1, <5>2, FrontIsAbove, PrefixOrder
          <6>2. Len(at) # Len(n)
            BY <6>1
          <6> QED
            BY <6>1, <6>2
        <5>4. PICK c \in Children(at) : Led(c) /\ c \in Paths /\ IsPrefix(at, c) /\ ~IsPrefix(c, at)
          BY <2>9, <5>3
        <5>5. c # Root
          BY <5>4 DEF Children
        <5>6. PICK i \in Idents : \E p \in PathsNow(i) : IsPrefix(c, p)
          BY <1>3, <5>4, <5>5 DEF Led, at
        <5>7. PICK p \in PathsNow(i) : IsPrefix(c, p)
          BY <5>6
        <5>8. p \in Paths
          BY <1>2, <5>6, <5>7 DEF TreeShape
        <5>9. IsPrefix(at, p)
          BY <1>3, <5>4, <5>7, <5>8, PrefixOrder
        <5> QED
          BY <5>6, <5>7, <5>9
      <4> QED
        BY <2>11, <4>1, <4>2 DEF IsEmpty
    <3>3. ASSUME NEW n \in Nodes PROVE Led(n)'
      <4>1. Led(n) /\ n \in Paths
        BY <1>2 DEF TreeShape
      <4>2. IsPrefix(n, at) => n = at \/ IsPrefix(n, up)
        BY <2>3, <4>1
      <4> QED
        BY <1>3, <2>5, <2>6, <3>2, <4>1, <4>2 DEF Led, at
    <3> QED
      BY <1>2, <2>5, <2>6, <2>7, <2>8, <3>1, <3>3 DEF TreeShape
  <2>12. PathsOf(mode, mount.id)' = PathsOf(mode, mount.id)
    BY <1>1, <2>2
  <2>13. MountOK'
    BY <1>1, <1>2, <2>2, <2>3, <2>12 DEF MountOK
  <2> QED
    BY <1>1, <1>2, <2>10, <2>11, <2>13 DEF TreeInv
<1> QED
  BY <1>5, <1>6

(* Calls and the storages leave the tree as it is.                              *)
LEMMA TreeUntouched ==
    ASSUME TreeInv, UNCHANGED <<mode, live, tree, mount>>
    PROVE  TreeInv'
<1>1. \A i \in Idents : PathsOf(mode, i)' = PathsOf(mode, i)
  BY DEF PathsOf
<1>2. Way' = Way /\ Remaining' = Remaining
  BY DEF Way, Remaining
<1>3. \A i \in Idents : PathsNow(i)' = PathsNow(i)
  BY <1>1, <1>2 DEF PathsNow
<1>4. TreeShape'
  BY <1>2, <1>3, ShapeStays DEF TreeInv
<1>5. MountOK'
  BY DEF TreeInv, MountOK, PathsOf
<1> QED
  BY <1>4, <1>5 DEF TreeInv

(* The tree keeps its shape whatever happens.                                   *)
LEMMA TreeKept == ASSUME TreeInv, [Next]_vars PROVE TreeInv'
<1>1. CASE UNCHANGED vars
  BY <1>1, TreeUntouched DEF vars
<1>2. CASE Mounter
  BY <1>2, MountBeginTree, UnmountBeginTree, MountNodeTree, UnmountNodeTree, PruneTree,
     CacheClearTree DEF Mounter
<1>3. ASSUME NEW t \in Threads, FileOp(t) PROVE TreeInv'
  <2>1. UNCHANGED <<mode, live, tree, mount>>
    BY <1>3 DEF FileOp, Start, Hit, Visit, Descend, Answered, Stat, Call, tables
  <2> QED
    BY <2>1, TreeUntouched
<1>4. ASSUME NEW i \in Idents, Break(i) PROVE TreeInv'
  <2>1. UNCHANGED <<mode, live, tree, mount>>
    BY <1>4 DEF Break, tables
  <2> QED
    BY <2>1, TreeUntouched
<1> QED
  BY <1>1, <1>2, <1>3, <1>4 DEF Next

-----------------------------------------------------------------------------
(* What a lookup knows. *)

(* A name without its storage id is a name: the path a lookup asks for is one.  *)
LEMMA KeysArePaths ==
    /\ \A path \in Paths : Front(path) \in Paths /\ RealPath(path) \in Paths
    /\ \A c : c.path \in Paths => KeyOf(c) \in Paths
<1>1. ASSUME NEW path \in Paths PROVE Front(path) \in Paths
  <2>1. CASE path = Root
    <3>1. path = << >> /\ Len(path) = 0
      BY <2>1, PrefixOrder DEF Root
    <3>2. SubSeq(path, 1, 0 - 1) = << >>
      <4>1. 1 \in Int /\ 0 - 1 \in Int /\ \A j \in 1..(0 - 1) : path[j] \in FileNames
        OBVIOUS
      <4>2. path \in Seq(FileNames)
        BY DEF Paths
      <4>3. SubSeq(path, 1, 0 - 1) \in Seq(FileNames)
            /\ Len(SubSeq(path, 1, 0 - 1)) = IF 1 <= 0 - 1 THEN (0 - 1) - 1 + 1 ELSE 0
        BY <4>1, <4>2, SubSeqProperties
      <4> QED
        BY <4>3, EmptySeq
    <3> QED
      BY <3>1, <3>2, EmptySeq DEF Front, Paths
  <2>2. CASE path # Root
    BY <2>2, FrontIsAbove
  <2> QED
    BY <2>1, <2>2
<1>2. ASSUME NEW path \in Paths PROVE RealPath(path) \in Paths
  <2>1. CASE HasIdent(path)
    <3>1. path # Root /\ Len(Last(path)) > 1
      BY <2>1 DEF HasIdent
    <3>2. Len(path) \in Nat \ {0}
      BY <3>1, PrefixOrder
    <3>3. Last(path) \in FileNames
      BY <3>2, ElementOfSeq DEF Last, Paths
    <3>4. Front(Last(path)) \in FileNames
      BY <3>1, <3>3, NamesAssumption
    <3>5. Append(Front(path), Front(Last(path))) \in Paths
      BY <1>1, <3>4, AppendProperties DEF Paths
    <3> QED
      BY <2>1, <3>5 DEF RealPath
  <2>2. CASE ~HasIdent(path)
    BY <2>2 DEF RealPath
  <2> QED
    BY <2>1, <2>2
<1> QED
  BY <1>1, <1>2 DEF KeyOf

(* A lookup that is overtaken need not know anything.                           *)
LEMMA OvertakenIsFine ==
    ASSUME NEW t \in Threads, CallFine(thread[t]), thread'[t] = Overtaken(t)
    PROVE  CallFine(thread[t])' /\ thread'[t].pc = thread[t].pc
<1> DEFINE c == thread[t]
<1>1. CASE c = NoCall
  BY <1>1 DEF Overtaken, NoCall, CallFine
<1>2. CASE CallOK(c) /\ c.pc = "resolve" /\ c.src = None
  <2>1. thread'[t] = c
    BY <1>2 DEF Overtaken
  <2>2. c.raced \/ (c.at = Root /\ c.acc = {})
    BY <1>2 DEF CallFine, Knows, NoCall
  <2>3. Knows(thread[t])' \/ thread'[t].raced
    BY <1>2, <2>1, <2>2 DEF Knows
  <2>4. CallOK(thread[t])'
    BY <1>2, <2>1 DEF CallOK
  <2> QED
    BY <2>1, <2>3, <2>4 DEF CallFine
<1>3. CASE CallOK(c) /\ ~(c.pc = "resolve" /\ c.src = None)
  <2>1. thread'[t] = [c EXCEPT !.raced = TRUE]
    BY <1>3 DEF Overtaken, CallOK, Steps
  <2>2. CallOK(thread[t])' /\ thread'[t].raced /\ thread'[t].pc = thread[t].pc
    BY <1>3, <2>1 DEF CallOK
  <2> QED
    BY <2>2 DEF CallFine
<1> QED
  BY <1>1, <1>2, <1>3 DEF CallFine

(* What a lookup knows does not depend on anything but the tree and the storages. *)
LEMMA SameView ==
    ASSUME UNCHANGED <<mode, tree, store, down>>
    PROVE  /\ Nodes' = Nodes
           /\ \A p : Claims(p)' = Claims(p)
           /\ \A p, k : ClaimsUpTo(p, k)' = ClaimsUpTo(p, k)
           /\ \A r : StorageGetattr(r)' = StorageGetattr(r)
           /\ \A a : WritableOf(a)' = WritableOf(a)
<1>1. Nodes' = Nodes
  BY DEF Nodes
<1>2. \A p : Claims(p)' = Claims(p)
  BY <1>1 DEF Claims
<1>3. \A p, k : ClaimsUpTo(p, k)' = ClaimsUpTo(p, k)
  BY <1>1 DEF ClaimsUpTo
<1>4. \A r : StorageGetattr(r)' = StorageGetattr(r)
  BY DEF StorageGetattr
<1>5. \A a : WritableOf(a)' = WritableOf(a)
  BY <1>4 DEF WritableOf
<1> QED
  BY <1>1, <1>2, <1>3, <1>4, <1>5

(* What a call knows stays true while nothing but other threads' local      *)
(* variables and the cache change.                                           *)
LEMMA StillFine ==
    ASSUME NEW t \in Threads, CallFine(thread[t]), thread'[t] = thread[t],
           UNCHANGED <<mode, tree, store, down>>
    PROVE  CallFine(thread[t])'
<1>1. CallOK(thread[t])' <=> CallOK(thread[t])
  BY DEF CallOK
<1>2. Knows(thread[t])' <=> Knows(thread[t])
  <2>1. tree' = tree /\ Nodes' = Nodes
    BY SameView
  <2>2. KeyOf(thread[t])' = KeyOf(thread[t])
    BY DEF KeyOf
  <2>3. Claims(KeyOf(thread[t]))' = Claims(KeyOf(thread[t]))
    BY <2>2, SameView
  <2>4. ClaimsUpTo(KeyOf(thread[t]), Len(thread[t].at))' = ClaimsUpTo(KeyOf(thread[t]), Len(thread[t].at))
    BY <2>2, SameView
  <2>5. StorageGetattr(thread[t].res)' = StorageGetattr(thread[t].res)
    BY SameView
  <2>6. WritableOf(thread[t].acc)' = WritableOf(thread[t].acc)
    BY SameView
  <2> QED
    BY <2>1, <2>2, <2>3, <2>4, <2>5, <2>6 DEF Knows
<1> QED
  BY <1>1, <1>2 DEF CallFine

(* What is claimed, node by node ...                                            *)
LEMMA ClaimsMean ==
    ASSUME NEW path, NEW x
    PROVE  x \in Claims(path) <=>
              \E n \in Nodes, i \in Idents :
                 IsPrefix(n, path) /\ i \in tree[n] /\ x = [ident |-> i, relpath |-> Rest(path, n)]
<1>1. ASSUME NEW n \in Nodes, NEW i \in Idents, IsPrefix(n, path), i \in tree[n],
             x = [ident |-> i, relpath |-> Rest(path, n)]
      PROVE  x \in Claims(path)
  <2> DEFINE a == <<n, i>>
  <2>1. a \in Nodes \X Idents /\ a[1] = n /\ a[2] = i
    OBVIOUS
  <2> HIDE DEF a
  <2> QED
    BY <1>1, <2>1 DEF Claims
<1>2. ASSUME x \in Claims(path)
      PROVE  \E n \in Nodes, i \in Idents :
                IsPrefix(n, path) /\ i \in tree[n] /\ x = [ident |-> i, relpath |-> Rest(path, n)]
  <2>1. PICK a \in Nodes \X Idents :
           /\ IsPrefix(a[1], path) /\ a[2] \in tree[a[1]]
           /\ x = [ident |-> a[2], relpath |-> Rest(path, a[1])]
    BY <1>2 DEF Claims
  <2>2. a[1] \in Nodes /\ a[2] \in Idents
    OBVIOUS
  <2> QED
    BY <2>1, <2>2
<1> QED
  BY <1>1, <1>2

(* ... and what of that a lookup knows that has been to the nodes of less than  *)
(* k names.                                                                     *)
LEMMA ClaimsUpToMean ==
    ASSUME NEW path, NEW k \in Int, NEW x
    PROVE  x \in ClaimsUpTo(path, k) <=>
              \E n \in Nodes, i \in Idents :
                 (IsPrefix(n, path) /\ Len(n) < k) /\ i \in tree[n] /\ x = [ident |-> i, relpath |-> Rest(path, n)]
<1>1. ASSUME NEW n \in Nodes, NEW i \in Idents, IsPrefix(n, path), Len(n) < k, i \in tree[n],
             x = [ident |-> i, relpath |-> Rest(path, n)]
      PROVE  x \in ClaimsUpTo(path, k)
  <2> DEFINE a == <<n, i>>
  <2>1. a \in Nodes \X Idents /\ a[1] = n /\ a[2] = i
    OBVIOUS
  <2> HIDE DEF a
  <2> QED
    BY <1>1, <2>1 DEF ClaimsUpTo
<1>2. ASSUME x \in ClaimsUpTo(path, k)
      PROVE  \E n \in Nodes, i \in Idents :
                (IsPrefix(n, path) /\ Len(n) < k) /\ i \in tree[n] /\ x = [ident |-> i, relpath |-> Rest(path, n)]
  <2>1. PICK a \in Nodes \X Idents :
           /\ IsPrefix(a[1], path) /\ Len(a[1]) < k /\ a[2] \in tree[a[1]]
           /\ x = [ident |-> a[2], relpath |-> Rest(path, a[1])]
    BY <1>2 DEF ClaimsUpTo
  <2>2. a[1] \in Nodes /\ a[2] \in Idents
    OBVIOUS
  <2> QED
    BY <2>1, <2>2
<1> QED
  BY <1>1, <1>2

(* The walk of MountDir.resolve: at the root nothing is known, every node adds  *)
(* what is mounted there, and where it cannot go on, everything is known - the  *)
(* nodes above a node are in the tree, so there is none further down.           *)
LEMMA WalkIsComplete ==
    ASSUME TreeShape, NEW key \in Paths, NEW at \in Nodes, IsPrefix(at, key)
    PROVE  LET here == {[ident |-> i, relpath |-> Rest(key, at)] : i \in tree[at]} IN
           /\ ClaimsUpTo(key, Len(Root)) = {}
           /\ ClaimsUpTo(key, Len(at) + 1) = ClaimsUpTo(key, Len(at)) \cup here
           /\ at = key \/ SubSeq(key, 1, Len(at) + 1) \notin Nodes
                 => Claims(key) = ClaimsUpTo(key, Len(at)) \cup here
<1> DEFINE here == {[ident |-> i, relpath |-> Rest(key, at)] : i \in tree[at]}
<1>1. Nodes \subseteq Paths /\ \A n \in Nodes : tree[n] \subseteq Idents /\ Len(n) \in Nat
  BY PrefixOrder DEF TreeShape
<1>2. ClaimsUpTo(key, Len(Root)) = {}
  <2>1. \A n \in Nodes : ~(Len(n) < Len(Root))
    BY <1>1, PrefixOrder
  <2>2. Len(Root) \in Int
    BY PrefixOrder
  <2>3. \A x : x \notin ClaimsUpTo(key, Len(Root))
    BY <2>1, <2>2, ClaimsUpToMean
  <2> QED
    BY <2>3
<1>3. \A n \in Nodes : IsPrefix(n, key) /\ Len(n) < Len(at) + 1 <=> (IsPrefix(n, key) /\ Len(n) < Len(at)) \/ n = at
  <2> SUFFICES ASSUME NEW n \in Nodes
               PROVE  IsPrefix(n, key) /\ Len(n) < Len(at) + 1 <=> (IsPrefix(n, key) /\ Len(n) < Len(at)) \/ n = at
    OBVIOUS
  <2>1. Len(n) \in Nat /\ Len(at) \in Nat
    BY <1>1
  <2>2. Len(n) < Len(at) + 1 <=> Len(n) < Len(at) \/ Len(n) = Len(at)
    BY <2>1
  <2>3. IsPrefix(n, key) /\ Len(n) = Len(at) => n = at
    <3>1. IsPrefix(n, key) /\ Len(n) = Len(at) => Len(n) <= Len(at)
      BY <2>1
    <3> QED
      BY <1>1, <3>1, PrefixOrder
  <2> QED
    BY <2>2, <2>3
<1>4. ClaimsUpTo(key, Len(at) + 1) = ClaimsUpTo(key, Len(at)) \cup here
  <2> SUFFICES ASSUME NEW x
               PROVE  x \in ClaimsUpTo(key, Len(at) + 1) <=> x \in ClaimsUpTo(key, Len(at)) \/ x \in here
    OBVIOUS
  <2>1. x \in here <=> \E n \in Nodes, i \in Idents :
                          n = at /\ i \in tree[n] /\ x = [ident |-> i, relpath |-> Rest(key, n)]
    BY <1>1
  <2> Len(at) \in Int
    BY <1>1
  <2> DEFINE k == Len(at) + 1
  <2> k \in Int
    BY <1>1
  <2> HIDE DEF k
  <2>2. x \in ClaimsUpTo(key, k) <=> \E n \in Nodes, i \in Idents :
           (IsPrefix(n, key) /\ Len(n) < k) /\ i \in tree[n] /\ x = [ident |-> i, relpath |-> Rest(key, n)]
    BY ClaimsUpToMean
  <2>3. x \in ClaimsUpTo(key, Len(at)) <=> \E n \in Nodes, i \in Idents :
           (IsPrefix(n, key) /\ Len(n) < Len(at)) /\ i \in tree[n] /\ x = [ident |-> i, relpath |-> Rest(key, n)]
    BY ClaimsUpToMean
  <2> HIDE DEF here
  <2> QED
    BY <1>3, <2>1, <2>2, <2>3, Zenon DEF k
<1>5. ASSUME at = key \/ SubSeq(key, 1, Len(at) + 1) \notin Nodes
      PROVE  Claims(key) = ClaimsUpTo(key, Len(at)) \cup here
  <2>1. ASSUME NEW n \in Nodes, IsPrefix(n, key) PROVE Len(n) < Len(at) + 1
    <3>1. CASE at = key
      <4>1. Len(n) <= Len(at)
        BY <1>1, <2>1, <3>1, PrefixOrder
      <4> QED
        BY <1>1, <4>1
    <3>2. CASE at # key
      <4> DEFINE c == SubSeq(key, 1, Len(at) + 1)
      <4>1. c \in Paths /\ Len(c) = Len(at) + 1 /\ IsPrefix(c, key)
        BY <1>1, <3>2, NextPart
      <4>2. c \notin Nodes
        BY <1>5, <3>2
      <4> HIDE DEF c
      <4>3. Len(n) > Len(at) => IsPrefix(c, n)
        BY <1>1, <2>1, <4>1, ChildOnTheWay
      <4>4. ~IsPrefix(c, n)
        BY <1>1, <4>1, <4>2, PrefixesAre DEF TreeShape
      <4> QED
        BY <1>1, <4>3, <4>4
    <3> QED
      BY <3>1, <3>2
  <2>2. Claims(key) = ClaimsUpTo(key, Len(at) + 1)
    <3> SUFFICES ASSUME NEW x PROVE x \in Claims(key) <=> x \in ClaimsUpTo(key, Len(at) + 1)
      OBVIOUS
    <3>1. x \in Claims(key) <=> \E n \in Nodes, i \in Idents :
             IsPrefix(n, key) /\ i \in tree[n] /\ x = [ident |-> i, relpath |-> Rest(key, n)]
      BY ClaimsMean
    <3> DEFINE k == Len(at) + 1
    <3> k \in Int
      BY <1>1
    <3> HIDE DEF k, here
    <3>2. x \in ClaimsUpTo(key, k) <=> \E n \in Nodes, i \in Idents :
             (IsPrefix(n, key) /\ Len(n) < k) /\ i \in tree[n] /\ x = [ident |-> i, relpath |-> Rest(key, n)]
      BY ClaimsUpToMean
    <3>3. \A n \in Nodes : IsPrefix(n, key) <=> IsPrefix(n, key) /\ Len(n) < k
      BY <2>1 DEF k
    <3>4. x \in Claims(key) <=> x \in ClaimsUpTo(key, k)
      BY <3>1, <3>2, <3>3, Zenon
    <3> QED
      BY <3>4 DEF k
  <2> QED
    BY <1>4, <2>2
<1> QED
  BY <1>2, <1>4, <1>5

-----------------------------------------------------------------------------
(* The lookups, step by step. *)

(* A step of one thread leaves the others' lookups alone ...                    *)
LEMMA OthersStillFine ==
    ASSUME DOMAIN thread = Threads, Lookups, NEW t \in Threads, NEW x,
           thread' = [thread EXCEPT ![t] = x], CallFine(thread[t])',
           UNCHANGED <<mode, tree, store, down>>
    PROVE  DOMAIN thread' = Threads /\ Lookups'
<1>1. ASSUME NEW u \in Threads PROVE CallFine(thread[u])'
  <2>1. CASE u = t
    BY <2>1
  <2>2. CASE u # t
    <3>1. thread'[u] = thread[u]
      BY <2>2
    <3> QED
      BY <3>1, StillFine DEF Lookups
  <2> QED
    BY <2>1, <2>2
<1> QED
  BY <1>1 DEF Lookups

(* ... and a mount, an unmount or a failing storage overtakes them all.         *)
LEMMA AllStillFine ==
    ASSUME Lookups, thread' = AllOvertaken
    PROVE  DOMAIN thread' = Threads /\ Lookups'
<1>1. ASSUME NEW u \in Threads PROVE CallFine(thread[u])'
  <2>1. thread'[u] = Overtaken(u)
    BY DEF AllOvertaken
  <2> QED
    BY <2>1, OvertakenIsFine DEF Lookups
<1> QED
  BY <1>1 DEF Lookups, AllOvertaken

(* Start: nothing is known yet.                                                 *)
LEMMA StartIsFine ==
    ASSUME TreeInv, DOMAIN thread = Threads, Lookups, NEW t \in Threads, Start(t)
    PROVE  DOMAIN thread' = Threads /\ Lookups'
<1>1. PICK call \in mode.calls[t] :
         thread' = [thread EXCEPT ![t] = Lookup(call, Looked(call.path, MakesEntry(call.op)))]
  BY DEF Start
<1> DEFINE c == Lookup(call, Looked(call.path, MakesEntry(call.op)))
<1>2. call.path \in Paths /\ (call.op = "rename" => call.to \in Paths)
  BY ModesAssumption DEF TreeInv
<1>3. Looked(call.path, MakesEntry(call.op)) \in Paths
      /\ (MakesEntry(call.op) => Looked(call.path, MakesEntry(call.op)) = Front(call.path))
  BY <1>2, KeysArePaths DEF Looked
<1>4. /\ CallOK(c) /\ c.pc = "resolve" /\ c.at = Root /\ c.acc = {}
      /\ DOMAIN c = {"pc", "call", "path", "at", "ids", "acc", "src", "res", "raced"}
  BY <1>2, <1>3, PrefixOrder DEF Lookup, CallOK, Steps
<1> HIDE DEF c
<1>5. thread'[t] = c
  BY <1>1 DEF c
<1>6. CallFine(thread[t])'
  BY <1>4, <1>5 DEF CallFine, CallOK, Knows
<1> QED
  BY <1>1, <1>6, OthersStillFine DEF Start, tables, files

(* The call is over.                                                            *)
LEMMA DoneIsFine ==
    ASSUME DOMAIN thread = Threads, Lookups, NEW t \in Threads,
           thread' = [thread EXCEPT ![t] = NoCall], UNCHANGED <<mode, tree, store, down>>
    PROVE  DOMAIN thread' = Threads /\ Lookups'
<1>1. CallFine(thread[t])'
  BY DEF CallFine
<1> QED
  BY <1>1, OthersStillFine

(* Hit: an answer from the cache is what the tree says, or counts as overtaken. *)
LEMMA HitIsFine ==
    ASSUME DOMAIN thread = Threads, Lookups, CacheOK, NEW t \in Threads, Hit(t)
    PROVE  DOMAIN thread' = Threads /\ Lookups'
<1> DEFINE c == thread[t]
           key == KeyOf(c)
           raced == c.raced \/ cache[key].raced \/ mount.pc \in {"prune", "clear"}
           d == [c EXCEPT !.pc = "stat", !.acc = cache[key].ans, !.raced = raced]
<1>1. c.pc = "resolve" /\ key \in DOMAIN cache /\ thread' = [thread EXCEPT ![t] = d]
  BY DEF Hit
<1>2. CallOK(c)
  BY <1>1 DEF Lookups, CallFine, NoCall
<1>3. raced \/ cache[key].ans = Claims(key)
  BY <1>1 DEF CacheOK
<1>4. /\ DOMAIN d = DOMAIN c /\ d.pc = "stat" /\ d.acc = cache[key].ans /\ d.raced = raced
      /\ d.call = c.call /\ d.path = c.path /\ d.at = c.at /\ d.src = c.src
  BY <1>2 DEF CallOK
<1> HIDE DEF d, raced
<1>5. thread'[t] = d
  BY <1>1
<1>6. CallOK(thread[t])'
  <2>1. raced \in BOOLEAN
    BY DEF raced
  <2> QED
    BY <1>2, <1>4, <1>5, <2>1 DEF CallOK, Steps
<1>7. thread'[t].raced \/ Knows(thread[t])'
  <2>1. KeyOf(thread[t])' = key
    BY <1>4, <1>5 DEF KeyOf
  <2>2. UNCHANGED <<mode, tree, store, down>>
    BY DEF Hit, tables, files
  <2>3. \A p : Claims(p)' = Claims(p)
    BY <2>2, SameView
  <2>4. Claims(KeyOf(thread[t]))' = Claims(key)
    BY <2>1, <2>3
  <2> QED
    BY <1>3, <1>4, <1>5, <2>4 DEF Knows
<1> QED
  BY <1>1, <1>6, <1>7, OthersStillFine DEF CallFine, Hit, tables, files

(* Visit: the walk has reached a node.                                          *)
LEMMA VisitIsFine ==
    ASSUME TreeInv, DOMAIN thread = Threads, Lookups, NEW t \in Threads, Visit(t)
    PROVE  DOMAIN thread' = Threads /\ Lookups'
<1> DEFINE c == thread[t]
           ids == IF c.at \in Nodes THEN tree[c.at] ELSE {}
           d == [c EXCEPT !.pc = "leave", !.ids = ids]
<1>1. (c.pc = "visit" \/ c.pc = "resolve") /\ thread' = [thread EXCEPT ![t] = d]
  BY DEF Visit
<1>2. CallOK(c) /\ (c.raced \/ Knows(c))
  BY <1>1 DEF Lookups, CallFine, NoCall
<1>3. KeyOf(c) \in Paths
  BY <1>2, KeysArePaths DEF CallOK
<1>4. c.raced \/ (/\ c.at \in Nodes /\ IsPrefix(c.at, KeyOf(c))
                  /\ c.acc = ClaimsUpTo(KeyOf(c), Len(c.at)))
  <2>1. CASE c.pc = "visit"
    BY <1>2, <2>1 DEF Knows
  <2>2. CASE c.pc = "resolve"
    <3>1. Root \in Nodes /\ IsPrefix(Root, KeyOf(c)) /\ TreeShape
      BY <1>3, PrefixOrder DEF TreeInv, TreeShape
    <3>2. ClaimsUpTo(KeyOf(c), Len(Root)) = {}
      BY <1>3, <3>1, WalkIsComplete
    <3> QED
      BY <1>2, <2>2, <3>1, <3>2 DEF Knows
  <2> QED
    BY <1>1, <2>1, <2>2
<1>5. /\ DOMAIN d = DOMAIN c /\ d.pc = "leave" /\ d.ids = ids /\ d.acc = c.acc /\ d.raced = c.raced
      /\ d.call = c.call /\ d.path = c.path /\ d.at = c.at /\ d.src = c.src
  BY <1>2 DEF CallOK
<1> HIDE DEF d
<1>6. thread'[t] = d
  BY <1>1
<1>7. CallOK(thread[t])'
  BY <1>2, <1>5, <1>6 DEF CallOK, Steps
<1>8. thread'[t].raced \/ Knows(thread[t])'
  <2>1. KeyOf(thread[t])' = KeyOf(c)
    BY <1>5, <1>6 DEF KeyOf
  <2>2. UNCHANGED <<mode, tree, store, down>>
    BY DEF Visit, tables, files
  <2>3. ClaimsUpTo(KeyOf(thread[t]), Len(thread[t].at))' = ClaimsUpTo(KeyOf(c), Len(c.at))
    BY <1>5, <1>6, <2>1, <2>2, SameView
  <2>4. Nodes' = Nodes
    BY <2>2, SameView
  <2> QED
    BY <1>4, <1>5, <1>6, <2>1, <2>2, <2>3, <2>4 DEF Knows
<1> QED
  BY <1>1, <1>7, <1>8, OthersStillFine DEF CallFine, Visit, tables, files

(* What Descend makes of a lookup, and of the cache.                            *)
LEMMA DescendMeans ==
    ASSUME TreeInv, Lookups, NEW t \in Threads, Descend(t), NEW acc, NEW child,
           acc = thread[t].acc \cup
                   {[ident |-> i, relpath |-> Rest(KeyOf(thread[t]), thread[t].at)] : i \in thread[t].ids},
           child = SubSeq(KeyOf(thread[t]), 1, Len(thread[t].at) + 1)
    PROVE  /\ CallOK(thread[t]) /\ KeyOf(thread[t]) \in Paths /\ thread[t].pc = "leave"
           /\ UNCHANGED <<mode, live, tree, store, down, mount>>
           /\ \/ thread' = [thread EXCEPT ![t] = NoCall] /\ cache' = cache
              \/ /\ thread' = [thread EXCEPT ![t] = [thread[t] EXCEPT !.pc = "visit", !.at = child, !.acc = acc]]
                 /\ cache' = cache /\ child \in Nodes
                 /\ thread[t].raced \/
                       /\ acc = ClaimsUpTo(KeyOf(thread[t]), Len(child))
                       /\ IsPrefix(child, KeyOf(thread[t]))
              \/ /\ thread' = [thread EXCEPT ![t] = [thread[t] EXCEPT !.pc = "stat", !.acc = acc]]
                 /\ cache' = [k \in DOMAIN cache \cup {KeyOf(thread[t])} |->
                                IF k = KeyOf(thread[t]) THEN [ans |-> acc, raced |-> thread[t].raced]
                                ELSE cache[k]]
                 /\ thread[t].raced \/ acc = Claims(KeyOf(thread[t]))
<1> DEFINE c == thread[t]
           key == KeyOf(c)
<1>1. c.pc = "leave" /\ UNCHANGED <<mode, live, tree, store, down, mount>>
  BY DEF Descend, tables, files
<1>2. CallOK(c) /\ (c.raced \/ Knows(c))
  BY <1>1 DEF Lookups, CallFine, NoCall
<1>3. key \in Paths
  BY <1>2, KeysArePaths DEF CallOK
<1>4. ASSUME ~c.raced
      PROVE  /\ c.at \in Nodes /\ c.at \in Paths /\ IsPrefix(c.at, key)
             /\ acc = ClaimsUpTo(key, Len(c.at) + 1)
             /\ c.at = key \/ child \notin Nodes => acc = Claims(key)
             /\ c.at # key => Len(child) = Len(c.at) + 1 /\ IsPrefix(child, key)
  <2>1. /\ c.at \in Nodes /\ IsPrefix(c.at, key) /\ c.acc = ClaimsUpTo(key, Len(c.at))
        /\ c.ids = tree[c.at]
    BY <1>1, <1>2, <1>4 DEF Knows
  <2>2. c.at \in Paths /\ TreeShape
    BY <2>1 DEF TreeInv, TreeShape
  <2> DEFINE at == c.at
  <2>3. /\ at \in Nodes /\ IsPrefix(at, key) /\ at \in Paths
        /\ acc = ClaimsUpTo(key, Len(at)) \cup {[ident |-> i, relpath |-> Rest(key, at)] : i \in tree[at]}
        /\ child = SubSeq(key, 1, Len(at) + 1)
    BY <2>1, <2>2
  <2> HIDE DEF at, key
  <2>4. /\ acc = ClaimsUpTo(key, Len(at) + 1)
        /\ at = key \/ child \notin Nodes => acc = Claims(key)
    <3> DEFINE here == {[ident |-> i, relpath |-> Rest(key, at)] : i \in tree[at]}
    <3>1. /\ ClaimsUpTo(key, Len(at) + 1) = ClaimsUpTo(key, Len(at)) \cup here
          /\ at = key \/ SubSeq(key, 1, Len(at) + 1) \notin Nodes
                 => Claims(key) = ClaimsUpTo(key, Len(at)) \cup here
      <4> HIDE DEF c
      <4>1. at \in Nodes /\ IsPrefix(at, key)
        BY <2>3
      <4> QED
        BY <1>3, <2>2, <4>1, WalkIsComplete, Zenon
    <3>2. acc = ClaimsUpTo(key, Len(at)) \cup here /\ child = SubSeq(key, 1, Len(at) + 1)
      BY <2>3
    <3> HIDE DEF here
    <3> QED
      BY <3>1, <3>2, Zenon
  <2>5. at # key => Len(child) = Len(at) + 1 /\ IsPrefix(child, key)
    BY <1>3, <2>3, NextPart
  <2> QED
    BY <2>3, <2>4, <2>5 DEF at
<1> DEFINE broken == c.ids # {} /\ Cardinality(IF c.at \in Nodes THEN tree[c.at] ELSE {}) # Cardinality(c.ids)
           deeper == c.at # key /\ child \in Nodes
<1>5. /\ thread' = [thread EXCEPT ![t] =
                IF broken THEN NoCall
                ELSE IF deeper THEN [c EXCEPT !.pc = "visit", !.at = child, !.acc = acc]
                ELSE [c EXCEPT !.pc = "stat", !.acc = acc]]
      /\ cache' = IF broken \/ deeper THEN cache
                  ELSE [k \in DOMAIN cache \cup {key} |->
                          IF k = key THEN [ans |-> acc, raced |-> c.raced] ELSE cache[k]]
  BY DEF Descend
<1>6. CASE broken
  BY <1>1, <1>2, <1>3, <1>5, <1>6
<1>7. CASE ~broken /\ deeper
  <2>1. /\ thread' = [thread EXCEPT ![t] = [c EXCEPT !.pc = "visit", !.at = child, !.acc = acc]]
        /\ cache' = cache /\ child \in Nodes
    BY <1>5, <1>7
  <2>2. c.raced \/ (acc = ClaimsUpTo(key, Len(child)) /\ IsPrefix(child, key))
    BY <1>4, <1>7
  <2> QED
    BY <1>1, <1>2, <1>3, <2>1, <2>2
<1>8. CASE ~broken /\ ~deeper
  <2>1. /\ thread' = [thread EXCEPT ![t] = [c EXCEPT !.pc = "stat", !.acc = acc]]
        /\ cache' = [k \in DOMAIN cache \cup {key} |->
                          IF k = key THEN [ans |-> acc, raced |-> c.raced] ELSE cache[k]]
    BY <1>5, <1>8
  <2>2. c.raced \/ acc = Claims(key)
    BY <1>4, <1>8
  <2> QED
    BY <1>1, <1>2, <1>3, <2>1, <2>2
<1> QED
  BY <1>6, <1>7, <1>8

-----------------------------------------------------------------------------
(* The storage that getattr_extended chooses. *)

(* The rest of a path is a path, no longer than it.                             *)
LEMMA RestIsShorter ==
    ASSUME NEW path \in Paths, NEW n \in Paths, IsPrefix(n, path)
    PROVE  Rest(path, n) \in Paths /\ Len(Rest(path, n)) \in Nat /\ Len(Rest(path, n)) <= Len(path)
<1>1. Len(path) \in Nat /\ Len(n) \in Nat /\ Len(n) <= Len(path)
  BY PrefixOrder
<1>2. path \in Seq(FileNames) /\ \A j \in 1..Len(path) : path[j] \in FileNames
  BY ElementOfSeq DEF Paths
<1>3. Len(n) + 1 \in Int /\ Len(path) \in Int /\ \A j \in Len(n) + 1..Len(path) : path[j] \in FileNames
  BY <1>1, <1>2
<1>4. SubSeq(path, Len(n) + 1, Len(path)) \in Paths
      /\ Len(SubSeq(path, Len(n) + 1, Len(path)))
         = IF Len(n) + 1 <= Len(path) THEN Len(path) - (Len(n) + 1) + 1 ELSE 0
  BY <1>2, <1>3, SubSeqProperties DEF Paths
<1> DEFINE r == SubSeq(path, Len(n) + 1, Len(path))
<1>5. r \in Paths /\ Len(r) = IF Len(n) + 1 <= Len(path) THEN Len(path) - (Len(n) + 1) + 1 ELSE 0
  BY <1>4
<1> HIDE DEF r
<1>6. Len(r) \in Nat /\ Len(r) <= Len(path)
  BY <1>1, <1>5
<1> QED
  BY <1>5, <1>6 DEF r, Rest

(* The answers that a lookup of a path may have, whatever the tree looks like while *)
(* it walks: a storage, and the rest of the path below some node on the way.    *)
Possible(path) == {[ident |-> i, relpath |-> Rest(path, n)] : i \in Idents, n \in Prefixes(path)}

(* They are finitely many, and what is left of the path is a path.              *)
LEMMA PossibleAnswers ==
    ASSUME NEW path \in Paths
    PROVE  /\ IsFiniteSet(Possible(path))
           /\ \A r \in Possible(path) : /\ r.ident \in Idents /\ r.relpath \in Paths
                                        /\ Len(r.relpath) \in Nat /\ Len(r.relpath) <= Len(path)
           /\ \A i \in Idents, n \in Paths :
                 IsPrefix(n, path) => [ident |-> i, relpath |-> Rest(path, n)] \in Possible(path)
<1>1. Len(path) \in Nat
  BY PrefixOrder
<1>2. \A n : n \in Prefixes(path) <=> n \in Paths /\ IsPrefix(n, path)
  BY PrefixesAre
<1> DEFINE D == (0..Len(path)) \X Idents
           f == [a \in D |-> [ident |-> a[2], relpath |-> Rest(path, SubSeq(path, 1, a[1]))]]
           T == {f[a] : a \in D}
<1>3. IsFiniteSet(D)
  <2>1. IsFiniteSet(0..Len(path))
    BY <1>1, FS_Interval
  <2> QED
    BY <2>1, IdentsAssumption, FS_Product
<1>4. f \in Surjection(D, T)
  <2> HIDE DEF D
  <2>1. f \in [D -> T] /\ \A y \in T : \E x \in D : f[x] = y
    OBVIOUS
  <2> QED
    BY <2>1 DEF Surjection
<1>5. IsFiniteSet(T)
  <2> HIDE DEF f, D, T
  <2> QED
    BY <1>3, <1>4, FS_Surjection
<1>6. ASSUME NEW r \in Possible(path)
      PROVE  /\ r \in T /\ r.ident \in Idents /\ r.relpath \in Paths
             /\ Len(r.relpath) \in Nat /\ Len(r.relpath) <= Len(path)
  <2>1. PICK i \in Idents, n \in Prefixes(path) : r = [ident |-> i, relpath |-> Rest(path, n)]
    BY DEF Possible
  <2>2. n \in Paths /\ IsPrefix(n, path)
    BY <1>2, <2>1
  <2>3. n = SubSeq(path, 1, Len(n)) /\ Len(n) \in 0..Len(path)
    BY <1>1, <2>2, PrefixCut, PrefixOrder
  <2> DEFINE a == <<Len(n), i>>
  <2>4. a \in D /\ a[1] = Len(n) /\ a[2] = i
    BY <2>3
  <2>5. f[a] = [ident |-> i, relpath |-> Rest(path, n)]
    BY <2>3, <2>4
  <2>6. r.relpath = Rest(path, n) /\ r.ident = i
    BY <2>1
  <2>7. r \in T
    <3> HIDE DEF a, D, f
    <3> QED
      BY <2>1, <2>4, <2>5
  <2> QED
    BY <2>2, <2>6, <2>7, RestIsShorter
<1>7. IsFiniteSet(Possible(path))
  <2> HIDE DEF T
  <2>1. Possible(path) \in SUBSET T
    BY <1>6
  <2> QED
    BY <1>5, <2>1, FS_Subset
<1>8. \A i \in Idents, n \in Paths :
        IsPrefix(n, path) => [ident |-> i, relpath |-> Rest(path, n)] \in Possible(path)
  BY <1>2 DEF Possible
<1> QED
  BY <1>6, <1>7, <1>8


(* There are finitely many claims of a path.                                    *)
LEMMA ClaimsAreFinite ==
    ASSUME TreeShape, NEW path \in Paths
    PROVE  /\ IsFiniteSet(Claims(path))
           /\ \A r \in Claims(path) : r.relpath \in Paths /\ Len(r.relpath) \in Nat /\ Len(r.relpath) <= Len(path)
<1>1. Claims(path) \in SUBSET Possible(path)
  <2>1. Nodes \subseteq Paths
    BY DEF TreeShape
  <2> QED
    BY <2>1, ClaimsMean, PossibleAnswers
<1> QED
  BY <1>1, PossibleAnswers, FS_Subset

(* The least of some natural numbers.                                           *)
LEMMA Least ==
    ASSUME NEW T, T \subseteq Nat, T # {}
    PROVE  \E x \in T : \A y \in T : x <= y
<1>1. PICK x \in T : \A y \in T : ~(<<y, x>> \in OpToRel(<, Nat))
  BY NatLessThanWellFounded, WFMin
<1>2. \A y \in T : ~(y < x)
  BY <1>1 DEF OpToRel
<1> QED
  BY <1>2

(* The one element of a set.                                                    *)
LEMMA TheOne ==
    ASSUME NEW S, IsFiniteSet(S), Cardinality(S) = 1
    PROVE  S = {CHOOSE x \in S : TRUE}
<1>1. PICK x : S = {x}
  BY FS_Singleton
<1>2. (CHOOSE y \in S : TRUE) \in S
  BY <1>1
<1> QED
  BY <1>1, <1>2

(* Of several files there is one that the resolution reaches first.             *)
LEMMA Longest ==
    ASSUME NEW S, S # {}, NEW k \in Nat,
           \A r \in S : Len(r.relpath) \in Nat /\ Len(r.relpath) <= k
    PROVE  \E res \in S : \A r \in S : Len(r.relpath) <= Len(res.relpath)
<1> DEFINE T == {k - Len(r.relpath) : r \in S}
<1>1. T \subseteq Nat
  OBVIOUS
<1>2. T # {}
  OBVIOUS
<1>3. PICK m \in T : \A y \in T : m <= y
  <2> HIDE DEF T
  <2> QED
    BY <1>1, <1>2, Least
<1>4. PICK res \in S : m = k - Len(res.relpath)
  OBVIOUS
<1>5. ASSUME NEW r \in S PROVE Len(r.relpath) <= Len(res.relpath)
  <2>1. k - Len(res.relpath) <= k - Len(r.relpath)
    BY <1>3, <1>4
  <2>2. Len(r.relpath) \in Nat /\ Len(res.relpath) \in Nat
    OBVIOUS
  <2> QED
    BY <2>1, <2>2
<1> QED
  BY <1>5

(* getattr_extended answers with one of the claims, and with a directory that   *)
(* can be written to only if it is the only one.                               *)
LEMMA GetattrChooses ==
    ASSUME NEW path, NEW ans, IsFiniteSet(ans), NEW k \in Nat,
           \A r \in ans : Len(r.relpath) \in Nat /\ Len(r.relpath) <= k,
           NEW res, res = Getattr(path, ans).res, res # None
    PROVE  res \in ans /\ (StorageGetattr(res) = "dir" => WritableOf(ans) = {res})
<1>1. /\ WritableOf(ans) \subseteq DirsOf(ans) /\ DirsOf(ans) \subseteq ans /\ FilesOf(ans) \subseteq ans
      /\ IsFiniteSet(WritableOf(ans)) /\ IsFiniteSet(DirsOf(ans)) /\ IsFiniteSet(FilesOf(ans))
  <2>1. WritableOf(ans) \subseteq DirsOf(ans) /\ DirsOf(ans) \subseteq ans /\ FilesOf(ans) \subseteq ans
    BY DEF WritableOf, DirsOf, FilesOf, IsDir
  <2> QED
    BY <2>1, FS_Subset
<1>2. \A e : Fails(e).res = None
  BY DEF Fails
<1>3. ForcedReadOnly.res = None
  BY DEF ForcedReadOnly
<1>4. \A r : FoundAt(r).res = r
  BY DEF FoundAt
<1> DEFINE Goal == res \in ans /\ (StorageGetattr(res) = "dir" => WritableOf(ans) = {res})
<1>5. MergedDirs(ans).res = res => Goal
  <2> SUFFICES ASSUME MergedDirs(ans).res = res PROVE Goal
    OBVIOUS
  <2>1. Cardinality(WritableOf(ans)) = 1
    BY <1>3 DEF MergedDirs
  <2> DEFINE w == CHOOSE r \in WritableOf(ans) : TRUE
  <2>2. WritableOf(ans) = {w}
    BY <1>1, <2>1, TheOne
  <2>3. MergedDirs(ans) = FoundAt(w)
    BY <2>1 DEF MergedDirs
  <2> HIDE DEF w
  <2> QED
    BY <1>1, <1>4, <2>2, <2>3
(* A file is no directory. *)
<1>6. \A ident : FileOf(ans, ident).res = res => Goal
  <2> SUFFICES ASSUME NEW ident, FileOf(ans, ident).res = res PROVE Goal
    OBVIOUS
  <2> DEFINE mine == {r \in FilesOf(ans) : r.ident = ident}
             f == CHOOSE r \in mine : \A q \in mine : Len(q.relpath) <= Len(r.relpath)
  <2>1. mine # {}
    BY <1>2 DEF FileOf
  <2>2. FileOf(ans, ident) = FoundAt(f)
    BY <2>1 DEF FileOf
  <2>3. \A r \in mine : Len(r.relpath) \in Nat /\ Len(r.relpath) <= k
    BY <1>1
  <2>4. \E r \in mine : \A q \in mine : Len(q.relpath) <= Len(r.relpath)
    <3> HIDE DEF mine
    <3> QED
      BY <2>1, <2>3, Longest
  <2>5. f \in mine
    <3> HIDE DEF mine
    <3> QED
      BY <2>4
  <2>6. f \in FilesOf(ans)
    BY <2>5
  <2> HIDE DEF f, mine
  <2>7. StorageGetattr(f) = "file" /\ f = res
    BY <1>4, <2>2, <2>6 DEF FilesOf
  <2> QED
    BY <1>1, <2>6, <2>7
(* The directory, or the file, that is the only one. *)
<1>7. ASSUME NEW S, S = DirsOf(ans) \/ S = FilesOf(ans), Cardinality(S) = 1,
             FoundAt(CHOOSE r \in S : TRUE).res = res
      PROVE  Goal
  <2>1. S = {res}
    <3>1. S = {CHOOSE r \in S : TRUE}
      BY <1>1, <1>7, TheOne
    <3> DEFINE x == CHOOSE r \in S : TRUE
    <3>2. S = {x} /\ FoundAt(x).res = res
      BY <1>7, <3>1
    <3> HIDE DEF x
    <3> QED
      BY <1>4, <3>2
  <2>2. res \in ans
    BY <1>1, <1>7, <2>1
  <2>3. ASSUME StorageGetattr(res) = "dir" PROVE WritableOf(ans) = {res}
    <3>1. S = DirsOf(ans)
      BY <1>7, <2>1, <2>3 DEF FilesOf
    <3>2. res \in WritableOf(ans)
      BY <2>2, <2>3 DEF WritableOf
    <3> QED
      BY <1>1, <2>1, <3>1, <3>2
  <2> QED
    BY <2>2, <2>3
<1>8. \A ident : Disambiguate(ans, ident).res = res => Goal
  <2> SUFFICES ASSUME NEW ident, Disambiguate(ans, ident).res = res PROVE Goal
    OBVIOUS
  <2> DEFINE only == IF DirsOf(ans) # {} THEN DirsOf(ans) ELSE FilesOf(ans)
  <2>1. \/ Disambiguate(ans, ident) = FileOf(ans, ident)
        \/ Disambiguate(ans, ident) = Fails("ENOENT")
        \/ Cardinality(only) = 1 /\ Disambiguate(ans, ident) = FoundAt(CHOOSE r \in only : TRUE)
        \/ Disambiguate(ans, ident) = MergedDirs(ans)
    BY DEF Disambiguate
  <2>2. only = DirsOf(ans) \/ only = FilesOf(ans)
    OBVIOUS
  <2> HIDE DEF only, Goal
  <2> QED
    BY <1>2, <1>5, <1>6, <1>7, <2>1, <2>2
(* The only claim. *)
<1>9. Cardinality(ans) = 1 /\ FoundAt(CHOOSE r \in ans : TRUE).res = res => Goal
  <2> SUFFICES ASSUME Cardinality(ans) = 1, FoundAt(CHOOSE r \in ans : TRUE).res = res
               PROVE  Goal
    OBVIOUS
  <2> DEFINE x == CHOOSE r \in ans : TRUE
  <2>1. ans = {x}
    BY TheOne
  <2>2. FoundAt(x).res = res
    OBVIOUS
  <2> HIDE DEF x
  <2>3. ans = {res}
    BY <1>4, <2>1, <2>2
  <2> QED
    BY <2>3 DEF WritableOf
<1> DEFINE g == Getattr(path, ans)
<1>10. \/ g = MergedDirs(ans) \/ g = ForcedReadOnly \/ g = Fails("ENOENT")
       \/ (Cardinality(ans) = 1 /\ g = FoundAt(CHOOSE r \in ans : TRUE))
       \/ g = Disambiguate(ans, IdentIn(path))
  BY DEF Getattr
<1>11. g.res = res
  OBVIOUS
<1> HIDE DEF g, Goal
<1>12. Goal
  BY <1>2, <1>3, <1>5, <1>8, <1>9, <1>10, <1>11
<1> QED
  BY <1>12 DEF Goal

-----------------------------------------------------------------------------
(* The lookups, continued; the cache. *)

(* Descend: down to the child, or the answer is there and goes into the cache.  *)
LEMMA DescendIsFine ==
    ASSUME TreeInv, DOMAIN thread = Threads, Lookups, CacheOK, NEW t \in Threads, Descend(t)
    PROVE  DOMAIN thread' = Threads /\ Lookups' /\ CacheOK'
<1> DEFINE c == thread[t]
           key == KeyOf(c)
<1> DEFINE acc == c.acc \cup {[ident |-> i, relpath |-> Rest(key, c.at)] : i \in c.ids}
           child == SubSeq(key, 1, Len(c.at) + 1)
           deeper ==
             /\ thread' = [thread EXCEPT ![t] = [c EXCEPT !.pc = "visit", !.at = child, !.acc = acc]]
             /\ cache' = cache /\ child \in Nodes
             /\ c.raced \/ (acc = ClaimsUpTo(key, Len(child)) /\ IsPrefix(child, key))
           done ==
             /\ thread' = [thread EXCEPT ![t] = [c EXCEPT !.pc = "stat", !.acc = acc]]
             /\ cache' = [k \in DOMAIN cache \cup {key} |->
                            IF k = key THEN [ans |-> acc, raced |-> c.raced] ELSE cache[k]]
             /\ c.raced \/ acc = Claims(key)
<1>1. /\ CallOK(c) /\ key \in Paths /\ c.pc = "leave"
      /\ UNCHANGED <<mode, live, tree, store, down, mount>>
      /\ (thread' = [thread EXCEPT ![t] = NoCall] /\ cache' = cache) \/ deeper \/ done
  BY DescendMeans
<1> HIDE DEF acc, child
<1>2. CallOK(c) /\ key \in Paths /\ c.pc = "leave" /\ mount' = mount /\ UNCHANGED <<mode, tree, store, down>>
  BY <1>1
<1> HIDE DEF key
<1>3. \A p : Claims(p)' = Claims(p)
  BY <1>2, SameView
<1>4. cache' = cache => CacheOK'
  BY <1>2, <1>3 DEF CacheOK
<1>5. CASE thread' = [thread EXCEPT ![t] = NoCall] /\ cache' = cache
  BY <1>2, <1>4, <1>5, DoneIsFine
<1>6. CASE deeper
  <2> DEFINE d == [c EXCEPT !.pc = "visit", !.at = child, !.acc = acc]
  <2>1. /\ DOMAIN d = DOMAIN c /\ d.pc = "visit" /\ d.at = child /\ d.acc = acc /\ d.raced = c.raced
        /\ d.call = c.call /\ d.path = c.path /\ d.src = c.src
    BY <1>2 DEF CallOK
  <2>2. thread' = [thread EXCEPT ![t] = d]
    BY <1>6
  <2> HIDE DEF d
  <2>3. thread'[t] = d
    BY <2>2
  <2>4. child \in Paths
    BY <1>6 DEF TreeInv, TreeShape
  <2>5. CallOK(thread[t])'
    BY <1>2, <2>1, <2>3, <2>4 DEF CallOK, Steps
  <2>6. thread'[t].raced \/ Knows(thread[t])'
    <3>1. KeyOf(thread[t])' = key
      BY <2>1, <2>3 DEF KeyOf, key
    <3>2. ClaimsUpTo(KeyOf(thread[t]), Len(thread[t].at))' = ClaimsUpTo(key, Len(child))
      BY <1>2, <2>1, <2>3, <3>1, SameView
    <3>3. Nodes' = Nodes
      BY <1>2, SameView
    <3> QED
      BY <1>6, <2>1, <2>3, <3>1, <3>2, <3>3 DEF Knows
  <2>7. CallFine(thread[t])'
    BY <2>5, <2>6 DEF CallFine
  <2> QED
    BY <1>2, <1>4, <1>6, <2>2, <2>7, OthersStillFine
<1>7. CASE done
  <2> DEFINE d == [c EXCEPT !.pc = "stat", !.acc = acc]
  <2>1. /\ DOMAIN d = DOMAIN c /\ d.pc = "stat" /\ d.acc = acc /\ d.raced = c.raced
        /\ d.call = c.call /\ d.path = c.path /\ d.at = c.at /\ d.src = c.src
    BY <1>2 DEF CallOK
  <2>2. thread' = [thread EXCEPT ![t] = d]
    BY <1>7
  <2> HIDE DEF d
  <2>3. thread'[t] = d
    BY <2>2
  <2>4. CallOK(thread[t])'
    BY <1>2, <2>1, <2>3 DEF CallOK, Steps
  <2>5. thread'[t].raced \/ Knows(thread[t])'
    <3>1. KeyOf(thread[t])' = key
      BY <2>1, <2>3 DEF KeyOf, key
    <3>2. Claims(KeyOf(thread[t]))' = Claims(key)
      BY <1>3, <3>1
    <3> QED
      BY <1>7, <2>1, <2>3, <3>2 DEF Knows
  <2>6. CallFine(thread[t])'
    BY <2>4, <2>5 DEF CallFine
  <2>7. CacheOK'
    <3>1. c.raced \in BOOLEAN
      BY <1>2 DEF CallOK
    <3>2. ASSUME NEW k \in DOMAIN cache'
          PROVE  /\ k \in Paths /\ cache'[k].raced \in BOOLEAN
                 /\ mount'.pc \notin {"prune", "clear"} => cache'[k].raced \/ cache'[k].ans = Claims(k)
      <4>1. CASE k = key
        BY <1>2, <1>7, <3>1, <4>1
      <4>2. CASE k # key
        <5>1. k \in DOMAIN cache /\ cache'[k] = cache[k]
          BY <1>7, <4>2
        <5> QED
          BY <1>2, <5>1 DEF CacheOK
      <4> QED
        BY <4>1, <4>2
    <3> QED
      BY <1>3, <3>2 DEF CacheOK
  <2> QED
    BY <1>2, <2>2, <2>6, <2>7, OthersStillFine
<1> HIDE DEF deeper, done
<1> QED
  BY <1>1, <1>5, <1>6, <1>7

(* Stat: the storage is chosen by what the tree and the storages say, or the     *)
(* second path of a rename is looked up.                                        *)
LEMMA StatIsFine ==
    ASSUME TreeInv, DOMAIN thread = Threads, Lookups, NEW t \in Threads, Stat(t)
    PROVE  DOMAIN thread' = Threads /\ Lookups'
<1> DEFINE c == thread[t]
           found == Getattr(c.path, c.acc)
           second == c.call.op = "rename" /\ c.src = None
           e == [Lookup(c.call, Front(c.call.to)) EXCEPT !.src = found.res, !.raced = c.raced]
           d == [c EXCEPT !.pc = "call", !.res = found.res]
<1>1. /\ c.pc = "stat" /\ c.call.op \notin {"getattr", "readdir", "find"}
      /\ UNCHANGED <<mode, tree, store, down>>
      /\ \/ thread' = [thread EXCEPT ![t] = NoCall]
         \/ second /\ thread' = [thread EXCEPT ![t] = e]
         \/ ~second /\ found.res # None /\ thread' = [thread EXCEPT ![t] = d]
  <2>1. c.pc = "stat" /\ c.call.op \notin {"getattr", "readdir", "find"} /\ UNCHANGED <<mode, tree, down>>
    BY DEF Stat, tables
  <2>2. \/ GiveUp(t)
        \/ found.res # None /\ UNCHANGED files
           /\ thread' = [thread EXCEPT ![t] = IF second THEN e ELSE d]
    BY DEF Stat
  <2>3. GiveUp(t) => store' = store /\ thread' = [thread EXCEPT ![t] = NoCall]
    BY DEF GiveUp
  <2> HIDE DEF found, e, d, second
  <2> QED
    BY <2>1, <2>2, <2>3 DEF files
<1>2. CallOK(c) /\ (c.raced \/ Knows(c))
  BY <1>1 DEF Lookups, CallFine, NoCall
<1>3. CASE thread' = [thread EXCEPT ![t] = NoCall]
  BY <1>1, <1>3, DoneIsFine
<1>4. CASE second /\ thread' = [thread EXCEPT ![t] = e]
  <2>1. /\ DOMAIN e = {"pc", "call", "path", "at", "ids", "acc", "src", "res", "raced"}
        /\ e.pc = "resolve" /\ e.call = c.call /\ e.path = Front(c.call.to) /\ e.at = Root
        /\ e.acc = {} /\ e.raced = c.raced
    BY DEF Lookup
  <2>2. e.path \in Paths
    BY <1>2, <1>4, <2>1, KeysArePaths DEF CallOK
  <2>3. ~MakesEntry(e.call.op)
    BY <1>4, <2>1 DEF MakesEntry
  <2> HIDE DEF e
  <2>4. thread'[t] = e
    BY <1>4
  <2>5. CallOK(thread[t])'
    BY <1>2, <1>4, <2>1, <2>2, <2>3, <2>4, PrefixOrder DEF CallOK, Steps
  <2>6. Knows(thread[t])'
    BY <2>1, <2>4 DEF Knows
  <2>7. CallFine(thread[t])'
    BY <2>5, <2>6 DEF CallFine
  <2> QED
    BY <1>1, <1>4, <2>7, OthersStillFine
<1>5. CASE found.res # None /\ thread' = [thread EXCEPT ![t] = d]
  <2>1. /\ DOMAIN d = DOMAIN c /\ d.pc = "call" /\ d.res = found.res /\ d.acc = c.acc
        /\ d.raced = c.raced /\ d.call = c.call /\ d.path = c.path /\ d.at = c.at /\ d.src = c.src
    BY <1>2 DEF CallOK
  <2> HIDE DEF d
  <2>2. thread'[t] = d
    BY <1>5
  <2>3. CallOK(thread[t])'
    BY <1>2, <2>1, <2>2 DEF CallOK, Steps
  <2>4. ASSUME ~c.raced
        PROVE  /\ c.acc = Claims(KeyOf(c)) /\ d.res \in c.acc
               /\ StorageGetattr(d.res) = "dir" => WritableOf(c.acc) = {d.res}
    <3>1. c.acc = Claims(KeyOf(c))
      BY <1>1, <1>2, <2>4 DEF Knows
    <3>2. KeyOf(c) \in Paths
      BY <1>2, KeysArePaths DEF CallOK
    <3> DEFINE k == Len(KeyOf(c))
               r == d.res
               ans == c.acc
               path == c.path
    <3>3. k \in Nat /\ IsFiniteSet(ans) /\ \A q \in ans : Len(q.relpath) \in Nat /\ Len(q.relpath) <= k
      BY <3>1, <3>2, ClaimsAreFinite, PrefixOrder DEF TreeInv
    <3>4. r = Getattr(path, ans).res /\ r # None
      BY <1>5, <2>1
    <3> HIDE DEF k, r, ans, path, found
    <3>5. r \in ans /\ (StorageGetattr(r) = "dir" => WritableOf(ans) = {r})
      BY <3>3, <3>4, GetattrChooses
    <3> QED
      BY <3>1, <3>5 DEF r, ans
  <2>5. thread'[t].raced \/ Knows(thread[t])'
    <3>1. KeyOf(thread[t])' = KeyOf(c)
      BY <2>1, <2>2 DEF KeyOf
    <3>2. Claims(KeyOf(thread[t]))' = Claims(KeyOf(c))
      BY <1>1, <3>1, SameView
    <3>3. StorageGetattr(thread[t].res)' = StorageGetattr(d.res)
      BY <1>1, <2>2, SameView
    <3>4. WritableOf(thread[t].acc)' = WritableOf(c.acc)
      BY <1>1, <2>1, <2>2, SameView
    <3> QED
      BY <2>1, <2>2, <2>4, <3>2, <3>3, <3>4 DEF Knows
  <2>6. CallFine(thread[t])'
    BY <2>3, <2>5 DEF CallFine
  <2> QED
    BY <1>1, <1>5, <2>6, OthersStillFine
<1> HIDE DEF found, second, d, e
<1> QED
  BY <1>1, <1>3, <1>4, <1>5

(* Call: when the storage has changed, the other lookups are overtaken.         *)
LEMMA CallIsFine ==
    ASSUME DOMAIN thread = Threads, Lookups, NEW t \in Threads, Call(t)
    PROVE  DOMAIN thread' = Threads /\ Lookups' /\ DOMAIN store' = DOMAIN store
<1>1. UNCHANGED <<mode, tree, down>> /\ (GiveUp(t) \/ Reached(t))
  BY DEF Call, tables
<1>2. CASE GiveUp(t)
  <2>1. store' = store /\ thread' = [thread EXCEPT ![t] = NoCall]
    BY <1>2 DEF GiveUp
  <2> QED
    BY <1>1, <2>1, DoneIsFine
<1>3. CASE Reached(t)
  <2>1. /\ thread' = [u \in Threads |-> IF u = t THEN NoCall
                                        ELSE IF store' # store THEN Overtaken(u)
                                        ELSE thread[u]]
        /\ DOMAIN store' = DOMAIN store
    BY <1>3 DEF Reached
  <2>2. ASSUME NEW u \in Threads PROVE CallFine(thread[u])'
    <3>1. CallFine(thread[u])
      BY DEF Lookups
    <3>2. CASE u = t
      BY <2>1, <3>2 DEF CallFine
    <3>3. CASE u # t /\ store' # store
      <4>1. thread'[u] = Overtaken(u)
        BY <2>1, <3>3
      <4> QED
        BY <3>1, <4>1, OvertakenIsFine
    <3>4. CASE u # t /\ store' = store
      <4>1. thread'[u] = thread[u]
        BY <2>1, <3>4
      <4> QED
        BY <1>1, <3>1, <3>4, <4>1, StillFine
    <3> QED
      BY <3>2, <3>3, <3>4
  <2> QED
    BY <2>1, <2>2 DEF Lookups
<1> QED
  BY <1>1, <1>2, <1>3

(* The cached answers stay right as long as the tree claims the same.           *)
LEMMA CacheStays ==
    ASSUME CacheOK, cache' = cache,
           mount'.pc \notin {"prune", "clear"} =>
              mount.pc \notin {"prune", "clear"} /\ \A key \in Paths : Claims(key)' = Claims(key)
    PROVE  CacheOK'
<1> SUFFICES ASSUME NEW key \in DOMAIN cache
             PROVE  /\ key \in Paths /\ cache[key].raced \in BOOLEAN
                    /\ mount'.pc \notin {"prune", "clear"} => cache[key].raced \/ cache[key].ans = Claims(key)'
  BY DEF CacheOK
<1>1. key \in Paths /\ cache[key].raced \in BOOLEAN
  BY DEF CacheOK
<1>2. ASSUME mount'.pc \notin {"prune", "clear"} PROVE cache[key].raced \/ cache[key].ans = Claims(key)'
  <2>1. mount.pc \notin {"prune", "clear"} /\ Claims(key)' = Claims(key)
    BY <1>1, <1>2
  <2> QED
    BY <2>1 DEF CacheOK
<1> QED
  BY <1>1, <1>2

(* A node on the way that is new holds no storage: the tree claims the same.    *)
LEMMA NewNodeClaimsNothing ==
    ASSUME TreeInv, NEW next, next \notin Nodes,
           tree' = [n \in Nodes \cup {next} |-> IF n = next THEN {} ELSE tree[n]]
    PROVE  \A key \in Paths : Claims(key)' = Claims(key)
<1> SUFFICES ASSUME NEW key \in Paths PROVE Claims(key)' = Claims(key)
  OBVIOUS
<1>1. Nodes' = Nodes \cup {next}
  BY DEF Nodes
<1>2. tree'[next] = {} /\ \A n \in Nodes : tree'[n] = tree[n]
  OBVIOUS
<1>3. {a \in Nodes' \X Idents : IsPrefix(a[1], key) /\ a[2] \in tree'[a[1]]}
         = {a \in Nodes \X Idents : IsPrefix(a[1], key) /\ a[2] \in tree[a[1]]}
  <2> SUFFICES ASSUME NEW a
               PROVE  a \in Nodes' \X Idents /\ IsPrefix(a[1], key) /\ a[2] \in tree'[a[1]]
                         <=> a \in Nodes \X Idents /\ IsPrefix(a[1], key) /\ a[2] \in tree[a[1]]
    OBVIOUS
  <2>1. a \in Nodes \X Idents => a \in Nodes' \X Idents /\ tree'[a[1]] = tree[a[1]]
    BY <1>1, <1>2
  <2>2. a \in Nodes' \X Idents /\ a[2] \in tree'[a[1]] => a \in Nodes \X Idents
    <3> SUFFICES ASSUME a \in Nodes' \X Idents, a[2] \in tree'[a[1]] PROVE a \in Nodes \X Idents
      OBVIOUS
    <3>1. a[1] # next
      BY <1>2
    <3>2. a[1] \in Nodes /\ a[2] \in Idents /\ a = <<a[1], a[2]>>
      BY <1>1, <3>1
    <3> QED
      BY <3>2
  <2> QED
    BY <2>1, <2>2
<1> QED
  BY <1>3 DEF Claims

(* The thread that mounts and unmounts: while the cache may be wrong it is to be *)
(* cleared, and all lookups are overtaken.                                      *)
LEMMA MounterIsFine ==
    ASSUME ConflictInv, Mounter
    PROVE  DOMAIN thread' = Threads /\ Lookups' /\ CacheOK'
<1> USE DEF ConflictInv
<1>1. ASSUME NEW id \in Idents, MountBegin(id) \/ UnmountBegin(id)
      PROVE  DOMAIN thread' = Threads /\ Lookups' /\ CacheOK'
  <2>1. /\ thread' = AllOvertaken /\ cache' = cache /\ tree' = tree
        /\ mount.pc = "idle" /\ UNCHANGED <<mode, store, down>>
    BY <1>1 DEF MountBegin, UnmountBegin, tables, files
  <2>2. CacheOK'
    BY <2>1, SameView, CacheStays
  <2> QED
    BY <2>1, <2>2, AllStillFine
<1>2. CASE MountNode
  <2>1. thread' = AllOvertaken /\ cache' = cache /\ mount.pc = "grow" /\ UNCHANGED <<mode, store, down>>
    BY <1>2 DEF MountNode, files
  <2>2. \/ mount'.pc = "clear"
        \/ tree' = tree
        \/ \E next : next \notin Nodes /\ tree' = [n \in Nodes \cup {next} |-> IF n = next THEN {} ELSE tree[n]]
    <3>1. MountOK /\ mount # NoMount
      BY <2>1 DEF NoMount, TreeInv
    <3>2. mount' = [mount EXCEPT !.pc = "clear"] => mount'.pc = "clear"
      BY <3>1 DEF MountOK
    <3> QED
      BY <1>2, <3>2 DEF MountNode
  <2>3. CacheOK'
    <3>1. CASE mount'.pc = "clear"
      BY <2>1, <3>1, CacheStays
    <3>2. CASE tree' = tree
      BY <2>1, <3>2, SameView, CacheStays
    <3>3. CASE \E next : next \notin Nodes /\ tree' = [n \in Nodes \cup {next} |-> IF n = next THEN {} ELSE tree[n]]
      <4>1. \A key \in Paths : Claims(key)' = Claims(key)
        BY <3>3, NewNodeClaimsNothing
      <4> QED
        BY <2>1, <4>1, CacheStays
    <3> QED
      BY <2>2, <3>1, <3>2, <3>3
  <2> QED
    BY <2>1, <2>3, AllStillFine
<1>3. CASE UnmountNode \/ Prune
  <2>1. thread' = AllOvertaken /\ cache' = cache
    BY <1>3 DEF UnmountNode, Prune
  <2>2. mount'.pc \in {"prune", "clear"}
    <3>1. mount.pc \in {"leave", "prune"}
      BY <1>3 DEF UnmountNode, Prune
    <3>2. MountOK /\ mount # NoMount
      BY <3>1 DEF NoMount, TreeInv
    <3>3. DOMAIN mount = {"pc", "id", "todo", "at"}
      BY <3>2 DEF MountOK
    <3>4. UnmountNode => mount'.pc = "prune"
      BY <3>3 DEF UnmountNode
    <3>5. Prune => mount'.pc \in {"prune", "clear"}
      BY <3>3 DEF Prune
    <3> QED
      BY <1>3, <3>4, <3>5
  <2>3. CacheOK'
    BY <2>1, <2>2, CacheStays
  <2> QED
    BY <2>1, <2>3, AllStillFine
<1>4. CASE CacheClear
  <2>1. cache' = NoAnswers /\ thread' = thread /\ UNCHANGED <<mode, tree, store, down>>
    BY <1>4 DEF CacheClear, tables, files
  <2>2. DOMAIN NoAnswers = {}
    BY DEF NoAnswers
  <2>3. CacheOK'
    BY <2>1, <2>2 DEF CacheOK
  <2>4. \A t \in Threads : CallFine(thread[t])'
    BY <2>1, StillFine DEF Lookups
  <2> QED
    BY <2>1, <2>3, <2>4 DEF Lookups
<1> QED
  BY <1>1, <1>2, <1>3, <1>4 DEF Mounter

-----------------------------------------------------------------------------
(* The theorems. *)

(* The driver starts with a tree, no lookups and an empty cache.                *)
LEMMA ConflictStarts == Init => ConflictInv
<1> SUFFICES ASSUME Init PROVE ConflictInv
  OBVIOUS
<1>1. TreeInv
  BY TreeStarts
<1>2. DOMAIN thread = Threads /\ Lookups
  BY DEF Init, Lookups, CallFine
<1>3. CacheOK
  <2>1. DOMAIN cache = {}
    BY DEF Init, NoAnswers
  <2> QED
    BY <2>1 DEF CacheOK
<1>4. down \subseteq Idents /\ DOMAIN store = Idents
  BY ModesAssumption DEF Init
<1> QED
  BY <1>1, <1>2, <1>3, <1>4 DEF ConflictInv

(* Every step keeps the tree in shape, what the lookups know and what the cache *)
(* holds.                                                                       *)
LEMMA ConflictStep == ASSUME ConflictInv, [Next]_vars PROVE ConflictInv'
<1>1. TreeInv'
  BY TreeKept DEF ConflictInv
<1>2. CASE UNCHANGED vars
  <2>1. UNCHANGED <<mode, tree, store, down, thread, cache, mount>>
    BY <1>2 DEF vars
  <2>2. \A t \in Threads : CallFine(thread[t])'
    BY <2>1, StillFine DEF Lookups, ConflictInv
  <2>3. CacheOK'
    BY <2>1, SameView, CacheStays DEF ConflictInv
  <2> QED
    BY <1>1, <2>1, <2>2, <2>3 DEF ConflictInv, Lookups
<1>3. CASE Mounter
  <2>1. DOMAIN thread' = Threads /\ Lookups' /\ CacheOK'
    BY <1>3, MounterIsFine
  <2>2. UNCHANGED <<store, down>>
    BY <1>3 DEF Mounter, MountBegin, UnmountBegin, MountNode, UnmountNode, Prune, CacheClear, files
  <2> QED
    BY <1>1, <2>1, <2>2 DEF ConflictInv
<1>4. ASSUME NEW t \in Threads, FileOp(t) PROVE ConflictInv'
  <2>1. UNCHANGED <<mode, tree, mount, down>> /\ TreeInv /\ DOMAIN thread = Threads /\ Lookups /\ CacheOK
        /\ DOMAIN store = Idents /\ down \subseteq Idents
    BY <1>4 DEF FileOp, Start, Hit, Visit, Descend, Answered, Stat, Call, tables, ConflictInv
  <2>2. \A key \in Paths : Claims(key)' = Claims(key)
    <3>1. Nodes' = Nodes
      BY <2>1 DEF Nodes
    <3> QED
      BY <2>1, <3>1 DEF Claims
  <2>3. cache' = cache => CacheOK'
    BY <2>1, <2>2, CacheStays
  <2>4. CASE Start(t) \/ Hit(t) \/ Visit(t)
    <3>1. store' = store /\ cache' = cache
      BY <2>4 DEF Start, Hit, Visit, files
    <3>2. DOMAIN thread' = Threads /\ Lookups'
      BY <2>1, <2>4, StartIsFine, HitIsFine, VisitIsFine
    <3> QED
      BY <1>1, <2>1, <2>3, <3>1, <3>2 DEF ConflictInv
  <2>5. CASE Descend(t)
    <3>1. store' = store
      BY <2>5 DEF Descend, files
    <3>2. DOMAIN thread' = Threads /\ Lookups' /\ CacheOK'
      BY <2>1, <2>5, DescendIsFine
    <3> QED
      BY <1>1, <2>1, <3>1, <3>2 DEF ConflictInv
  <2>6. CASE Answered(t)
    <3>1. UNCHANGED <<mode, tree, store, down>> /\ cache' = cache /\ thread' = [thread EXCEPT ![t] = NoCall]
      BY <2>6 DEF Answered, files, tables
    <3>2. DOMAIN thread' = Threads /\ Lookups'
      BY <2>1, <3>1, DoneIsFine
    <3> QED
      BY <1>1, <2>1, <2>3, <3>1, <3>2 DEF ConflictInv
  <2>7. CASE Stat(t)
    <3>1. store' = store /\ cache' = cache
      BY <2>7 DEF Stat, GiveUp, files
    <3>2. DOMAIN thread' = Threads /\ Lookups'
      BY <2>1, <2>7, StatIsFine
    <3> QED
      BY <1>1, <2>1, <2>3, <3>1, <3>2 DEF ConflictInv
  <2>8. CASE Call(t)
    <3>1. cache' = cache
      BY <2>8 DEF Call
    <3>2. DOMAIN thread' = Threads /\ Lookups' /\ DOMAIN store' = DOMAIN store
      BY <2>1, <2>8, CallIsFine
    <3> QED
      BY <1>1, <2>1, <2>3, <3>1, <3>2 DEF ConflictInv
  <2> QED
    BY <1>4, <2>4, <2>5, <2>6, <2>7, <2>8 DEF FileOp
<1>5. ASSUME NEW i \in Idents, Break(i) PROVE ConflictInv'
  <2>1. /\ thread' = AllOvertaken /\ UNCHANGED <<tree, cache, store, mount>>
        /\ down' = IF i \in down THEN down \ {i} ELSE down \cup {i}
    BY <1>5 DEF Break, tables, files
  <2>2. DOMAIN thread' = Threads /\ Lookups'
    BY <2>1, AllStillFine DEF ConflictInv
  <2>3. \A key \in Paths : Claims(key)' = Claims(key)
    <3>1. Nodes' = Nodes
      BY <2>1 DEF Nodes
    <3> QED
      BY <2>1, <3>1 DEF Claims
  <2>4. CacheOK'
    BY <2>1, <2>3, CacheStays DEF ConflictInv
  <2>5. down' \subseteq Idents
    BY <2>1 DEF ConflictInv
  <2> QED
    BY <1>1, <2>1, <2>2, <2>4, <2>5 DEF ConflictInv
<1> QED
  BY <1>2, <1>3, <1>4, <1>5 DEF Next

(* ConflictInv holds in every state of the driver.                              *)
THEOREM Invariance == Spec => []ConflictInv
<1>1. Init => ConflictInv
  BY ConflictStarts
<1>2. ConflictInv /\ [Next]_vars => ConflictInv'
  BY ConflictStep
<1> QED
  BY <1>1, <1>2, PTL DEF Spec

(* With nobody mounting, the tree is what the mounted storages make of it: each *)
(* of them at each of its paths, and no node that leads to none (MountDir.mount *)
(* and unmount, control_mount and control_unmount).                             *)
THEOREM TypeCorrect == Spec => []TypeOK
<1>1. ASSUME ConflictInv PROVE TypeOK
  <2>1. TreeShape /\ MountOK /\ live \subseteq Idents /\ down \subseteq Idents
    BY <1>1 DEF ConflictInv, TreeInv
  <2>2. \A n \in Nodes : tree[n] \subseteq Idents
    BY <2>1 DEF TreeShape
  <2>3. \A t \in Threads : thread[t].pc \in {"idle", "resolve", "visit", "leave", "stat", "call"}
    BY <1>1 DEF ConflictInv, Lookups, CallFine, CallOK, NoCall, Steps
  <2>4. mount.pc \in {"idle", "grow", "leave", "prune", "clear"}
    BY <2>1 DEF MountOK, NoMount
  <2>5. ASSUME mount.pc = "idle" PROVE tree = TreeOf(mode, live)
    <3>1. mount = NoMount
      BY <2>1, <2>5 DEF MountOK
    <3>2. Way = Root /\ \A i \in Idents : PathsNow(i) = IF i \in live THEN PathsOf(mode, i) ELSE {}
      BY <3>1, IdentsAssumption DEF NoMount, Way, PathsNow
    <3> DEFINE Dom == {Root} \cup UNION {UNION {Prefixes(p) : p \in PathsOf(mode, i)} : i \in live}
    <3>3. ASSUME NEW n \in Nodes PROVE n \in Dom
      <4>1. n \in Paths /\ Led(n)
        BY <2>1 DEF TreeShape
      <4>2. IsPrefix(n, Root) => n = Root
        <5>1. IsPrefix(n, Root) => Len(n) <= 0 /\ Len(n) \in Nat
          BY <4>1, PrefixOrder
        <5>2. IsPrefix(n, Root) => Len(n) = 0
          BY <5>1
        <5> QED
          BY <4>1, <5>2, PrefixOrder
      <4>3. ASSUME NEW i \in Idents, NEW p \in PathsNow(i), IsPrefix(n, p) PROVE n \in Dom
        <5>1. i \in live /\ p \in PathsOf(mode, i)
          BY <3>2
        <5>2. p \in Paths
          BY <2>1 DEF TreeShape
        <5>3. n \in Prefixes(p)
          BY <4>1, <4>3, <5>2, PrefixesAre
        <5> QED
          BY <5>1, <5>3
      <4> HIDE DEF Dom
      <4>4. Root \in Dom
        BY DEF Dom
      <4> QED
        BY <3>2, <4>1, <4>2, <4>3, <4>4 DEF Led
    <3>4. ASSUME NEW n \in Dom PROVE n \in Nodes
      <4>1. ASSUME NEW i \in live, NEW p \in PathsOf(mode, i), n \in Prefixes(p) PROVE n \in Nodes
        <5>1. p \in Nodes
          BY <2>1, <3>2 DEF TreeShape
        <5>2. Prefixes(p) \subseteq Nodes
          BY <2>1, <5>1 DEF TreeShape
        <5> QED
          BY <4>1, <5>2
      <4>2. Root \in Nodes
        BY <2>1 DEF TreeShape
      <4> QED
        BY <4>1, <4>2
    <3>5. Nodes = Dom
      BY <3>3, <3>4
    <3>6. \A n \in Nodes : {i \in Idents : n \in PathsNow(i)} = {i \in live : n \in PathsOf(mode, i)}
      BY <2>1, <3>2
    <3>7. tree = [n \in Nodes |-> {i \in live : n \in PathsOf(mode, i)}]
      BY <2>1, <3>6 DEF TreeShape
    <3> HIDE DEF Dom
    <3>8. tree = [n \in Dom |-> {i \in live : n \in PathsOf(mode, i)}]
      BY <3>5, <3>7
    <3> QED
      BY <3>8 DEF TreeOf, Dom
  <2> QED
    BY <2>1, <2>2, <2>3, <2>4, <2>5 DEF TypeOK
<1> QED
  BY <1>1, Invariance, PTL

(* A wrong answer in _resolve's cache was put there by a call that a mount or an *)
(* unmount overtook; every other answer is what the tree says.                  *)
THEOREM CacheIsRight == Spec => []StaleIsRaced
<1>1. ConflictInv => StaleIsRaced
  BY DEF ConflictInv, CacheOK, StaleIsRaced
<1> QED
  BY <1>1, Invariance, PTL

(* The last name of a path and the names above it (PurePosixPath.parent).       *)
LEMMA FrontOfAppend == ASSUME NEW T, NEW r \in Seq(T), NEW x PROVE Front(Append(r, x)) = r
<1>1. r \in Seq(T \cup {x})
  BY SeqMonotonic
<1> DEFINE S == T \cup {x}
           s == Append(r, x)
<1>2. x \in S /\ r \in Seq(S)
  BY <1>1
<1> HIDE DEF S
<1>3. s \in Seq(S) /\ Len(s) = Len(r) + 1 /\ \A i \in 1..Len(r) : s[i] = r[i]
  BY <1>2, AppendProperties
<1>4. Len(r) \in Nat
  BY LenProperties
<1> HIDE DEF s
<1>5. Len(s) - 1 = Len(r) /\ \A i \in 1..Len(r) : s[i] \in S
  BY <1>2, <1>3, <1>4, ElementOfSeq
<1>6. /\ SubSeq(s, 1, Len(r)) \in Seq(S)
      /\ Len(SubSeq(s, 1, Len(r))) = IF 1 <= Len(r) THEN Len(r) - 1 + 1 ELSE 0
      /\ \A i \in 1..Len(r) - 1 + 1 : SubSeq(s, 1, Len(r))[i] = s[1 + i - 1]
  <2>1. 1 \in Int /\ Len(r) \in Int
    BY <1>4
  <2> QED
    BY <1>5, <2>1, SubSeqProperties
<1> DEFINE f == SubSeq(s, 1, Len(r))
<1>7. f \in Seq(S) /\ Len(f) = Len(r) /\ \A i \in 1..Len(r) : f[i] = s[i]
  BY <1>4, <1>6
<1> HIDE DEF f
<1>8. f = r
  BY <1>2, <1>3, <1>7, SeqEqual
<1> QED
  BY <1>5, <1>8 DEF f, Front, s

(* What a call that reaches its storage has changed.                            *)
LEMMA EffectMeans ==
    ASSUME NEW c, CallOK(c), Knows(c), c.pc = "call", ~c.raced, TreeInv, NEW i, i = c.res.ident,
           i \in live, i \notin down, Modifies(c.call.op) => i \notin mode.ro,
           Effect(c) # store[i]
    PROVE  /\ i \notin mode.ro
           /\ MakesEntry(c.call.op) => {res.ident : res \in WritableOf(Claims(Target(c.call)))} = {i}
<1>1. Modifies(c.call.op)
  <2> SUFFICES ASSUME ~Modifies(c.call.op) PROVE FALSE
    OBVIOUS
  <2>1. c.call.op \notin {"create", "mkdir", "unlink", "rmdir", "rename"}
    BY DEF Modifies
  <2>2. c.src = None
    BY <2>1 DEF CallOK
  <2> QED
    BY <2>1, <2>2 DEF Effect
<1>2. ASSUME MakesEntry(c.call.op)
      PROVE  {res.ident : res \in WritableOf(Claims(Target(c.call)))} = {i}
  <2>1. c.call.op \in {"create", "mkdir"} /\ c.src = None
    BY <1>2 DEF MakesEntry, CallOK
  <2> DEFINE new == Append(c.res.relpath, Last(c.call.path))
  <2>2. \E kind : Effect(c) = WithEntry(store[i], new, kind)
    BY <2>1 DEF Effect
  <2>3. KindIn(store[i], Front(new)) = "dir"
    BY <2>2 DEF WithEntry
  <2>4. c.acc = Claims(KeyOf(c)) /\ c.res \in c.acc
        /\ (StorageGetattr(c.res) = "dir" => WritableOf(c.acc) = {c.res})
    BY DEF Knows
  <2>5. c.res.relpath \in Paths
    <3>1. KeyOf(c) \in Paths
      BY KeysArePaths DEF CallOK
    <3> QED
      BY <2>4, <3>1, ClaimsAreFinite DEF TreeInv
  <2>6. KindIn(store[i], c.res.relpath) = "dir"
    BY <2>3, <2>5, FrontOfAppend DEF Paths
  <2>7. StorageGetattr(c.res) = "dir"
    <3>1. c.res.relpath \in DOMAIN store[i] /\ store[i][c.res.relpath] = "dir"
      BY <2>6, IdentsAssumption DEF KindIn
    <3> QED
      BY <1>1, <3>1 DEF StorageGetattr
  <2>8. WritableOf(Claims(KeyOf(c))) = {c.res}
    BY <2>4, <2>7
  <2>9. KeyOf(c) = Target(c.call)
    BY <1>2, <2>1 DEF KeyOf, Target, CallOK
  <2> QED
    BY <2>8, <2>9
<1> QED
  BY <1>1, <1>2

(* A call that nothing overtook makes a new entry only in the one storage that  *)
(* can be written to there, and nothing at all in a storage that is read-only   *)
(* or not mounted (getattr_extended, proxy).                                    *)
THEOREM EntriesAreUnambiguous == Spec => NewEntriesAreUnambiguous
<1>1. ASSUME ConflictInv, Next, NEW t \in Threads, NEW i \in Idents,
             thread[t].pc = "call", thread'[t].pc = "idle", ~thread[t].raced, Changes(i)
      PROVE  /\ i \notin mode.ro /\ i \in live
             /\ MakesEntry(thread[t].call.op) =>
                   {res.ident : res \in WritableOf(Claims(Target(thread[t].call)))} = {i}
  <2>1. store' # store
    BY <1>1 DEF Changes
  <2>2. PICK u \in Threads : Call(u) /\ Reached(u)
    BY <1>1, <2>1 DEF Next, Mounter, MountBegin, UnmountBegin, MountNode, UnmountNode, Prune, CacheClear,
       FileOp, Start, Hit, Visit, Descend, Answered, Stat, Call, GiveUp, Break, files
  <2>3. CallFine(thread[t])
    BY <1>1 DEF ConflictInv, Lookups
  <2>4. u = t
    <3> SUFFICES ASSUME u # t PROVE FALSE
      OBVIOUS
    <3>1. thread'[t] = Overtaken(t)
      BY <2>1, <2>2 DEF Reached
    <3>2. thread'[t].pc = thread[t].pc
      BY <2>3, <3>1, OvertakenIsFine
    <3> QED
      BY <1>1, <3>2
  <2> DEFINE c == thread[t]
             j == c.res.ident
  <2>5. j \in live /\ j \notin down /\ (Modifies(c.call.op) => j \notin mode.ro)
    BY <2>1, <2>2, <2>4 DEF Call, GiveUp
  <2>6. store' = [store EXCEPT ![j] = Effect(c)] /\ i \in DOMAIN store
    BY <1>1, <2>2, <2>4 DEF Reached, ConflictInv
  <2>7. i = j /\ Effect(c) # store[i]
    BY <1>1, <2>6 DEF Changes
  <2>8. CallOK(c) /\ Knows(c)
    BY <1>1, <2>3 DEF CallFine, NoCall
  <2> QED
    BY <1>1, <2>5, <2>7, <2>8, EffectMeans DEF ConflictInv
<1>2. ConflictInv /\ [Next]_vars
        => [\A t \in Threads, i \in Idents :
              /\ thread[t].pc = "call" /\ thread'[t].pc = "idle" /\ ~thread[t].raced
              /\ Changes(i)
              => /\ i \notin mode.ro /\ i \in live
                 /\ MakesEntry(thread[t].call.op) =>
                       {res.ident : res \in WritableOf(Claims(Target(thread[t].call)))} = {i}]_vars
  BY <1>1
<1> QED
  BY <1>2, Invariance, PTL DEF Spec, NewEntriesAreUnambiguous

-----------------------------------------------------------------------------
(* What a directory lists is found.  The storages hold trees, ... *)

(* A name without a storage id.                                                 *)
Plain(name) == name = <<Head(name)>>

(* The contents of a storage: every file and directory is in a directory, up to *)
(* the root, and none has a name of the form stem.wl_id.                        *)
IsTree(content) ==
    /\ DOMAIN content \subseteq Paths
    /\ Root \in DOMAIN content /\ IsDir(content[Root])
    /\ \A r \in DOMAIN content :
          /\ content[r] \in {"file", "dir", "rdir"}
          /\ r # Root => /\ Front(r) \in DOMAIN content /\ IsDir(content[Front(r)])
                         /\ Plain(Last(r))

Trees == \A i \in Idents : IsTree(store[i])

(* Nobody uses the form stem.wl_id for a name of his own: no mount path has it, *)
(* no file that is there at the start, and no name that a call creates.         *)
NamesArePlain ==
    \A m \in Modes :
        /\ \A i \in Idents : \A p \in PathsOf(m, i) : \A k \in 1..Len(p) : Plain(p[k])
        /\ \A s \in m.stores, i \in Idents : IsTree(s[i])
        /\ \A t \in Threads : \A c \in m.calls[t] :
              /\ MakesEntry(c.op) => c.path # Root /\ Plain(Last(c.path))
              /\ c.op = "rename" => c.to # Root /\ Plain(Last(c.to))

(* What a call looks for is what it was made for, and its answers, those in the  *)
(* cache, too, are answers to that - also of a call that was overtaken.         *)
Called(t) ==
    LET c == thread[t] IN
    c # NoCall =>
        /\ c.call \in mode.calls[t]
        /\ IsPrefix(c.at, KeyOf(c)) /\ c.ids \subseteq Idents
        /\ c.acc \subseteq Possible(KeyOf(c))
        /\ c.pc = "call" => c.res \in Possible(KeyOf(c))
        /\ c.src # None => c.src.ident \in Idents

NamesInv ==
    /\ Trees
    /\ \A t \in Threads : Called(t)
    /\ \A key \in DOMAIN cache : cache[key].ans \subseteq Possible(key)

(* A name below a path.                                                         *)
LEMMA AppendIs ==
    ASSUME NEW r \in Paths, NEW x \in FileNames
    PROVE  /\ Append(r, x) \in Paths /\ Append(r, x) # Root /\ Len(Append(r, x)) = Len(r) + 1
           /\ Front(Append(r, x)) = r /\ Last(Append(r, x)) = x
           /\ \A n \in Paths : IsPrefix(n, Append(r, x)) <=> n = Append(r, x) \/ IsPrefix(n, r)
<1> DEFINE q == Append(r, x)
<1>1. q \in Paths /\ Len(q) = Len(r) + 1 /\ q[Len(r) + 1] = x /\ Len(r) \in Nat
  BY AppendProperties, PrefixOrder DEF Paths
<1>2. q # Root
  BY <1>1, PrefixOrder
<1>3. Front(q) = r
  BY FrontOfAppend DEF Paths
<1>4. Last(q) = x
  BY <1>1 DEF Last
<1> HIDE DEF q
<1>5. \A n \in Paths : IsPrefix(n, q) <=> n = q \/ IsPrefix(n, r)
  BY <1>1, <1>2, <1>3, FrontIsAbove
<1> QED
  BY <1>1, <1>2, <1>3, <1>4, <1>5 DEF q

(* A path is its last name below the others.                                     *)
LEMMA LastOf ==
    ASSUME NEW p \in Paths, p # Root
    PROVE  p = Append(Front(p), Last(p)) /\ Last(p) \in FileNames /\ Front(p) \in Paths
<1>1. Len(p) \in Nat /\ Len(p) # 0
  BY PrefixOrder
<1>2. Front(p) \in Paths /\ Len(Front(p)) = Len(p) - 1 /\ IsPrefix(Front(p), p)
  BY FrontIsAbove
<1>3. Last(p) \in FileNames
  BY <1>1, ElementOfSeq DEF Last, Paths
<1> DEFINE f == Front(p)
           q == Append(f, Last(p))
<1>4. q \in Paths /\ Len(q) = Len(f) + 1 /\ q[Len(f) + 1] = Last(p) /\ \A j \in 1..Len(f) : q[j] = f[j]
  BY <1>2, <1>3, AppendProperties DEF Paths
<1>5. \A j \in 1..Len(f) : f[j] = p[j]
  BY <1>2, PrefixMeans
<1>6. Len(f) = Len(p) - 1 /\ p[Len(p)] = Last(p)
  BY <1>2 DEF Last
<1> HIDE DEF f, q
<1>7. Len(q) = Len(p) /\ \A j \in 1..Len(p) : p[j] = q[j]
  <2>1. Len(q) = Len(p) /\ q[Len(p)] = p[Len(p)]
    BY <1>1, <1>4, <1>6
  <2>2. ASSUME NEW j \in 1..Len(p), j # Len(p) PROVE p[j] = q[j]
    <3>1. j \in 1..Len(f)
      BY <1>1, <1>6, <2>2
    <3> QED
      BY <1>4, <1>5, <3>1
  <2> QED
    BY <2>1, <2>2
<1>8. p = q
  BY <1>4, <1>7, SeqEqual DEF Paths
<1> QED
  BY <1>2, <1>3, <1>8 DEF q, f

(* What is left of a path below a node, when a name is added to it.              *)
LEMMA RestBelow ==
    ASSUME NEW d \in Paths, NEW x \in FileNames, NEW n \in Paths, IsPrefix(n, d)
    PROVE  /\ Rest(Append(d, x), n) = Append(Rest(d, n), x)
           /\ Rest(Append(d, x), Append(d, x)) = Root
<1> DEFINE q == Append(d, x)
           k == Len(n)
           l == Len(d)
<1>1. k \in Nat /\ l \in Nat /\ k <= l
  BY PrefixOrder
<1>2. q \in Paths /\ Len(q) = l + 1 /\ q[l + 1] = x /\ \A j \in 1..l : q[j] = d[j]
  BY AppendProperties DEF Paths
<1>3. Rest(q, q) = Root
  <2>1. Len(q) \in Nat
    BY <1>1, <1>2
  <2> HIDE DEF q
  <2>2. Rest(q, q) \in Paths /\ Len(Rest(q, q)) = 0
    <3>1. q \in Seq(FileNames) /\ Len(q) + 1 \in Int /\ Len(q) \in Int
          /\ \A j \in Len(q) + 1..Len(q) : q[j] \in FileNames
      BY <1>2, <2>1 DEF Paths
    <3>2. /\ SubSeq(q, Len(q) + 1, Len(q)) \in Seq(FileNames)
          /\ Len(SubSeq(q, Len(q) + 1, Len(q))) = IF Len(q) + 1 <= Len(q) THEN Len(q) - (Len(q) + 1) + 1 ELSE 0
      BY <3>1, SubSeqProperties
    <3> QED
      BY <2>1, <3>2 DEF Rest, Paths
  <2> QED
    BY <2>2, PrefixOrder
<1> HIDE DEF q, k, l
<1>4. d \in Seq(FileNames) /\ q \in Seq(FileNames)
  BY <1>2 DEF Paths
<1> DEFINE a == SubSeq(d, k + 1, l)
           b == SubSeq(q, k + 1, l + 1)
<1>5. /\ a \in Seq(FileNames) /\ Len(a) = l - k /\ \A j \in 1..l - k : a[j] = d[k + j]
  <2>1. \A j \in k + 1..l : d[j] \in FileNames
    BY <1>1, <1>4, ElementOfSeq DEF l
  <2>2. k + 1 \in Int /\ l \in Int
    BY <1>1
  <2>3. /\ a \in Seq(FileNames) /\ Len(a) = IF k + 1 <= l THEN l - (k + 1) + 1 ELSE 0
        /\ \A j \in 1..l - (k + 1) + 1 : a[j] = d[k + 1 + j - 1]
    BY <1>4, <2>1, <2>2, SubSeqProperties
  <2> HIDE DEF a
  <2>4. Len(a) = l - k
    BY <1>1, <2>3
  <2>5. ASSUME NEW j \in 1..l - k PROVE a[j] = d[k + j]
    <3>1. j \in 1..l - (k + 1) + 1 /\ k + 1 + j - 1 = k + j
      BY <1>1
    <3> QED
      BY <2>3, <3>1
  <2> QED
    BY <2>3, <2>4, <2>5
<1> HIDE DEF b
<1>6. /\ b \in Seq(FileNames) /\ Len(b) = l - k + 1 /\ \A j \in 1..l - k + 1 : b[j] = q[k + j]
  <2>1. \A j \in k + 1..l + 1 : q[j] \in FileNames
    BY <1>1, <1>2, <1>4, ElementOfSeq
  <2> DEFINE u == k + 1
             v == l + 1
  <2>2. u \in Int /\ v \in Int /\ b = SubSeq(q, u, v)
    BY <1>1 DEF b
  <2>3. /\ b \in Seq(FileNames) /\ Len(b) = IF u <= v THEN v - u + 1 ELSE 0
        /\ \A j \in 1..v - u + 1 : b[j] = q[u + j - 1]
    <3> HIDE DEF u, v, b
    <3> QED
      BY <1>4, <2>1, <2>2, SubSeqProperties DEF u, v
  <2>4. Len(b) = l - k + 1
    BY <1>1, <2>3
  <2>5. ASSUME NEW j \in 1..l - k + 1 PROVE b[j] = q[k + j]
    <3>1. j \in 1..v - u + 1 /\ u + j - 1 = k + j
      BY <1>1
    <3> HIDE DEF u, v
    <3> QED
      BY <2>3, <3>1
  <2> QED
    BY <2>3, <2>4, <2>5
<1> HIDE DEF a
<1> DEFINE c == Append(a, x)
<1>7. c \in Seq(FileNames) /\ Len(c) = Len(a) + 1 /\ c[Len(a) + 1] = x /\ \A j \in 1..Len(a) : c[j] = a[j]
  BY <1>5, AppendProperties
<1> HIDE DEF c
<1>8. Len(c) = Len(b) /\ \A j \in 1..Len(b) : b[j] = c[j]
  <2>1. Len(c) = Len(b)
    BY <1>1, <1>5, <1>6, <1>7
  <2>2. ASSUME NEW j \in 1..Len(b) PROVE b[j] = c[j]
    <3>1. CASE j = l - k + 1
      <4>1. k + j = l + 1 /\ j = Len(a) + 1
        BY <1>1, <1>5, <3>1
      <4> QED
        BY <1>2, <1>6, <1>7, <2>2, <4>1
    <3>2. CASE j # l - k + 1
      <4>1. j \in 1..l - k /\ k + j \in 1..l
        BY <1>1, <1>6, <3>2
      <4>2. b[j] = q[k + j] /\ q[k + j] = d[k + j] /\ a[j] = d[k + j] /\ c[j] = a[j]
        BY <1>2, <1>5, <1>6, <1>7, <2>2, <4>1
      <4> QED
        BY <4>2
    <3> QED
      BY <3>1, <3>2
  <2> QED
    BY <2>1, <2>2
<1>9. b = c
  BY <1>6, <1>7, <1>8, SeqEqual
<1>10. Rest(q, n) = b /\ Rest(d, n) = a
  BY <1>2 DEF Rest, a, b, k, l
<1> QED
  BY <1>3, <1>9, <1>10 DEF c, q

(* Who claims a name in a directory: who claims the directory, and who is mounted *)
(* at the name.                                                                 *)
LEMMA ClaimsBelow ==
    ASSUME TreeShape, NEW d \in Paths, NEW x \in FileNames, NEW c
    PROVE  c \in Claims(Append(d, x)) <=>
              \/ \E r \in Claims(d) : c = Below(r, x)
              \/ /\ Append(d, x) \in Nodes
                 /\ \E i \in tree[Append(d, x)] : c = [ident |-> i, relpath |-> Root]
<1> DEFINE q == Append(d, x)
<1>1. Nodes \subseteq Paths /\ \A n \in Nodes : tree[n] \subseteq Idents
  BY DEF TreeShape
<1>2. \A n \in Paths : IsPrefix(n, q) <=> n = q \/ IsPrefix(n, d)
  BY AppendIs
<1>3. \A n \in Nodes : \A i : IsPrefix(n, d) =>
         [ident |-> i, relpath |-> Rest(q, n)] = Below([ident |-> i, relpath |-> Rest(d, n)], x)
  <2> SUFFICES ASSUME NEW n \in Nodes, NEW i, IsPrefix(n, d)
               PROVE  [ident |-> i, relpath |-> Rest(q, n)] = Below([ident |-> i, relpath |-> Rest(d, n)], x)
    OBVIOUS
  <2>1. Rest(q, n) = Append(Rest(d, n), x)
    <3>1. n \in Paths
      BY <1>1
    <3>2. Rest(Append(d, x), n) = Append(Rest(d, n), x)
      BY <3>1, RestBelow
    <3> QED
      BY <3>2
  <2> DEFINE p == Rest(d, n)
             r == [ident |-> i, relpath |-> p]
             y == Append(p, x)
  <2>2. \A z : [r EXCEPT !.relpath = z] = [ident |-> i, relpath |-> z]
    OBVIOUS
  <2>3. r.relpath = p
    OBVIOUS
  <2>4. Below(r, x) = [r EXCEPT !.relpath = y]
    <3> HIDE DEF p, r
    <3> QED
      BY <2>3 DEF Below
  <2> HIDE DEF y
  <2> QED
    BY <2>1, <2>2, <2>4 DEF y
<1>4. Rest(q, q) = Root
  <2>1. IsPrefix(Root, d) /\ Root \in Paths
    BY PrefixOrder
  <2> QED
    BY <2>1, RestBelow
<1> HIDE DEF q
<1>5. ASSUME c \in Claims(q)
      PROVE  \/ \E r \in Claims(d) : c = Below(r, x)
             \/ q \in Nodes /\ \E i \in tree[q] : c = [ident |-> i, relpath |-> Root]
  <2>1. PICK n \in Nodes, i \in Idents :
           IsPrefix(n, q) /\ i \in tree[n] /\ c = [ident |-> i, relpath |-> Rest(q, n)]
    BY <1>5, ClaimsMean
  <2>2. CASE n = q
    BY <1>4, <2>1, <2>2
  <2>3. CASE IsPrefix(n, d)
    <3> DEFINE r == [ident |-> i, relpath |-> Rest(d, n)]
    <3>1. r \in Claims(d)
      BY <2>1, <2>3, ClaimsMean
    <3>2. c = Below(r, x)
      BY <1>3, <2>1, <2>3
    <3> HIDE DEF r
    <3> QED
      BY <3>1, <3>2
  <2> QED
    BY <1>1, <1>2, <2>1, <2>2, <2>3
<1>6. ASSUME NEW r \in Claims(d), c = Below(r, x) PROVE c \in Claims(q)
  <2>1. PICK n \in Nodes, i \in Idents :
           IsPrefix(n, d) /\ i \in tree[n] /\ r = [ident |-> i, relpath |-> Rest(d, n)]
    BY <1>6, ClaimsMean
  <2>2. IsPrefix(n, q) /\ c = [ident |-> i, relpath |-> Rest(q, n)]
    BY <1>1, <1>2, <1>3, <1>6, <2>1
  <2> QED
    BY <2>1, <2>2, ClaimsMean
<1>7. ASSUME q \in Nodes, NEW i \in tree[q], c = [ident |-> i, relpath |-> Root] PROVE c \in Claims(q)
  <2>1. IsPrefix(q, q) /\ i \in Idents
    BY <1>1, <1>7, PrefixOrder
  <2> QED
    BY <1>4, <1>7, <2>1, ClaimsMean
<1> QED
  BY <1>5, <1>6, <1>7 DEF q

-----------------------------------------------------------------------------
(* ... they stay trees, ... *)

(* What create and mkdir make of a tree is a tree, ...                           *)
LEMMA WithEntryIsTree ==
    ASSUME NEW s, IsTree(s), NEW p \in Paths, NEW x \in FileNames, Plain(x), NEW kind \in {"file", "dir"}
    PROVE  IsTree(WithEntry(s, Append(p, x), kind))
<1> DEFINE b == Append(p, x)
           e == WithEntry(s, b, kind)
<1>1. b \in Paths /\ b # Root /\ Front(b) = p /\ Last(b) = x
  BY AppendIs
<1> HIDE DEF b
<1>2. CASE b \in DOMAIN s \/ KindIn(s, p) # "dir"
  BY <1>1, <1>2 DEF WithEntry, b
<1>3. CASE b \notin DOMAIN s /\ KindIn(s, p) = "dir"
  <2>1. p \in DOMAIN s /\ s[p] = "dir"
    BY <1>3, IdentsAssumption DEF KindIn
  <2>2. e = [r \in DOMAIN s \cup {b} |-> IF r = b THEN kind ELSE s[r]]
    BY <1>1, <1>3 DEF WithEntry
  <2> HIDE DEF e
  <2>3. DOMAIN e = DOMAIN s \cup {b} /\ e[b] = kind /\ \A r \in DOMAIN s : e[r] = s[r]
    BY <1>3, <2>2
  <2>4. IsTree(e)
    BY <1>1, <2>1, <2>3 DEF IsTree, IsDir
  <2> QED
    BY <2>4 DEF e, b
<1> QED
  BY <1>2, <1>3

(* ... what unlink and rmdir make of it, ...                                     *)
LEMMA WithoutEntryIsTree ==
    ASSUME NEW s, IsTree(s), NEW r, NEW d
    PROVE  IsTree(WithoutEntry(s, r, d))
<1> DEFINE e == WithoutEntry(s, r, d)
<1>1. \/ e = s
      \/ /\ r # Root /\ ~(\E p \in DOMAIN s : p # Root /\ Front(p) = r)
         /\ e = [p \in DOMAIN s \ {r} |-> s[p]]
  BY DEF WithoutEntry
<1> HIDE DEF e
<1>2. IsTree(e)
  BY <1>1 DEF IsTree
<1> QED
  BY <1>2 DEF e

(* ... and what rename makes of it,                                             *)
LEMMA MovedEntryIsTree ==
    ASSUME NEW s, IsTree(s), NEW r, NEW p \in Paths, NEW x \in FileNames, Plain(x)
    PROVE  IsTree(MovedEntry(s, r, Append(p, x)))
<1> DEFINE b == Append(p, x)
           e == MovedEntry(s, r, b)
<1>1. b \in Paths /\ b # Root /\ Front(b) = p /\ Last(b) = x
  BY AppendIs
<1> HIDE DEF b
<1>2. \/ e = s
      \/ /\ KindIn(s, r) = "file" /\ KindIn(s, p) = "dir" /\ KindIn(s, b) \in {"file", None}
         /\ e = [q \in (DOMAIN s \ {r}) \cup {b} |-> IF q = b THEN "file" ELSE s[q]]
  BY <1>1 DEF MovedEntry
<1> HIDE DEF e
<1>3. ASSUME KindIn(s, r) = "file", KindIn(s, p) = "dir", KindIn(s, b) \in {"file", None},
             e = [q \in (DOMAIN s \ {r}) \cup {b} |-> IF q = b THEN "file" ELSE s[q]]
      PROVE  IsTree(e)
  <2>1. r \in DOMAIN s /\ s[r] = "file" /\ p \in DOMAIN s /\ s[p] = "dir"
    BY <1>3, IdentsAssumption DEF KindIn
  <2>2. b \in DOMAIN s => s[b] = "file"
    BY <1>3, IdentsAssumption DEF KindIn, IsTree
  <2>3. DOMAIN e = (DOMAIN s \ {r}) \cup {b} /\ e[b] = "file" /\ \A q \in DOMAIN e : q # b => e[q] = s[q]
    BY <1>3
  <2>4. \A q \in DOMAIN s : IsDir(s[q]) => q \in DOMAIN e /\ q # b /\ e[q] = s[q]
    BY <2>1, <2>2, <2>3 DEF IsDir
  <2>5. Root \in DOMAIN e /\ IsDir(e[Root]) /\ DOMAIN e \subseteq Paths
    BY <1>1, <2>3, <2>4 DEF IsTree
  <2>6. ASSUME NEW q \in DOMAIN e
        PROVE  /\ e[q] \in {"file", "dir", "rdir"}
               /\ q # Root => Front(q) \in DOMAIN e /\ IsDir(e[Front(q)]) /\ Plain(Last(q))
    <3>1. CASE q = b
      BY <1>1, <2>1, <2>3, <2>4, <3>1 DEF IsDir
    <3>2. CASE q # b
      BY <2>3, <2>4, <3>2 DEF IsTree
    <3> QED
      BY <3>1, <3>2
  <2> QED
    BY <2>5, <2>6 DEF IsTree
<1>4. IsTree(e)
  BY <1>2, <1>3
<1> QED
  BY <1>4 DEF e, b

(* so that every call leaves trees behind, wherever it goes.                     *)
LEMMA EffectIsTree ==
    ASSUME NamesArePlain, TreeInv, Trees, NEW t \in Threads, Called(t), CallOK(thread[t]),
           thread[t].pc = "call"
    PROVE  IsTree(Effect(thread[t]))
<1> DEFINE c == thread[t]
           i == IF c.src # None THEN c.src.ident ELSE c.res.ident
           s == store[i]
<1>1. c # NoCall
  BY DEF NoCall
<1>2. KeyOf(c) \in Paths
  BY KeysArePaths DEF CallOK
<1>3. c.res.ident \in Idents /\ c.res.relpath \in Paths /\ i \in Idents /\ c.call \in mode.calls[t]
  BY <1>1, <1>2, PossibleAnswers DEF Called
<1>4. IsTree(s)
  BY <1>3 DEF Trees
<1>5. mode \in Modes /\ c.call.path \in Paths /\ (c.call.op = "rename" => c.call.to \in Paths)
  BY DEF TreeInv, CallOK
<1>6. MakesEntry(c.call.op) => Last(c.call.path) \in FileNames /\ Plain(Last(c.call.path))
  BY <1>3, <1>5, LastOf DEF NamesArePlain
<1>7. c.call.op = "rename" => Last(c.call.to) \in FileNames /\ Plain(Last(c.call.to))
  BY <1>3, <1>5, LastOf DEF NamesArePlain
<1> DEFINE p == c.res.relpath
           x == Last(c.call.path)
           y == Last(c.call.to)
<1> HIDE DEF s
<1>8. \/ c.call.op \in {"create", "mkdir"} /\ \E k \in {"file", "dir"} : Effect(c) = WithEntry(s, Append(p, x), k)
      \/ Effect(c) = WithoutEntry(s, p, FALSE)
      \/ Effect(c) = WithoutEntry(s, p, TRUE)
      \/ c.call.op = "rename" /\ Effect(c) = MovedEntry(s, c.src.relpath, Append(p, y))
      \/ Effect(c) = s
  BY DEF Effect, s
<1>9. c.call.op \in {"create", "mkdir"} => MakesEntry(c.call.op)
  BY DEF MakesEntry
<1> DEFINE e == Effect(c)
<1> SUFFICES IsTree(e)
  OBVIOUS
<1> HIDE DEF p, x, y, e, c
<1>10. p \in Paths
  BY <1>3 DEF p
<1>11. MakesEntry(c.call.op) => x \in FileNames /\ Plain(x)
  BY <1>6 DEF x
<1>12. c.call.op = "rename" => y \in FileNames /\ Plain(y)
  BY <1>7 DEF y
<1>13. CASE c.call.op \in {"create", "mkdir"} /\ \E k \in {"file", "dir"} : e = WithEntry(s, Append(p, x), k)
  <2>1. PICK k \in {"file", "dir"} : e = WithEntry(s, Append(p, x), k)
    BY <1>13
  <2>2. IsTree(WithEntry(s, Append(p, x), k))
    BY <1>4, <1>9, <1>10, <1>11, <1>13, WithEntryIsTree
  <2> QED
    BY <2>1, <2>2
<1>14. CASE c.call.op = "rename" /\ e = MovedEntry(s, c.src.relpath, Append(p, y))
  <2> DEFINE r == c.src.relpath
  <2> HIDE DEF r
  <2>1. IsTree(MovedEntry(s, r, Append(p, y)))
    BY <1>4, <1>10, <1>12, <1>14, MovedEntryIsTree
  <2> QED
    BY <1>14, <2>1 DEF r
<1>15. IsTree(WithoutEntry(s, p, FALSE)) /\ IsTree(WithoutEntry(s, p, TRUE))
  BY <1>4, WithoutEntryIsTree
<1> QED
  BY <1>4, <1>8, <1>13, <1>14, <1>15 DEF e

(* A call that waits, is overtaken or ends keeps to its answers.                 *)
LEMMA CalledKept ==
    ASSUME NEW t \in Threads, Called(t), CallFine(thread[t]), mode' = mode,
           thread'[t] \in {thread[t], Overtaken(t), NoCall}
    PROVE  Called(t)'
<1> DEFINE c == thread[t]
<1>1. CASE thread'[t] = NoCall
  BY <1>1 DEF Called
<1>2. CASE thread'[t] = c
  <2>1. KeyOf(thread[t])' = KeyOf(c)
    BY <1>2 DEF KeyOf
  <2> QED
    BY <1>2, <2>1 DEF Called
<1>3. CASE thread'[t] = [c EXCEPT !.raced = TRUE] /\ c # NoCall
  <2>1. CallOK(c)
    BY <1>3 DEF CallFine
  <2>2. /\ thread'[t].call = c.call /\ thread'[t].at = c.at /\ thread'[t].ids = c.ids
        /\ thread'[t].acc = c.acc /\ thread'[t].pc = c.pc /\ thread'[t].res = c.res
        /\ thread'[t].src = c.src /\ thread'[t].path = c.path
    BY <1>3, <2>1 DEF CallOK
  <2>3. KeyOf(thread[t])' = KeyOf(c)
    BY <2>2 DEF KeyOf
  <2> QED
    BY <1>3, <2>2, <2>3 DEF Called
<1>4. thread'[t] = Overtaken(t) => thread'[t] = c \/ (thread'[t] = [c EXCEPT !.raced = TRUE] /\ c # NoCall)
  BY DEF Overtaken, NoCall
<1> QED
  BY <1>1, <1>2, <1>3, <1>4

(* Init: the contents of the mode, and no calls.                                *)
LEMMA NamesStart ==
    ASSUME NamesArePlain, Init
    PROVE  NamesInv
<1>1. Trees
  BY DEF Init, NamesArePlain, Trees
<1>2. \A t \in Threads : Called(t)
  BY DEF Init, Called
<1>3. DOMAIN cache = {}
  BY DEF Init, NoAnswers
<1> QED
  BY <1>1, <1>2, <1>3 DEF NamesInv

(* The step of one call, while the others wait.                                 *)
LEMMA OneCalls ==
    ASSUME ConflictInv, \A u \in Threads : Called(u), mode' = mode, NEW t \in Threads, NEW x,
           thread' = [thread EXCEPT ![t] = x],
           x = NoCall \/
              /\ x.call \in mode.calls[t]
              /\ IsPrefix(x.at, KeyOf(x)) /\ x.ids \subseteq Idents
              /\ x.acc \subseteq Possible(KeyOf(x))
              /\ x.pc = "call" => x.res \in Possible(KeyOf(x))
              /\ x.src # None => x.src.ident \in Idents
    PROVE  \A u \in Threads : Called(u)'
<1>1. DOMAIN thread = Threads /\ \A u \in Threads : CallFine(thread[u])
  BY DEF ConflictInv, Lookups
<1>2. thread'[t] = x
  BY <1>1
<1>3. KeyOf(thread[t])' = KeyOf(x)
  BY <1>2 DEF KeyOf
<1>4. Called(t)'
  BY <1>2, <1>3 DEF Called
<1>5. ASSUME NEW u \in Threads, u # t PROVE Called(u)'
  <2>1. thread'[u] = thread[u]
    BY <1>1, <1>5
  <2> QED
    BY <1>1, <2>1, CalledKept
<1> QED
  BY <1>4, <1>5

(* A mount, an unmount or a failing storage overtakes them all.                  *)
LEMMA AllOvertakenCalled ==
    ASSUME ConflictInv, \A u \in Threads : Called(u), mode' = mode, thread' = AllOvertaken
    PROVE  \A u \in Threads : Called(u)'
<1> SUFFICES ASSUME NEW u \in Threads PROVE Called(u)'
  OBVIOUS
<1>1. thread'[u] = Overtaken(u) /\ CallFine(thread[u])
  BY DEF AllOvertaken, ConflictInv, Lookups
<1> QED
  BY <1>1, CalledKept

(* A lookup that begins.                                                        *)
LEMMA LookupCalled ==
    ASSUME NEW call, NEW path \in Paths
    PROVE  LET c == Lookup(call, path) IN
           /\ c.call = call /\ c.at = Root /\ c.ids = {} /\ c.acc = {} /\ c.pc = "resolve" /\ c.src = None
           /\ IsPrefix(c.at, KeyOf(c))
<1> DEFINE c == Lookup(call, path)
<1>1. c.call = call /\ c.at = Root /\ c.ids = {} /\ c.acc = {} /\ c.pc = "resolve" /\ c.src = None /\ c.path = path
  BY DEF Lookup
<1>2. KeyOf(c) \in Paths
  BY <1>1, KeysArePaths
<1>3. IsPrefix(Root, KeyOf(c))
  BY <1>2, PrefixOrder
<1> QED
  BY <1>1, <1>3

(* Every step: the storages stay trees, and the calls keep to their answers.     *)
LEMMA NamesStep ==
    ASSUME NamesArePlain, ConflictInv, NamesInv, [Next]_vars
    PROVE  NamesInv'
<1> DEFINE Cached == \A key \in DOMAIN cache : cache[key].ans \subseteq Possible(key)
<1>1. /\ TreeInv /\ TreeShape /\ DOMAIN thread = Threads /\ DOMAIN store = Idents
      /\ \A t \in Threads : CallFine(thread[t])
      /\ \A t \in Threads : Called(t)
      /\ Trees /\ Cached
  BY DEF ConflictInv, TreeInv, Lookups, NamesInv
<1>2. store' = store => Trees'
  BY <1>1 DEF Trees
<1>3. cache' = cache => Cached'
  BY <1>1
<1>4. ASSUME Trees', \A t \in Threads : Called(t)', Cached' PROVE NamesInv'
  BY <1>4 DEF NamesInv
<1> HIDE DEF Cached
<1>5. CASE UNCHANGED vars
  <2>1. UNCHANGED <<mode, store, thread, cache>>
    BY <1>5 DEF vars
  <2> QED
    BY <1>1, <1>2, <1>3, <1>4, <2>1, CalledKept
<1>6. CASE Mounter
  <2>1. mode' = mode /\ store' = store
    BY <1>6 DEF Mounter, MountBegin, UnmountBegin, MountNode, UnmountNode, Prune, CacheClear, files
  <2>2. \/ thread' = AllOvertaken /\ cache' = cache
        \/ thread' = thread /\ cache' = NoAnswers
    BY <1>6 DEF Mounter, MountBegin, UnmountBegin, MountNode, UnmountNode, Prune, CacheClear
  <2>3. DOMAIN NoAnswers = {}
    BY DEF NoAnswers
  <2>4. Cached'
    BY <1>3, <2>2, <2>3 DEF Cached
  <2>5. \A t \in Threads : Called(t)'
    BY <1>1, <2>1, <2>2, AllOvertakenCalled, CalledKept
  <2> QED
    BY <1>2, <1>4, <2>1, <2>4, <2>5
<1>7. ASSUME NEW i \in Idents, Break(i) PROVE NamesInv'
  <2>1. mode' = mode /\ store' = store /\ cache' = cache /\ thread' = AllOvertaken
    BY <1>7 DEF Break, files
  <2> QED
    BY <1>1, <1>2, <1>3, <1>4, <2>1, AllOvertakenCalled
<1>8. ASSUME NEW t \in Threads, FileOp(t) PROVE NamesInv'
  <2> DEFINE c == thread[t]
             key == KeyOf(c)
  <2>1. mode' = mode
    BY <1>8 DEF FileOp, Start, Hit, Visit, Descend, Answered, Stat, Call
  <2>2. CASE Start(t)
    <3>1. PICK call \in mode.calls[t] :
             thread' = [thread EXCEPT ![t] = Lookup(call, Looked(call.path, MakesEntry(call.op)))]
      BY <2>2 DEF Start
    <3>2. call.path \in Paths
      BY <1>1, ModesAssumption DEF TreeInv
    <3>3. Looked(call.path, MakesEntry(call.op)) \in Paths
      BY <3>2, KeysArePaths DEF Looked
    <3> DEFINE x == Lookup(call, Looked(call.path, MakesEntry(call.op)))
    <3>4. /\ x.call = call /\ x.ids = {} /\ x.acc = {} /\ x.pc = "resolve" /\ x.src = None
          /\ IsPrefix(x.at, KeyOf(x))
      BY <3>3, LookupCalled
    <3> HIDE DEF x
    <3>5. \A u \in Threads : Called(u)'
      BY <1>1, <2>1, <3>1, <3>4, OneCalls DEF x
    <3>6. store' = store /\ cache' = cache
      BY <2>2 DEF Start, files
    <3> QED
      BY <1>2, <1>3, <1>4, <3>5, <3>6
  <2>3. CASE Answered(t)
    <3>1. thread' = [thread EXCEPT ![t] = NoCall] /\ store' = store /\ cache' = cache
      BY <2>3 DEF Answered, files
    <3>2. \A u \in Threads : Called(u)'
      BY <1>1, <2>1, <3>1, OneCalls
    <3> QED
      BY <1>2, <1>3, <1>4, <3>1, <3>2
  <2>4. ASSUME c.pc # "idle"
        PROVE  /\ c # NoCall /\ CallOK(c) /\ key \in Paths /\ c.at \in Paths
               /\ c.call \in mode.calls[t]
               /\ IsPrefix(c.at, key) /\ c.ids \subseteq Idents
               /\ c.acc \subseteq Possible(key)
               /\ c.pc = "call" => c.res \in Possible(key)
               /\ c.src # None => c.src.ident \in Idents
    <3>1. c # NoCall /\ CallOK(c)
      BY <1>1, <2>4 DEF NoCall, CallFine
    <3>2. key \in Paths
      BY <3>1, KeysArePaths DEF CallOK
    <3> QED
      BY <1>1, <3>1, <3>2 DEF Called, CallOK
  <2>5. CASE Hit(t)
    <3>1. /\ c.pc = "resolve" /\ key \in DOMAIN cache
          /\ store' = store /\ cache' = cache
      BY <2>5 DEF Hit, files
    <3> DEFINE raced == c.raced \/ cache[key].raced \/ mount.pc \in {"prune", "clear"}
               x == [c EXCEPT !.pc = "stat", !.acc = cache[key].ans, !.raced = raced]
    <3>2. thread' = [thread EXCEPT ![t] = x]
      BY <2>5 DEF Hit
    <3>3. /\ x.call = c.call /\ x.at = c.at /\ x.ids = c.ids /\ x.acc = cache[key].ans /\ x.pc = "stat"
          /\ x.src = c.src /\ x.path = c.path
      BY <2>4, <3>1 DEF CallOK
    <3> HIDE DEF x
    <3>4. KeyOf(x) = key
      BY <3>3 DEF KeyOf
    <3>5. x.acc \subseteq Possible(key)
      BY <1>1, <3>1, <3>3 DEF Cached
    <3>6. \A u \in Threads : Called(u)'
      BY <1>1, <2>1, <2>4, <3>1, <3>2, <3>3, <3>4, <3>5, OneCalls
    <3> QED
      BY <1>2, <1>3, <1>4, <3>1, <3>6
  <2>6. CASE Visit(t)
    <3>1. c.pc \in {"visit", "resolve"} /\ store' = store /\ cache' = cache
      BY <2>6 DEF Visit, files
    <3> DEFINE ids == IF c.at \in Nodes THEN tree[c.at] ELSE {}
               x == [c EXCEPT !.pc = "leave", !.ids = ids]
    <3>2. thread' = [thread EXCEPT ![t] = x]
      BY <2>6 DEF Visit
    <3>3. ids \subseteq Idents
      BY <1>1 DEF TreeShape
    <3> HIDE DEF ids
    <3>4. /\ x.call = c.call /\ x.at = c.at /\ x.ids = ids /\ x.acc = c.acc /\ x.pc = "leave"
          /\ x.src = c.src /\ x.path = c.path
      BY <2>4, <3>1 DEF CallOK
    <3> HIDE DEF x
    <3>5. KeyOf(x) = key
      BY <3>4 DEF KeyOf
    <3>6. \A u \in Threads : Called(u)'
      BY <1>1, <2>1, <2>4, <3>1, <3>2, <3>3, <3>4, <3>5, OneCalls
    <3> QED
      BY <1>2, <1>3, <1>4, <3>1, <3>6
  <2>7. CASE Descend(t)
    <3> DEFINE acc == c.acc \cup {[ident |-> i, relpath |-> Rest(key, c.at)] : i \in c.ids}
               child == SubSeq(key, 1, Len(c.at) + 1)
               down_ == [c EXCEPT !.pc = "visit", !.at = child, !.acc = acc]
               done == [c EXCEPT !.pc = "stat", !.acc = acc]
    <3>1. c.pc = "leave" /\ store' = store
      BY <2>7 DEF Descend, files
    <3>2. /\ \/ thread' = [thread EXCEPT ![t] = NoCall] /\ cache' = cache
             \/ thread' = [thread EXCEPT ![t] = down_] /\ c.at # key /\ cache' = cache
             \/ /\ thread' = [thread EXCEPT ![t] = done]
                /\ cache' = [k \in DOMAIN cache \cup {key} |->
                               IF k = key THEN [ans |-> acc, raced |-> c.raced] ELSE cache[k]]
      <4> DEFINE now == IF c.at \in Nodes THEN tree[c.at] ELSE {}
                 broken == c.ids # {} /\ Cardinality(now) # Cardinality(c.ids)
                 deeper == c.at # key /\ child \in Nodes
                 fresh == [k \in DOMAIN cache \cup {key} |->
                               IF k = key THEN [ans |-> acc, raced |-> c.raced] ELSE cache[k]]
      <4>1. /\ thread' = [thread EXCEPT ![t] = IF broken THEN NoCall ELSE IF deeper THEN down_ ELSE done]
            /\ cache' = IF broken \/ deeper THEN cache ELSE fresh
        BY <2>7 DEF Descend
      <4>2. deeper => c.at # key
        OBVIOUS
      <4> HIDE DEF broken, deeper, fresh, down_, done, acc, child
      <4>3. \/ thread' = [thread EXCEPT ![t] = NoCall] /\ cache' = cache
            \/ thread' = [thread EXCEPT ![t] = down_] /\ c.at # key /\ cache' = cache
            \/ thread' = [thread EXCEPT ![t] = done] /\ cache' = fresh
        BY <4>1, <4>2
      <4> QED
        BY <4>3 DEF fresh
    <3>3. acc \subseteq Possible(key)
      <4>1. \A i \in c.ids : [ident |-> i, relpath |-> Rest(key, c.at)] \in Possible(key)
        BY <2>4, <3>1, PossibleAnswers
      <4> QED
        BY <2>4, <3>1, <4>1
    <3>4. c.at # key => IsPrefix(child, key)
      BY <2>4, <3>1, NextPart
    <3> HIDE DEF acc, child
    <3>5. /\ down_.call = c.call /\ down_.at = child /\ down_.ids = c.ids /\ down_.acc = acc
          /\ down_.pc = "visit" /\ down_.src = c.src /\ down_.path = c.path
          /\ done.call = c.call /\ done.at = c.at /\ done.ids = c.ids /\ done.acc = acc
          /\ done.pc = "stat" /\ done.src = c.src /\ done.path = c.path
      BY <2>4, <3>1 DEF CallOK
    <3> HIDE DEF down_, done
    <3>6. KeyOf(down_) = key /\ KeyOf(done) = key
      BY <3>5 DEF KeyOf
    <3>7. \A u \in Threads : Called(u)'
      BY <1>1, <2>1, <2>4, <3>1, <3>2, <3>3, <3>4, <3>5, <3>6, OneCalls
    <3>8. Cached'
      BY <1>1, <3>2, <3>3 DEF Cached
    <3> QED
      BY <1>2, <1>4, <3>1, <3>7, <3>8
  <2>8. CASE Stat(t)
    <3> DEFINE found == Getattr(c.path, c.acc)
               look == Lookup(c.call, Front(c.call.to))
               e == [look EXCEPT !.src = found.res, !.raced = c.raced]
               d == [c EXCEPT !.pc = "call", !.res = found.res]
               second == c.call.op = "rename" /\ c.src = None
    <3>1. c.pc = "stat" /\ store' = store /\ cache' = cache
      BY <2>8 DEF Stat, GiveUp, files
    <3>2. \/ thread' = [thread EXCEPT ![t] = NoCall]
          \/ found.res # None /\ second /\ thread' = [thread EXCEPT ![t] = e]
          \/ found.res # None /\ thread' = [thread EXCEPT ![t] = d]
      <4>1. \/ GiveUp(t)
            \/ found.res # None /\ thread' = [thread EXCEPT ![t] = IF second THEN e ELSE d]
        BY <2>8 DEF Stat
      <4>2. GiveUp(t) => thread' = [thread EXCEPT ![t] = NoCall]
        BY DEF GiveUp
      <4> HIDE DEF found, e, d, second
      <4> QED
        BY <4>1, <4>2
    <3>3. found.res # None => found.res \in c.acc /\ found.res \in Possible(key) /\ found.res.ident \in Idents
      <4> SUFFICES ASSUME found.res # None
                   PROVE  found.res \in c.acc /\ found.res \in Possible(key) /\ found.res.ident \in Idents
        OBVIOUS
      <4> DEFINE k == Len(key)
                 ans == c.acc
                 path == c.path
                 r == found.res
      <4>1. c.acc \in SUBSET Possible(key) /\ IsFiniteSet(Possible(key)) /\ k \in Nat
        BY <2>4, <3>1, PossibleAnswers, PrefixOrder
      <4>2. IsFiniteSet(ans) /\ \A q \in ans : q.ident \in Idents /\ Len(q.relpath) \in Nat /\ Len(q.relpath) <= k
        BY <2>4, <3>1, <4>1, PossibleAnswers, FS_Subset
      <4>3. r = Getattr(path, ans).res /\ r # None
        OBVIOUS
      <4> HIDE DEF k, ans, path, r, found
      <4>4. r \in ans
        BY <4>1, <4>2, <4>3, GetattrChooses
      <4> QED
        BY <4>1, <4>2, <4>4 DEF ans, r
    <3>4. CASE thread' = [thread EXCEPT ![t] = NoCall]
      <4>1. \A u \in Threads : Called(u)'
        BY <1>1, <2>1, <3>4, OneCalls
      <4> QED
        BY <1>2, <1>3, <1>4, <3>1, <4>1
    <3>5. CASE found.res # None /\ second /\ thread' = [thread EXCEPT ![t] = e]
      <4>1. Front(c.call.to) \in Paths
        BY <2>4, <3>1, <3>5, KeysArePaths DEF CallOK
      <4>2. /\ look.call = c.call /\ look.ids = {} /\ look.acc = {} /\ look.pc = "resolve"
            /\ IsPrefix(look.at, KeyOf(look))
        BY <4>1, LookupCalled
      <4>3. /\ e.call = look.call /\ e.at = look.at /\ e.ids = look.ids /\ e.acc = look.acc
            /\ e.pc = look.pc /\ e.path = look.path /\ e.src = found.res
        BY DEF Lookup
      <4> HIDE DEF look, e, found
      <4>4. KeyOf(e) = KeyOf(look)
        BY <4>3 DEF KeyOf
      <4>5. \A u \in Threads : Called(u)'
        BY <1>1, <2>1, <2>4, <3>1, <3>3, <3>5, <4>2, <4>3, <4>4, OneCalls
      <4> QED
        BY <1>2, <1>3, <1>4, <3>1, <4>5
    <3>6. CASE found.res # None /\ thread' = [thread EXCEPT ![t] = d]
      <4>1. /\ d.call = c.call /\ d.at = c.at /\ d.ids = c.ids /\ d.acc = c.acc
            /\ d.pc = "call" /\ d.path = c.path /\ d.src = c.src /\ d.res = found.res
        BY <2>4, <3>1 DEF CallOK
      <4> HIDE DEF d, found
      <4>2. KeyOf(d) = key
        BY <4>1 DEF KeyOf
      <4>3. \A u \in Threads : Called(u)'
        BY <1>1, <2>1, <2>4, <3>1, <3>3, <3>6, <4>1, <4>2, OneCalls
      <4> QED
        BY <1>2, <1>3, <1>4, <3>1, <4>3
    <3> QED
      BY <3>2, <3>4, <3>5, <3>6
  <2>9. CASE Call(t)
    <3>1. c.pc = "call" /\ cache' = cache /\ (GiveUp(t) \/ Reached(t))
      BY <2>9 DEF Call
    <3>2. CASE GiveUp(t)
      <4>1. thread' = [thread EXCEPT ![t] = NoCall] /\ store' = store
        BY <3>2 DEF GiveUp
      <4>2. \A u \in Threads : Called(u)'
        BY <1>1, <2>1, <4>1, OneCalls
      <4> QED
        BY <1>2, <1>3, <1>4, <3>1, <4>1, <4>2
    <3>3. CASE Reached(t)
      <4>1. \A u \in Threads : thread'[u] \in {thread[u], Overtaken(u), NoCall}
        BY <3>3 DEF Reached
      <4>2. \A u \in Threads : Called(u)'
        BY <1>1, <2>1, <4>1, CalledKept
      <4>3. IsTree(Effect(c))
        BY <1>1, <2>4, <3>1, EffectIsTree
      <4>4. store' = [store EXCEPT ![c.res.ident] = Effect(c)]
        BY <3>3 DEF Reached
      <4> DEFINE e == Effect(c)
                 j == c.res.ident
      <4> HIDE DEF e, j
      <4>5. Trees'
        BY <1>1, <4>3, <4>4 DEF Trees, e, j
      <4> QED
        BY <1>3, <1>4, <3>1, <4>2, <4>5
    <3> QED
      BY <3>1, <3>2, <3>3
  <2> QED
    BY <1>8, <2>2, <2>3, <2>5, <2>6, <2>7, <2>8, <2>9 DEF FileOp
<1> QED
  BY <1>5, <1>6, <1>7, <1>8 DEF Next

-----------------------------------------------------------------------------
(* ... and readdir and getattr_extended agree about them. *)

(* The storages whose directory has a name.                                     *)
Seen(d, x) == {r \in Claims(d) : x \in StorageReaddir(r)}

(* The name in the storage that claims the directory.                            *)
LEMMA BelowIs ==
    ASSUME TreeShape, NEW d \in Paths, NEW r \in Claims(d), NEW x
    PROVE  /\ r.ident \in Idents /\ r.relpath \in Paths /\ r = [ident |-> r.ident, relpath |-> r.relpath]
           /\ Below(r, x).ident = r.ident /\ Below(r, x).relpath = Append(r.relpath, x)
<1>1. PICK n \in Nodes, i \in Idents : r = [ident |-> i, relpath |-> Rest(d, n)]
  BY ClaimsMean
<1>2. r.ident \in Idents /\ r = [ident |-> r.ident, relpath |-> r.relpath] /\ DOMAIN r = {"ident", "relpath"}
  BY <1>1
<1>3. r.relpath \in Paths
  BY ClaimsAreFinite
<1>4. Below(r, x).ident = r.ident /\ Below(r, x).relpath = Append(r.relpath, x)
  <2> DEFINE y == Append(r.relpath, x)
  <2>1. Below(r, x) = [r EXCEPT !.relpath = y]
    BY DEF Below
  <2> HIDE DEF y
  <2>2. [r EXCEPT !.relpath = y].ident = r.ident /\ [r EXCEPT !.relpath = y].relpath = y
    BY <1>2
  <2> QED
    BY <2>1, <2>2 DEF y
<1> QED
  BY <1>2, <1>3, <1>4

(* A storage lists the names that it has attributes for (storage_readdir and      *)
(* storage_getattr).                                                            *)
LEMMA StorageSees ==
    ASSUME TreeShape, Trees, down = {}, NEW d \in Paths, NEW r \in Claims(d)
    PROVE  /\ StorageGetattr(r) \in {None, "file", "dir", "rdir"}
           /\ \A x \in StorageReaddir(r) : x \in FileNames /\ Plain(x) /\ r \in DirsOf(Claims(d))
           /\ \A x \in FileNames : x \in StorageReaddir(r) <=> StorageGetattr(Below(r, x)) # None
<1> DEFINE i == r.ident
           p == r.relpath
           s == store[i]
<1>1. i \in Idents /\ p \in Paths /\ IsTree(s)
  BY BelowIs DEF Trees
<1>2. StorageGetattr(r) \in {None, "file", "dir", "rdir"}
  BY <1>1 DEF StorageGetattr, IsTree
<1>3. ASSUME NEW x \in StorageReaddir(r)
      PROVE  x \in FileNames /\ Plain(x) /\ r \in DirsOf(Claims(d))
  <2>1. IsDir(StorageGetattr(r))
    BY <1>3 DEF StorageReaddir
  <2>2. PICK q \in DOMAIN s : q # Root /\ Front(q) = p /\ x = Last(q)
    BY <1>3, <2>1 DEF StorageReaddir
  <2>3. q \in Paths /\ Plain(Last(q))
    BY <1>1, <2>2 DEF IsTree
  <2> QED
    BY <2>1, <2>2, <2>3, LastOf DEF DirsOf
<1>4. ASSUME NEW x \in FileNames
      PROVE  x \in StorageReaddir(r) <=> StorageGetattr(Below(r, x)) # None
  <2> DEFINE b == Append(p, x)
  <2>1. b \in Paths /\ b # Root /\ Front(b) = p /\ Last(b) = x
    BY <1>1, AppendIs
  <2>2. StorageGetattr(Below(r, x)) =
          IF b \notin DOMAIN s THEN None
          ELSE IF s[b] = "dir" /\ i \in mode.ro THEN "rdir" ELSE s[b]
    BY BelowIs DEF StorageGetattr
  <2>3. StorageGetattr(Below(r, x)) # None <=> b \in DOMAIN s
    BY <1>1, <2>2, IdentsAssumption DEF IsTree
  <2>4. b \in DOMAIN s => IsDir(StorageGetattr(r))
    BY <1>1, <2>1 DEF IsTree, StorageGetattr, IsDir
  <2>5. IsDir(StorageGetattr(r)) =>
          (x \in StorageReaddir(r) <=> \E q \in DOMAIN s : q # Root /\ Front(q) = p /\ Last(q) = x)
    BY DEF StorageReaddir
  <2>6. (\E q \in DOMAIN s : q # Root /\ Front(q) = p /\ Last(q) = x) <=> b \in DOMAIN s
    <3>1. ASSUME NEW q \in DOMAIN s, q # Root, Front(q) = p, Last(q) = x PROVE b \in DOMAIN s
      <4>1. q \in Paths
        BY <1>1 DEF IsTree
      <4> QED
        BY <3>1, <4>1, LastOf
    <3> HIDE DEF b
    <3> QED
      BY <2>1, <3>1
  <2>7. ~IsDir(StorageGetattr(r)) => x \notin StorageReaddir(r)
    BY DEF StorageReaddir
  <2> QED
    BY <2>3, <2>4, <2>5, <2>6, <2>7
<1> QED
  BY <1>2, <1>3, <1>4

(* What getattr_extended gathers for a name of a directory: a directory where a   *)
(* storage is mounted, and what those have there that list it.                  *)
LEMMA AtTheName ==
    ASSUME TreeShape, Trees, down = {}, NEW d \in Paths, NEW x \in FileNames
    PROVE  /\ \A c \in Claims(Append(d, x)) : StorageGetattr(c) \in {None, "file", "dir", "rdir"}
           /\ Append(d, x) \in Nodes /\ tree[Append(d, x)] # {} => DirsOf(Claims(Append(d, x))) # {}
           /\ \A r \in Seen(d, x) :
                 IF IsDir(StorageGetattr(Below(r, x))) THEN Below(r, x) \in DirsOf(Claims(Append(d, x)))
                 ELSE Below(r, x) \in FilesOf(Claims(Append(d, x)))
           /\ Append(d, x) \notin Nodes =>
                 \A c \in DirsOf(Claims(Append(d, x))) \cup FilesOf(Claims(Append(d, x))) : \E r \in Seen(d, x) : c = Below(r, x)
<1> DEFINE q == Append(d, x)
<1>1. \A c : c \in Claims(q) <=>
         \/ \E r \in Claims(d) : c = Below(r, x)
         \/ q \in Nodes /\ \E i \in tree[q] : c = [ident |-> i, relpath |-> Root]
  BY ClaimsBelow
<1>2. q \in Paths
  BY AppendIs
<1> HIDE DEF q
<1>3. \A c \in Claims(q) : StorageGetattr(c) \in {None, "file", "dir", "rdir"}
  BY <1>2, StorageSees
<1>4. ASSUME q \in Nodes, tree[q] # {} PROVE DirsOf(Claims(q)) # {}
  <2>1. PICK i \in tree[q] : i \in Idents
    BY <1>4 DEF TreeShape
  <2> DEFINE c == [ident |-> i, relpath |-> Root]
  <2>2. c \in Claims(q)
    BY <1>1, <1>4, <2>1
  <2>3. IsDir(StorageGetattr(c))
    BY <2>1 DEF StorageGetattr, Trees, IsTree, IsDir
  <2> QED
    BY <2>2, <2>3 DEF DirsOf
<1>5. ASSUME NEW r \in Seen(d, x)
      PROVE  IF IsDir(StorageGetattr(Below(r, x))) THEN Below(r, x) \in DirsOf(Claims(q))
             ELSE Below(r, x) \in FilesOf(Claims(q))
  <2>1. r \in Claims(d) /\ Below(r, x) \in Claims(q) /\ StorageGetattr(Below(r, x)) # None
    BY <1>1, StorageSees DEF Seen
  <2>2. StorageGetattr(Below(r, x)) \in {None, "file", "dir", "rdir"}
    BY <1>3, <2>1
  <2> QED
    BY <2>1, <2>2 DEF DirsOf, FilesOf, IsDir
<1>6. ASSUME q \notin Nodes, NEW c \in DirsOf(Claims(q)) \cup FilesOf(Claims(q))
      PROVE  \E r \in Seen(d, x) : c = Below(r, x)
  <2>1. c \in Claims(q) /\ StorageGetattr(c) # None
    BY <1>6, IdentsAssumption DEF DirsOf, FilesOf, IsDir
  <2>2. PICK r \in Claims(d) : c = Below(r, x)
    BY <1>1, <1>6, <2>1
  <2> QED
    BY <2>1, <2>2, StorageSees DEF Seen
<1> QED
  BY <1>3, <1>4, <1>5, <1>6 DEF q

(* A node that leads to a mount is a synthetic directory, or a storage is mounted *)
(* there.                                                                       *)
LEMMA MountedIsThere ==
    ASSUME TreeInv, mount.pc = "idle", NEW q \in Nodes, q # Root
    PROVE  IsSynthetic(q) \/ tree[q] # {}
<1> SUFFICES ASSUME tree[q] = {} PROVE Children(q) # {}
  BY DEF IsSynthetic
<1>1. TreeShape /\ q \in Paths /\ Led(q) /\ Way = Root
  BY DEF TreeInv, TreeShape, Way
<1>2. ~IsPrefix(q, Root)
  BY <1>1, PrefixOrder
<1> PICK i \in Idents : \E p \in PathsNow(i) : IsPrefix(q, p)
  BY <1>1, <1>2 DEF Led
<1>3. PICK p \in PathsNow(i) : IsPrefix(q, p)
  OBVIOUS
<1>4. p \in Nodes /\ p \in Paths /\ Prefixes(p) \subseteq Nodes /\ i \in tree[p]
  BY <1>1, <1>3 DEF TreeShape
<1>5. p # q
  BY <1>4
<1> DEFINE c == SubSeq(p, 1, Len(q) + 1)
<1>6. c \in Paths /\ Len(c) = Len(q) + 1 /\ IsPrefix(c, p)
  BY <1>1, <1>3, <1>4, <1>5, NextPart
<1> HIDE DEF c
<1>7. c # Root /\ Front(c) = q
  BY <1>1, <1>3, <1>4, <1>6, ChildOnTheWay
<1>8. c \in Nodes
  BY <1>4, <1>6, PrefixesAre
<1> QED
  BY <1>7, <1>8 DEF Children

(* getattr_extended of a name without a storage id ...                           *)
LEMMA PlainIsFound ==
    ASSUME NEW q, RealPath(q) = q, IdentIn(q) = None, NEW ans, IsFiniteSet(ans),
           \/ IsSynthetic(q)
           \/ DirsOf(ans) # {}
           \/ Cardinality(FilesOf(ans)) = 1
    PROVE  Getattr(q, ans).error = None
<1>1. MergedDirs(ans).error = None /\ ForcedReadOnly.error = None /\ \A r : FoundAt(r).error = None
  BY DEF MergedDirs, ForcedReadOnly, FoundAt
<1>2. CASE IsSynthetic(q)
  BY <1>1, <1>2 DEF Getattr
<1>3. CASE ~IsSynthetic(q)
  <2>1. DirsOf(ans) \cup FilesOf(ans) # {}
    BY <1>3, FS_EmptySet DEF FilesOf
  <2>2. ans # {}
    BY <2>1 DEF DirsOf, FilesOf
  <2>3. CASE Cardinality(ans) = 1
    <3> DEFINE res == CHOOSE r \in ans : TRUE
    <3>1. ans = {res}
      BY <2>3, TheOne
    <3> HIDE DEF res
    <3>2. StorageGetattr(res) # None
      BY <2>1, <3>1, IdentsAssumption DEF DirsOf, FilesOf, IsDir
    <3>3. Getattr(q, ans) = FoundAt(res)
      BY <1>3, <2>2, <2>3, <3>2 DEF Getattr, res
    <3> QED
      BY <1>1, <3>3
  <2>4. CASE Cardinality(ans) # 1
    <3>1. Getattr(q, ans) = Disambiguate(ans, None)
      BY <1>3, <2>2, <2>4 DEF Getattr
    <3>2. ~(DirsOf(ans) = {} /\ Cardinality(FilesOf(ans)) > 1)
      BY <1>3
    <3>3. Disambiguate(ans, None).error = None
      <4>1. \/ \E r : Disambiguate(ans, None) = FoundAt(r)
            \/ Disambiguate(ans, None) = MergedDirs(ans)
        BY <2>1, <3>2 DEF Disambiguate
      <4> QED
        BY <1>1, <4>1
    <3> QED
      BY <3>1, <3>3
  <2> QED
    BY <2>3, <2>4
<1> QED
  BY <1>2, <1>3

(* ... and of one with it.                                                      *)
LEMMA RenamedIsFound ==
    ASSUME NEW path, NEW q, RealPath(path) = q, NEW id \in Idents, IdentIn(path) = id, path # Root,
           NEW ans, IsFiniteSet(ans)
    PROVE  Getattr(path, ans).error = None <=>
             \/ IsSynthetic(q)
             \/ /\ DirsOf(ans) = {} /\ Cardinality(FilesOf(ans)) > 1
                /\ \E res \in FilesOf(ans) : res.ident = id
<1> DEFINE Many == DirsOf(ans) = {} /\ Cardinality(FilesOf(ans)) > 1
<1>1. MergedDirs(ans).error = None /\ ForcedReadOnly.error = None /\ \A r : FoundAt(r).error = None
  BY DEF MergedDirs, ForcedReadOnly, FoundAt
<1>2. Fails("ENOENT").error # None
  BY IdentsAssumption DEF Fails
<1>3. id # None
  BY IdentsAssumption
<1>4. CASE IsSynthetic(q)
  BY <1>1, <1>4 DEF Getattr
<1>5. CASE ~IsSynthetic(q)
  <2>1. Many => ans # {} /\ Cardinality(ans) # 1
    <3> SUFFICES ASSUME Many PROVE ans # {} /\ Cardinality(ans) # 1
      OBVIOUS
    <3>1. FilesOf(ans) \in SUBSET ans
      BY DEF FilesOf
    <3>2. Cardinality(FilesOf(ans)) <= Cardinality(ans) /\ Cardinality(FilesOf(ans)) \in Nat /\ Cardinality(ans) \in Nat
      BY <3>1, FS_Subset, FS_CardinalityType
    <3>3. Cardinality(ans) > 1
      BY <3>2
    <3> QED
      BY <3>3, FS_EmptySet
  <2>2. CASE ~Many
    <3>1. Getattr(path, ans) = Fails("ENOENT")
      <4>1. Disambiguate(ans, id) = Fails("ENOENT")
        BY <1>3, <2>2 DEF Disambiguate
      <4> QED
        BY <1>3, <1>5, <4>1 DEF Getattr
    <3> QED
      BY <1>2, <1>5, <2>2, <3>1
  <2>3. CASE Many
    <3>1. Getattr(path, ans) = FileOf(ans, id)
      BY <1>5, <2>1, <2>3 DEF Getattr, Disambiguate
    <3>2. FileOf(ans, id).error = None <=> \E res \in FilesOf(ans) : res.ident = id
      <4> DEFINE mine == {res \in FilesOf(ans) : res.ident = id}
      <4>1. mine = {} => FileOf(ans, id) = Fails("ENOENT")
        BY DEF FileOf
      <4>2. mine # {} => \E r : FileOf(ans, id) = FoundAt(r)
        BY DEF FileOf
      <4> QED
        BY <1>1, <1>2, <4>1, <4>2
    <3> QED
      BY <1>5, <2>3, <3>1, <3>2
  <2> QED
    BY <2>2, <2>3
<1> QED
  BY <1>4, <1>5

(* CONFLICT_RE takes nothing off a plain name, and the id off a renamed one.      *)
LEMMA NameParts ==
    ASSUME NEW d \in Paths, NEW x \in FileNames, Plain(x), NEW id
    PROVE  /\ RealPath(Append(d, x)) = Append(d, x) /\ IdentIn(Append(d, x)) = None /\ Len(x) = 1
           /\ Len(Append(x, id)) = 2 /\ Front(Append(x, id)) = x
           /\ Append(d, Append(x, id)) # Root
           /\ RealPath(Append(d, Append(x, id))) = Append(d, x)
           /\ IdentIn(Append(d, Append(x, id))) = id
<1> DEFINE h == Head(x)
           y == Append(x, id)
           path == Append(d, y)
<1>1. x = <<h>>
  BY DEF Plain
<1> HIDE DEF h
<1>2. Len(x) = 1 /\ x \in Seq({h, id})
  <2>1. <<h>> \in Seq({h, id}) /\ Len(<<h>>) = 1
    OBVIOUS
  <2> QED
    BY <1>1, <2>1
<1>3. Len(y) = 2 /\ Last(y) = id /\ Front(y) = x
  <2> DEFINE S == {h, id}
  <2>1. x \in Seq(S) /\ id \in S
    BY <1>2
  <2> HIDE DEF S
  <2>2. Len(y) = Len(x) + 1 /\ y[Len(x) + 1] = id
    BY <2>1, AppendProperties
  <2>3. Front(y) = x
    BY <2>1, FrontOfAppend
  <2> HIDE DEF y
  <2>4. Len(y) = 2
    BY <1>2, <2>2
  <2> QED
    BY <1>2, <2>2, <2>3, <2>4 DEF Last
<1>4. RealPath(Append(d, x)) = Append(d, x) /\ IdentIn(Append(d, x)) = None
  <2>1. Last(Append(d, x)) = x
    BY AppendIs
  <2> DEFINE p == Append(d, x)
  <2>2. ~HasIdent(p)
    <3> HIDE DEF p
    <3>1. ~(Len(x) > 1)
      BY <1>2
    <3> QED
      BY <2>1, <3>1 DEF HasIdent, p
  <2> QED
    BY <2>2 DEF RealPath, IdentIn
<1> HIDE DEF y
<1>5. path # Root /\ Last(path) = y /\ Front(path) = d
  <2> DEFINE S == FileNames \cup {y}
  <2>1. d \in Seq(S) /\ y \in S
    BY SeqMonotonic DEF Paths
  <2> HIDE DEF S
  <2>2. path \in Seq(S) /\ Len(path) = Len(d) + 1 /\ path[Len(d) + 1] = y
    BY <2>1, AppendProperties
  <2>3. Len(d) \in Nat
    BY PrefixOrder
  <2>4. Len(path) # 0
    BY <2>2, <2>3
  <2>5. path # Root
    BY <2>4, PrefixOrder
  <2> QED
    BY <2>2, <2>5, FrontOfAppend DEF Last, Paths
<1>6. HasIdent(path)
  BY <1>3, <1>5 DEF HasIdent
<1>7. RealPath(path) = Append(d, x) /\ IdentIn(path) = id
  BY <1>3, <1>5, <1>6 DEF RealPath, IdentIn
<1> QED
  BY <1>2, <1>3, <1>4, <1>5, <1>7 DEF y

(* The names that the mounts give to a directory.                                *)
LEMMA MountedNames ==
    ASSUME TreeShape, NEW d \in Paths
    PROVE  /\ d \notin Nodes => MountNames(d) = {}
           /\ \A x \in MountNames(d) : x \in FileNames /\ Append(d, x) \in Nodes
           /\ \A x \in FileNames : Append(d, x) \in Nodes => x \in MountNames(d)
<1>1. ASSUME NEW n \in Children(d)
      PROVE  n \in Nodes /\ n \in Paths /\ d \in Nodes /\ n = Append(d, Last(n)) /\ Last(n) \in FileNames
  <2>1. n \in Nodes /\ n # Root /\ Front(n) = d /\ n \in Paths /\ Prefixes(n) \subseteq Nodes
    BY <1>1 DEF Children, TreeShape
  <2>2. IsPrefix(d, n)
    BY <2>1, FrontIsAbove
  <2>3. d \in Nodes
    BY <2>1, <2>2, PrefixesAre
  <2> QED
    BY <2>1, <2>3, LastOf
<1>2. ASSUME NEW x \in FileNames, Append(d, x) \in Nodes PROVE x \in MountNames(d)
  <2> DEFINE n == Append(d, x)
  <2>1. n \in Nodes /\ n # Root /\ Front(n) = d /\ Last(n) = x
    BY <1>2, AppendIs
  <2> HIDE DEF n
  <2> QED
    BY <2>1 DEF MountNames, Children
<1>3. d \notin Nodes => MountNames(d) = {}
  BY <1>1 DEF MountNames
<1>4. ASSUME NEW x \in MountNames(d) PROVE x \in FileNames /\ Append(d, x) \in Nodes
  BY <1>1, <1>4 DEF MountNames
<1> QED
  BY <1>2, <1>3, <1>4

(* A listed name is one of a mount, the one storage's or a directory's, or the    *)
(* renamed one of a file whose name is not its own.                             *)
MayBeListed(d, n) ==
    \/ n \in MountNames(d)
    \/ \E r \in Seen(d, n) : Seen(d, n) = {r} \/ IsDir(StorageGetattr(Below(r, n)))
    \/ \E x \in FileNames : \E r \in Seen(d, x) :
          /\ n = Append(x, r.ident)
          /\ ~IsDir(StorageGetattr(Below(r, x)))
          /\ x \in MountNames(d) \/ Cardinality(Seen(d, x)) # 1
          /\ x \in Listed(d) <=>
                x \in MountNames(d) \/ \E s \in Seen(d, x) : IsDir(StorageGetattr(Below(s, x)))

(* readdir of several directories ...                                           *)
LEMMA MergedListing ==
    ASSUME TreeShape, Trees, down = {}, NEW d \in Paths,
           Listed(d) = MergedNames(DirsOf(Claims(d)), MountNames(d)), NEW n \in Listed(d)
    PROVE  MayBeListed(d, n)
<1> DEFINE dirs == DirsOf(Claims(d))
           mounted == MountNames(d)
           names == UNION {StorageReaddir(res) : res \in dirs}
           alone == {m \in names : Cardinality(Seen(d, m)) = 1 /\ m \notin mounted}
           shown(m, res) == IF IsDir(StorageGetattr(Below(res, m))) THEN m ELSE Renamed(m, res)
<1>1. \A m : {res \in dirs : m \in StorageReaddir(res)} = Seen(d, m)
  BY StorageSees DEF Seen, DirsOf
<1>2. \A m : m \in names <=> Seen(d, m) # {}
  BY <1>1
<1>3. \A m : m \in Listed(d) <=>
         \/ m \in mounted \/ m \in alone
         \/ \E k \in names \ alone : \E res \in Seen(d, k) : m = shown(k, res)
  <2> DEFINE seen(m) == {res \in dirs : m \in StorageReaddir(res)}
  <2>1. MergedNames(dirs, mounted) =
           mounted \cup {m \in names : Cardinality(seen(m)) = 1 /\ m \notin mounted}
             \cup UNION {{shown(k, res) : res \in seen(k)} :
                            k \in names \ {m \in names : Cardinality(seen(m)) = 1 /\ m \notin mounted}}
    BY DEF MergedNames
  <2>2. \A m : seen(m) = Seen(d, m)
    BY <1>1
  <2> HIDE DEF mounted, names, shown, seen, dirs
  <2>3. \A m : m \in MergedNames(dirs, mounted) <=>
           \/ m \in mounted
           \/ m \in names /\ Cardinality(seen(m)) = 1 /\ m \notin mounted
           \/ \E k \in names : /\ ~(Cardinality(seen(k)) = 1 /\ k \notin mounted)
                              /\ \E res \in seen(k) : m = shown(k, res)
    BY <2>1
  <2>4. Listed(d) = MergedNames(dirs, mounted)
    BY DEF dirs, mounted
  <2> QED
    BY <2>2, <2>3, <2>4
<1>4. \A m, r : r \in Seen(d, m) => r \in Claims(d) /\ m \in FileNames /\ Plain(m)
  BY StorageSees DEF Seen
<1> HIDE DEF names, mounted, dirs
<1>5. CASE n \in mounted
  BY <1>5 DEF mounted, MayBeListed
<1>6. CASE n \in alone
  <2>1. Cardinality(Seen(d, n)) = 1 /\ IsFiniteSet(Seen(d, n))
    <3>1. Seen(d, n) \in SUBSET Claims(d) /\ IsFiniteSet(Claims(d))
      BY ClaimsAreFinite DEF Seen
    <3> QED
      BY <1>6, <3>1, FS_Subset
  <2>2. PICK r : Seen(d, n) = {r}
    BY <2>1, FS_Singleton
  <2> QED
    BY <2>2 DEF MayBeListed
<1>7. ASSUME NEW k \in names \ alone, NEW res \in Seen(d, k), n = shown(k, res) PROVE MayBeListed(d, n)
  <2>1. CASE IsDir(StorageGetattr(Below(res, k)))
    BY <1>7, <2>1 DEF MayBeListed
  <2>2. CASE ~IsDir(StorageGetattr(Below(res, k)))
    <3>1. n = Append(k, res.ident)
      BY <1>7, <2>2 DEF Renamed
    <3>2. k \in mounted \/ Cardinality(Seen(d, k)) # 1
      BY <1>7
    <3>3. k \in FileNames /\ Len(k) = 1 /\ Plain(k)
      BY <1>4, <1>7, NameParts
    <3>4. ASSUME NEW m \in names, NEW s \in Seen(d, m), k = shown(m, s)
          PROVE  m = k /\ IsDir(StorageGetattr(Below(s, k)))
      <4>1. m \in FileNames /\ Plain(m)
        BY <1>4
      <4>2. Len(Append(m, s.ident)) = 2
        BY <4>1, NameParts, PrefixOrder
      <4> QED
        BY <3>3, <3>4, <4>2 DEF Renamed
    <3>5. ASSUME NEW s \in Seen(d, k), IsDir(StorageGetattr(Below(s, k))) PROVE k \in Listed(d)
      <4>1. k = shown(k, s)
        BY <3>5
      <4> QED
        BY <1>3, <1>7, <4>1
    <3>6. k \in Listed(d) <=> k \in mounted \/ \E s \in Seen(d, k) : IsDir(StorageGetattr(Below(s, k)))
      BY <1>3, <1>7, <3>4, <3>5
    <3> QED
      BY <1>7, <2>2, <3>1, <3>2, <3>3, <3>6 DEF mounted, MayBeListed
  <2> QED
    BY <2>1, <2>2
<1> QED
  BY <1>3, <1>5, <1>6, <1>7

(* ... and of any.                                                              *)
LEMMA ListingIs ==
    ASSUME TreeShape, Trees, down = {}, NEW d \in Paths, NEW n \in Listed(d)
    PROVE  MayBeListed(d, n)
<1> DEFINE ans == Claims(d)
           dirs == DirsOf(ans)
           mounted == MountNames(d)
           only == CHOOSE res \in ans : TRUE
           one == CHOOSE res \in dirs : TRUE
           l == Readdir(d, ans)
<1>1. IsFiniteSet(ans) /\ IsFiniteSet(dirs) /\ dirs \subseteq ans
  <2>1. dirs \in SUBSET ans
    BY DEF DirsOf
  <2> QED
    BY <2>1, ClaimsAreFinite, FS_Subset
<1>2. \A m : Seen(d, m) \subseteq dirs /\ Seen(d, m) = {res \in dirs : m \in StorageReaddir(res)}
  BY StorageSees DEF Seen, DirsOf
<1>3. (IF d \in Nodes THEN MountNames(d) ELSE {}) = mounted
  BY MountedNames
<1>4. \A e \in {"ENOENT", "ENOTDIR", "EIO"} : Fails(e).error # None
  BY IdentsAssumption DEF Fails
<1>5. l.error = None /\ n \in l.names
  BY DEF Listed
<1>6. \/ l = Names({})
      \/ l.error # None
      \/ Cardinality(ans) = 1 /\ l = Names(StorageReaddir(only)) /\ IsDir(StorageGetattr(only)) 
      \/ Cardinality(dirs) = 1 /\ l = Names(mounted \cup StorageReaddir(one))
      \/ l = Names(MergedNames(dirs, mounted))
  <2> HIDE DEF mounted
  <2> QED
    BY <1>3, <1>4 DEF Readdir
<1>7. \A s : Names(s).error = None /\ Names(s).names = s
  BY DEF Names
<1> HIDE DEF l, only, one, mounted, dirs, ans
<1>8. CASE Cardinality(ans) = 1 /\ l = Names(StorageReaddir(only)) /\ IsDir(StorageGetattr(only))
  <2>1. ans = {only}
    BY <1>1, <1>8, TheOne DEF only
  <2>2. n \in StorageReaddir(only)
    BY <1>5, <1>7, <1>8
  <2>3. Seen(d, n) = {only}
    BY <2>1, <2>2 DEF Seen, ans
  <2> QED
    BY <2>3 DEF MayBeListed
<1>9. CASE Cardinality(dirs) = 1 /\ l = Names(mounted \cup StorageReaddir(one))
  <2>1. dirs = {one}
    BY <1>1, <1>9, TheOne DEF one
  <2>2. n \in mounted \/ n \in StorageReaddir(one)
    BY <1>5, <1>7, <1>9
  <2>3. CASE n \in mounted
    BY <2>3 DEF MayBeListed, mounted
  <2>4. CASE n \in StorageReaddir(one)
    <3>1. Seen(d, n) = {one}
      BY <1>2, <2>1, <2>4
    <3> QED
      BY <3>1 DEF MayBeListed
  <2> QED
    BY <2>2, <2>3, <2>4
<1>10. CASE l = Names(MergedNames(dirs, mounted))
  <2>1. Listed(d) = MergedNames(DirsOf(Claims(d)), MountNames(d))
    BY <1>5, <1>7, <1>10 DEF Listed, l, mounted, dirs, ans
  <2> QED
    BY <2>1, MergedListing
<1> QED
  BY <1>5, <1>6, <1>7, <1>8, <1>9, <1>10

(* The mounts make only plain names.                                             *)
LEMMA NodesArePlain ==
    ASSUME TreeInv, NamesArePlain, mount.pc = "idle", NEW q \in Nodes, q # Root
    PROVE  Plain(Last(q))
<1>1. mode \in Modes /\ TreeShape /\ q \in Paths /\ Led(q) /\ Way = Root
  BY DEF TreeInv, TreeShape, Way
<1>2. Len(q) \in Nat /\ Len(q) # 0 /\ ~IsPrefix(q, Root)
  BY <1>1, PrefixOrder
<1> PICK i \in Idents : \E p \in PathsNow(i) : IsPrefix(q, p)
  BY <1>1, <1>2 DEF Led
<1>3. PICK p \in PathsNow(i) : IsPrefix(q, p)
  OBVIOUS
<1>4. MountOK
  BY DEF TreeInv
<1>5. mount = NoMount
  BY <1>4 DEF MountOK
<1>6. mount.id # i
  BY <1>5, IdentsAssumption DEF NoMount
<1>7. p \in PathsOf(mode, i) /\ p \in Paths
  BY <1>1, <1>3, <1>6, MountPaths DEF PathsNow
<1>8. Len(q) \in 1..Len(p) /\ q[Len(q)] = p[Len(q)]
  <2>1. Len(q) <= Len(p) /\ \A j \in 1..Len(q) : q[j] = p[j]
    BY <1>1, <1>3, <1>7, PrefixMeans
  <2>2. Len(p) \in Nat
    BY <1>7, PrefixOrder
  <2> QED
    BY <1>2, <2>1, <2>2
<1> QED
  BY <1>1, <1>7, <1>8 DEF NamesArePlain, Last

(* Two storages have two files of a name, ...                                    *)
LEMMA BelowDiffers ==
    ASSUME TreeShape, NEW d \in Paths, NEW r \in Claims(d), NEW s \in Claims(d), r # s, NEW x
    PROVE  Below(r, x) # Below(s, x)
<1> SUFFICES ASSUME Below(r, x) = Below(s, x) PROVE FALSE
  OBVIOUS
<1>1. r.ident = s.ident /\ Append(r.relpath, x) = Append(s.relpath, x)
  BY BelowIs
<1>2. r.relpath \in Paths /\ s.relpath \in Paths
  BY BelowIs
<1>3. Front(Append(r.relpath, x)) = r.relpath /\ Front(Append(s.relpath, x)) = s.relpath
  BY <1>2, FrontOfAppend DEF Paths
<1>4. r.relpath = s.relpath
  BY <1>1, <1>3
<1> QED
  BY <1>1, <1>4, BelowIs

(* ... so that more than one is there when a file is renamed and no directory has *)
(* its name.                                                                    *)
LEMMA ManyFiles ==
    ASSUME TreeShape, Trees, down = {}, NEW d \in Paths, NEW x \in FileNames,
           Cardinality(Seen(d, x)) # 1, NEW r \in Seen(d, x),
           \A s \in Seen(d, x) : ~IsDir(StorageGetattr(Below(s, x)))
    PROVE  LET files_ == FilesOf(Claims(Append(d, x))) IN
           Below(r, x) \in files_ /\ Cardinality(files_) > 1
<1> DEFINE files_ == FilesOf(Claims(Append(d, x)))
<1>1. IsFiniteSet(files_)
  <2>1. files_ \in SUBSET Claims(Append(d, x)) /\ Append(d, x) \in Paths
    BY AppendIs DEF FilesOf
  <2> QED
    BY <2>1, ClaimsAreFinite, FS_Subset
<1>2. \A s \in Seen(d, x) : Below(s, x) \in files_ /\ s \in Claims(d)
  BY AtTheName DEF Seen
<1>3. PICK s \in Seen(d, x) : s # r
  <2>1. Cardinality({r}) = 1
    BY FS_Singleton
  <2> QED
    BY <2>1
<1>4. Below(r, x) # Below(s, x)
  BY <1>2, <1>3, BelowDiffers
<1> HIDE DEF files_
<1>5. Cardinality(files_) \in Nat /\ Cardinality(files_) # 0 /\ Cardinality(files_) # 1
  <2>1. Cardinality(files_) \in Nat /\ (Cardinality(files_) = 0 <=> files_ = {})
    BY <1>1, FS_CardinalityType, FS_EmptySet
  <2>2. Cardinality(files_) = 1 => \E z : files_ = {z}
    BY <1>1, FS_Singleton
  <2> QED
    BY <1>2, <1>3, <1>4, <2>1, <2>2
<1> QED
  BY <1>2, <1>5 DEF files_

(* Every name of a listing is found, but for the file whose name a directory has.  *)
LEMMA NameIsFound ==
    ASSUME TreeInv, Trees, NamesArePlain, Settled, NEW d \in Paths, NEW n, MayBeListed(d, n)
    PROVE  Finds(Append(d, n)) <=>
             (Len(n) > 1 => Front(n) \notin Listed(d) \/ IsSynthetic(Append(d, Front(n))))
<1> DEFINE q == Append(d, n)
<1>1. TreeShape /\ mount.pc = "idle" /\ down = {}
  BY DEF TreeInv, Settled
(* A name that the mounts make, and the name of one storage's file or of a directory. *)
<1>2. ASSUME n \in FileNames, Plain(n),
             IsSynthetic(q) \/ DirsOf(Claims(q)) # {} \/ Cardinality(FilesOf(Claims(q))) = 1
      PROVE  Finds(q) /\ ~(Len(n) > 1)
  <2>1. RealPath(q) = q /\ IdentIn(q) = None /\ Len(n) = 1
    BY <1>2, NameParts
  <2>2. IsFiniteSet(Claims(q))
    BY <1>1, <1>2, AppendIs, ClaimsAreFinite
  <2>3. ~(Len(n) > 1)
    BY <2>1
  <2> DEFINE ans == Claims(q)
  <2>4. Getattr(q, ans).error = None
    <3> HIDE DEF q, ans
    <3> QED
      BY <1>2, <2>1, <2>2, PlainIsFound DEF ans
  <2> QED
    BY <2>1, <2>3, <2>4 DEF Finds
<1>3. ASSUME n \in MountNames(d) PROVE Finds(q) /\ ~(Len(n) > 1)
  <2>1. n \in FileNames /\ q \in Nodes
    BY <1>1, <1>3, MountedNames
  <2>2. q # Root /\ Last(q) = n
    BY <2>1, AppendIs
  <2>3. Plain(n)
    BY <1>1, <2>1, <2>2, NodesArePlain
  <2>4. IsSynthetic(q) \/ DirsOf(Claims(q)) # {}
    BY <1>1, <2>1, <2>2, MountedIsThere, AtTheName
  <2> QED
    BY <1>2, <2>1, <2>3, <2>4
<1>4. ASSUME NEW r \in Seen(d, n), Seen(d, n) = {r} \/ IsDir(StorageGetattr(Below(r, n))), n \notin MountNames(d)
      PROVE  Finds(q) /\ ~(Len(n) > 1)
  <2>1. n \in FileNames /\ Plain(n)
    BY <1>1, StorageSees DEF Seen
  <2>2. q \notin Nodes
    BY <1>1, <1>4, <2>1, MountedNames
  <2>3. IF IsDir(StorageGetattr(Below(r, n))) THEN Below(r, n) \in DirsOf(Claims(q))
        ELSE Below(r, n) \in FilesOf(Claims(q))
    BY <1>1, <2>1, AtTheName
  <2>4. \A c \in DirsOf(Claims(q)) \cup FilesOf(Claims(q)) : \E s \in Seen(d, n) : c = Below(s, n)
    BY <1>1, <2>1, <2>2, AtTheName
  <2>5. DirsOf(Claims(q)) # {} \/ FilesOf(Claims(q)) = {Below(r, n)}
    BY <1>4, <2>3, <2>4
  <2>6. DirsOf(Claims(q)) # {} \/ Cardinality(FilesOf(Claims(q))) = 1
    BY <2>5, FS_Singleton
  <2> QED
    BY <1>2, <2>1, <2>6
(* A name with a storage id. *)
<1>5. ASSUME NEW x \in FileNames, NEW r \in Seen(d, x), n = Append(x, r.ident),
             ~IsDir(StorageGetattr(Below(r, x))),
             x \in MountNames(d) \/ Cardinality(Seen(d, x)) # 1,
             x \in Listed(d) <=>
                x \in MountNames(d) \/ \E s \in Seen(d, x) : IsDir(StorageGetattr(Below(s, x)))
      PROVE  Finds(q) <=> (Len(n) > 1 => Front(n) \notin Listed(d) \/ IsSynthetic(Append(d, Front(n))))
  <2> DEFINE p == Append(d, x)
             ans == Claims(p)
             id == r.ident
  <2>1. Plain(x) /\ id \in Idents
    BY <1>1, StorageSees, BelowIs DEF Seen
  <2>2. RealPath(q) = p /\ IdentIn(q) = id /\ q # Root /\ Len(n) > 1 /\ Front(n) = x
    <3>1. /\ Len(Append(x, id)) = 2 /\ Front(Append(x, id)) = x
          /\ Append(d, Append(x, id)) # Root
          /\ RealPath(Append(d, Append(x, id))) = Append(d, x)
          /\ IdentIn(Append(d, Append(x, id))) = id
      BY <2>1, NameParts
    <3>2. n = Append(x, id)
      BY <1>5
    <3>3. Len(n) > 1
      BY <3>1, <3>2
    <3> QED
      BY <3>1, <3>2, <3>3
  <2>3. IsFiniteSet(ans)
    BY <1>1, AppendIs, ClaimsAreFinite
  <2>4. Finds(q) <=> \/ IsSynthetic(p)
                     \/ /\ DirsOf(ans) = {} /\ Cardinality(FilesOf(ans)) > 1
                        /\ \E res \in FilesOf(ans) : res.ident = id
    <3>1. Getattr(q, ans).error = None <=>
             \/ IsSynthetic(p)
             \/ /\ DirsOf(ans) = {} /\ Cardinality(FilesOf(ans)) > 1
                /\ \E res \in FilesOf(ans) : res.ident = id
      <4> HIDE DEF p, q, ans, id
      <4> QED
        BY <2>1, <2>2, <2>3, RenamedIsFound
    <3> QED
      BY <2>2, <3>1 DEF Finds
  <2>5. CASE IsSynthetic(p)
    BY <2>2, <2>4, <2>5
  <2>6. CASE ~IsSynthetic(p) /\ x \in Listed(d)
    <3>1. DirsOf(ans) # {}
      <4>1. CASE x \in MountNames(d)
        <5>1. p \in Nodes /\ p # Root
          BY <1>1, <4>1, MountedNames, AppendIs
        <5>2. tree[p] # {}
          BY <1>1, <2>6, <5>1, MountedIsThere
        <5> QED
          BY <1>1, <5>1, <5>2, AtTheName
      <4>2. CASE \E s \in Seen(d, x) : IsDir(StorageGetattr(Below(s, x)))
        BY <1>1, <4>2, AtTheName
      <4> QED
        BY <1>5, <2>6, <4>1, <4>2
    <3> HIDE DEF p, q, ans, id
    <3> QED
      BY <2>2, <2>4, <2>6, <3>1 DEF p
  <2>7. CASE ~IsSynthetic(p) /\ x \notin Listed(d)
    <3>1. p \notin Nodes
      BY <1>1, <1>5, <2>7, MountedNames
    <3>2. Below(r, x) \in FilesOf(ans) /\ Cardinality(FilesOf(ans)) > 1
      BY <1>1, <1>5, <2>7, ManyFiles
    <3>3. DirsOf(ans) = {}
      <4> SUFFICES ASSUME NEW c \in DirsOf(ans) PROVE FALSE
        OBVIOUS
      <4>3. \A e \in DirsOf(ans) \cup FilesOf(ans) : \E s \in Seen(d, x) : e = Below(s, x)
        BY <1>1, <3>1, AtTheName
      <4>1. PICK s \in Seen(d, x) : c = Below(s, x)
        BY <4>3
      <4>2. IsDir(StorageGetattr(c))
        BY DEF DirsOf
      <4> QED
        BY <1>5, <2>7, <4>1, <4>2
    <3>4. Below(r, x).ident = id
      BY <1>1, BelowIs DEF Seen
    <3> HIDE DEF p, q, ans, id
    <3> QED
      BY <2>2, <2>4, <2>7, <3>2, <3>3, <3>4
  <2> QED
    BY <2>5, <2>6, <2>7
<1> HIDE DEF q
<1>6. CASE n \in MountNames(d)
  BY <1>3, <1>6 DEF q
<1>7. CASE n \notin MountNames(d) /\ \E r \in Seen(d, n) : Seen(d, n) = {r} \/ IsDir(StorageGetattr(Below(r, n)))
  BY <1>4, <1>7 DEF q
<1>8. CASE ~(n \in MountNames(d) \/ \E r \in Seen(d, n) : Seen(d, n) = {r} \/ IsDir(StorageGetattr(Below(r, n))))
  <2>1. PICK x \in FileNames : \E r \in Seen(d, x) :
          /\ n = Append(x, r.ident)
          /\ ~IsDir(StorageGetattr(Below(r, x)))
          /\ x \in MountNames(d) \/ Cardinality(Seen(d, x)) # 1
          /\ x \in Listed(d) <=>
                x \in MountNames(d) \/ \E s \in Seen(d, x) : IsDir(StorageGetattr(Below(s, x)))
    BY <1>8 DEF MayBeListed
  <2> QED
    BY <1>5, <2>1 DEF q
<1> QED
  BY <1>6, <1>7, <1>8 DEF q

(* The directories that are asked.                                              *)
LEMMA PlacesArePaths ==
    ASSUME TreeInv, Trees, NEW d \in Places
    PROVE  d \in Paths
<1>1. Nodes \subseteq Paths /\ live \subseteq Idents /\ mode \in Modes
  BY DEF TreeInv, TreeShape
<1>2. CASE d \in Nodes
  BY <1>1, <1>2
<1>3. ASSUME NEW i \in live, NEW p \in PathsOf(mode, i), NEW r \in DOMAIN store[i], d = p \o r
      PROVE  d \in Paths
  <2>1. p \in Paths /\ r \in Paths
    BY <1>1, MountPaths DEF Trees, IsTree
  <2> QED
    BY <1>3, <2>1, ConcatProperties DEF Paths
<1> QED
  BY <1>2, <1>3 DEF Places

(* Whenever the tree is settled, a name that readdir lists is one that getattr    *)
(* finds, except for a file that has the name of a directory; and that exception *)
(* is found after all when the mounts make the directory (conflict.py:185-190).  *)
THEOREM WhatIsListedIsFound ==
    ASSUME NamesArePlain
    PROVE  Spec => []ListedIsFound
<1>1. Init => ConflictInv /\ NamesInv
  BY ConflictStarts, NamesStart
<1>2. ConflictInv /\ NamesInv /\ [Next]_vars => ConflictInv' /\ NamesInv'
  BY ConflictStep, NamesStep
<1>3. ConflictInv /\ NamesInv => ListedIsFound
  <2> SUFFICES ASSUME ConflictInv, NamesInv, Settled, NEW d \in Places, NEW n \in Listed(d)
               PROVE  Finds(Append(d, n)) <=>
                        (Len(n) > 1 => \/ Front(n) \notin Listed(d)
                                       \/ IsSynthetic(Append(d, Front(n))))
    BY DEF ListedIsFound
  <2>1. TreeInv /\ TreeShape /\ Trees /\ down = {}
    BY DEF ConflictInv, TreeInv, NamesInv, Settled
  <2>2. d \in Paths
    BY <2>1, PlacesArePaths
  <2>3. MayBeListed(d, n)
    BY <2>1, <2>2, ListingIs
  <2> QED
    BY <2>1, <2>2, <2>3, NameIsFound
<1> QED
  BY <1>1, <1>2, <1>3, PTL DEF Spec
=============================================================================
