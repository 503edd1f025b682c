-------------------------- MODULE MountingProofs --------------------------
(***************************************************************************)
(* Proofs about Mounting, for any containers, files, manifests, requests   *)
(* and kinds of failures: what the command wl container unmount leaves.    *)
(***************************************************************************)
EXTENDS Mounting, FiniteSetTheorems, WellFoundedInduction, TLAPS

-----------------------------------------------------------------------------
(* The sequences of identifiers that a command works through. *)

(* Numbers in their order are all of them.                                    *)
LEMMA SortedIs ==
    ASSUME NEW ids \in SUBSET Nat, IsFiniteSet(ids)
    PROVE  Sorted(ids) \in Seq(ids) /\ Sorted(ids) \in Seq(Nat) /\ Range(Sorted(ids)) = ids
<1> DEFINE n == Cardinality(ids)
           UpTo(i) == {j \in ids : j <= i}
           rank == [i \in ids |-> Cardinality(UpTo(i))]
<1>1. n \in Nat /\ \A i \in ids : i \in Nat
  BY FS_CardinalityType
<1>2. \A i \in ids : IsFiniteSet(UpTo(i)) /\ Cardinality(UpTo(i)) \in 1..n
  <2> SUFFICES ASSUME NEW i \in ids PROVE IsFiniteSet(UpTo(i)) /\ Cardinality(UpTo(i)) \in 1..n
    OBVIOUS
  <2>1. UpTo(i) \subseteq ids /\ i \in UpTo(i)
    OBVIOUS
  <2>2. IsFiniteSet(UpTo(i)) /\ Cardinality(UpTo(i)) <= n
    BY <2>1, FS_Subset
  <2>3. Cardinality(UpTo(i)) \in Nat /\ Cardinality(UpTo(i)) # 0
    BY <2>1, <2>2, FS_CardinalityType, FS_EmptySet
  <2> HIDE DEF n, UpTo
  <2> QED
    BY <1>1, <2>2, <2>3
<1>3. ASSUME NEW i \in ids, NEW j \in ids, i < j
      PROVE  Cardinality(UpTo(i)) # Cardinality(UpTo(j))
  <2>1. UpTo(i) \subseteq UpTo(j) /\ j \in UpTo(j) /\ j \notin UpTo(i)
    <3>1. \A k \in ids : k <= i => k <= j
      BY <1>1, <1>3
    <3>2. j <= j /\ ~(j <= i)
      BY <1>1, <1>3
    <3> QED
      BY <3>1, <3>2
  <2>2. UpTo(i) # UpTo(j)
    BY <2>1
  <2>3. Cardinality(UpTo(i)) # Cardinality(UpTo(j))
    BY <1>2, <2>1, <2>2, FS_Subset
  <2> HIDE DEF UpTo
  <2> QED
    BY <2>3
<1>4. ASSUME NEW k \in 1..n
      PROVE  \E i \in ids : Cardinality(UpTo(i)) = k
  <2>1. SUFFICES ASSUME \A i \in ids : Cardinality(UpTo(i)) # k PROVE FALSE
    OBVIOUS
  <2>2. IsFiniteSet(1..n) /\ Cardinality(1..n) = n
    BY <1>1, FS_Interval
  <2>3. IsFiniteSet((1..n) \ {k}) /\ Cardinality((1..n) \ {k}) = n - 1
    BY <2>2, <1>4, FS_RemoveElement
  <2>4. rank \in [ids -> (1..n) \ {k}]
    <3> HIDE DEF n, UpTo
    <3> QED
      BY <1>2, <2>1
  <2>5. PICK x, y \in ids : x # y /\ Cardinality(UpTo(x)) = Cardinality(UpTo(y))
    <3>1. Cardinality((1..n) \ {k}) < Cardinality(ids)
      BY <1>1, <2>3
    <3>2. PICK x, y \in ids : x # y /\ rank[x] = rank[y]
      <4> HIDE DEF rank, n
      <4> QED
        BY <2>3, <2>4, <3>1, FS_PigeonHole
    <3> HIDE DEF n, UpTo
    <3> QED
      BY <3>2
  <2>6. x < y \/ y < x
    BY <2>5
  <2> QED
    BY <1>3, <2>5, <2>6
<1>5. Sorted(ids) = [k \in 1..n |-> CHOOSE i \in ids : Cardinality(UpTo(i)) = k]
  BY DEF Sorted
<1>6. ASSUME NEW k \in 1..n
      PROVE  Sorted(ids)[k] \in ids /\ Cardinality(UpTo(Sorted(ids)[k])) = k
  <2> HIDE DEF n, UpTo
  <2>1. \E i \in ids : Cardinality(UpTo(i)) = k
    BY <1>4
  <2>2. Sorted(ids)[k] = CHOOSE i \in ids : Cardinality(UpTo(i)) = k
    BY <1>5
  <2> QED
    BY <2>1, <2>2
<1>7. ASSUME NEW i \in ids
      PROVE  \E k \in 1..n : Sorted(ids)[k] = i
  <2> HIDE DEF n, UpTo
  <2> DEFINE k == Cardinality(UpTo(i))
             j == Sorted(ids)[k]
  <2>1. k \in 1..n
    BY <1>2
  <2>2. j \in ids /\ Cardinality(UpTo(j)) = k
    BY <1>6, <2>1
  <2>3. ~(i < j) /\ ~(j < i)
    <3> HIDE DEF j
    <3> QED
      BY <1>3, <2>2
  <2>4. i = j
    <3> HIDE DEF j
    <3> QED
      BY <1>1, <2>2, <2>3
  <2> QED
    BY <2>1, <2>4
<1> HIDE DEF n, rank
<1>8. Sorted(ids) \in [1..n -> ids]
  BY <1>5, <1>6
<1>9. DOMAIN Sorted(ids) = 1..n
  BY <1>8
<1> QED
  <2> DEFINE s == Sorted(ids)
  <2>1. s \in Seq(ids) /\ s \in Seq(Nat)
    <3>1. s \in [1..n -> Nat]
      BY <1>8
    <3> HIDE DEF s
    <3> QED
      BY <1>1, <1>8, <3>1 DEF s
  <2>2. \A i \in ids : \E k \in DOMAIN s : s[k] = i
    BY <1>7, <1>9
  <2>3. \A k \in DOMAIN s : s[k] \in ids
    BY <1>6, <1>9
  <2> HIDE DEF s
  <2>4. Range(s) = ids
    BY <2>2, <2>3 DEF Range
  <2> QED
    BY <2>1, <2>4 DEF s

(* Every set of numbers that is not empty has a least one.                    *)
LEMMA Least ==
    ASSUME NEW S \in SUBSET Nat, S # {}
    PROVE  \E i \in S : \A j \in S : i <= j
<1>1. PICK i \in S : \A j \in S : ~(<<j, i>> \in OpToRel(<, Nat))
  BY NatLessThanWellFounded, WFMin
<1>2. ASSUME NEW j \in S PROVE i <= j
  <2>1. ~(j < i)
    BY <1>1 DEF OpToRel
  <2> QED
    BY <2>1
<1> QED
  BY <1>2

(* Dropping repetitions drops nothing else.                                   *)
LEMMA DistinctIs ==
    ASSUME NEW T, NEW s \in Seq(T)
    PROVE  Distinct(s) \in Seq(T) /\ Range(Distinct(s)) = Range(s)
<1> DEFINE firsts == {k \in DOMAIN s : \A j \in DOMAIN s : s[j] = s[k] => k <= j}
           order == Sorted(firsts)
<1>1. firsts \subseteq DOMAIN s /\ firsts \subseteq Nat /\ IsFiniteSet(firsts)
  <2>1. Len(s) \in Nat /\ DOMAIN s = 1..Len(s)
    OBVIOUS
  <2>2. IsFiniteSet(1..Len(s))
    BY <2>1, FS_Interval
  <2> QED
    BY <2>1, <2>2, FS_Subset
<1>2. order \in Seq(firsts) /\ Range(order) = firsts
  BY <1>1, SortedIs
<1>3. Distinct(s) = [k \in DOMAIN order |-> s[order[k]]]
  BY DEF Distinct
<1>4. \A x \in Range(s) : \E k \in firsts : s[k] = x
  <2> SUFFICES ASSUME NEW x \in Range(s) PROVE \E k \in firsts : s[k] = x
    OBVIOUS
  <2> DEFINE At == {k \in DOMAIN s : s[k] = x}
  <2>1. At \subseteq Nat /\ At # {}
    BY DEF Range
  <2>2. PICK k \in At : \A j \in At : k <= j
    BY <2>1, Least
  <2> QED
    BY <2>2
<1> HIDE DEF firsts, order
<1>5. DOMAIN order = 1..Len(order) /\ Len(order) \in Nat /\ \A k \in DOMAIN order : order[k] \in firsts
  BY <1>2
<1>6. Distinct(s) \in [1..Len(order) -> T]
  BY <1>1, <1>3, <1>5
<1>7. Range(Distinct(s)) = {s[k] : k \in firsts}
  <2>1. \A k \in firsts : \E j \in DOMAIN order : order[j] = k
    BY <1>2 DEF Range
  <2> QED
    BY <1>3, <1>5, <2>1 DEF Range
<1>8. Range(s) = {s[k] : k \in firsts}
  BY <1>1, <1>4 DEF Range
<1>9. Distinct(s) \in Seq(T)
  BY <1>5, <1>6
<1> QED
  BY <1>7, <1>8, <1>9

(* What two sequences have together.                                          *)
LEMMA RangeOfBoth ==
    ASSUME NEW T, NEW s \in Seq(T), NEW t \in Seq(T)
    PROVE  s \o t \in Seq(T) /\ Range(s \o t) = Range(s) \union Range(t)
<1>1. s \o t \in Seq(T) /\ Len(s \o t) = Len(s) + Len(t)
  OBVIOUS
<1>2. \A k \in DOMAIN s : k \in DOMAIN (s \o t) /\ (s \o t)[k] = s[k]
  OBVIOUS
<1>3. \A k \in DOMAIN t : Len(s) + k \in DOMAIN (s \o t) /\ (s \o t)[Len(s) + k] = t[k]
  OBVIOUS
<1>4. \A k \in DOMAIN (s \o t) : (s \o t)[k] \in Range(s) \union Range(t)
  <2> SUFFICES ASSUME NEW k \in DOMAIN (s \o t) PROVE (s \o t)[k] \in Range(s) \union Range(t)
    OBVIOUS
  <2>1. CASE k <= Len(s)
    BY <2>1 DEF Range
  <2>2. CASE k > Len(s)
    <3>1. k - Len(s) \in DOMAIN t /\ (s \o t)[k] = t[k - Len(s)]
      BY <2>2
    <3> QED
      BY <3>1 DEF Range
  <2> QED
    BY <2>1, <2>2
<1>5. Range(s \o t) \subseteq Range(s) \union Range(t)
  BY <1>4 DEF Range
<1>6. Range(s) \subseteq Range(s \o t)
  BY <1>2 DEF Range
<1>7. Range(t) \subseteq Range(s \o t)
  BY <1>3 DEF Range
<1> QED
  BY <1>1, <1>5, <1>6, <1>7

(* The first of a sequence, and the rest.                                     *)
LEMMA RangeOfTail ==
    ASSUME NEW T, NEW s \in Seq(T), s # << >>
    PROVE  /\ Head(s) \in Range(s) /\ Tail(s) \in Seq(T)
           /\ Range(s) = {Head(s)} \union Range(Tail(s))
<1>1. Tail(s) \in Seq(T) /\ Len(Tail(s)) = Len(s) - 1 /\ Len(s) >= 1
  OBVIOUS
<1>2. \A k \in DOMAIN Tail(s) : k + 1 \in DOMAIN s /\ Tail(s)[k] = s[k + 1]
  OBVIOUS
<1>3. \A k \in DOMAIN s : k = 1 \/ (k - 1 \in DOMAIN Tail(s) /\ Tail(s)[k - 1] = s[k])
  OBVIOUS
<1>4. 1 \in DOMAIN s /\ Head(s) = s[1]
  OBVIOUS
<1> QED
  BY <1>1, <1>2, <1>3, <1>4 DEF Range

(* The least identifier of a set is in it, and there is none only of none.    *)
LEMMA FirstOfIs ==
    ASSUME NEW ids \in SUBSET Nat, FirstOf(ids) # None
    PROVE  FirstOf(ids) \in ids
<1>1. ids # {}
  BY DEF FirstOf
<1> QED
  BY <1>1, Least DEF FirstOf

(* What follows a storage is its pseudomanifest, or the storage again.        *)
LEMMA PmOfIs ==
    ASSUME NEW tab, DOMAIN tab \subseteq Nat, NEW i \in DOMAIN tab
    PROVE  PmOf(tab, i) = i \/ (PmOf(tab, i) \in DOMAIN tab /\ tab[PmOf(tab, i)].pm)
<1> DEFINE path == <<tab[i].con, tab[i].id, TRUE>>
           pm == FirstOf(ByMainPath(tab, path))
<1>1. FindByPath(tab, tab[i].con, tab[i].id)[2] = pm
  BY DEF FindByPath
<1>2. CASE pm = None \/ tab[i].pm
  BY <1>1, <1>2 DEF PmOf
<1>3. CASE pm # None /\ ~tab[i].pm
  <2>1. PmOf(tab, i) = pm
    BY <1>1, <1>3 DEF PmOf
  <2>2. ByMainPath(tab, path) \subseteq Nat
    BY DEF ByMainPath
  <2>3. pm \in ByMainPath(tab, path)
    BY <1>3, <2>2, FirstOfIs
  <2>4. pm \in DOMAIN tab /\ MainPath(tab[pm]) = path
    BY <2>3 DEF ByMainPath
  <2>5. tab[pm].pm = TRUE
    BY <2>4 DEF MainPath
  <2> QED
    BY <2>1, <2>4, <2>5
<1> QED
  BY <1>2, <1>3

(* Storages with their pseudomanifests: all of them, and nothing but those.   *)
LEMMA WithPmsAre ==
    ASSUME NEW tab, DOMAIN tab \subseteq Nat,
           NEW S \in SUBSET (DOMAIN tab), NEW ids \in Seq(S), Range(ids) = S
    PROVE  /\ WithPms(tab, ids) \in Seq(Nat)
           /\ S \subseteq Range(WithPms(tab, ids))
           /\ \A i \in Range(WithPms(tab, ids)) : i \in S \/ (i \in DOMAIN tab /\ tab[i].pm)
<1> DEFINE n == 2 * Len(ids)
           with == WithPms(tab, ids)
<1>1. Len(ids) \in Nat /\ n \in Nat /\ DOMAIN ids = 1..Len(ids)
  OBVIOUS
<1>2. with = [k \in 1..n |-> IF k % 2 = 1 THEN ids[(k + 1) \div 2] ELSE PmOf(tab, ids[k \div 2])]
  BY DEF WithPms
<1>3. \A k \in 1..n : (k % 2 = 1 => (k + 1) \div 2 \in 1..Len(ids)) /\ (k % 2 # 1 => k \div 2 \in 1..Len(ids))
  BY <1>1
<1>4. \A k \in 1..Len(ids) : 2 * k - 1 \in 1..n /\ (2 * k - 1) % 2 = 1 /\ (2 * k - 1 + 1) \div 2 = k
  BY <1>1
<1> HIDE DEF n, with
<1>5. ASSUME NEW k \in 1..n
      PROVE  with[k] \in S \/ (with[k] \in DOMAIN tab /\ tab[with[k]].pm)
  <2>1. CASE k % 2 = 1
    <3>1. with[k] = ids[(k + 1) \div 2]
      BY <1>2, <2>1
    <3>2. (k + 1) \div 2 \in DOMAIN ids
      BY <1>1, <1>3, <2>1
    <3> QED
      BY <3>1, <3>2
  <2>2. CASE k % 2 # 1
    <3>1. with[k] = PmOf(tab, ids[k \div 2])
      BY <1>2, <2>2
    <3>2. k \div 2 \in DOMAIN ids
      BY <1>1, <1>3, <2>2
    <3>3. ids[k \div 2] \in S
      BY <3>2
    <3> QED
      BY <3>1, <3>3, PmOfIs
  <2> QED
    BY <2>1, <2>2
<1>6. with \in [1..n -> Nat] /\ DOMAIN with = 1..n
  BY <1>2, <1>5
<1>7. ASSUME NEW i \in S
      PROVE  \E k \in 1..n : with[k] = i
  <2>1. PICK k \in 1..Len(ids) : ids[k] = i
    BY <1>1 DEF Range
  <2>2. with[2 * k - 1] = ids[k]
    BY <1>2, <1>4
  <2> QED
    BY <1>4, <2>1, <2>2
<1>8. with \in Seq(Nat)
  BY <1>1, <1>6 DEF n
<1>9. Range(with) = {with[k] : k \in 1..n}
  BY <1>6 DEF Range
<1>10. S \subseteq Range(with)
  BY <1>7, <1>9
<1>11. \A i \in Range(with) : i \in S \/ (i \in DOMAIN tab /\ tab[i].pm)
  BY <1>5, <1>9
<1> QED
  BY <1>8, <1>10, <1>11 DEF with

(* A rebuilt container has a name.                                            *)
LEMMA NamesInAre ==
    ASSUME NEW info, NEW ids
    PROVE  NoParent \notin NamesIn(info, ids)
<1>1. \A e : RebuiltName(e) # NoParent
  <2>1. \A a : <<a>> # << >>
    OBVIOUS
  <2>2. \A a, b, c : <<a, b, c>> # << >>
    OBVIOUS
  <2> QED
    BY <2>1, <2>2 DEF RebuiltName, MainPath, NoParent
<1> QED
  BY <1>1 DEF NamesIn

(* Subcontainers: all that are named by one of those that are looked for, or  *)
(* by one of these.                                                           *)
LEMMA SubsIs ==
    ASSUME NEW info, NEW names, NoParent \notin names
    PROVE  /\ Subs(info, names) \subseteq {i \in DOMAIN info : info[i].sub # NoParent}
           /\ SubsOf(info, names \union NamesIn(info, Subs(info, names))) \subseteq Subs(info, names)
<1> DEFINE under == {i \in DOMAIN info : info[i].sub # NoParent}
           closed == {s \in SUBSET under : SubsOf(info, names \union NamesIn(info, s)) \subseteq s}
           subs == Subs(info, names)
<1>1. subs = {i \in under : \A s \in closed : i \in s}
  BY DEF Subs
<1>2. NoParent \notin NamesIn(info, subs)
  BY NamesInAre
<1> HIDE DEF subs
<1>3. ASSUME NEW i \in SubsOf(info, names \union NamesIn(info, subs))
      PROVE  i \in subs
  <2>1. i \in DOMAIN info /\ info[i].sub \in names \union NamesIn(info, subs)
    BY <1>3 DEF SubsOf
  <2>2. i \in under
    BY <1>2, <2>1
  <2>3. ASSUME NEW s \in closed
        PROVE  i \in s
    <3>1. subs \subseteq s
      BY <1>1
    <3>2. NamesIn(info, subs) \subseteq NamesIn(info, s)
      BY <3>1 DEF NamesIn
    <3>3. i \in SubsOf(info, names \union NamesIn(info, s))
      BY <2>1, <3>2 DEF SubsOf
    <3> QED
      BY <3>3
  <2> QED
    BY <1>1, <2>2, <2>3
<1> QED
  BY <1>1, <1>3 DEF subs

-----------------------------------------------------------------------------
(* The inductive invariant. *)

\* A command wl container unmount is running.
Unmounts == cli.pc # "idle" /\ cli.req.kind \in {"unmount", "path"}

\* The cache of a container, mounted for itself, that a sync job works on.
Busy(i) ==
    /\ table[i].con \in caches /\ table[i].id = CacheId /\ ~table[i].pm
    /\ table[i].sub = NoParent
    /\ JobsOf(table[i].con) # {}

\* Identifiers are numbers, finitely many, and the next one is new.
Placed == next \in Nat /\ IsFiniteSet(DOMAIN table) /\ \A i \in DOMAIN table : i \in Nat /\ i < next

\* What is not known of a variable but that it has its fields.
Whole ==
    /\ DOMAIN cli = DOMAIN Idle
    /\ "cli" \in DOMAIN cached /\ {"paths", "info"} \subseteq DOMAIN cached["cli"]

Course ==
    Unmounts =>
        /\ cli.pc \in {"unmount", "path", "unmounting", "caches"}
        /\ cli.pc \in {"unmount", "path"} => cli.req.kind = cli.pc
        /\ cli.req.kind = "path" => cli.seen = {}
        /\ cli.pc = "unmounting" => cli.back = "caches"
        /\ cli.pc = "caches" => cli.unm = << >>

\* A table that was read: what was mounted when the command began and still is
\* was mounted then, too, and what is mounted under an identifier never changes.
Known(tab) ==
    /\ IsFiniteSet(DOMAIN tab) /\ \A i \in DOMAIN tab : i \in Nat /\ i < next
    /\ \A i \in DOMAIN table : /\ i \in DOMAIN cli.before => i \in DOMAIN tab
                               /\ i \in DOMAIN tab => tab[i] = table[i]

Read ==
    Unmounts =>
        /\ \A i \in DOMAIN cli.before : i \in Nat /\ i < next
        /\ cached["cli"].paths # Unread => Known(cached["cli"].paths[1])
        /\ cached["cli"].info # Unread => Known(cached["cli"].info[1])

\* What is left of what the command was to unmount, and mounted when it began, is
\* still to be unmounted; no cache is among it before its job is stopped.
Queued ==
    Unmounts =>
        /\ cli.unm \in Seq(Nat) /\ cli.cacheIds \in Seq(Nat)
        /\ \A i \in Range(cli.unm) : i < next
        /\ \A i \in Range(cli.unm) \intersect DOMAIN table : ~Busy(i)
        /\ cli.pc # "path" =>
               Unwanted(table) \intersect DOMAIN cli.before \subseteq Range(cli.unm) \union Range(cli.cacheIds)

IInv == Placed /\ Whole /\ Course /\ Read /\ Queued

(* The invariant holds at first.                                              *)
LEMMA InitIInv == Init => IInv
<1> SUFFICES ASSUME Init PROVE IInv
  OBVIOUS
<1>1. Placed
  <2>1. DOMAIN table = {1, 2} /\ next = 3
    BY DEF Init
  <2>2. IsFiniteSet({1} \union {2})
    BY FS_Singleton, FS_AddElement
  <2>3. {1} \union {2} = {1, 2}
    OBVIOUS
  <2> QED
    BY <2>1, <2>2, <2>3 DEF Placed
<1>2. Whole
  BY DEF Init, Whole, Clients
<1>3. ~Unmounts
  BY DEF Init, Idle, Unmounts
<1> QED
  BY <1>1, <1>2, <1>3 DEF IInv, Course, Read, Queued

-----------------------------------------------------------------------------
(* Identifiers stay numbers, and what they stand for stays. *)

\* What is mounted under an identifier that was given out stays or goes.
Later ==
    /\ next' \in Nat /\ next <= next'
    /\ \A i \in DOMAIN table' : i < next => i \in DOMAIN table /\ table'[i] = table[i]

(* A storage that is mounted gets the next number.                            *)
LEMMA MountPlaced ==
    ASSUME Placed, NEW item, MountAs(item)
    PROVE  Placed' /\ Later
<1> DEFINE old == ByMainPath(table, MainPath(item.entry))
<1>1. DOMAIN Without(old) = DOMAIN table \ old
  BY DEF Without
<1>2. DOMAIN table' = (DOMAIN table \ old) \union {next} /\ next' = next + 1
  BY <1>1 DEF MountAs
<1>3. IsFiniteSet(DOMAIN table \ old)
  BY FS_Subset DEF Placed
<1>4. IsFiniteSet((DOMAIN table \ old) \union {next})
  BY <1>3, FS_AddElement
<1>5. \A i \in DOMAIN table' : i # next => table'[i] = table[i]
  BY <1>1 DEF MountAs
<1> HIDE DEF old
<1>6. Placed'
  BY <1>2, <1>4 DEF Placed
<1>7. Later
  BY <1>2, <1>5 DEF Placed, Later
<1> QED
  BY <1>6, <1>7

(* One that is unmounted loses its number.                                    *)
LEMMA UnmountPlaced ==
    ASSUME Placed, NEW id, Unmount(id)
    PROVE  /\ Placed' /\ Later
           /\ DOMAIN table' = DOMAIN table \ {id} /\ \A i \in DOMAIN table' : table'[i] = table[i]
<1>1. DOMAIN table' = DOMAIN table \ {id} /\ next' = next
  BY DEF Unmount, Without
<1>2. \A i \in DOMAIN table' : table'[i] = table[i]
  BY DEF Unmount, Without
<1>3. IsFiniteSet(DOMAIN table \ {id})
  BY FS_Subset DEF Placed
<1> QED
  BY <1>1, <1>2, <1>3 DEF Placed, Later

(* Where the table stays, all is as before.                                   *)
LEMMA SamePlaced ==
    ASSUME Placed, UNCHANGED <<table, next>>
    PROVE  Placed' /\ Later
BY DEF Placed, Later

(* A driver that stops, or starts, has nothing mounted.                       *)
LEMMA NonePlaced ==
    ASSUME table' = << >>, next' \in Nat
    PROVE  Placed'
<1>1. DOMAIN table' = {} /\ IsFiniteSet({})
  BY FS_EmptySet
<1> QED
  BY <1>1 DEF Placed

\* What is no step of the command line.
Aside ==
    /\ UNCHANGED <<cli, jobs, caches>>
    /\ DOMAIN cached' = DOMAIN cached /\ cached'["cli"] = cached["cli"]

(* The driver works on the items of a command that mounts.                    *)
LEMMA DriverStep ==
    ASSUME Placed, Driver
    PROVE  Placed' /\ Later /\ Aside
<1>1. PICK p \in Clients : DriverMounts(p) \/ DriverAborts(p) \/ DriverMountsLate(p) \/ DriverGone(p)
  BY DEF Driver
<1>2. UNCHANGED <<cli, disk, cached>>
  BY <1>1 DEF DriverMounts, DriverAborts, DriverMountsLate, DriverGone
<1>3. MountAs(Head(batch[p])) \/ UNCHANGED driver
  BY <1>1 DEF DriverMounts, DriverAborts, DriverMountsLate, DriverGone
<1> QED
  BY <1>2, <1>3, MountPlaced, SamePlaced DEF driver, disk, Aside

(* The remounter has caches of its own.                                       *)
LEMMA RemounterStep ==
    ASSUME Placed, Remounter
    PROVE  Placed' /\ Later /\ Aside
<1>1. UNCHANGED <<cli, disk>>
  BY DEF Remounter, RemReads, HandleEvents, HandleFails, HandlingEnds, UnmountPending, MountPending,
         MountPendingEnds, InitOutside, SearchFails, InitWlpath, InitEnds, Register, InitialEvents,
         TakeEvents, ConnectionCloses, OnlyRem
<1>2. cached' = cached \/ \E c : cached' = [cached EXCEPT !["rem"] = c]
  <2>1. CASE RemReads
    BY <2>1 DEF RemReads, FetchPaths, FetchInfo
  <2>2. CASE UnmountPending \/ MountPending \/ InitWlpath
    BY <2>2 DEF UnmountPending, MountPending, InitWlpath, BeginMount, Forget
  <2>3. CASE InitOutside
    BY <2>3 DEF InitOutside
  <2>4. CASE ~(RemReads \/ UnmountPending \/ MountPending \/ InitWlpath \/ InitOutside)
    BY <2>4 DEF Remounter, HandleEvents, HandleFails, HandlingEnds,
         MountPendingEnds, SearchFails, InitEnds, Register, InitialEvents,
         TakeEvents, ConnectionCloses, OnlyRem
  <2> QED
    BY <2>1, <2>2, <2>3, <2>4
<1>3. cached'["cli"] = cached["cli"] /\ DOMAIN cached' = DOMAIN cached
  <2>1. ASSUME NEW c, cached' = [cached EXCEPT !["rem"] = c]
        PROVE  cached'["cli"] = cached["cli"] /\ DOMAIN cached' = DOMAIN cached
    BY <2>1
  <2> QED
    BY <1>2, <2>1
<1>4. Aside
  BY <1>1, <1>3 DEF Aside, disk
<1>5. CASE UnmountPending
  <2>1. Unmount(Head(rem.unmount)) \/ UNCHANGED driver
    BY <1>5 DEF UnmountPending
  <2> QED
    BY <1>4, <2>1, UnmountPlaced, SamePlaced DEF driver
<1>6. CASE ~UnmountPending
  <2>1. UNCHANGED <<table, next>>
    BY <1>6
       DEF Remounter, RemReads, HandleEvents, HandleFails, HandlingEnds, MountPending, MountPendingEnds,
           InitOutside, SearchFails, InitWlpath, InitEnds, Register, InitialEvents, TakeEvents,
           ConnectionCloses, OnlyRem, driver
  <2> QED
    BY <1>4, <2>1, SamePlaced
<1> QED
  BY <1>5, <1>6

(* Changes of manifest files change nothing that was read or mounted.         *)
LEMMA EditStep ==
    ASSUME Placed, EditFile \/ UNCHANGED vars
    PROVE  Placed' /\ Later /\ Aside
<1>1. UNCHANGED <<table, next, cached, cli, jobs, caches>>
  BY DEF EditFile, vars, driver, disk, clients
<1> QED
  BY <1>1, SamePlaced DEF Aside

(* A table that was read stays one.                                           *)
LEMMA KnownKept ==
    ASSUME Placed, Placed', Later, cli'.before = cli.before,
           \A i \in DOMAIN cli.before : i \in Nat /\ i < next,
           NEW tab, Known(tab)
    PROVE  /\ \A i \in DOMAIN tab : i \in Nat /\ i < next'
           /\ \A i \in DOMAIN table' : /\ i \in DOMAIN cli'.before => i \in DOMAIN tab
                                       /\ i \in DOMAIN tab => tab[i] = table'[i]
<1>1. next \in Nat /\ next' \in Nat /\ next <= next'
  BY DEF Placed, Later
<1>2. \A i \in DOMAIN tab : i \in Nat /\ i < next
  BY DEF Known
<1>3. \A i \in DOMAIN tab : i \in Nat /\ i < next'
  BY <1>1, <1>2
<1>4. ASSUME NEW i \in DOMAIN table', i \in DOMAIN tab \/ i \in DOMAIN cli.before
      PROVE  i \in DOMAIN tab /\ tab[i] = table'[i]
  <2>1. i < next
    BY <1>2, <1>4
  <2>2. i \in DOMAIN table /\ table'[i] = table[i]
    BY <2>1 DEF Later
  <2> QED
    BY <1>4, <2>2 DEF Known
<1> QED
  BY <1>3, <1>4

(* What is unwanted was unwanted before.                                      *)
LEMMA UnwantedKept ==
    ASSUME Later, NEW i \in Unwanted(table'), i < next
    PROVE  i \in Unwanted(table) /\ i \in DOMAIN table /\ table'[i] = table[i]
<1>1. i \in DOMAIN table'
  BY DEF Unwanted
<1>2. i \in DOMAIN table /\ table'[i] = table[i]
  BY <1>1 DEF Later
<1>3. i \in FindAll(table', cli.req.con) => i \in FindAll(table, cli.req.con)
  BY <1>2 DEF FindAll, ByContainerPath
<1> QED
  BY <1>2, <1>3 DEF Unwanted

(* The invariant is kept by what goes on beside the command.                  *)
LEMMA AsideStep ==
    ASSUME IInv, Placed', Later, Aside
    PROVE  IInv'
<1> USE DEF IInv
<1>1. UNCHANGED <<cli, jobs, caches>> /\ DOMAIN cached' = DOMAIN cached /\ cached'["cli"] = cached["cli"]
  BY DEF Aside
<1>2. Whole'
  BY <1>1 DEF Whole
<1>3. Course' /\ (Unmounts' => Unmounts)
  BY <1>1 DEF Course, Unmounts
<1>4. next \in Nat /\ next' \in Nat /\ next <= next'
  BY DEF Placed, Later
<1>5. ASSUME Unmounts
      PROVE  Read'
  <2>1. \A i \in DOMAIN cli'.before : i \in Nat /\ i < next'
    BY <1>1, <1>4, <1>5 DEF Read
  <2>2. ASSUME cached["cli"].paths # Unread
        PROVE  Known(cached["cli"].paths[1])'
    <3>1. Known(cached["cli"].paths[1])
      BY <1>5, <2>2 DEF Read
    <3> QED
      BY <1>1, <1>5, <3>1, KnownKept DEF Known, Read
  <2>3. ASSUME cached["cli"].info # Unread
        PROVE  Known(cached["cli"].info[1])'
    <3>1. Known(cached["cli"].info[1])
      BY <1>5, <2>3 DEF Read
    <3> QED
      BY <1>1, <1>5, <3>1, KnownKept DEF Known, Read
  <2> QED
    BY <1>1, <2>1, <2>2, <2>3 DEF Read, Unread
<1>6. ASSUME Unmounts
      PROVE  Queued'
  <2>1. cli.unm \in Seq(Nat) /\ \A i \in Range(cli.unm) : i \in Nat /\ i < next
    BY <1>6 DEF Queued, Range
  <2>2. \A i \in Range(cli.unm) : i < next'
    BY <1>4, <2>1
  <2>3. ASSUME NEW i \in Range(cli.unm) \intersect DOMAIN table'
        PROVE  ~Busy(i)'
    <3>1. i \in DOMAIN table /\ table'[i] = table[i]
      BY <2>1 DEF Later
    <3>2. ~Busy(i)
      BY <1>6, <3>1 DEF Queued
    <3> QED
      BY <1>1, <3>1, <3>2 DEF Busy, JobsOf
  <2>4. ASSUME NEW i \in Unwanted(table'), i \in DOMAIN cli.before, cli.pc # "path"
        PROVE  i \in Range(cli.unm) \union Range(cli.cacheIds)
    <3>1. i < next
      BY <1>6, <2>4 DEF Read
    <3>2. i \in Unwanted(table)
      BY <3>1, UnwantedKept
    <3> QED
      BY <1>6, <2>4, <3>2 DEF Queued
  <2>5. Unwanted(table)' = Unwanted(table')
    BY <1>1 DEF Unwanted
  <2> QED
    BY <1>1, <1>6, <2>2, <2>3, <2>4, <2>5 DEF Queued
<1> QED
  BY <1>2, <1>3, <1>5, <1>6 DEF Read, Queued

-----------------------------------------------------------------------------
(* What commands do that are not an unmount. *)

\* The command stays what it is.
Keeps == cli'.req = cli.req /\ DOMAIN cli' = DOMAIN cli

\* A step of another command does not become one of an unmount.
Other == ~(cli.pc \in {"idle", "unmount", "path", "unmounting", "caches"}) /\ Keeps

(* A command that ends stays what it was.                                     *)
LEMMA EndKeeps ==
    ASSUME NEW ok, End(ok)
    PROVE  Keeps
BY DEF End, Keeps

(* The steps of wl container mount.                                           *)
LEMMA MountSteps ==
    ASSUME Whole,
           LoadName \/ PrepareReads \/ PrepareMount \/ PrepareEnds \/ AllNames \/ MountEnds \/ Save
    PROVE  Other
<1>1. CASE LoadName
  <2>1. cli.pc \notin {"idle", "unmount", "path", "unmounting", "caches"}
    BY <1>1 DEF LoadName
  <2>2. \/ \E ok \in BOOLEAN : End(ok)
        \/ \E a, b : cli' = [cli EXCEPT !.names = a, !.fails = b]
        \/ \E a, b : cli' = [cli EXCEPT !.conts = a, !.stack = << >>, !.acc = << >>, !.pc = "prepare", !.seen = b]
    BY <1>1 DEF LoadName
  <2>3. Keeps
    <3>1. CASE \E ok \in BOOLEAN : End(ok)
      BY <3>1, EndKeeps
    <3>2. CASE \E a, b : cli' = [cli EXCEPT !.names = a, !.fails = b]
      BY <3>2 DEF Keeps
    <3>3. CASE \E a, b : cli' = [cli EXCEPT !.conts = a, !.stack = << >>, !.acc = << >>, !.pc = "prepare", !.seen = b]
      BY <3>3 DEF Keeps
    <3> QED
      BY <2>2, <3>1, <3>2, <3>3
  <2> QED
    BY <2>1, <2>3 DEF Other
<1>2. CASE PrepareReads
  <2>1. cli.pc = "prepare" /\ cli' = cli
    BY <1>2 DEF PrepareReads, OnlyCli
  <2> QED
    BY <2>1 DEF Keeps, Other
<1>3. CASE PrepareMount
  <2>1. cli.pc = "prepare"
    BY <1>3 DEF PrepareMount
  <2>2. Keeps
    <3> DEFINE m == Head(cli.stack).man
               paths == PathsOf("cli")
               storages == StoragesToMount(m)
               add(sts) == [cli EXCEPT !.stack = SubFrames(m.con) \o Tail(@),
                               !.acc = Append(@, Group(m.con, sts, Head(cli.stack).sub))]
    <3>1. \A sts : add(sts).req = cli.req /\ DOMAIN add(sts) = DOMAIN cli
      OBVIOUS
    <3>2. \/ cli' = GiveUp(cli)
          \/ cli' = add(storages)
          \/ \E sts : cli' = [add(sts) EXCEPT !.unm = ToUnmount(paths, m.con, storages), !.man = m,
                                              !.pc = "unmounting", !.back = "prepare"]
          \/ End(FALSE)
      BY <1>3 DEF PrepareMount
    <3>3. CASE cli' = GiveUp(cli)
      BY <3>3 DEF GiveUp, Keeps
    <3>4. CASE cli' = add(storages)
      BY <3>1, <3>4 DEF Keeps
    <3>5. CASE \E sts : cli' = [add(sts) EXCEPT !.unm = ToUnmount(paths, m.con, storages), !.man = m,
                                              !.pc = "unmounting", !.back = "prepare"]
      <4> HIDE DEF add
      <4> QED
        BY <3>1, <3>5 DEF Keeps
    <3>6. CASE End(FALSE)
      BY <3>6, EndKeeps
    <3> QED
      BY <3>2, <3>3, <3>4, <3>5, <3>6
  <2> QED
    BY <2>1, <2>2 DEF Other
<1>4. CASE PrepareEnds
  <2>1. cli.pc = "prepare" /\ (cli' = NextName(cli) \/ cli' = NextContainer(cli))
    BY <1>4 DEF PrepareEnds, OnlyCli
  <2>2. DOMAIN Prepared(cli) = DOMAIN cli /\ Prepared(cli).req = cli.req
    BY DEF Prepared
  <2>3. CASE cli' = NextName(cli)
    BY <2>1, <2>2, <2>3 DEF NextName, Keeps, Other
  <2>4. CASE cli' = NextContainer(cli)
    BY <2>1, <2>2, <2>4 DEF NextContainer, Keeps, Other
  <2> QED
    BY <2>1, <2>3, <2>4
<1>5. CASE AllNames
  <2>1. cli.pc = "names"
    BY <1>5 DEF AllNames
  <2>2. \/ cli' = [cli EXCEPT !.pc = "mounting", !.back = "save"]
        \/ cli' = [cli EXCEPT !.pc = "save"]
    BY <1>5 DEF AllNames
  <2>3. CASE cli' = [cli EXCEPT !.pc = "mounting", !.back = "save"]
    BY <2>1, <2>3 DEF Other, Keeps
  <2>4. CASE cli' = [cli EXCEPT !.pc = "save"]
    BY <2>1, <2>4 DEF Other, Keeps
  <2> QED
    BY <2>2, <2>3, <2>4
<1>6. CASE MountEnds
  <2>1. cli.pc = "mounting"
    BY <1>6 DEF MountEnds
  <2>2. End(FALSE) \/ cli' = [cli EXCEPT !.pc = cli.back]
    BY <1>6 DEF MountEnds
  <2>3. CASE End(FALSE)
    BY <2>1, <2>3, EndKeeps DEF Other
  <2>4. CASE cli' = [cli EXCEPT !.pc = cli.back]
    BY <2>1, <2>4 DEF Other, Keeps
  <2> QED
    BY <2>2, <2>3, <2>4
<1>7. CASE Save
  <2>1. cli.pc \notin {"idle", "unmount", "path", "unmounting", "caches"}
    BY <1>7 DEF Save
  <2>2. \E ok \in BOOLEAN : End(ok)
    BY <1>7 DEF Save
  <2>3. Keeps
    BY <2>2, EndKeeps
  <2> QED
    BY <2>1, <2>3 DEF Other
<1> QED
  BY <1>1, <1>2, <1>3, <1>4, <1>5, <1>6, <1>7

(* The steps of wl start, stop, modify, delete-cache and sync, and of the other *)
(* ways to unmount.                                                           *)
LEMMA OtherSteps ==
    ASSUME Whole,
           \/ StartStops \/ FsStart \/ FsStop
           \/ CollectAll \/ StopAll \/ DeleteCache
           \/ SyncContainer \/ WaitForSync \/ StopSyncing
           \/ Modify \/ Remount \/ RemountMounts
    PROVE  Other
<1>1. CASE StartStops
  <2>1. cli.pc \notin {"idle", "unmount", "path", "unmounting", "caches"}
    BY <1>1 DEF StartStops
  <2>2. \E a : cli' = [cli EXCEPT !.pc = "starting", !.names = a]
    BY <1>1 DEF StartStops
  <2>3. Keeps
    BY <2>2 DEF Keeps
  <2> QED
    BY <2>1, <2>3 DEF Other
<1>2. CASE FsStart
  <2>1. cli.pc \notin {"idle", "unmount", "path", "unmounting", "caches"}
    BY <1>2 DEF FsStart
  <2>2. cli' = [cli EXCEPT !.pc = "names"]
    BY <1>2 DEF FsStart
  <2>3. Keeps
    BY <2>2 DEF Keeps
  <2> QED
    BY <2>1, <2>3 DEF Other
<1>3. CASE FsStop
  <2>1. cli.pc \notin {"idle", "unmount", "path", "unmounting", "caches"}
    BY <1>3 DEF FsStop
  <2>2. \E ok \in BOOLEAN : End(ok)
    BY <1>3 DEF FsStop
  <2>3. Keeps
    BY <2>2, EndKeeps
  <2> QED
    BY <2>1, <2>3 DEF Other
<1>4. CASE CollectAll
  <2>1. cli.pc \notin {"idle", "unmount", "path", "unmounting", "caches"}
    BY <1>4 DEF CollectAll, OnlyCli
  <2>2. \/ \E ok \in BOOLEAN : End(ok)
        \/ \E a : cli' = [cli EXCEPT !.unm = a, !.pc = "unmounting", !.back = "stop-all"]
    BY <1>4 DEF CollectAll
  <2>3. Keeps
    <3>1. CASE \E ok \in BOOLEAN : End(ok)
      BY <3>1, EndKeeps
    <3>2. CASE \E a : cli' = [cli EXCEPT !.unm = a, !.pc = "unmounting", !.back = "stop-all"]
      BY <3>2 DEF Keeps
    <3> QED
      BY <2>2, <3>1, <3>2
  <2> QED
    BY <2>1, <2>3 DEF Other
<1>5. CASE StopAll
  <2>1. cli.pc \notin {"idle", "unmount", "path", "unmounting", "caches"}
    BY <1>5 DEF StopAll
  <2>2. \E ok \in BOOLEAN : End(ok)
    BY <1>5 DEF StopAll
  <2>3. Keeps
    BY <2>2, EndKeeps
  <2> QED
    BY <2>1, <2>3 DEF Other
<1>6. CASE DeleteCache
  <2>1. cli.pc \notin {"idle", "unmount", "path", "unmounting", "caches"}
    BY <1>6 DEF DeleteCache
  <2>2. \E ok \in BOOLEAN : End(ok)
    BY <1>6 DEF DeleteCache
  <2>3. Keeps
    BY <2>2, EndKeeps
  <2> QED
    BY <2>1, <2>3 DEF Other
<1>7. CASE SyncContainer
  <2>1. cli.pc \notin {"idle", "unmount", "path", "unmounting", "caches"}
    BY <1>7 DEF SyncContainer
  <2>2. \/ \E ok \in BOOLEAN : End(ok)
        \/ \E m : cli' = [cli EXCEPT !.pc = "wait-sync", !.man = m]
    BY <1>7 DEF SyncContainer
  <2>3. Keeps
    <3>1. CASE \E ok \in BOOLEAN : End(ok)
      BY <3>1, EndKeeps
    <3>2. CASE \E m : cli' = [cli EXCEPT !.pc = "wait-sync", !.man = m]
      BY <3>2 DEF Keeps
    <3> QED
      BY <2>2, <3>1, <3>2
  <2> QED
    BY <2>1, <2>3 DEF Other
<1>8. CASE WaitForSync
  <2>1. cli.pc \notin {"idle", "unmount", "path", "unmounting", "caches"}
    BY <1>8 DEF WaitForSync
  <2>2. \E ok \in BOOLEAN : End(ok)
    BY <1>8 DEF WaitForSync
  <2>3. Keeps
    BY <2>2, EndKeeps
  <2> QED
    BY <2>1, <2>3 DEF Other
<1>9. CASE StopSyncing
  <2>1. cli.pc \notin {"idle", "unmount", "path", "unmounting", "caches"}
    BY <1>9 DEF StopSyncing
  <2>2. \E ok \in BOOLEAN : End(ok)
    BY <1>9 DEF StopSyncing
  <2>3. Keeps
    BY <2>2, EndKeeps
  <2> QED
    BY <2>1, <2>3 DEF Other
<1>10. CASE Modify
  <2>1. cli.pc \notin {"idle", "unmount", "path", "unmounting", "caches"}
    BY <1>10 DEF Modify
  <2>2. \/ \E ok \in BOOLEAN : End(ok)
        \/ \E a, b : cli' = [cli EXCEPT !.pc = "remount", !.seen = a, !.stack = b]
    BY <1>10 DEF Modify
  <2>3. Keeps
    <3>1. CASE \E ok \in BOOLEAN : End(ok)
      BY <3>1, EndKeeps
    <3>2. CASE \E a, b : cli' = [cli EXCEPT !.pc = "remount", !.seen = a, !.stack = b]
      BY <3>2 DEF Keeps
    <3> QED
      BY <2>2, <3>1, <3>2
  <2> QED
    BY <2>1, <2>3 DEF Other
<1>11. CASE Remount
  <2>1. cli.pc \notin {"idle", "unmount", "path", "unmounting", "caches"}
    BY <1>11 DEF Remount, OnlyCli
  <2>2. \/ \E ok \in BOOLEAN : End(ok)
        \/ \E a, b : cli' = [cli EXCEPT !.unm = a, !.pc = "unmounting", !.back = "again", !.groups = b]
    BY <1>11 DEF Remount
  <2>3. Keeps
    <3>1. CASE \E ok \in BOOLEAN : End(ok)
      BY <3>1, EndKeeps
    <3>2. CASE \E a, b : cli' = [cli EXCEPT !.unm = a, !.pc = "unmounting", !.back = "again", !.groups = b]
      BY <3>2 DEF Keeps
    <3> QED
      BY <2>2, <3>1, <3>2
  <2> QED
    BY <2>1, <2>3 DEF Other
<1>12. CASE RemountMounts
  <2>1. cli.pc = "again"
    BY <1>12 DEF RemountMounts
  <2>2. End(FALSE) \/ cli' = [cli EXCEPT !.pc = "mounting", !.back = "save"]
    BY <1>12 DEF RemountMounts
  <2>3. CASE End(FALSE)
    BY <2>1, <2>3, EndKeeps DEF Other
  <2>4. CASE cli' = [cli EXCEPT !.pc = "mounting", !.back = "save"]
    BY <2>1, <2>4 DEF Other, Keeps
  <2> QED
    BY <2>2, <2>3, <2>4
<1> QED
  BY <1>1, <1>2, <1>3, <1>4, <1>5, <1>6, <1>7, <1>8, <1>9, <1>10, <1>11, <1>12

(* A client's copies of the table stay a record.                              *)
LEMMA CachedKept ==
    ASSUME Whole,
           \/ cached' = cached \/ Forget("cli") \/ FetchPaths("cli") \/ FetchInfo("cli")
           \/ cached' = [cached EXCEPT !["cli"] = KeepInfo(@)]
           \/ cached' = [cached EXCEPT !["cli"] = KeepInfo([@ EXCEPT !.info = <<table>>])]
    PROVE  /\ DOMAIN cached' = DOMAIN cached /\ {"paths", "info"} \subseteq DOMAIN cached'["cli"]
           /\ cached'["cli"].paths \in {cached["cli"].paths, Unread, <<table>>}
           /\ cached'["cli"].info \in {cached["cli"].info, Unread, <<table>>}
<1>1. "cli" \in DOMAIN cached /\ {"paths", "info"} \subseteq DOMAIN cached["cli"]
  BY DEF Whole
<1>2. ASSUME NEW c, {"paths", "info"} \subseteq DOMAIN c
      PROVE  /\ DOMAIN KeepInfo(c) = DOMAIN c /\ KeepInfo(c).paths = c.paths
             /\ KeepInfo(c).info \in {c.info, Unread}
  BY <1>2 DEF KeepInfo
<1>3. CASE cached' = cached
  BY <1>3, <1>1
<1>4. CASE Forget("cli")
  BY <1>1, <1>4 DEF Forget
<1>5. CASE FetchPaths("cli")
  BY <1>1, <1>5 DEF FetchPaths
<1>6. CASE FetchInfo("cli")
  BY <1>1, <1>6 DEF FetchInfo
<1>7. CASE cached' = [cached EXCEPT !["cli"] = KeepInfo(@)]
  BY <1>1, <1>2, <1>7
<1>8. CASE cached' = [cached EXCEPT !["cli"] = KeepInfo([@ EXCEPT !.info = <<table>>])]
  <2> DEFINE c == [cached["cli"] EXCEPT !.info = <<table>>]
  <2>1. {"paths", "info"} \subseteq DOMAIN c /\ c.paths = cached["cli"].paths /\ c.info = <<table>>
        /\ DOMAIN c = DOMAIN cached["cli"]
    BY <1>1
  <2>2. cached'["cli"] = KeepInfo(c) /\ DOMAIN cached' = DOMAIN cached
    BY <1>1, <1>8
  <2> HIDE DEF c
  <2> QED
    BY <1>2, <2>1, <2>2
<1> QED
  BY <1>3, <1>4, <1>5, <1>6, <1>7, <1>8

\* What a step of the command line does to the copies.
Copies ==
    /\ DOMAIN cached' = DOMAIN cached /\ {"paths", "info"} \subseteq DOMAIN cached'["cli"]
    /\ cached'["cli"].paths \in {cached["cli"].paths, Unread, <<table>>}
    /\ cached'["cli"].info \in {cached["cli"].info, Unread, <<table>>}

(* Every command keeps them, clears them, or reads the table as it is.        *)
LEMMA CliCopies ==
    ASSUME Whole, Cli
    PROVE  Copies
<1>1. \/ cached' = cached \/ Forget("cli") \/ FetchPaths("cli") \/ FetchInfo("cli")
      \/ cached' = [cached EXCEPT !["cli"] = KeepInfo(@)]
      \/ cached' = [cached EXCEPT !["cli"] = KeepInfo([@ EXCEPT !.info = <<table>>])]
  BY DEF Cli, Begin, LoadName, PrepareReads, PrepareMount, PrepareEnds, Unmounting, UnmountingEnds, AllNames,
         MountEnds, Save, StartStops, FsStart, FsStop, CollectReads, CollectName, CollectContainer, Collected,
         CollectPath, UnmountCaches, CollectAll, StopAll, DeleteCache, SyncContainer, WaitForSync, StopSyncing,
         Modify, Remount, RemountMounts, OnlyCli, clients, BeginMount
<1> QED
  BY <1>1, CachedKept DEF Copies

(* The numbers stay numbers whatever a command does.                          *)
LEMMA CliPlaced ==
    ASSUME Placed, Cli
    PROVE  Placed'
<1>1. CASE Unmounting
  <2>1. Unmount(Head(cli.unm)) \/ UNCHANGED driver
    BY <1>1 DEF Unmounting
  <2> QED
    BY <2>1, UnmountPlaced, SamePlaced DEF driver
<1>2. CASE StartStops \/ FsStop
  BY <1>2, NonePlaced DEF StartStops, FsStop, DriverStops, Placed
<1>3. CASE FsStart
  BY <1>3, NonePlaced DEF FsStart
<1>4. CASE ~(Unmounting \/ StartStops \/ FsStop \/ FsStart)
  <2>1. UNCHANGED <<table, next>>
    BY <1>4
       DEF Cli, Begin, LoadName, PrepareReads, PrepareMount, PrepareEnds, UnmountingEnds, AllNames,
           MountEnds, Save, CollectReads, CollectName, CollectContainer, Collected, CollectPath,
           UnmountCaches, CollectAll, StopAll, DeleteCache, SyncContainer, WaitForSync, StopSyncing,
           Modify, Remount, RemountMounts, OnlyCli, driver
  <2> QED
    BY <2>1, SamePlaced
<1> QED
  BY <1>1, <1>2, <1>3, <1>4

(* Another command stays another command.                                     *)
LEMMA OtherStep ==
    ASSUME IInv, Keeps, ~Unmounts, cli.pc # "idle", Copies, Placed'
    PROVE  IInv'
<1> USE DEF IInv
<1>1. ~Unmounts'
  BY DEF Keeps, Unmounts
<1>2. Whole'
  BY DEF Keeps, Copies, Whole
<1> QED
  BY <1>1, <1>2 DEF Course, Read, Queued

(* The copies of an unmount stay what they are, while it works.               *)
LEMMA ReadKept ==
    ASSUME IInv, Unmounts, Placed', Later, Copies, cli'.before = cli.before
    PROVE  Read'
<1> USE DEF IInv
<1>1. next \in Nat /\ next' \in Nat /\ next <= next'
  BY DEF Placed, Later
<1>2. \A i \in DOMAIN cli.before : i \in Nat /\ i < next
  BY DEF Read
<1>3. \A i \in DOMAIN cli'.before : i \in Nat /\ i < next'
  BY <1>1, <1>2
<1>4. Known(table)
  BY DEF Known, Placed
<1>5. ASSUME NEW tab, Known(tab), IsFiniteSet(DOMAIN tab)
      PROVE  /\ IsFiniteSet(DOMAIN tab) /\ \A i \in DOMAIN tab : i \in Nat /\ i < next'
             /\ \A i \in DOMAIN table' : /\ i \in DOMAIN cli'.before => i \in DOMAIN tab
                                         /\ i \in DOMAIN tab => tab[i] = table'[i]
  BY <1>2, <1>5, KnownKept
<1>6. ASSUME NEW copy, copy \in {cached["cli"].paths, cached["cli"].info, Unread, <<table>>}, copy # Unread
      PROVE  Known(copy[1]) /\ IsFiniteSet(DOMAIN copy[1])
  <2>1. CASE copy = cached["cli"].paths
    <3>1. Known(cached["cli"].paths[1])
      BY <1>6, <2>1 DEF Read
    <3> QED
      BY <2>1, <3>1 DEF Known
  <2>2. CASE copy = cached["cli"].info
    <3>1. Known(cached["cli"].info[1])
      BY <1>6, <2>2 DEF Read
    <3> QED
      BY <2>2, <3>1 DEF Known
  <2>3. CASE copy = <<table>>
    <3>1. copy[1] = table
      BY <2>3
    <3> QED
      BY <1>4, <3>1 DEF Known
  <2> QED
    BY <1>6, <2>1, <2>2, <2>3
<1>7. ASSUME cached'["cli"].paths # Unread
      PROVE  Known(cached["cli"].paths[1])'
  <2> DEFINE copy == cached'["cli"].paths
  <2>1. copy \in {cached["cli"].paths, Unread, <<table>>}
    BY DEF Copies
  <2>2. Known(copy[1]) /\ IsFiniteSet(DOMAIN copy[1])
    BY <1>6, <1>7, <2>1
  <2> QED
    BY <1>5, <2>2 DEF Known
<1>8. ASSUME cached'["cli"].info # Unread
      PROVE  Known(cached["cli"].info[1])'
  <2> DEFINE copy == cached'["cli"].info
  <2>1. copy \in {cached["cli"].info, Unread, <<table>>}
    BY DEF Copies
  <2>2. Known(copy[1]) /\ IsFiniteSet(DOMAIN copy[1])
    BY <1>6, <1>8, <2>1
  <2> QED
    BY <1>5, <2>2 DEF Known
<1> QED
  BY <1>3, <1>7, <1>8 DEF Read, Unread

-----------------------------------------------------------------------------
(* The steps of wl container unmount. *)

(* A command begins with nothing read, collected or seen.                     *)
LEMMA BeginStep ==
    ASSUME IInv, Begin, Copies, Placed'
    PROVE  IInv'
<1> USE DEF IInv
<1>1. PICK req \in Requests[kind] :
          cli' = [Idle EXCEPT !.req = req, !.names = req.names, !.before = table,
                              !.pc = IF req.kind = "mount" THEN "names" ELSE req.kind]
  BY DEF Begin
<1>2. Forget("cli") /\ UNCHANGED <<table, next>>
  BY DEF Begin, driver
<1>3. /\ DOMAIN cli' = DOMAIN Idle /\ cli'.req = req
      /\ cli'.pc = IF req.kind = "mount" THEN "names" ELSE req.kind
      /\ cli'.unm = << >> /\ cli'.cacheIds = << >> /\ cli'.seen = {} /\ cli'.below = {}
      /\ cli'.before = table
  BY <1>1 DEF Idle
<1>4. Whole'
  BY <1>3 DEF Whole, Copies
<1>5. Unmounts' => cli'.pc \in {"unmount", "path"} /\ cli'.req.kind = cli'.pc
  BY <1>3 DEF Unmounts
<1>6. cached'["cli"].paths = Unread /\ cached'["cli"].info = Unread
  BY <1>2 DEF Forget, Whole
<1>7. << >> \in Seq(Nat) /\ Range(<< >>) = {}
  BY DEF Range
<1>8. Course'
  BY <1>3, <1>5 DEF Course
<1>9. Read'
  BY <1>2, <1>3, <1>6 DEF Read, Placed, Unread
<1>10. ASSUME Unmounts', cli'.pc # "path"
       PROVE  Unwanted(table)' = {}
  BY <1>3, <1>5, <1>10 DEF Unwanted
<1>11. Queued'
  BY <1>3, <1>7, <1>10 DEF Queued
<1> QED
  BY <1>4, <1>8, <1>9, <1>11

(* A step that neither collects nor unmounts.                                 *)
LEMMA QueuedKept ==
    ASSUME IInv, Unmounts, UNCHANGED <<table, next, jobs, caches>>, Keeps,
           cli'.unm = cli.unm, cli'.cacheIds = cli.cacheIds, cli'.seen = cli.seen,
           cli'.below = cli.below, cli'.before = cli.before,
           cli.pc = "path" => cli'.pc = "path"
    PROVE  Queued'
<1>1. \A i : Busy(i)' = Busy(i)
  BY DEF Busy, JobsOf
<1>2. Unwanted(table)' = Unwanted(table)
  BY DEF Unwanted, FindAll, ByContainerPath, Keeps
<1> QED
  BY <1>1, <1>2 DEF IInv, Queued

(* The table is read.                                                         *)
LEMMA ReadsStep ==
    ASSUME IInv, Unmounts, CollectReads, Copies, Placed'
    PROVE  IInv'
<1> USE DEF IInv
<1>1. cli' = cli /\ UNCHANGED <<table, next, jobs, caches>>
  BY DEF CollectReads, OnlyCli, driver, disk
<1>2. Whole' /\ Course'
  BY <1>1 DEF Whole, Copies, Course, Unmounts
<1>3. Read'
  BY <1>1, ReadKept, SamePlaced
<1>4. Queued'
  BY <1>1, QueuedKept DEF Keeps
<1> QED
  BY <1>2, <1>3, <1>4

(* The manifests of a name are loaded.                                        *)
LEMMA NameStep ==
    ASSUME IInv, Unmounts, CollectName, Copies, Placed'
    PROVE  IInv'
<1> USE DEF IInv
<1>1. PICK a, b, d : cli' = [cli EXCEPT !.names = a, !.conts = b, !.fails = d]
  BY DEF CollectName
<1>2. cli.pc = "unmount" /\ UNCHANGED <<table, next, jobs, caches>>
  BY DEF CollectName, OnlyCli, driver, disk
<1>3. Keeps /\ cli'.pc = cli.pc /\ cli'.back = cli.back
  BY <1>1 DEF Keeps
<1>4. /\ cli'.unm = cli.unm /\ cli'.cacheIds = cli.cacheIds /\ cli'.seen = cli.seen
      /\ cli'.below = cli.below /\ cli'.before = cli.before
  BY <1>1
<1>5. Whole' /\ Course'
  BY <1>3, <1>4 DEF Whole, Copies, Course, Unmounts, Keeps
<1>6. Read'
  BY <1>2, <1>4, ReadKept, SamePlaced
<1>7. Queued'
  BY <1>2, <1>3, <1>4, QueuedKept
<1> QED
  BY <1>5, <1>6, <1>7

(* What is found for a container is all that the table had of it when the     *)
(* command began, with its subcontainers, and a cache is among what is        *)
(* unmounted first only when it belongs to a subcontainer.                    *)
LEMMA CollectedIs ==
    ASSUME IInv, NEW con, NEW paths, Known(paths), NEW info, cli.req.subs => Known(info)
    PROVE  /\ CollectByName(paths, info, con) \in Seq(Nat)
           /\ CacheIdsOf(paths, con) \in Seq(Nat)
           /\ \A i \in Range(CollectByName(paths, info, con)) : i < next
           /\ \A i \in DOMAIN table \intersect DOMAIN cli.before :
                  /\ table[i].con = con =>
                         i \in Range(CollectByName(paths, info, con)) \union Range(CacheIdsOf(paths, con))
                  /\ table[i].sub \in Below(info, {<<con>>}) => i \in Range(CollectByName(paths, info, con))
           /\ \A i \in Range(CollectByName(paths, info, con)) \intersect DOMAIN table : ~Busy(i)
<1> DEFINE mine == {i \in UniquePaths(paths, con) : ~IsCache(paths, i)}
           kept == {i \in UniquePaths(paths, con) : IsCache(paths, i)}
           subs == Subs(info, {<<con>>})
           with == WithPms(paths, Sorted(mine))
           rest == IF cli.req.subs THEN Sorted(subs) ELSE << >>
<1>1. /\ DOMAIN paths \subseteq Nat /\ IsFiniteSet(DOMAIN paths)
      /\ \A i \in DOMAIN paths : i < next
      /\ \A i \in DOMAIN table : (i \in DOMAIN cli.before => i \in DOMAIN paths)
                                 /\ (i \in DOMAIN paths => paths[i] = table[i])
  BY DEF Known
<1>2. mine \subseteq DOMAIN paths /\ kept \subseteq DOMAIN paths
      /\ {i \in DOMAIN paths : paths[i].con = con} = mine \union kept
  BY DEF UniquePaths
<1>3. ASSUME cli.req.subs
      PROVE  /\ DOMAIN info \subseteq Nat /\ IsFiniteSet(DOMAIN info)
             /\ \A i \in DOMAIN info : i < next
             /\ \A i \in DOMAIN table : (i \in DOMAIN cli.before => i \in DOMAIN info)
                                        /\ (i \in DOMAIN info => info[i] = table[i])
  BY <1>3 DEF Known
<1>4. /\ subs \subseteq {i \in DOMAIN info : info[i].sub # NoParent}
      /\ SubsOf(info, {<<con>>} \union NamesIn(info, subs)) \subseteq subs
  <2>1. NoParent \notin {<<con>>}
    BY DEF NoParent
  <2> QED
    BY <2>1, SubsIs
<1>5. mine \in SUBSET Nat /\ IsFiniteSet(mine) /\ kept \in SUBSET Nat /\ IsFiniteSet(kept)
      /\ (cli.req.subs => subs \in SUBSET Nat /\ IsFiniteSet(subs))
  <2> HIDE DEF mine, kept, subs
  <2>1. subs \subseteq DOMAIN info
    BY <1>4
  <2> QED
    BY <1>1, <1>2, <1>3, <2>1, FS_Subset
<1>6. CollectByName(paths, info, con) = with \o rest /\ CacheIdsOf(paths, con) = Sorted(kept)
  BY DEF CollectByName, CacheIdsOf
<1> HIDE DEF mine, kept, subs
<1>7. with \in Seq(Nat) /\ mine \subseteq Range(with)
      /\ \A i \in Range(with) : i \in mine \/ (i \in DOMAIN paths /\ paths[i].pm)
  BY <1>1, <1>2, <1>5, SortedIs, WithPmsAre
<1>8. rest \in Seq(Nat) /\ Range(rest) = IF cli.req.subs THEN subs ELSE {}
  <2>1. cli.req.subs => Sorted(subs) \in Seq(Nat) /\ Range(Sorted(subs)) = subs
    BY <1>5, SortedIs
  <2>2. << >> \in Seq(Nat) /\ Range(<< >>) = {}
    BY DEF Range
  <2> QED
    BY <2>1, <2>2
<1>9. CacheIdsOf(paths, con) \in Seq(Nat) /\ Range(CacheIdsOf(paths, con)) = kept
  <2>1. Sorted(kept) \in Seq(Nat) /\ Range(Sorted(kept)) = kept
    BY <1>5, SortedIs
  <2> QED
    BY <1>6, <2>1
<1> HIDE DEF with, rest
<1>10. with \o rest \in Seq(Nat) /\ Range(with \o rest) = Range(with) \union Range(rest)
  BY <1>7, <1>8, RangeOfBoth
<1>11. ASSUME NEW i \in Range(with \o rest)
       PROVE  i < next /\ (i \in DOMAIN table => ~Busy(i))
  <2>1. CASE i \in mine
    <3>1. i < next /\ (i \in DOMAIN table => paths[i] = table[i])
      BY <1>1, <1>2, <2>1
    <3> QED
      BY <2>1, <3>1 DEF mine, IsCache, Busy
  <2>2. CASE i \in DOMAIN paths /\ paths[i].pm
    BY <1>1, <2>2 DEF Busy
  <2>3. CASE cli.req.subs /\ i \in subs
    BY <1>3, <1>4, <2>3 DEF Busy
  <2> QED
    BY <1>7, <1>8, <1>10, <2>1, <2>2, <2>3
<1>12. ASSUME NEW i \in DOMAIN table \intersect DOMAIN cli.before, table[i].con = con
       PROVE  i \in Range(with \o rest) \union kept
  <2>1. i \in DOMAIN paths /\ paths[i].con = con
    BY <1>1, <1>12
  <2>2. i \in mine \union kept
    BY <1>2, <2>1
  <2>3. mine \subseteq Range(with \o rest)
    BY <1>7, <1>10, Zenon
  <2> QED
    BY <2>2, <2>3
<1>13. ASSUME NEW i \in DOMAIN table \intersect DOMAIN cli.before, table[i].sub \in Below(info, {<<con>>})
       PROVE  i \in Range(with \o rest)
  <2>1. cli.req.subs /\ table[i].sub \in {<<con>>} \union NamesIn(info, subs)
    BY <1>13 DEF Below, subs
  <2>2. i \in SubsOf(info, {<<con>>} \union NamesIn(info, subs))
    BY <1>3, <2>1 DEF SubsOf
  <2> QED
    BY <1>4, <1>8, <1>10, <2>1, <2>2
<1> QED
  BY <1>6, <1>9, <1>10, <1>11, <1>12, <1>13

(* One container more is seen, with what was mounted of it.                   *)
LEMMA ContainerStep ==
    ASSUME IInv, Unmounts, CollectContainer, Copies, Placed'
    PROVE  IInv'
<1> USE DEF IInv
<1> DEFINE m == Head(cli.conts)
           paths == PathsOf("cli")
           info == InfoOf("cli")
           found == CollectByName(paths, info, m.con)
           below == cli.below \union Below(info, {<<m.con>>})
           unm == Distinct(cli.unm \o CollectByName(paths, info, m.con))
           cacheIds == Distinct(cli.cacheIds \o CacheIdsOf(paths, m.con))
<1>1. cli' = [cli EXCEPT !.conts = Tail(@), !.seen = @ \union {m}, !.below = below,
                         !.unm = unm, !.cacheIds = cacheIds]
  BY DEF CollectContainer
<1>2. cli.pc = "unmount" /\ UNCHANGED <<table, next, jobs, caches>>
  BY DEF CollectContainer, OnlyCli, driver, disk
<1>3. Known(paths) /\ (cli.req.subs => Known(info))
  BY DEF CollectContainer, Read, PathsOf, InfoOf
<1> HIDE DEF m, unm, cacheIds, below, paths, info
<1>4. Keeps /\ cli'.pc = cli.pc /\ cli'.back = cli.back /\ cli'.before = cli.before
  BY <1>1 DEF Keeps
<1>5. /\ cli'.unm = unm /\ cli'.cacheIds = cacheIds
      /\ cli'.seen = cli.seen \union {m} /\ cli'.below = below
  BY <1>1 DEF Whole, Idle
<1>6. Whole'
  BY <1>4 DEF Whole, Copies, Keeps
<1>7. Course'
  BY <1>2, <1>4 DEF Course, Unmounts, Keeps
<1>8. Read'
  BY <1>2, <1>4, ReadKept, SamePlaced
<1>9. /\ found \in Seq(Nat) /\ CacheIdsOf(paths, m.con) \in Seq(Nat)
      /\ \A i \in Range(found) : i < next
      /\ \A i \in DOMAIN table \intersect DOMAIN cli.before :
             /\ table[i].con = m.con => i \in Range(found) \union Range(CacheIdsOf(paths, m.con))
             /\ table[i].sub \in Below(info, {<<m.con>>}) => i \in Range(found)
      /\ \A i \in Range(found) \intersect DOMAIN table : ~Busy(i)
  BY <1>3, CollectedIs
<1> HIDE DEF found
<1>10. cli.unm \in Seq(Nat) /\ cli.cacheIds \in Seq(Nat)
  BY DEF Queued
<1>11. unm \in Seq(Nat) /\ Range(unm) = Range(cli.unm) \union Range(found)
  <2> DEFINE both == cli.unm \o found
  <2>1. both \in Seq(Nat) /\ Range(both) = Range(cli.unm) \union Range(found)
    BY <1>9, <1>10, RangeOfBoth
  <2>2. unm = Distinct(both)
    BY DEF unm, found
  <2> HIDE DEF both
  <2> QED
    BY <2>1, <2>2, DistinctIs
<1>12. cacheIds \in Seq(Nat) /\ Range(cacheIds) = Range(cli.cacheIds) \union Range(CacheIdsOf(paths, m.con))
  <2> DEFINE both == cli.cacheIds \o CacheIdsOf(paths, m.con)
  <2>1. both \in Seq(Nat) /\ Range(both) = Range(cli.cacheIds) \union Range(CacheIdsOf(paths, m.con))
    BY <1>9, <1>10, RangeOfBoth
  <2>2. cacheIds = Distinct(both)
    BY DEF cacheIds
  <2> HIDE DEF both
  <2> QED
    BY <2>1, <2>2, DistinctIs
<1>13. ASSUME NEW i \in Unwanted(table)', i \in DOMAIN cli'.before
       PROVE  i \in Range(unm) \union Range(cacheIds)
  <2>1. i \in DOMAIN table /\ i \in DOMAIN cli.before
    BY <1>2, <1>4, <1>13 DEF Unwanted
  <2>2. i \in Unwanted(table) \/ table[i].con = m.con \/ table[i].sub \in Below(info, {<<m.con>>})
    <3>1. \/ \E x \in cli.seen \union {m} : table[i].con = x.con
          \/ cli.req.kind = "path" /\ i \in FindAll(table, cli.req.con)
          \/ table[i].sub \in below
      BY <1>2, <1>4, <1>5, <1>13 DEF Unwanted, Keeps, FindAll, ByContainerPath
    <3> QED
      BY <2>1, <3>1 DEF Unwanted, below
  <2>3. CASE i \in Unwanted(table)
    BY <1>2, <1>11, <1>12, <2>1, <2>3 DEF Queued
  <2>4. CASE table[i].con = m.con \/ table[i].sub \in Below(info, {<<m.con>>})
    BY <1>9, <1>11, <1>12, <2>1, <2>4
  <2> QED
    BY <2>2, <2>3, <2>4
<1>14. \A i \in Range(unm) : i < next
  BY <1>9, <1>11 DEF Queued
<1>15. \A i \in Range(unm) \intersect DOMAIN table' : ~Busy(i)'
  <2>1. \A i : Busy(i)' = Busy(i)
    BY <1>2 DEF Busy, JobsOf
  <2> QED
    BY <1>2, <1>9, <1>11, <2>1 DEF Queued
<1>16. Queued'
  BY <1>2, <1>5, <1>11, <1>12, <1>13, <1>14, <1>15 DEF Queued
<1> QED
  BY <1>6, <1>7, <1>8, <1>16

(* All names are collected, and the unmounting begins.                        *)
LEMMA CollectedStep ==
    ASSUME IInv, Unmounts, Collected, Copies, Placed'
    PROVE  IInv'
<1> USE DEF IInv
<1>1. cli.pc = "unmount" /\ UNCHANGED <<table, next, jobs, caches>>
  BY DEF Collected, driver
<1>2. End(FALSE) \/ cli' = [cli EXCEPT !.pc = "unmounting", !.back = "caches"]
  BY DEF Collected
<1>3. CASE End(FALSE)
  <2>1. Keeps /\ cli'.pc = "idle"
    BY <1>3, EndKeeps DEF End, Whole, Idle
  <2> QED
    BY <2>1 DEF Whole, Copies, Keeps, Course, Read, Queued, Unmounts
<1>4. CASE cli' = [cli EXCEPT !.pc = "unmounting", !.back = "caches"]
  <2>1. Keeps /\ cli'.pc = "unmounting" /\ cli'.back = "caches"
    BY <1>4 DEF Keeps, Whole, Idle
  <2>2. /\ cli'.unm = cli.unm /\ cli'.cacheIds = cli.cacheIds /\ cli'.seen = cli.seen
        /\ cli'.below = cli.below /\ cli'.before = cli.before
    BY <1>4
  <2>3. Whole' /\ Course'
    BY <2>1, <2>2 DEF Whole, Copies, Course, Unmounts, Keeps
  <2>4. Read'
    BY <1>1, <2>2, ReadKept, SamePlaced
  <2>5. Queued'
    BY <1>1, <2>1, <2>2, QueuedKept
  <2> QED
    BY <2>3, <2>4, <2>5
<1> QED
  BY <1>2, <1>3, <1>4

(* By path: what was mounted when the command began is found at once.         *)
LEMMA PathStep ==
    ASSUME IInv, Unmounts, CollectPath, Copies, Placed'
    PROVE  IInv'
<1> USE DEF IInv
<1> DEFINE paths == PathsOf("cli")
           info == InfoOf("cli")
           ids == FindAll(paths, cli.req.con)
           names == NamesIn(info, ids)
           subs == IF cli.req.subs THEN Subs(info, names) ELSE {}
           mine == {i \in ids : ~IsCache(paths, i)} \union subs
           kept == {i \in ids : IsCache(paths, i)}
           below == Below(info, names)
<1>1. \/ End(FALSE)
      \/ cli' = [cli EXCEPT !.unm = Sorted(mine), !.cacheIds = Sorted(kept), !.below = below,
                            !.pc = "unmounting", !.back = "caches"]
  BY DEF CollectPath
<1>2. cli.pc = "path" /\ UNCHANGED <<table, next, jobs, caches>>
  BY DEF CollectPath, OnlyCli, driver, disk
<1>3. Known(paths) /\ Known(info)
  BY DEF CollectPath, Read, PathsOf, InfoOf
<1> HIDE DEF paths, info
<1>4. CASE End(FALSE)
  <2>1. Keeps /\ cli'.pc = "idle"
    BY <1>4, EndKeeps DEF End, Whole, Idle
  <2> QED
    BY <2>1 DEF Whole, Copies, Keeps, Course, Read, Queued, Unmounts
<1>5. CASE cli' = [cli EXCEPT !.unm = Sorted(mine), !.cacheIds = Sorted(kept), !.below = below,
                              !.pc = "unmounting", !.back = "caches"]
  <2>1. /\ DOMAIN paths \subseteq Nat /\ IsFiniteSet(DOMAIN paths)
        /\ \A i \in DOMAIN paths : i < next
        /\ \A i \in DOMAIN table : (i \in DOMAIN cli.before => i \in DOMAIN paths)
                                   /\ (i \in DOMAIN paths => paths[i] = table[i])
    BY <1>3 DEF Known
  <2>2. /\ DOMAIN info \subseteq Nat /\ IsFiniteSet(DOMAIN info)
        /\ \A i \in DOMAIN info : i < next
        /\ \A i \in DOMAIN table : (i \in DOMAIN cli.before => i \in DOMAIN info)
                                   /\ (i \in DOMAIN info => info[i] = table[i])
    BY <1>3 DEF Known
  <2>3. ids \subseteq DOMAIN paths
    BY DEF FindAll, ByContainerPath
  <2>4. /\ subs \subseteq {i \in DOMAIN info : info[i].sub # NoParent}
        /\ cli.req.subs => SubsOf(info, names \union NamesIn(info, subs)) \subseteq subs
    <3>1. NoParent \notin names
      BY NamesInAre
    <3> HIDE DEF names
    <3> QED
      BY <3>1, SubsIs
  <2>5. mine = {i \in ids : ~IsCache(paths, i)} \union subs /\ kept = {i \in ids : IsCache(paths, i)}
        /\ below = IF cli.req.subs THEN names \union NamesIn(info, subs) ELSE {}
    BY DEF Below
  <2> HIDE DEF ids, names, subs, mine, kept, below
  <2>6. mine \in SUBSET Nat /\ IsFiniteSet(mine) /\ kept \in SUBSET Nat /\ IsFiniteSet(kept)
    <3>1. IsFiniteSet(DOMAIN paths \union DOMAIN info)
      BY <2>1, <2>2, FS_Union
    <3>2. mine \subseteq DOMAIN paths \union DOMAIN info /\ kept \subseteq DOMAIN paths
      BY <2>3, <2>4, <2>5
    <3> QED
      BY <2>1, <2>2, <3>1, <3>2, FS_Subset
  <2>7. /\ Sorted(mine) \in Seq(Nat) /\ Range(Sorted(mine)) = mine
        /\ Sorted(kept) \in Seq(Nat) /\ Range(Sorted(kept)) = kept
    BY <2>6, SortedIs
  <2>8. Keeps /\ cli'.before = cli.before /\ cli'.seen = cli.seen
    BY <1>5 DEF Keeps
  <2>9. /\ cli'.unm = Sorted(mine) /\ cli'.cacheIds = Sorted(kept) /\ cli'.below = below
        /\ cli'.pc = "unmounting" /\ cli'.back = "caches"
    BY <1>5 DEF Whole, Idle
  <2>10. cli.req.kind = "path" /\ cli.seen = {}
    BY <1>2 DEF Course
  <2>11. Whole' /\ Course'
    BY <2>8, <2>9, <2>10 DEF Whole, Copies, Course, Keeps
  <2>12. Read'
    BY <1>2, <2>8, ReadKept, SamePlaced
  <2>13. ASSUME NEW i \in mine
         PROVE  i < next /\ (i \in DOMAIN table => ~Busy(i))
    <3>1. CASE i \in ids /\ ~IsCache(paths, i)
      <4>1. i < next /\ (i \in DOMAIN table => paths[i] = table[i])
        BY <2>1, <2>3, <3>1
      <4> QED
        BY <3>1, <4>1 DEF IsCache, Busy
    <3>2. CASE i \in subs
      BY <2>2, <2>4, <3>2 DEF Busy
    <3> QED
      BY <2>5, <3>1, <3>2
  <2>14. ASSUME NEW i \in Unwanted(table)', i \in DOMAIN cli'.before
         PROVE  i \in mine \union kept
    <3>1. i \in DOMAIN table /\ i \in DOMAIN cli.before
      BY <1>2, <2>8, <2>14 DEF Unwanted
    <3>2. \/ \E x \in cli.seen : table[i].con = x.con
          \/ i \in FindAll(table, cli.req.con)
          \/ table[i].sub \in below
      BY <1>2, <2>8, <2>9, <2>14 DEF Unwanted, Keeps, FindAll, ByContainerPath
    <3>3. CASE i \in FindAll(table, cli.req.con)
      <4>1. i \in DOMAIN paths /\ paths[i] = table[i]
        BY <2>1, <3>1
      <4>2. i \in ids
        BY <3>3, <4>1 DEF ids, FindAll, ByContainerPath
      <4> QED
        BY <2>5, <4>2
    <3>4. CASE table[i].sub \in below
      <4>1. cli.req.subs /\ table[i].sub \in names \union NamesIn(info, subs)
        BY <2>5, <3>4
      <4>2. i \in DOMAIN info /\ info[i] = table[i]
        BY <2>2, <3>1
      <4>3. i \in SubsOf(info, names \union NamesIn(info, subs))
        BY <4>1, <4>2 DEF SubsOf
      <4> QED
        BY <2>4, <2>5, <4>1, <4>3
    <3> QED
      BY <2>10, <3>2, <3>3, <3>4
  <2>15. \A i \in mine \intersect DOMAIN table' : ~Busy(i)'
    <3>1. \A i : Busy(i)' = Busy(i)
      BY <1>2 DEF Busy, JobsOf
    <3> QED
      BY <1>2, <2>13, <3>1
  <2>16. Queued'
    BY <1>2, <2>7, <2>9, <2>13, <2>14, <2>15 DEF Queued
  <2> QED
    BY <2>11, <2>12, <2>16
<1> QED
  BY <1>1, <1>4, <1>5

(* One identifier is unmounted, or the command fails.                         *)
LEMMA UnmountingStep ==
    ASSUME IInv, Unmounts, Unmounting, Copies, Placed'
    PROVE  IInv'
<1> USE DEF IInv
<1> DEFINE id == Head(cli.unm)
<1>1. cli.pc = "unmounting" /\ cli.unm # << >> /\ UNCHANGED <<jobs, caches>>
  BY DEF Unmounting, disk
<1>2. cli.back = "caches"
  BY <1>1 DEF Course
<1>3. \/ Unmount(id) /\ cli' = [cli EXCEPT !.unm = Tail(@)]
      \/ cli' = [cli EXCEPT !.pc = "idle", !.ok = FALSE]
  BY <1>2 DEF Unmounting
<1>4. CASE Unmount(id) /\ cli' = [cli EXCEPT !.unm = Tail(@)]
  <2>1. /\ Keeps /\ cli'.pc = cli.pc /\ cli'.back = cli.back /\ cli'.before = cli.before
        /\ cli'.cacheIds = cli.cacheIds /\ cli'.seen = cli.seen /\ cli'.below = cli.below
    BY <1>4 DEF Keeps
  <2>2. cli'.unm = Tail(cli.unm)
    BY <1>4 DEF Whole, Idle
  <2>3. Later /\ DOMAIN table' = DOMAIN table \ {id} /\ \A i \in DOMAIN table' : table'[i] = table[i]
    BY <1>4, UnmountPlaced
  <2>4. Whole' /\ Course'
    BY <1>1, <2>1 DEF Whole, Copies, Course, Unmounts, Keeps
  <2>5. Read'
    BY <2>1, <2>3, ReadKept
  <2>6. cli.unm \in Seq(Nat)
    BY DEF Queued
  <2>7. Tail(cli.unm) \in Seq(Nat) /\ Range(cli.unm) = {id} \union Range(Tail(cli.unm))
    BY <1>1, <2>6, RangeOfTail
  <2>8. ASSUME NEW i \in Range(cli'.unm)
        PROVE  i < next' /\ (i \in DOMAIN table' => ~Busy(i)')
    <3>1. i \in Range(cli.unm) /\ i < next /\ next' = next
      BY <1>4, <2>2, <2>7 DEF Queued, Unmount
    <3>2. ASSUME i \in DOMAIN table' PROVE ~Busy(i)'
      <4>1. table'[i] = table[i] /\ i \in DOMAIN table
        BY <2>3, <3>2
      <4>2. ~Busy(i)
        BY <3>1, <4>1 DEF Queued
      <4> QED
        BY <1>1, <4>1, <4>2 DEF Busy, JobsOf
    <3> QED
      BY <3>1, <3>2
  <2>9. ASSUME NEW i \in Unwanted(table)', i \in DOMAIN cli'.before
        PROVE  i \in Range(cli'.unm) \union Range(cli'.cacheIds)
    <3>1. i \in Unwanted(table')
      BY <2>1, <2>9 DEF Unwanted, Keeps
    <3>2. i < next /\ i \in DOMAIN cli.before
      BY <2>1, <2>9 DEF Read
    <3>3. i \in Unwanted(table) /\ i # id
      BY <2>3, <3>1, <3>2, UnwantedKept DEF Unwanted
    <3>4. i \in Range(cli.unm) \union Range(cli.cacheIds)
      BY <1>1, <3>2, <3>3 DEF Queued
    <3> QED
      BY <2>1, <2>2, <2>7, <3>3, <3>4
  <2>10. cli'.unm \in Seq(Nat) /\ cli'.cacheIds \in Seq(Nat)
    BY <2>1, <2>2, <2>7 DEF Queued
  <2>11. Queued'
    BY <2>8, <2>9, <2>10 DEF Queued
  <2> QED
    BY <2>4, <2>5, <2>11
<1>5. CASE cli' = [cli EXCEPT !.pc = "idle", !.ok = FALSE]
  <2>1. Keeps /\ cli'.pc = "idle"
    BY <1>5 DEF Keeps, Whole, Idle
  <2> QED
    BY <2>1 DEF Whole, Copies, Keeps, Course, Read, Queued, Unmounts
<1> QED
  BY <1>3, <1>4, <1>5

(* What was to be unmounted is, and the caches are next.                      *)
LEMMA UnmountedStep ==
    ASSUME IInv, Unmounts, UnmountingEnds, Copies, Placed'
    PROVE  IInv'
<1> USE DEF IInv
<1>1. /\ cli.pc = "unmounting" /\ cli.unm = << >> /\ cli' = [cli EXCEPT !.pc = cli.back]
      /\ UNCHANGED <<table, next, caches>> /\ (cli.back # "prepare" => jobs' = jobs)
  BY DEF UnmountingEnds, driver
<1>2. cli.back = "caches" /\ jobs' = jobs
  BY <1>1 DEF Course
<1>3. Keeps /\ cli'.pc = "caches"
  BY <1>1, <1>2 DEF Keeps, Whole, Idle
<1>4. /\ cli'.unm = cli.unm /\ cli'.cacheIds = cli.cacheIds /\ cli'.seen = cli.seen
      /\ cli'.below = cli.below /\ cli'.before = cli.before
  BY <1>1
<1>5. Whole' /\ Course'
  BY <1>1, <1>3, <1>4 DEF Whole, Copies, Course, Unmounts, Keeps
<1>6. Read'
  BY <1>1, <1>4, ReadKept, SamePlaced
<1>7. Queued'
  BY <1>1, <1>2, <1>3, <1>4, QueuedKept
<1> QED
  BY <1>5, <1>6, <1>7

(* A cache is next, whose job has been stopped; or all is done.               *)
LEMMA CachesStep ==
    ASSUME IInv, Unmounts, UnmountCaches, Copies, Placed'
    PROVE  IInv'
<1> USE DEF IInv
<1> DEFINE i == Head(cli.cacheIds)
<1>1. cli.pc = "caches" /\ UNCHANGED <<table, next, caches>>
  BY DEF UnmountCaches, driver
<1>2. \/ \E ok : End(ok)
      \/ /\ cli.cacheIds # << >> /\ i \in DOMAIN table
         /\ jobs' = jobs \ JobsOf(table[i].con)
         /\ cli' = [cli EXCEPT !.cacheIds = Tail(@), !.unm = <<i>>, !.pc = "unmounting", !.back = "caches"]
  BY DEF UnmountCaches
<1>3. CASE \E ok : End(ok)
  <2>1. Keeps /\ cli'.pc = "idle"
    BY <1>3, EndKeeps DEF End, Whole, Idle
  <2> QED
    BY <2>1 DEF Whole, Copies, Keeps, Course, Read, Queued, Unmounts
<1>4. CASE /\ cli.cacheIds # << >> /\ i \in DOMAIN table
           /\ jobs' = jobs \ JobsOf(table[i].con)
           /\ cli' = [cli EXCEPT !.cacheIds = Tail(@), !.unm = <<i>>, !.pc = "unmounting", !.back = "caches"]
  <2>1. Keeps /\ cli'.before = cli.before /\ cli'.seen = cli.seen /\ cli'.below = cli.below
    BY <1>4 DEF Keeps
  <2>2. cli'.pc = "unmounting" /\ cli'.back = "caches" /\ cli'.unm = <<i>> /\ cli'.cacheIds = Tail(cli.cacheIds)
    BY <1>4 DEF Whole, Idle
  <2>3. Whole' /\ Course'
    BY <2>1, <2>2 DEF Whole, Copies, Course, Unmounts, Keeps
  <2>4. Read'
    BY <1>1, <2>1, ReadKept, SamePlaced
  <2>5. cli.cacheIds \in Seq(Nat) /\ cli.unm = << >>
    BY <1>1 DEF Queued, Course
  <2>6. Tail(cli.cacheIds) \in Seq(Nat) /\ Range(cli.cacheIds) = {i} \union Range(Tail(cli.cacheIds))
    BY <1>4, <2>5, RangeOfTail
  <2>7. i \in Nat /\ i < next
    BY <1>4 DEF Placed
  <2>8. <<i>> \in Seq(Nat) /\ Range(<<i>>) = {i} /\ Range(<< >>) = {}
    BY <2>7 DEF Range
  <2>9. ASSUME NEW k, k = i
        PROVE  ~Busy(k)'
    BY <1>1, <1>4, <2>9 DEF Busy, JobsOf
  <2>10. ASSUME NEW k \in Unwanted(table)', k \in DOMAIN cli'.before
         PROVE  k \in Range(cli'.unm) \union Range(cli'.cacheIds)
    <3>1. k \in Unwanted(table) /\ k \in DOMAIN cli.before
      BY <1>1, <2>1, <2>10 DEF Unwanted, Keeps, FindAll, ByContainerPath
    <3>2. k \in Range(cli.unm) \union Range(cli.cacheIds)
      BY <1>1, <3>1 DEF Queued
    <3> QED
      BY <2>2, <2>5, <2>6, <2>8, <3>2
  <2>11. \A k \in Range(cli'.unm) : k = i
    BY <2>2, <2>8
  <2>12. Queued'
    <3>1. \A k \in Range(cli'.unm) : k < next' /\ ~Busy(k)'
      BY <1>1, <2>7, <2>9, <2>11
    <3> QED
      BY <2>2, <2>6, <2>8, <2>10, <3>1 DEF Queued
  <2> QED
    BY <2>3, <2>4, <2>12
<1> QED
  BY <1>2, <1>3, <1>4

-----------------------------------------------------------------------------
(* The theorem. *)

(* The steps of the command line, by what they are to an unmount.             *)
LEMMA CliCases ==
    ASSUME Whole, Cli
    PROVE  \/ Begin \/ Other \/ CollectReads \/ CollectName \/ CollectContainer \/ CollectPath
           \/ Collected \/ Unmounting \/ UnmountingEnds \/ UnmountCaches
BY MountSteps, OtherSteps DEF Cli

(* What is collected by path is unmounted next.                               *)
LEMMA PathIs ==
    ASSUME CollectPath
    PROVE  \/ End(FALSE)
           \/ \E a, b, d : cli' = [cli EXCEPT !.unm = a, !.cacheIds = b, !.below = d,
                                              !.pc = "unmounting", !.back = "caches"]
<1> DEFINE paths == PathsOf("cli")
           info == InfoOf("cli")
           ids == FindAll(paths, cli.req.con)
           names == NamesIn(info, ids)
           subs == IF cli.req.subs THEN Subs(info, names) ELSE {}
           mine == Sorted({i \in ids : ~IsCache(paths, i)} \union subs)
           kept == Sorted({i \in ids : IsCache(paths, i)})
           below == Below(info, names)
<1>1. \/ End(FALSE)
      \/ cli' = [cli EXCEPT !.unm = mine, !.cacheIds = kept, !.below = below,
                            !.pc = "unmounting", !.back = "caches"]
  BY DEF CollectPath
<1> HIDE DEF mine, kept, below
<1> QED
  BY <1>1

(* A cache is unmounted next, or the command ends.                            *)
LEMMA CachesIs ==
    ASSUME UnmountCaches
    PROVE  \/ cli.cacheIds = << >> \/ End(FALSE)
           \/ \E a, b : cli' = [cli EXCEPT !.cacheIds = a, !.unm = b, !.pc = "unmounting", !.back = "caches"]
<1> DEFINE t == Tail(cli.cacheIds)
           u == <<Head(cli.cacheIds)>>
<1>1. \/ cli.cacheIds = << >> \/ End(FALSE)
      \/ cli' = [cli EXCEPT !.cacheIds = t, !.unm = u, !.pc = "unmounting", !.back = "caches"]
  BY DEF UnmountCaches
<1> HIDE DEF t, u
<1> QED
  BY <1>1

(* A step of another command that unmounts, collects or reads.                *)
LEMMA OthersKeep ==
    ASSUME Whole, cli.pc # "idle",
           \/ CollectReads \/ CollectName \/ CollectContainer \/ CollectPath
           \/ Collected \/ Unmounting \/ UnmountingEnds \/ UnmountCaches
    PROVE  Keeps
<1>1. CASE CollectReads
  BY <1>1 DEF CollectReads, Keeps
<1>2. CASE CollectName
  <2>1. \E a, b, d : cli' = [cli EXCEPT !.names = a, !.conts = b, !.fails = d]
    BY <1>2 DEF CollectName
  <2> QED
    BY <2>1 DEF Keeps
<1>3. CASE CollectContainer
  <2>1. \E a, b, d, e, f : cli' = [cli EXCEPT !.conts = a, !.seen = b, !.below = f, !.unm = d, !.cacheIds = e]
    BY <1>3 DEF CollectContainer
  <2> QED
    BY <2>1 DEF Keeps
<1>4. CASE CollectPath
  <2>1. CASE End(FALSE)
    BY <2>1, EndKeeps
  <2>2. CASE \E a, b, d : cli' = [cli EXCEPT !.unm = a, !.cacheIds = b, !.below = d,
                                             !.pc = "unmounting", !.back = "caches"]
    BY <2>2 DEF Keeps
  <2> QED
    BY <1>4, <2>1, <2>2, PathIs
<1>5. CASE Collected
  <2>1. End(FALSE) \/ cli' = [cli EXCEPT !.pc = "unmounting", !.back = "caches"]
    BY <1>5 DEF Collected
  <2>2. CASE End(FALSE)
    BY <2>2, EndKeeps
  <2>3. CASE cli' = [cli EXCEPT !.pc = "unmounting", !.back = "caches"]
    BY <2>3 DEF Keeps
  <2> QED
    BY <2>1, <2>2, <2>3
<1>6. CASE Unmounting
  <2>1. \/ cli' = [cli EXCEPT !.unm = Tail(@)]
        \/ cli' = GiveUp([cli EXCEPT !.unm = << >>])
        \/ cli' = [cli EXCEPT !.pc = "idle", !.ok = FALSE]
    BY <1>6 DEF Unmounting
  <2>2. CASE cli' = [cli EXCEPT !.unm = Tail(@)]
    BY <2>2 DEF Keeps
  <2>3. CASE cli' = GiveUp([cli EXCEPT !.unm = << >>])
    BY <2>3 DEF Keeps, GiveUp
  <2>4. CASE cli' = [cli EXCEPT !.pc = "idle", !.ok = FALSE]
    BY <2>4 DEF Keeps
  <2> QED
    BY <2>1, <2>2, <2>3, <2>4
<1>7. CASE UnmountingEnds
  BY <1>7 DEF UnmountingEnds, Keeps
<1>8. CASE UnmountCaches
  <2>1. CASE \E ok : End(ok)
    BY <2>1, EndKeeps
  <2>2. CASE \E a, b : cli' = [cli EXCEPT !.cacheIds = a, !.unm = b, !.pc = "unmounting", !.back = "caches"]
    BY <2>2 DEF Keeps
  <2>3. cli.cacheIds = << >> => \E ok : End(ok)
    BY <1>8 DEF UnmountCaches
  <2> QED
    BY <1>8, <2>1, <2>2, <2>3, CachesIs
<1> QED
  BY <1>1, <1>2, <1>3, <1>4, <1>5, <1>6, <1>7, <1>8

(* Every step keeps the invariant.                                            *)
LEMMA NextIInv == IInv /\ [Next]_vars => IInv'
<1> SUFFICES ASSUME IInv, [Next]_vars PROVE IInv'
  OBVIOUS
<1>1. CASE Driver \/ Remounter \/ EditFile \/ UNCHANGED vars
  BY <1>1, DriverStep, RemounterStep, EditStep, AsideStep DEF IInv
<1>2. CASE Cli
  <2>1. Placed' /\ Copies
    BY <1>2, CliPlaced, CliCopies DEF IInv
  <2>2. CASE Begin
    BY <2>1, <2>2, BeginStep
  <2>3. CASE Other
    BY <2>1, <2>3, OtherStep DEF Other, Unmounts, IInv, Course
  <2>4. CASE ~Begin /\ ~Other
    <3>1. \/ CollectReads \/ CollectName \/ CollectContainer \/ CollectPath
          \/ Collected \/ Unmounting \/ UnmountingEnds \/ UnmountCaches
      BY <1>2, <2>4, CliCases DEF IInv
    <3>2. cli.pc # "idle"
      BY <3>1 DEF CollectReads, CollectName, CollectContainer, CollectPath, Collected, Unmounting,
                  UnmountingEnds, UnmountCaches
    <3>3. CASE ~Unmounts
      BY <2>1, <3>1, <3>2, <3>3, OthersKeep, OtherStep DEF IInv
    <3>4. CASE Unmounts
      BY <2>1, <3>1, <3>4, ReadsStep, NameStep, ContainerStep, PathStep, CollectedStep, UnmountingStep,
         UnmountedStep, CachesStep
    <3> QED
      BY <3>3, <3>4
  <2> QED
    BY <2>2, <2>3, <2>4
<1> QED
  BY <1>1, <1>2 DEF Next

(* A step at which an unmount ends with success is the one that finds nothing *)
(* left to unmount.                                                           *)
LEMMA SuccessIs ==
    ASSUME IInv, Cli, Unmounts, cli'.pc = "idle", cli'.ok
    PROVE  /\ cli.pc = "caches" /\ cli.cacheIds = << >> /\ UNCHANGED table
<1> USE DEF IInv
<1>1. cli.pc \in {"unmount", "path", "unmounting", "caches"}
  BY DEF Course
<1>2. ~Begin /\ ~Other /\ ~CollectReads
  BY <1>1 DEF Begin, Other, CollectReads
<1>3. ~End(FALSE)
  BY DEF End, Whole, Idle
<1>4. ~CollectName
  <2>1. ASSUME CollectName PROVE cli'.pc = cli.pc
    <3>1. PICK a, b, d : cli' = [cli EXCEPT !.names = a, !.conts = b, !.fails = d]
      BY <2>1 DEF CollectName
    <3> QED
      BY <3>1
  <2> QED
    BY <1>1, <2>1
<1>5. ~CollectContainer
  <2>1. ASSUME CollectContainer PROVE cli'.pc = cli.pc
    <3>1. PICK a, b, d, e, f : cli' = [cli EXCEPT !.conts = a, !.seen = b, !.below = f, !.unm = d, !.cacheIds = e]
      BY <2>1 DEF CollectContainer
    <3> QED
      BY <3>1
  <2> QED
    BY <1>1, <2>1
<1>6. ~CollectPath
  <2>1. ASSUME CollectPath PROVE cli'.pc = "unmounting"
    <3>1. PICK a, b, d : cli' = [cli EXCEPT !.unm = a, !.cacheIds = b, !.below = d,
                                            !.pc = "unmounting", !.back = "caches"]
      BY <1>3, <2>1, PathIs
    <3> QED
      BY <3>1 DEF Whole, Idle
  <2> QED
    BY <2>1
<1>7. ~Collected
  <2>1. ASSUME Collected PROVE cli'.pc = "unmounting"
    <3>1. cli' = [cli EXCEPT !.pc = "unmounting", !.back = "caches"]
      BY <1>3, <2>1 DEF Collected
    <3> QED
      BY <3>1 DEF Whole, Idle
  <2> QED
    BY <2>1
<1>8. ~Unmounting
  <2>1. ASSUME Unmounting PROVE FALSE
    <3>1. cli.back = "caches" /\ cli.pc = "unmounting"
      BY <2>1 DEF Unmounting, Course
    <3>2. cli' = [cli EXCEPT !.unm = Tail(@)] \/ cli' = [cli EXCEPT !.pc = "idle", !.ok = FALSE]
      BY <2>1, <3>1 DEF Unmounting
    <3>3. CASE cli' = [cli EXCEPT !.unm = Tail(@)]
      <4>1. cli'.pc = cli.pc
        BY <3>3
      <4> QED
        BY <3>1, <4>1
    <3>4. CASE cli' = [cli EXCEPT !.pc = "idle", !.ok = FALSE]
      BY <3>4 DEF Whole, Idle
    <3> QED
      BY <3>2, <3>3, <3>4
  <2> QED
    BY <2>1
<1>9. ~UnmountingEnds
  <2>1. ASSUME UnmountingEnds PROVE FALSE
    <3>1. cli' = [cli EXCEPT !.pc = cli.back] /\ cli.pc = "unmounting"
      BY <2>1 DEF UnmountingEnds
    <3>2. cli'.pc = cli.back
      BY <3>1 DEF Whole, Idle
    <3> QED
      BY <3>1, <3>2 DEF Course
  <2> QED
    BY <2>1
<1>10. UnmountCaches
  BY <1>2, <1>4, <1>5, <1>6, <1>7, <1>8, <1>9, CliCases
<1>11. cli.pc = "caches" /\ UNCHANGED table
  BY <1>10 DEF UnmountCaches, driver
<1>12. ASSUME cli.cacheIds # << >> PROVE FALSE
  <2>1. PICK t, u : cli' = [cli EXCEPT !.cacheIds = t, !.unm = u, !.pc = "unmounting", !.back = "caches"]
    BY <1>3, <1>10, <1>12, CachesIs
  <2> QED
    BY <2>1 DEF Whole, Idle
<1> QED
  BY <1>11, <1>12

(* What is not a step of the command line ends no command.                    *)
LEMMA OnlyTheCommand ==
    ASSUME IInv, [Next]_vars, cli' # cli
    PROVE  Cli
<1>1. Placed
  BY DEF IInv
<1> QED
  BY <1>1, DriverStep, RemounterStep, EditStep DEF Next, Aside

(* The last step of an unmount that succeeds finds nothing left to unmount.   *)
LEMMA LastStep ==
    ASSUME IInv, [Next]_vars
    PROVE  LeavesNothing
<1> USE DEF IInv
<1> SUFFICES ASSUME Done, cli.req.kind \in {"unmount", "path"}
             PROVE  Unwanted(table') \intersect DOMAIN cli.before = {}
  BY DEF LeavesNothing
<1>1. Unmounts /\ cli'.pc = "idle" /\ cli'.ok /\ cli' # cli
  BY DEF Done, Unmounts
<1>2. cli.pc = "caches" /\ cli.cacheIds = << >> /\ table' = table
  BY <1>1, OnlyTheCommand, SuccessIs
<1>3. cli.unm = << >>
  BY <1>1, <1>2 DEF Course
<1>4. Range(<< >>) = {}
  BY DEF Range
<1> QED
  BY <1>1, <1>2, <1>3, <1>4 DEF Queued

(* What is unmounted is no cache that a job works on.                         *)
LEMMA JobFirst ==
    ASSUME IInv, [Next]_vars
    PROVE  StopsJobFirst
<1> USE DEF IInv
<1> SUFFICES ASSUME cli.pc = "unmounting", cli.req.kind \in {"unmount", "path"}, cli' # cli,
                    NEW i \in DOMAIN table \ DOMAIN table'
             PROVE  ~Busy(i)
  BY DEF StopsJobFirst, Busy
<1>1. Unmounts
  BY DEF Unmounts
<1>2. Unmounting \/ UnmountingEnds
  BY OnlyTheCommand, CliCases DEF Begin, Other, CollectReads, CollectName, CollectContainer, CollectPath,
                                  Collected, UnmountCaches
<1>3. Unmounting
  BY <1>2 DEF UnmountingEnds, driver
<1>4. Unmount(Head(cli.unm)) /\ cli.unm # << >>
  BY <1>3 DEF Unmounting, driver
<1>5. i = Head(cli.unm)
  BY <1>4, UnmountPlaced
<1>6. cli.unm \in Seq(Nat)
  BY <1>1 DEF Queued
<1>7. i \in Range(cli.unm)
  BY <1>4, <1>5, <1>6, RangeOfTail
<1> QED
  BY <1>1, <1>7 DEF Queued

(* wl container unmount, by name or by path, leaves nothing that was mounted   *)
(* when it began of the containers it was given, nor of their subcontainers at *)
(* any depth, when it reports success, though what it unmounts was read before *)
(* and mount-watch mounts and unmounts meanwhile; and it unmounts a cache only *)
(* after its sync job is stopped (_unmount).                                   *)
THEOREM UnmountLeavesNothing == Spec => UnmountIsComplete
<1>1. IInv /\ [Next]_vars => [LeavesNothing /\ StopsJobFirst]_vars
  BY LastStep, JobFirst
<1> QED
  BY <1>1, InitIInv, NextIInv, PTL DEF Spec, UnmountIsComplete
=============================================================================
