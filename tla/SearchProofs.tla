--------------------------- MODULE SearchProofs ---------------------------
(***************************************************************************)
(* Proofs about Search, for any keys, files, scenarios and requests.        *)
(***************************************************************************)
EXTENDS Search, FiniteSetTheorems, SequenceTheorems, TLAPS

-----------------------------------------------------------------------------
(* Positions of a sequence, in their order. *)

Enumerable(S) ==
    \E q \in [1..Cardinality(S) -> S] : \A i, j \in DOMAIN q : i < j => q[i] < q[j]

(* A finite set of numbers can be counted from its smallest on.               *)
LEMMA Enumeration ==
    ASSUME NEW S \in SUBSET Nat, IsFiniteSet(S)
    PROVE  Enumerable(S)
<1> DEFINE Missed == {n \in Nat : \E T \in SUBSET Nat :
                          IsFiniteSet(T) /\ Cardinality(T) = n /\ ~Enumerable(T)}
<1>1. SUFFICES ASSUME Missed # {} PROVE FALSE
  <2>1. Cardinality(S) \in Nat
    BY FS_CardinalityType
  <2> QED
    BY <2>1
<1>2. PICK n \in Missed : \A m \in Missed : ~(<<m, n>> \in OpToRel(<, Nat))
  <2> HIDE DEF Missed
  <2>1. Missed \subseteq Nat
    BY DEF Missed
  <2> QED
    BY <1>1, <2>1, NatLessThanWellFounded, WFMin
<1>3. PICK T \in SUBSET Nat : IsFiniteSet(T) /\ Cardinality(T) = n /\ ~Enumerable(T)
  BY <1>2
<1>4. n \in Nat
  BY <1>2
<1>5. CASE T = {}
  <2>1. n = 0
    BY <1>3, <1>5, FS_EmptySet
  <2>2. [i \in 1..0 |-> 0] \in [1..Cardinality(T) -> T]
    BY <1>3, <2>1
  <2>3. \A i, j \in DOMAIN [i \in 1..0 |-> 0] : FALSE
    OBVIOUS
  <2> QED
    BY <1>3, <2>2, <2>3 DEF Enumerable
<1>6. CASE T # {}
  <2>1. PICK x \in T : \A y \in T : ~(<<y, x>> \in OpToRel(<, Nat))
    BY <1>6, NatLessThanWellFounded, WFMin
  <2>2. \A y \in T : x <= y
    <3>1. ASSUME NEW y \in T PROVE ~(y < x)
      BY <2>1 DEF OpToRel
    <3> QED
      BY <3>1
  <2>3. IsFiniteSet(T \ {x}) /\ Cardinality(T \ {x}) = n - 1
    BY <1>3, <2>1, FS_RemoveElement
  <2>4. n - 1 \in Nat /\ n # 0
    <3>1. n # 0
      BY <1>3, <1>6, FS_EmptySet
    <3> QED
      BY <1>4, <3>1
  <2>5. n - 1 \notin Missed
    <3>1. <<n - 1, n>> \in OpToRel(<, Nat)
      BY <1>4, <2>4 DEF OpToRel
    <3> QED
      BY <1>2, <3>1
  <2>6. Enumerable(T \ {x})
    BY <2>3, <2>4, <2>5
  <2>7. PICK r \in [1..(n - 1) -> T \ {x}] : \A i, j \in DOMAIN r : i < j => r[i] < r[j]
    BY <2>3, <2>6 DEF Enumerable
  <2> DEFINE q == [i \in 1..n |-> IF i = 1 THEN x ELSE r[i - 1]]
  <2>8. ASSUME NEW i \in 1..n PROVE q[i] \in T /\ (i # 1 => i - 1 \in 1..(n - 1) /\ r[i - 1] \in T \ {x})
    <3>1. i # 1 => i - 1 \in 1..(n - 1)
      BY <1>4
    <3>2. i # 1 => r[i - 1] \in T \ {x}
      BY <2>7, <3>1
    <3>3. q[i] = IF i = 1 THEN x ELSE r[i - 1]
      OBVIOUS
    <3> QED
      BY <2>1, <3>1, <3>2, <3>3
  <2>9. q \in [1..Cardinality(T) -> T]
    BY <1>3, <2>8
  <2>10. ASSUME NEW i \in DOMAIN q, NEW j \in DOMAIN q, i < j PROVE q[i] < q[j]
    <3>1. j # 1 /\ i \in 1..n /\ j \in 1..n
      BY <1>4, <2>10
    <3>2. q[j] = r[j - 1] /\ r[j - 1] \in T \ {x} /\ j - 1 \in 1..(n - 1)
      BY <2>8, <3>1
    <3>3. CASE i = 1
      <4>1. q[i] = x /\ x \in Nat /\ r[j - 1] \in Nat
        BY <2>1, <3>1, <3>2, <3>3
      <4> QED
        BY <2>2, <3>2, <4>1
    <3>4. CASE i # 1
      <4>1. q[i] = r[i - 1] /\ i - 1 \in 1..(n - 1) /\ i - 1 < j - 1
        BY <1>4, <2>8, <2>10, <3>1, <3>4
      <4> QED
        BY <2>7, <3>2, <4>1
    <3> QED
      BY <3>3, <3>4
  <2> HIDE DEF q
  <2> QED
    BY <1>3, <2>9, <2>10 DEF Enumerable
<1> QED
  BY <1>5, <1>6

(* What is selected of a sequence stands at one of the positions in it.        *)
LEMMA SelectedIs ==
    ASSUME NEW S, NEW s \in Seq(S), NEW at \in SUBSET DOMAIN s
    PROVE  Selected(s, at) \in Seq({s[i] : i \in at})
<1> DEFINE rises(q) == \A i, j \in DOMAIN q : i < j => q[i] < q[j]
           order == CHOOSE q \in [1..Cardinality(at) -> at] : rises(q)
<1>1. at \in SUBSET Nat /\ IsFiniteSet(at) /\ Cardinality(at) \in Nat
  <2>1. DOMAIN s = 1..Len(s) /\ Len(s) \in Nat
    BY LenProperties
  <2>2. IsFiniteSet(1..Len(s))
    BY <2>1, FS_Interval
  <2> QED
    BY <2>1, <2>2, FS_Subset, FS_CardinalityType
<1>2. \E q \in [1..Cardinality(at) -> at] : rises(q)
  BY <1>1, Enumeration DEF Enumerable
<1>3. order \in [1..Cardinality(at) -> at]
  BY <1>2
<1>4. Selected(s, at) = [i \in DOMAIN order |-> s[order[i]]]
  BY DEF Selected
<1> HIDE DEF order
<1>5. Selected(s, at) \in [1..Cardinality(at) -> {s[i] : i \in at}]
  BY <1>3, <1>4
<1> QED
  BY <1>1, <1>5, SeqDef

-----------------------------------------------------------------------------
(* What the reader's process has is what user manifests said to it.  The predicates *)
(* take the memory m of the process and the user manifests mans there were.         *)

(* A list of owners of a key holds those whose user manifest names the key.   *)
MemoryTrue(m, mans) ==
    /\ {"lists", "pub"} \subseteq DOMAIN m
    /\ m.lists \in [Keys -> Seq(SUBSET Keys)]
    /\ \A k \in Keys : \A i \in DOMAIN m.lists[k] : \A o \in m.lists[k][i] : k \in KeysOf(o, mans)

ContextTrue(m, c) ==
    /\ DOMAIN c = {"keys", "secret", "owns", "local"}
    /\ c.owns \in [Keys -> Nat]
    /\ \A k \in Keys : c.owns[k] \in 0..Len(m.lists[k])

(* A signed manifest was signed with a key that its owner's manifest named.   *)
Signed(mans, man) == man.signer # None => man.signer \in KeysOf(man.body.owner, mans)

(* Bodies of manifests that were signed by the user itself.                   *)
UserBodies(mans) == {u.body : u \in UserManifests(mans)}

UserTrue(m, mans, obj) == obj.body \in UserBodies(mans) /\ ContextTrue(m, obj.ctx)
ContainerTrue(mans, obj) == Signed(mans, obj.man) /\ obj.body.type = "container"
BridgeTrue(bridge) == Wellformed(bridge) /\ bridge.type = "bridge"

MaybeContext(m, ctx) == ctx # None => ContextTrue(m, ctx)

StepTrue(m, mans, s) ==
    /\ MaybeContext(m, s.ctx)
    /\ s.via \subseteq UserBodies(mans)
    /\ s.con # None => ContainerTrue(mans, s.con)

ForestTrue(m, mans, x) ==
    /\ x.user \in UserBodies(mans)
    /\ MaybeContext(m, x.ctx) /\ MaybeContext(m, x.uctx)
    /\ x.via \subseteq UserBodies(mans)

EntryTrue(e) == e.how = "inline" \/ e.at \in Files

SourceTrue(m, mans, x) ==
    /\ x.kind \in {"step", "next", "children", "child"} => StepTrue(m, mans, x.step)
    /\ x.kind \in {"child", "hint"} => x.file \in Files
    /\ x.kind = "bridge" => /\ BridgeTrue(x.bridge) /\ MaybeContext(m, x.ctx)
                            /\ x.via \subseteq UserBodies(mans)
    /\ x.kind = "user" => ForestTrue(m, mans, x)
    /\ x.kind = "entry" => ForestTrue(m, mans, x.of) /\ EntryTrue(x.entry)

SourcesTrue(m, mans, q) == \E S : q \in Seq(S) /\ \A x \in S : SourceTrue(m, mans, x)

FrameTrue(m, mans, fr) ==
    /\ DOMAIN fr = {"key", "pool", "seen", "todo"}
    /\ \A s \in fr.pool \union fr.seen : StepTrue(m, mans, s)
    /\ SourcesTrue(m, mans, fr.todo)

FramesTrue(m, mans, q) == \E S : q \in Seq(S) /\ \A fr \in S : FrameTrue(m, mans, fr)

LoadedTrue(m, mans, s) ==
    /\ \E S : s.containers \in Seq(S) /\ \A o \in S : ContainerTrue(mans, o)
    /\ \E S : s.bridges \in Seq(S) /\ \A o \in S : BridgeTrue(o.body)
    /\ \E S : s.users \in Seq(S) /\ \A o \in S : UserTrue(m, mans, o)

GotTrue(mans, g) == g.man # None => Signed(mans, g.man) /\ g.body.type = "container"

SearchTrue(m, mans, s) ==
    /\ DOMAIN s = {"req", "containers", "users", "bridges", "frames", "got"}
    /\ s.req.hint \in Files \union {None}
    /\ LoadedTrue(m, mans, s)
    /\ FramesTrue(m, mans, s.frames)
    /\ \A g \in s.got : GotTrue(mans, g)

ManTrue(man) == man.signer \in Keys \union {None} /\ Wellformed(man.body)

(* What is written, and that a process has met every user manifest there is.  *)
StoresTrue(mans) ==
    /\ content = [f \in Files |-> content[f]]
    /\ \A f \in Files : content[f] # None =>
           ManTrue(content[f]) /\ (content[f].body.type = "user" => content[f] \in mans)
    /\ \A u \in mans : ManTrue(u)

Learned ==
    /\ mode \in Modes /\ written \in Nat
    /\ StoresTrue(said)
    /\ MemoryTrue(mem, said) /\ ContextTrue(mem, root)
    /\ \A key \in DOMAIN cache : \A s \in cache[key] : StepTrue(mem, said, s)
    /\ search # None => SearchTrue(mem, said, search)
    /\ answer # None => \A g \in answer.got : GotTrue(said, g)

(* A process that learned more.                                               *)
Later(m, mans, m2, mans2) ==
    /\ mans \subseteq mans2
    /\ \A k \in Keys : Len(m.lists[k]) \in Nat /\ Len(m2.lists[k]) \in Nat
                       /\ Len(m.lists[k]) <= Len(m2.lists[k])

(* The keys of an owner only get more.                                        *)
LEMMA KeysOfGrows ==
    ASSUME NEW mans, NEW mans2, mans \subseteq mans2, NEW o
    PROVE  KeysOf(o, mans) \subseteq KeysOf(o, mans2)
BY DEF KeysOf, UserManifests

(* What is signed stays signed.                                               *)
LEMMA SignedLater ==
    ASSUME NEW mans, NEW mans2, mans \subseteq mans2
    PROVE  /\ UserBodies(mans) \subseteq UserBodies(mans2)
           /\ \A man : Signed(mans, man) => Signed(mans2, man)
           /\ \A o : ContainerTrue(mans, o) => ContainerTrue(mans2, o)
           /\ \A g : GotTrue(mans, g) => GotTrue(mans2, g)
<1>1. UserBodies(mans) \subseteq UserBodies(mans2)
  BY DEF UserBodies, UserManifests
<1>2. \A man : Signed(mans, man) => Signed(mans2, man)
  BY KeysOfGrows DEF Signed
<1> QED
  BY <1>1, <1>2 DEF ContainerTrue, GotTrue

(* Contexts stay within the lists.                                            *)
LEMMA ContextLater ==
    ASSUME NEW m, NEW mans, NEW m2, NEW mans2, Later(m, mans, m2, mans2), NEW c
    PROVE  /\ ContextTrue(m, c) => ContextTrue(m2, c)
           /\ MaybeContext(m, c) => MaybeContext(m2, c)
<1>1. ASSUME ContextTrue(m, c) PROVE ContextTrue(m2, c)
  <2>1. ASSUME NEW k \in Keys PROVE c.owns[k] \in 0..Len(m2.lists[k])
    BY <1>1 DEF ContextTrue, Later
  <2> QED
    BY <1>1, <2>1 DEF ContextTrue
<1> QED
  BY <1>1 DEF MaybeContext

(* Steps and sources stay true.                                               *)
LEMMA SourceLater ==
    ASSUME NEW m, NEW mans, NEW m2, NEW mans2, Later(m, mans, m2, mans2)
    PROVE  /\ \A s : StepTrue(m, mans, s) => StepTrue(m2, mans2, s)
           /\ \A x : SourceTrue(m, mans, x) => SourceTrue(m2, mans2, x)
<1> USE DEF Later
<1>1. \A s : StepTrue(m, mans, s) => StepTrue(m2, mans2, s)
  BY SignedLater, ContextLater DEF StepTrue
<1>2. \A x : ForestTrue(m, mans, x) => ForestTrue(m2, mans2, x)
  BY SignedLater, ContextLater DEF ForestTrue
<1>3. UserBodies(mans) \subseteq UserBodies(mans2)
  BY SignedLater
<1>4. ASSUME NEW x, SourceTrue(m, mans, x) PROVE SourceTrue(m2, mans2, x)
  BY <1>1, <1>2, <1>3, <1>4, ContextLater DEF SourceTrue
<1> QED
  BY <1>1, <1>4

(* So do frames,                                                              *)
LEMMA FramesLater ==
    ASSUME NEW m, NEW mans, NEW m2, NEW mans2, Later(m, mans, m2, mans2), NEW q,
           FramesTrue(m, mans, q)
    PROVE  FramesTrue(m2, mans2, q)
<1>1. ASSUME NEW fr, FrameTrue(m, mans, fr) PROVE FrameTrue(m2, mans2, fr)
  <2>1. PICK S : fr.todo \in Seq(S) /\ \A x \in S : SourceTrue(m, mans, x)
    BY <1>1 DEF FrameTrue, SourcesTrue
  <2>2. \A x \in S : SourceTrue(m2, mans2, x)
    BY <2>1, SourceLater
  <2> QED
    BY <1>1, <2>1, <2>2, SourceLater DEF FrameTrue, SourcesTrue
<1>2. PICK S : q \in Seq(S) /\ \A fr \in S : FrameTrue(m, mans, fr)
  BY DEF FramesTrue
<1> QED
  BY <1>1, <1>2 DEF FramesTrue

(* and the whole search.                                                      *)
LEMMA SearchLater ==
    ASSUME NEW m, NEW mans, NEW m2, NEW mans2, Later(m, mans, m2, mans2), NEW s,
           SearchTrue(m, mans, s)
    PROVE  SearchTrue(m2, mans2, s)
<1> USE DEF Later
<1>1. \E S : s.containers \in Seq(S) /\ \A o \in S : ContainerTrue(mans2, o)
  BY SignedLater DEF SearchTrue, LoadedTrue
<1>2. \E S : s.users \in Seq(S) /\ \A o \in S : UserTrue(m2, mans2, o)
  <2>1. PICK S : s.users \in Seq(S) /\ \A o \in S : UserTrue(m, mans, o)
    BY DEF SearchTrue, LoadedTrue
  <2>2. \A o \in S : UserTrue(m2, mans2, o)
    BY <2>1, SignedLater, ContextLater DEF UserTrue
  <2> QED
    BY <2>1, <2>2
<1>3. FramesTrue(m2, mans2, s.frames)
  BY FramesLater DEF SearchTrue
<1>4. \A g \in s.got : GotTrue(mans2, g)
  BY SignedLater DEF SearchTrue
<1> QED
  BY <1>1, <1>2, <1>3, <1>4 DEF SearchTrue, LoadedTrue

-----------------------------------------------------------------------------
(* Keys and owners that are added to a context. *)

(* Lists of owners grow, or are made, where the context has them.             *)
LEMMA AddPubkeysTrue ==
    ASSUME NEW m, NEW mans, MemoryTrue(m, mans), NEW c, ContextTrue(m, c), NEW keys,
           NEW of \in [Keys -> SUBSET Keys],
           \A k \in Keys : \A o \in of[k] : k \in KeysOf(o, mans)
    PROVE  /\ MemoryTrue(AddPubkeys(m, c, keys, of).m, mans)
           /\ ContextTrue(AddPubkeys(m, c, keys, of).m, AddPubkeys(m, c, keys, of).c)
           /\ Later(m, mans, AddPubkeys(m, c, keys, of).m, mans)
<1> DEFINE m2 == AddPubkeys(m, c, keys, of).m
           c2 == AddPubkeys(m, c, keys, of).c
           list(k) == IF of[k] = {} THEN m.lists[k]
                      ELSE IF c.owns[k] = 0 THEN Append(m.lists[k], of[k])
                      ELSE [m.lists[k] EXCEPT ![c.owns[k]] = @ \union of[k]]
<1>1. {"lists", "pub"} \subseteq DOMAIN m2 /\ m2.lists = [k \in Keys |-> list(k)]
  BY DEF AddPubkeys, MemoryTrue
<1>2. /\ DOMAIN c2 = {"keys", "secret", "owns", "local"}
      /\ c2.owns = [k \in Keys |->
             IF of[k] # {} /\ c.owns[k] = 0 THEN Len(m.lists[k]) + 1 ELSE c.owns[k]]
  BY DEF AddPubkeys, ContextTrue
<1>3. ASSUME NEW k \in Keys
      PROVE  /\ list(k) \in Seq(SUBSET Keys)
             /\ \A i \in DOMAIN list(k) : \A o \in list(k)[i] : k \in KeysOf(o, mans)
             /\ Len(m.lists[k]) \in Nat /\ Len(list(k)) \in Nat
             /\ Len(m.lists[k]) <= Len(list(k))
             /\ c2.owns[k] \in 0..Len(list(k))
  <2>1. /\ m.lists[k] \in Seq(SUBSET Keys) /\ Len(m.lists[k]) \in Nat
        /\ \A i \in DOMAIN m.lists[k] : \A o \in m.lists[k][i] : k \in KeysOf(o, mans)
        /\ DOMAIN m.lists[k] = 1..Len(m.lists[k])
        /\ \A i \in 1..Len(m.lists[k]) : m.lists[k][i] \in SUBSET Keys
    BY DEF MemoryTrue
  <2>2. c.owns[k] \in 0..Len(m.lists[k]) /\ of[k] \in SUBSET Keys
    BY DEF ContextTrue
  <2>3. CASE of[k] = {}
    BY <1>2, <2>1, <2>2, <2>3
  <2>4. CASE of[k] # {} /\ c.owns[k] = 0
    <3> DEFINE l == Append(m.lists[k], of[k])
    <3>1. list(k) = l
      BY <2>4
    <3>2. /\ l \in Seq(SUBSET Keys) /\ Len(l) = Len(m.lists[k]) + 1
          /\ \A i \in 1..Len(m.lists[k]) : l[i] = m.lists[k][i]
          /\ l[Len(m.lists[k]) + 1] = of[k]
      BY <2>1, <2>2, AppendProperties
    <3>3. DOMAIN l = 1..(Len(m.lists[k]) + 1)
      BY <3>2
    <3> HIDE DEF l
    <3>4. ASSUME NEW i \in DOMAIN l, NEW o \in l[i] PROVE k \in KeysOf(o, mans)
      <4>1. CASE i \in 1..Len(m.lists[k])
        BY <2>1, <3>2, <3>4, <4>1
      <4>2. CASE i = Len(m.lists[k]) + 1
        BY <3>2, <3>4, <4>2
      <4> QED
        BY <2>1, <3>3, <4>1, <4>2
    <3>5. c2.owns[k] = Len(m.lists[k]) + 1
      BY <1>2, <2>4
    <3> QED
      BY <2>1, <3>1, <3>2, <3>4, <3>5
  <2>5. CASE of[k] # {} /\ c.owns[k] # 0
    <3> DEFINE l == [m.lists[k] EXCEPT ![c.owns[k]] = @ \union of[k]]
    <3>1. list(k) = l
      BY <2>5
    <3>2. c.owns[k] \in 1..Len(m.lists[k])
      BY <2>1, <2>2, <2>5
    <3>3. /\ DOMAIN l = 1..Len(m.lists[k])
          /\ \A i \in 1..Len(m.lists[k]) :
                 l[i] = IF i = c.owns[k] THEN m.lists[k][i] \union of[k] ELSE m.lists[k][i]
      BY <2>1, <3>2
    <3>4. l \in Seq(SUBSET Keys) /\ Len(l) = Len(m.lists[k])
      <4>1. m.lists[k][c.owns[k]] \union of[k] \in SUBSET Keys
        BY <2>1, <2>2, <3>2
      <4> QED
        BY <2>1, <3>2, <4>1, ExceptSeq
    <3> HIDE DEF l
    <3>5. ASSUME NEW i \in DOMAIN l, NEW o \in l[i] PROVE k \in KeysOf(o, mans)
      <4>1. CASE o \in m.lists[k][i]
        BY <2>1, <3>3, <3>5, <4>1
      <4>2. CASE o \in of[k]
        BY <4>2
      <4>3. l[i] = m.lists[k][i] \/ l[i] = m.lists[k][i] \union of[k]
        BY <3>3, <3>5
      <4>4. o \in m.lists[k][i] \/ o \in of[k]
        BY <3>5, <4>3, Zenon
      <4> QED
        BY <4>1, <4>2, <4>4, Zenon
    <3>6. c2.owns[k] = c.owns[k]
      BY <1>2, <2>5
    <3>7. \A i \in DOMAIN list(k) : \A o \in list(k)[i] : k \in KeysOf(o, mans)
      BY <3>1, <3>5
    <3>8. list(k) \in Seq(SUBSET Keys) /\ Len(list(k)) = Len(m.lists[k])
      BY <3>1, <3>4
    <3> QED
      BY <2>1, <2>2, <3>6, <3>7, <3>8
  <2> QED
    BY <2>3, <2>4, <2>5
<1> HIDE DEF list, m2, c2
<1>4. MemoryTrue(m2, mans)
  BY <1>1, <1>3 DEF MemoryTrue
<1>5. ContextTrue(m2, c2)
  <2>1. c2.owns \in [Keys -> Nat]
    <3>1. \A k \in Keys : c2.owns[k] \in Nat
      BY <1>3
    <3> QED
      BY <1>2, <3>1
  <2> QED
    BY <1>1, <1>2, <1>3, <2>1 DEF ContextTrue
<1>6. Later(m, mans, m2, mans)
  BY <1>1, <1>3 DEF Later
<1> QED
  BY <1>4, <1>5, <1>6 DEF m2, c2

(* User manifests teach what they say.                                        *)
LEMMA AddUserKeysTrue ==
    ASSUME NEW m, NEW mans, MemoryTrue(m, mans), NEW c, ContextTrue(m, c),
           \A u \in mans : ManTrue(u), NEW users, users \subseteq UserBodies(mans)
    PROVE  /\ MemoryTrue(AddUserKeys(m, c, users).m, mans)
           /\ ContextTrue(AddUserKeys(m, c, users).m, AddUserKeys(m, c, users).c)
           /\ Later(m, mans, AddUserKeys(m, c, users).m, mans)
<1> DEFINE of == [k \in Keys |-> {u.owner : u \in {v \in users : k \in v.pubkeys}}]
<1>1. ASSUME NEW u \in users
      PROVE  u.owner \in Keys /\ \A k \in u.pubkeys : k \in KeysOf(u.owner, mans)
  <2>1. PICK man \in UserManifests(mans) : u = man.body
    BY DEF UserBodies
  <2>2. u.owner \in Keys
    BY <2>1 DEF UserManifests, ManTrue, Wellformed
  <2>3. u.pubkeys \subseteq KeysOf(u.owner, mans)
    BY <2>1 DEF KeysOf
  <2> QED
    BY <2>2, <2>3
<1>2. of \in [Keys -> SUBSET Keys]
  BY <1>1
<1>3. \A k \in Keys : \A o \in of[k] : k \in KeysOf(o, mans)
  BY <1>1
<1>4. AddUserKeys(m, c, users) = AddPubkeys(m, c, UNION {{u.owner} \union u.pubkeys : u \in users}, of)
  BY DEF AddUserKeys
<1> HIDE DEF of
<1> QED
  BY <1>2, <1>3, <1>4, AddPubkeysTrue

(* So does the manifest that a hint leads to.                                 *)
LEMMA VerifyAndLoadPubkeysTrue ==
    ASSUME NEW m, NEW mans, MemoryTrue(m, mans), NEW c, ContextTrue(m, c),
           NEW man, ManTrue(man), man.body.type = "user" => man \in mans
    PROVE  /\ MemoryTrue(VerifyAndLoadPubkeys(m, c, man).m, mans)
           /\ ContextTrue(VerifyAndLoadPubkeys(m, c, man).m, VerifyAndLoadPubkeys(m, c, man).c)
           /\ Later(m, mans, VerifyAndLoadPubkeys(m, c, man).m, mans)
           /\ VerifyAndLoadPubkeys(m, c, man).ok /\ man.body.type = "user"
                  => man \in UserManifests(mans)
<1>1. \A k \in Keys : Len(m.lists[k]) \in Nat
  BY DEF MemoryTrue
<1>2. Later(m, mans, m, mans)
  BY <1>1 DEF Later
<1>3. CASE man.body.type = "user" /\ man.signer = man.body.owner
  <2> DEFINE keys == {man.body.owner} \union man.body.pubkeys
             of == [k \in Keys |-> IF k \in keys THEN {man.body.owner} ELSE {}]
  <2>1. man \in UserManifests(mans) /\ man.body.owner \in Keys
    BY <1>3 DEF UserManifests, ManTrue, Wellformed
  <2>2. keys \subseteq KeysOf(man.body.owner, mans)
    BY <2>1 DEF KeysOf
  <2>3. of \in [Keys -> SUBSET Keys] /\ \A k \in Keys : \A o \in of[k] : k \in KeysOf(o, mans)
    BY <2>1, <2>2
  <2>4. /\ VerifyAndLoadPubkeys(m, c, man).m = AddPubkeys(m, c, keys, of).m
        /\ VerifyAndLoadPubkeys(m, c, man).c = AddPubkeys(m, c, keys, of).c
    BY <1>3 DEF VerifyAndLoadPubkeys
  <2> HIDE DEF of, keys
  <2> QED
    BY <2>1, <2>3, <2>4, AddPubkeysTrue
<1>4. CASE ~(man.body.type = "user" /\ man.signer = man.body.owner)
  <2>1. VerifyAndLoadPubkeys(m, c, man).m = m /\ VerifyAndLoadPubkeys(m, c, man).c = c
    BY <1>4 DEF VerifyAndLoadPubkeys
  <2>2. VerifyAndLoadPubkeys(m, c, man).ok => man.body.type # "user"
    BY <1>4 DEF VerifyAndLoadPubkeys
  <2> QED
    BY <1>2, <2>1, <2>2
<1> QED
  BY <1>3, <1>4

(* Copies of a context have its owners.                                       *)
LEMMA CopyTrue ==
    ASSUME NEW m, NEW c, ContextTrue(m, c)
    PROVE  ContextTrue(m, Copy(c)) /\ ContextTrue(m, RecognizeLocalKeys(c))
BY DEF ContextTrue, Copy, RecognizeLocalKeys

-----------------------------------------------------------------------------
(* What is loaded. *)

(* The owners that a context knows for a key have named it.                   *)
LEMMA OwnersTrue ==
    ASSUME NEW m, NEW mans, MemoryTrue(m, mans), NEW c, ContextTrue(m, c), NEW k \in Keys,
           NEW o \in {k} \union Owners(m, c, k)
    PROVE  k \in KeysOf(o, mans)
<1>1. CASE o = k
  BY <1>1 DEF KeysOf
<1>2. CASE o \in Owners(m, c, k)
  <2>1. c.owns[k] # 0 /\ o \in m.lists[k][c.owns[k]]
    BY <1>2 DEF Owners
  <2>2. m.lists[k] \in Seq(SUBSET Keys) /\ c.owns[k] \in 0..Len(m.lists[k])
    BY DEF MemoryTrue, ContextTrue
  <2>3. c.owns[k] \in DOMAIN m.lists[k]
    BY <2>1, <2>2
  <2> QED
    BY <2>1, <2>3 DEF MemoryTrue
<1> QED
  BY <1>1, <1>2

(* A manifest that a process accepts was signed for its owner.                *)
LEMMA LoadTrue ==
    ASSUME NEW m, NEW mans, MemoryTrue(m, mans), NEW c, ContextTrue(m, c),
           NEW man, man # None => ManTrue(man), NEW trusted, NEW expected,
           NEW primaryOnly, NEW o, o = Load(m, c, man, trusted, expected, primaryOnly),
           o # None
    PROVE  /\ man # None /\ o.man = man /\ o.body = man.body /\ o.ctx = c
           /\ Signed(mans, man)
<1>1. man # None /\ o = FromBytes(m, c, man, trusted, primaryOnly)
  BY DEF Load
<1>2. /\ o = [man |-> man, body |-> man.body, ctx |-> c, open |-> IsOpen(c, man.body)]
      /\ Accepts(m, c, man, trusted, primaryOnly)
  BY <1>1 DEF FromBytes
<1>3. ASSUME man.signer # None PROVE man.signer \in KeysOf(man.body.owner, mans)
  <2>1. man.signer \in Keys
    BY <1>1, <1>3 DEF ManTrue
  <2>2. man.body.owner \in {man.signer} \union Owners(m, c, man.signer)
    BY <1>2, <1>3 DEF Accepts, PossibleOwners
  <2> QED
    BY <2>1, <2>2, OwnersTrue
<1> QED
  BY <1>1, <1>2, <1>3 DEF Signed

(* With the primary key of its owner, if no other is let.                     *)
LEMMA LoadPrimary ==
    ASSUME NEW m, NEW c, NEW man, NEW expected, Load(m, c, man, None, expected, TRUE) # None
    PROVE  man.signer = man.body.owner
<1>1. FromBytes(m, c, man, None, TRUE) # None
  BY DEF Load
<1>2. Accepts(m, c, man, None, TRUE)
  BY <1>1 DEF FromBytes
<1> QED
  BY <1>2 DEF Accepts

(* A manifest in one of the local directories.                                *)
LEMMA LoadLocalTrue ==
    ASSUME NEW m, NEW mans, MemoryTrue(m, mans), NEW c, ContextTrue(m, c), StoresTrue(mans),
           NEW dir, NEW f \in Files, LoadLocal(m, c, dir, f) # None
    PROVE  /\ dir = "users" => UserTrue(m, mans, LoadLocal(m, c, dir, f))
           /\ dir = "bridges" => BridgeTrue(LoadLocal(m, c, dir, f).body)
           /\ dir = "containers" => ContainerTrue(mans, LoadLocal(m, c, dir, f))
<1> DEFINE o == LoadLocal(m, c, dir, f)
           man == content[f]
<1>1. /\ o = Load(m, DirContext(dir, c), man, None, None, dir = "users")
      /\ o # None /\ o.body.type = TypeOf(dir)
  BY DEF LoadLocal
<1>2. ContextTrue(m, DirContext(dir, c))
  BY CopyTrue DEF DirContext
<1>3. man # None => ManTrue(man) /\ (man.body.type = "user" => man \in mans)
  BY DEF StoresTrue
<1>4. /\ man # None /\ o.man = man /\ o.body = man.body /\ o.ctx = DirContext(dir, c)
      /\ Signed(mans, man)
  <2> HIDE DEF o, man
  <2> QED
    BY <1>1, <1>2, <1>3, LoadTrue
<1>5. ASSUME dir = "users" PROVE man.signer = man.body.owner
  <2>1. Load(m, DirContext(dir, c), man, None, None, TRUE) # None
    BY <1>1, <1>5, Zenon
  <2> QED
    BY <2>1, LoadPrimary
<1> HIDE DEF o
<1>6. ASSUME dir = "users" PROVE UserTrue(m, mans, o)
  <2>1. man \in UserManifests(mans)
    BY <1>1, <1>3, <1>4, <1>5, <1>6 DEF UserManifests, TypeOf
  <2> QED
    BY <1>2, <1>4, <2>1 DEF UserTrue, UserBodies
<1>7. ASSUME dir = "bridges" PROVE BridgeTrue(o.body)
  BY <1>1, <1>3, <1>4, <1>7 DEF BridgeTrue, ManTrue, TypeOf
<1>8. ASSUME dir = "containers" PROVE ContainerTrue(mans, o)
  BY <1>1, <1>4, <1>8 DEF ContainerTrue, TypeOf
<1> QED
  BY <1>6, <1>7, <1>8 DEF o

(* Listings are sequences of files.                                           *)
LEMMA OrderedIs ==
    ASSUME NEW files, files \subseteq Files
    PROVE  Ordered(files) \in Seq(files)
<1> DEFINE at == {i \in DOMAIN FileOrder : FileOrder[i] \in files}
<1>1. Ordered(files) \in Seq({FileOrder[i] : i \in at})
  BY OrderAssumption, SelectedIs DEF Ordered
<1>2. {FileOrder[i] : i \in at} \subseteq files
  OBVIOUS
<1> QED
  BY <1>1, <1>2, SeqMonotonic

(* All that loads of a local directory.                                       *)
LEMMA LoadAllTrue ==
    ASSUME NEW m, NEW mans, MemoryTrue(m, mans), NEW c, ContextTrue(m, c), StoresTrue(mans),
           NEW dir, NEW skipped
    PROVE  \E S : /\ LoadAll(m, c, dir, skipped) \in Seq(S)
                  /\ dir = "users" => \A o \in S : UserTrue(m, mans, o)
                  /\ dir = "bridges" => \A o \in S : BridgeTrue(o.body)
                  /\ dir = "containers" => \A o \in S : ContainerTrue(mans, o)
<1> DEFINE fs == {f \in Listed(dir) \ skipped : LoadLocal(m, c, dir, f) # None}
           files == Ordered(fs)
           S == {LoadLocal(m, c, dir, f) : f \in fs}
<1>1. fs \subseteq Files
  BY DEF Listed
<1>2. files \in Seq(fs)
  BY <1>1, OrderedIs
<1>3. LoadAll(m, c, dir, skipped) = [i \in DOMAIN files |-> LoadLocal(m, c, dir, files[i])]
  BY DEF LoadAll
<1> HIDE DEF files
<1>4. LoadAll(m, c, dir, skipped) \in Seq(S)
  <2>1. DOMAIN files = 1..Len(files) /\ Len(files) \in Nat /\ \A i \in 1..Len(files) : files[i] \in fs
    BY <1>2, ElementOfSeq, LenProperties
  <2> HIDE DEF fs
  <2>2. LoadAll(m, c, dir, skipped) \in [1..Len(files) -> S]
    BY <1>3, <2>1
  <2> QED
    BY <2>1, <2>2, SeqDef
<1>5. \A o \in S : /\ dir = "users" => UserTrue(m, mans, o)
                   /\ dir = "bridges" => BridgeTrue(o.body)
                   /\ dir = "containers" => ContainerTrue(mans, o)
  BY <1>1, LoadLocalTrue
<1> QED
  BY <1>4, <1>5

(* Without any users, a context is taught by those of the user directory.     *)
LEMMA RecognizeTrue ==
    ASSUME NEW m, NEW mans, MemoryTrue(m, mans), NEW c, ContextTrue(m, c), StoresTrue(mans),
           NEW users, users \subseteq UserBodies(mans)
    PROVE  /\ MemoryTrue(Recognize(m, c, users).m, mans)
           /\ ContextTrue(Recognize(m, c, users).m, Recognize(m, c, users).c)
           /\ Later(m, mans, Recognize(m, c, users).m, mans)
<1> DEFINE whom == IF users = {} THEN LocalUsers(m, c) ELSE users
<1>1. LocalUsers(m, c) \subseteq UserBodies(mans)
  <2>1. PICK S : LoadAll(m, c, "users", {}) \in Seq(S) /\ \A o \in S : UserTrue(m, mans, o)
    BY LoadAllTrue
  <2>2. Range(LoadAll(m, c, "users", {})) \subseteq S
    BY <2>1, RangeOfSeq
  <2> QED
    BY <2>1, <2>2 DEF LocalUsers, UserTrue
<1>2. whom \subseteq UserBodies(mans)
  BY <1>1
<1>3. Recognize(m, c, users) = AddUserKeys(m, c, whom)
  BY DEF Recognize
<1>4. \A u \in mans : ManTrue(u)
  BY DEF StoresTrue
<1> HIDE DEF whom
<1> QED
  BY <1>2, <1>3, <1>4, AddUserKeysTrue

-----------------------------------------------------------------------------
(* Sequences of sources. *)

(* A sequence of true sources.                                                *)
LEMMA SourcesAre ==
    ASSUME NEW m, NEW mans, NEW q, NEW n \in Nat, q = [i \in 1..n |-> q[i]],
           \A i \in 1..n : SourceTrue(m, mans, q[i])
    PROVE  SourcesTrue(m, mans, q)
<1> DEFINE S == {q[i] : i \in 1..n}
<1>1. q \in [1..n -> S]
  OBVIOUS
<1>2. q \in Seq(S)
  BY <1>1, SeqDef
<1>3. \A x \in S : SourceTrue(m, mans, x)
  OBVIOUS
<1> QED
  BY <1>2, <1>3 DEF SourcesTrue

(* None, one, and one after the other.                                        *)
LEMMA SourcesJoin ==
    ASSUME NEW m, NEW mans
    PROVE  /\ SourcesTrue(m, mans, <<>>)
           /\ \A x : SourceTrue(m, mans, x) => SourcesTrue(m, mans, <<x>>)
           /\ \A p, q : SourcesTrue(m, mans, p) /\ SourcesTrue(m, mans, q)
                            => SourcesTrue(m, mans, p \o q)
<1>1. SourcesTrue(m, mans, <<>>)
  <2>1. ASSUME NEW q, q = <<>> PROVE SourcesTrue(m, mans, q)
    <3>1. q = [i \in 1..0 |-> q[i]] /\ 0 \in Nat
      BY <2>1
    <3>2. \A i \in 1..0 : SourceTrue(m, mans, q[i])
      OBVIOUS
    <3> QED
      BY <3>1, <3>2, SourcesAre
  <2> QED
    BY <2>1
<1>2. ASSUME NEW x, SourceTrue(m, mans, x) PROVE SourcesTrue(m, mans, <<x>>)
  <2>1. <<x>> = [i \in 1..1 |-> <<x>>[i]] /\ \A i \in 1..1 : <<x>>[i] = x
    OBVIOUS
  <2> QED
    BY <1>2, <2>1, SourcesAre
<1>3. ASSUME NEW p, NEW q, SourcesTrue(m, mans, p), SourcesTrue(m, mans, q)
      PROVE  SourcesTrue(m, mans, p \o q)
  <2>1. PICK S : p \in Seq(S) /\ \A x \in S : SourceTrue(m, mans, x)
    BY <1>3 DEF SourcesTrue
  <2>2. PICK T : q \in Seq(T) /\ \A x \in T : SourceTrue(m, mans, x)
    BY <1>3 DEF SourcesTrue
  <2>3. p \in Seq(S \union T) /\ q \in Seq(S \union T)
    BY <2>1, <2>2, SeqMonotonic
  <2>4. p \o q \in Seq(S \union T)
    BY <2>3, ConcatProperties
  <2>5. \A x \in S \union T : SourceTrue(m, mans, x)
    BY <2>1, <2>2
  <2> QED
    BY <2>4, <2>5 DEF SourcesTrue
<1> QED
  BY <1>1, <1>2, <1>3

(* The first source, and those after it.                                      *)
LEMMA SourcesSplit ==
    ASSUME NEW m, NEW mans, NEW q, SourcesTrue(m, mans, q), q # <<>>
    PROVE  SourceTrue(m, mans, Head(q)) /\ SourcesTrue(m, mans, Tail(q))
<1>1. PICK S : q \in Seq(S) /\ \A x \in S : SourceTrue(m, mans, x)
  BY DEF SourcesTrue
<1>2. Head(q) \in S /\ Tail(q) \in Seq(S)
  BY <1>1, HeadTailProperties
<1> QED
  BY <1>1, <1>2 DEF SourcesTrue

(* A selection of a sequence of loaded objects.                               *)
LEMMA SelectedLoaded ==
    ASSUME NEW S, NEW s \in Seq(S), NEW at \in SUBSET DOMAIN s
    PROVE  \E n \in Nat : DOMAIN Selected(s, at) = 1..n /\ \A i \in 1..n : Selected(s, at)[i] \in S
<1> DEFINE t == Selected(s, at)
           T == {s[i] : i \in at}
<1>1. T \subseteq S
  <2>1. \A i \in DOMAIN s : s[i] \in S
    BY ElementOfSeq
  <2> QED
    BY <2>1
<1>2. t \in Seq(T)
  BY SelectedIs
<1> HIDE DEF t, T
<1>3. t \in Seq(S)
  BY <1>1, <1>2, SeqMonotonic
<1>4. Len(t) \in Nat /\ DOMAIN t = 1..Len(t) /\ \A i \in 1..Len(t) : t[i] \in S
  BY <1>3, LenProperties, ElementOfSeq
<1> QED
  BY <1>4 DEF t

(* The local containers and bridges of an owner.                              *)
LEMMA ResolveLocalTrue ==
    ASSUME NEW m, NEW mans, NEW s, LoadedTrue(m, mans, s), NEW part, NEW owner,
           NEW via, via \subseteq UserBodies(mans)
    PROVE  SourcesTrue(m, mans, ResolveLocal(s, part, owner, via))
<1> DEFINE fits(objs) == {i \in DOMAIN objs :
                              objs[i].body.owner = owner /\ Matches(part, objs[i].body.paths)}
           cons == Selected(s.containers, fits(s.containers))
           bridges == Selected(s.bridges, fits(s.bridges))
           first == [i \in DOMAIN cons |-> Found(Step(s.req.owner, None, None, None, cons[i], via))]
           second == [i \in DOMAIN bridges |-> BridgeOf(bridges[i].body, None, owner, TRUE, via)]
<1>1. SourcesTrue(m, mans, first)
  <2>1. PICK S : s.containers \in Seq(S) /\ \A o \in S : ContainerTrue(mans, o)
    BY DEF LoadedTrue
  <2>2. PICK n \in Nat : DOMAIN cons = 1..n /\ \A i \in 1..n : cons[i] \in S
    BY <2>1, SelectedLoaded
  <2> HIDE DEF cons
  <2>3. \A i \in 1..n : SourceTrue(m, mans, first[i])
    BY <2>1, <2>2 DEF SourceTrue, StepTrue, Found, Step, MaybeContext
  <2>4. first = [i \in 1..n |-> first[i]]
    BY <2>2
  <2> HIDE DEF first
  <2> QED
    BY <2>3, <2>4, SourcesAre
<1>2. SourcesTrue(m, mans, second)
  <2>1. PICK S : s.bridges \in Seq(S) /\ \A o \in S : BridgeTrue(o.body)
    BY DEF LoadedTrue
  <2>2. PICK n \in Nat : DOMAIN bridges = 1..n /\ \A i \in 1..n : bridges[i] \in S
    BY <2>1, SelectedLoaded
  <2> HIDE DEF bridges
  <2>3. \A i \in 1..n : SourceTrue(m, mans, second[i])
    BY <2>1, <2>2 DEF SourceTrue, BridgeOf, MaybeContext
  <2>4. second = [i \in 1..n |-> second[i]]
    BY <2>2
  <2> HIDE DEF second
  <2> QED
    BY <2>3, <2>4, SourcesAre
<1>3. ResolveLocal(s, part, owner, via) = first \o second
  BY DEF ResolveLocal
<1> HIDE DEF first, second
<1> QED
  BY <1>1, <1>2, <1>3, SourcesJoin

(* The sources a search begins with.                                          *)
LEMMA ResolveFirstTrue ==
    ASSUME NEW m, NEW mans, NEW s, LoadedTrue(m, mans, s), s.req.hint \in Files \union {None}
    PROVE  SourcesTrue(m, mans, ResolveFirst(s))
<1> DEFINE hint == IF s.req.hint = None THEN <<>> ELSE <<HintOf(s.req.hint)>>
           own == Selected(s.users, {i \in DOMAIN s.users : s.users[i].body.owner = s.req.owner})
           last == [i \in DOMAIN own |->
                       UserOf(own[i].body, own[i].ctx, None, s.req.owner, None, {}, TRUE)]
<1>1. SourcesTrue(m, mans, hint)
  <2>1. s.req.hint # None => SourceTrue(m, mans, HintOf(s.req.hint))
    BY DEF SourceTrue, HintOf
  <2> QED
    BY <2>1, SourcesJoin
<1>2. SourcesTrue(m, mans, ResolveLocal(s, s.req.parts[1], s.req.owner, {}))
  BY ResolveLocalTrue
<1>3. SourcesTrue(m, mans, last)
  <2>1. PICK S : s.users \in Seq(S) /\ \A o \in S : UserTrue(m, mans, o)
    BY DEF LoadedTrue
  <2>2. PICK n \in Nat : DOMAIN own = 1..n /\ \A i \in 1..n : own[i] \in S
    BY <2>1, SelectedLoaded
  <2> HIDE DEF own
  <2>3. \A i \in 1..n : SourceTrue(m, mans, last[i])
    BY <2>1, <2>2 DEF SourceTrue, ForestTrue, UserOf, MaybeContext, UserTrue
  <2>4. last = [i \in 1..n |-> last[i]]
    BY <2>2
  <2> HIDE DEF last
  <2> QED
    BY <2>3, <2>4, SourcesAre
<1>4. ResolveFirst(s) = hint \o ResolveLocal(s, s.req.parts[1], s.req.owner, {}) \o last
  BY DEF ResolveFirst
<1> HIDE DEF hint, last
<1> QED
  BY <1>1, <1>2, <1>3, <1>4, SourcesJoin

-----------------------------------------------------------------------------
(* Frames. *)

(* The innermost frame, another one in its place, one more, and one less.     *)
LEMMA FramesChange ==
    ASSUME NEW m, NEW mans, NEW q, FramesTrue(m, mans, q)
    PROVE  /\ Len(q) \in Nat
           /\ Len(q) > 0 => FrameTrue(m, mans, q[Len(q)])
           /\ \A fr : Len(q) > 0 /\ FrameTrue(m, mans, fr)
                          => FramesTrue(m, mans, [q EXCEPT ![Len(q)] = fr])
           /\ \A fr : FrameTrue(m, mans, fr) => FramesTrue(m, mans, Append(q, fr))
           /\ Len(q) > 0 => FramesTrue(m, mans, Front(q))
<1>1. PICK S : q \in Seq(S) /\ \A fr \in S : FrameTrue(m, mans, fr)
  BY DEF FramesTrue
<1>2. Len(q) \in Nat /\ DOMAIN q = 1..Len(q) /\ \A i \in 1..Len(q) : q[i] \in S
  BY <1>1, LenProperties, ElementOfSeq
<1>3. Len(q) > 0 => FrameTrue(m, mans, q[Len(q)])
  BY <1>1, <1>2
<1>4. ASSUME NEW fr, FrameTrue(m, mans, fr)
      PROVE  /\ FramesTrue(m, mans, Append(q, fr))
             /\ Len(q) > 0 => FramesTrue(m, mans, [q EXCEPT ![Len(q)] = fr])
  <2> DEFINE T == S \union {fr}
  <2>1. q \in Seq(T) /\ fr \in T
    BY <1>1, SeqMonotonic
  <2>2. \A x \in T : FrameTrue(m, mans, x)
    BY <1>1, <1>4
  <2> HIDE DEF T
  <2>3. Append(q, fr) \in Seq(T)
    BY <2>1, AppendProperties
  <2>4. Len(q) > 0 => [q EXCEPT ![Len(q)] = fr] \in Seq(T)
    BY <1>2, <2>1, ExceptSeq
  <2> QED
    BY <2>2, <2>3, <2>4 DEF FramesTrue
<1>5. Len(q) > 0 => Front(q) \in Seq(S)
  BY <1>1, <1>2, SubSeqProperties DEF Front
<1> QED
  BY <1>1, <1>2, <1>3, <1>4, <1>5 DEF FramesTrue

(* A search with other frames.                                                *)
LEMMA FramesPut ==
    ASSUME NEW m, NEW mans, NEW s, SearchTrue(m, mans, s), NEW q, FramesTrue(m, mans, q)
    PROVE  SearchTrue(m, mans, [s EXCEPT !.frames = q])
<1> DEFINE t == [s EXCEPT !.frames = q]
<1>1. /\ DOMAIN t = {"req", "containers", "users", "bridges", "frames", "got"}
      /\ t.req = s.req /\ t.containers = s.containers /\ t.users = s.users
      /\ t.bridges = s.bridges /\ t.frames = q /\ t.got = s.got
  BY DEF SearchTrue
<1> HIDE DEF t
<1>2. SearchTrue(m, mans, t)
  BY <1>1 DEF SearchTrue, LoadedTrue
<1> QED
  BY <1>2 DEF t

(* The first source of the innermost frame is replaced by others.             *)
LEMMA BecomeTrue ==
    ASSUME NEW m, NEW mans, NEW s, SearchTrue(m, mans, s), NEW d, d = Len(s.frames), d > 0,
           s.frames[d].todo # <<>>, NEW sources, SourcesTrue(m, mans, sources)
    PROVE  SearchTrue(m, mans, [s EXCEPT !.frames[d].todo = sources \o Tail(@)])
<1> DEFINE old == s.frames[d]
           fr == [old EXCEPT !.todo = sources \o Tail(@)]
<1>1. FramesTrue(m, mans, s.frames) /\ FrameTrue(m, mans, old)
  BY FramesChange DEF SearchTrue
<1>2. SourcesTrue(m, mans, sources \o Tail(old.todo))
  BY <1>1, SourcesSplit, SourcesJoin DEF FrameTrue
<1>3. FrameTrue(m, mans, fr)
  <2>1. /\ DOMAIN fr = {"key", "pool", "seen", "todo"}
        /\ fr.pool = old.pool /\ fr.seen = old.seen /\ fr.todo = sources \o Tail(old.todo)
    BY <1>1 DEF FrameTrue
  <2> HIDE DEF fr, old
  <2> QED
    BY <1>1, <1>2, <2>1 DEF FrameTrue
<1>4. FramesTrue(m, mans, [s.frames EXCEPT ![d] = fr])
  BY <1>1, <1>3, FramesChange
<1>5. [s EXCEPT !.frames[d].todo = sources \o Tail(@)] = [s EXCEPT !.frames = [s.frames EXCEPT ![d] = fr]]
  <2>1. "frames" \in DOMAIN s
    BY DEF SearchTrue
  <2> QED
    BY <2>1
<1> HIDE DEF fr
<1> QED
  BY <1>4, <1>5, FramesPut

-----------------------------------------------------------------------------
(* Steps of a search. *)

(* Where a search stands.                                                     *)
LEMMA AtTrue ==
    ASSUME Learned, Busy
    PROVE  /\ search # None /\ SearchTrue(mem, said, search) /\ Depth \in Nat /\ Depth > 0
           /\ FrameTrue(mem, said, Top)
           /\ Top.todo # <<>> => SourceTrue(mem, said, Source)
<1>1. /\ search # None /\ SearchTrue(mem, said, search) /\ Depth > 0
      /\ FramesTrue(mem, said, search.frames)
  BY DEF Learned, Busy, SearchTrue
<1>2. Depth \in Nat /\ FrameTrue(mem, said, Top)
  BY <1>1, FramesChange DEF Depth, Top
<1>3. Top.todo # <<>> => SourceTrue(mem, said, Source)
  BY <1>2, SourcesSplit DEF FrameTrue, Source
<1> QED
  BY <1>1, <1>2, <1>3

(* Steps that keep what is stored, the cache and the scenario.                *)
LEMMA KeepsTrue ==
    ASSUME Learned, Keeps, MemoryTrue(mem', said), ContextTrue(mem', root'),
           Later(mem, said, mem', said),
           search' # None => SearchTrue(mem', said, search'),
           answer' = answer \/ \A g \in answer'.got : GotTrue(said, g)
    PROVE  Learned'
<1> USE DEF Keeps, storages
<1>1. (mode \in Modes /\ written \in Nat /\ StoresTrue(said))'
  BY DEF Learned, StoresTrue
<1>2. \A key \in DOMAIN cache' : \A s \in cache'[key] : StepTrue(mem', said', s)
  BY SourceLater DEF Learned
<1>3. answer' # None => \A g \in answer'.got : GotTrue(said', g)
  BY DEF Learned
<1> QED
  BY <1>1, <1>2, <1>3 DEF Learned

(* Memory that stays as it is.                                                *)
LEMMA LaterSame ==
    ASSUME Learned
    PROVE  Later(mem, said, mem, said)
<1>1. \A k \in Keys : Len(mem.lists[k]) \in Nat
  BY DEF Learned, MemoryTrue
<1> QED
  BY <1>1 DEF Later

(* The end of a search.                                                       *)
LEMMA EndTrue ==
    ASSUME Learned, search # None, NEW ok, NEW found, End(ok, found),
           \A g \in found : GotTrue(said, g)
    PROVE  search' = None /\ \A g \in answer'.got : GotTrue(said, g)
<1>1. \A g \in search.got : GotTrue(said, g)
  BY DEF Learned, SearchTrue
<1>2. search' = None /\ answer'.got = search.got \union found
  BY DEF End
<1> QED
  BY <1>1, <1>2

(* An end that finds nothing more.                                            *)
LEMMA EndsTrue ==
    ASSUME Learned, search # None, NEW ok, End(ok, {})
    PROVE  search' = None /\ \A g \in answer'.got : GotTrue(said, g)
<1>1. \A g \in search.got : GotTrue(said, g)
  BY DEF Learned, SearchTrue
<1>2. search' = None /\ answer'.got = search.got
  BY DEF End
<1> QED
  BY <1>1, <1>2

(* Sources in the place of the one that was looked at.                        *)
LEMMA YieldsTrue ==
    ASSUME Learned, Busy, Top.todo # <<>>, NEW sources, Yields(sources),
           Later(mem, said, mem', said), SourcesTrue(mem', said, sources)
    PROVE  SearchTrue(mem', said, search') /\ answer' = answer
<1>1. SearchTrue(mem, said, search) /\ Depth > 0
  BY AtTrue
<1>2. SearchTrue(mem', said, search)
  BY <1>1, SearchLater
<1>3. SearchTrue(mem', said, [search EXCEPT !.frames[Depth].todo = sources \o Tail(@)])
  BY <1>1, <1>2, BecomeTrue DEF Depth, Top
<1> QED
  BY <1>3 DEF Yields, Become

(* Steps that only look for other sources, or end the search with none.       *)
LEMMA LooksTrue ==
    ASSUME Learned, Busy, Top.todo # <<>>, Keeps, UNCHANGED <<mem, root>>, NEW sources,
           (Yields(sources) /\ SourcesTrue(mem, said, sources)) \/ End(FALSE, {})
    PROVE  Learned'
<1>1. search # None /\ Later(mem, said, mem', said) /\ MemoryTrue(mem', said)
      /\ ContextTrue(mem', root')
  BY AtTrue, LaterSame DEF Learned
<1>2. CASE Yields(sources) /\ SourcesTrue(mem, said, sources)
  BY <1>1, <1>2, YieldsTrue, KeepsTrue
<1>3. CASE End(FALSE, {})
  BY <1>1, <1>3, EndsTrue, KeepsTrue
<1> QED
  BY <1>2, <1>3

(* The body of a user's own manifest.                                         *)
LEMMA UserBodyIs ==
    ASSUME NEW mans, \A man \in mans : ManTrue(man), NEW u \in UserBodies(mans)
    PROVE  /\ u.type = "user" /\ Wellformed(u)
           /\ \E man \in UserManifests(mans) : u = man.body
BY DEF UserBodies, UserManifests, ManTrue

(* A user comes before the containers of its catalog.                         *)
LEMMA EnterForestTrue == Learned /\ EnterForest => Learned'
<1> SUFFICES ASSUME Learned, EnterForest PROVE Learned'
  OBVIOUS
<1> DEFINE u == Source.user
           step == Step(u.owner, Source.ctx, u, Source.bridge, None, Source.via \union {u})
           first == IF Source.first THEN <<>> ELSE <<Found(step)>>
           entries == [i \in DOMAIN u.catalog |-> Entry(u.catalog[i], Source)]
<1>1. Busy /\ Top.todo # <<>> /\ Source.kind = "user" /\ Keeps /\ UNCHANGED <<mem, root>>
  BY DEF EnterForest, At, Source
<1>2. Yields(first \o entries) \/ End(FALSE, {})
  BY DEF EnterForest
<1>3. ForestTrue(mem, said, Source)
  BY <1>1, AtTrue DEF SourceTrue
<1>4. u.type = "user" /\ Wellformed(u) /\ u \in UserBodies(said)
  BY <1>3, UserBodyIs DEF ForestTrue, Learned, StoresTrue
<1>5. SourcesTrue(mem, said, first)
  <2>1. SourceTrue(mem, said, Found(step))
    BY <1>3, <1>4 DEF SourceTrue, Found, StepTrue, Step, ForestTrue
  <2> HIDE DEF step
  <2> QED
    BY <2>1, SourcesJoin
<1>6. SourcesTrue(mem, said, entries)
  <2>1. /\ u.catalog \in Seq(Range(u.catalog))
        /\ \A e \in Range(u.catalog) : EntryTrue(e)
    BY <1>4 DEF Wellformed, EntryTrue
  <2>2. Len(u.catalog) \in Nat /\ DOMAIN u.catalog = 1..Len(u.catalog)
    BY <2>1
  <2>3. \A i \in 1..Len(u.catalog) : EntryTrue(u.catalog[i])
    BY <2>1, <2>2, ElementOfSeq
  <2>4. \A i \in 1..Len(u.catalog) : SourceTrue(mem, said, entries[i])
    BY <1>3, <2>2, <2>3 DEF SourceTrue, Entry
  <2>5. entries = [i \in 1..Len(u.catalog) |-> entries[i]]
    BY <2>2
  <2> HIDE DEF entries, u
  <2> QED
    BY <2>2, <2>4, <2>5, SourcesAre
<1>7. SourcesTrue(mem, said, first \o entries)
  BY <1>5, <1>6, SourcesJoin
<1> HIDE DEF first, entries
<1> QED
  BY <1>1, <1>2, <1>7, LooksTrue

(* A container in the catalog of a user.                                      *)
LEMMA ReadEntryTrue == Learned /\ ReadEntry => Learned'
<1> SUFFICES ASSUME Learned, ReadEntry PROVE Learned'
  OBVIOUS
<1> DEFINE e == Source.entry
           of == Source.of
           con == CatalogContainer(e, of)
           step == Step(of.user.owner, of.ctx, of.user, of.bridge, con, of.via \union {of.user})
           x == IF of.first THEN NextOf(step) ELSE Found(step)
<1>1. Busy /\ Top.todo # <<>> /\ Source.kind = "entry" /\ Keeps /\ UNCHANGED <<mem, root>>
  BY DEF ReadEntry, At, Source
<1>2. \/ End(FALSE, {})
      \/ Yields(<<>>)
      \/ con # None /\ con.body.type = "container" /\ Yields(<<x>>)
  BY DEF ReadEntry
<1>3. ForestTrue(mem, said, of) /\ EntryTrue(e)
  BY <1>1, AtTrue DEF SourceTrue
<1>4. ASSUME con # None, con.body.type = "container" PROVE ContainerTrue(said, con)
  <2>1. CASE e.how = "inline"
    <3>1. con.man.signer = of.user.owner /\ con.man.body = of.user
      BY <2>1 DEF CatalogContainer
    <3> HIDE DEF con
    <3> QED
      BY <1>4, <3>1 DEF ContainerTrue, Signed, KeysOf
  <2>2. CASE e.how # "inline"
    <3>1. PICK p : con = Load(mem, Context(of.uctx), content[e.at], None, None, p)
      BY <2>2, Zenon DEF CatalogContainer
    <3>2. e.at \in Files /\ (content[e.at] # None => ManTrue(content[e.at]))
      BY <1>3, <2>2 DEF EntryTrue, Learned, StoresTrue
    <3>3. MemoryTrue(mem, said) /\ ContextTrue(mem, Context(of.uctx))
      BY <1>3 DEF Learned, ForestTrue, MaybeContext, Context
    <3> HIDE DEF con
    <3>4. con.man = content[e.at] /\ Signed(said, con.man)
      BY <1>4, <3>1, <3>2, <3>3, LoadTrue
    <3> QED
      BY <1>4, <3>4 DEF ContainerTrue
  <2> QED
    BY <2>1, <2>2
<1>5. ASSUME con # None, con.body.type = "container" PROVE SourcesTrue(mem, said, <<x>>)
  <2>1. ContainerTrue(said, con)
    BY <1>4, <1>5
  <2> HIDE DEF con
  <2>2. StepTrue(mem, said, step)
    BY <1>3, <2>1 DEF StepTrue, Step, ForestTrue
  <2> HIDE DEF step
  <2>3. SourceTrue(mem, said, x)
    BY <2>2 DEF SourceTrue, NextOf, Found
  <2> HIDE DEF x
  <2> QED
    BY <2>3, SourcesJoin
<1>6. SourcesTrue(mem, said, <<>>)
  BY SourcesJoin
<1> HIDE DEF con, x
<1> QED
  BY <1>1, <1>2, <1>5, <1>6, LooksTrue

(* A container is looked at beside, and in, its catalog.                      *)
LEMMA LookInsideTrue == Learned /\ LookInside => Learned'
<1> SUFFICES ASSUME Learned, LookInside PROVE Learned'
  OBVIOUS
<1> DEFINE s == Source.step
           local == ResolveLocal(search, Part, s.owner, s.via)
<1>1. Busy /\ Top.todo # <<>> /\ Source.kind = "next" /\ Keeps /\ UNCHANGED <<mem, root>>
  BY DEF LookInside, At, Source
<1>2. Yields(<<>>) \/ Yields(local \o <<ChildrenOf(s)>>)
  BY DEF LookInside
<1>3. StepTrue(mem, said, s) /\ LoadedTrue(mem, said, search)
  BY <1>1, AtTrue DEF SourceTrue, SearchTrue
<1>4. SourcesTrue(mem, said, local)
  BY <1>3, ResolveLocalTrue DEF StepTrue
<1>5. SourceTrue(mem, said, ChildrenOf(s))
  BY <1>3 DEF SourceTrue, ChildrenOf
<1>6. SourcesTrue(mem, said, <<>>) /\ SourcesTrue(mem, said, local \o <<ChildrenOf(s)>>)
  BY <1>4, <1>5, SourcesJoin
<1> HIDE DEF local
<1> QED
  BY <1>1, <1>2, <1>6, LooksTrue

(* The files of a catalog.                                                    *)
LEMMA ListChildrenTrue == Learned /\ ListChildren => Learned'
<1> SUFFICES ASSUME Learned, ListChildren PROVE Learned'
  OBVIOUS
<1> DEFINE s == Source.step
           fs == {f \in Files : /\ Loc[f] = s.con.body.store.loc
                                /\ content[f] # None
                                /\ Name[f] = IF Part = AnyPart THEN "uuid" ELSE Part}
           files == ChildFiles(s.con.body.store.loc, Part)
           children == [i \in DOMAIN files |-> Child(files[i], s)]
<1>1. Busy /\ Top.todo # <<>> /\ Source.kind = "children" /\ Keeps /\ UNCHANGED <<mem, root>>
  BY DEF ListChildren, At, Source
<1>2. End(FALSE, {}) \/ Yields(<<>>) \/ Yields(children)
  BY DEF ListChildren
<1>3. StepTrue(mem, said, s)
  BY <1>1, AtTrue DEF SourceTrue
<1>4. SourcesTrue(mem, said, children)
  <2>1. files \in Seq(fs) /\ fs \subseteq Files
    <3>1. files = Ordered(fs)
      BY DEF ChildFiles
    <3> HIDE DEF files
    <3> QED
      BY <3>1, OrderedIs
  <2> HIDE DEF fs, files
  <2>2. /\ Len(files) \in Nat /\ DOMAIN files = 1..Len(files)
        /\ \A i \in 1..Len(files) : files[i] \in Files
    BY <2>1, ElementOfSeq
  <2>3. \A i \in 1..Len(files) : SourceTrue(mem, said, children[i])
    BY <1>3, <2>2 DEF SourceTrue, Child
  <2>4. children = [i \in 1..Len(files) |-> children[i]]
    BY <2>2
  <2> HIDE DEF children
  <2> QED
    BY <2>2, <2>3, <2>4, SourcesAre
<1>5. SourcesTrue(mem, said, <<>>)
  BY SourcesJoin
<1> HIDE DEF children
<1> QED
  BY <1>1, <1>2, <1>4, <1>5, LooksTrue

(* A manifest in the catalog of a container.                                  *)
LEMMA ReadChildTrue == Learned /\ ReadChild => Learned'
<1> SUFFICES ASSUME Learned, ReadChild PROVE Learned'
  OBVIOUS
<1> DEFINE s == Source.step
           man == content[Source.file]
           obj == LoadChild(s, man)
           bridge == BridgeOf(obj.body, s.ctx, s.owner, FALSE, s.via)
           here == Step(s.owner, s.ctx, None, None, obj, s.via)
<1>1. Busy /\ Top.todo # <<>> /\ Source.kind = "child" /\ Keeps /\ UNCHANGED <<mem, root>>
  BY DEF ReadChild, At, Source
<1>2. \/ End(FALSE, {})
      \/ Yields(<<>>)
      \/ obj # None /\ obj.body.type = "bridge" /\ Yields(<<bridge>>)
      \/ obj # None /\ obj.body.type = "container" /\ Yields(<<Found(here)>>)
  BY DEF ReadChild, ContainerStep
<1>3. StepTrue(mem, said, s) /\ Source.file \in Files
  BY <1>1, AtTrue DEF SourceTrue
<1>4. ASSUME obj # None
      PROVE  obj.man = man /\ obj.body = man.body /\ ManTrue(man) /\ Signed(said, man)
  <2>1. man # None => ManTrue(man)
    BY <1>3 DEF Learned, StoresTrue
  <2>2. MemoryTrue(mem, said) /\ ContextTrue(mem, Context(s.ctx))
    BY <1>3 DEF Learned, StepTrue, MaybeContext, Context
  <2>3. PICK p : obj = Load(mem, Context(s.ctx), man,
                            IF s.con.body.store.loc \in TrustedLocs THEN s.con.body.owner ELSE None,
                            s.con.body.owner, p)
    BY Zenon DEF LoadChild
  <2> HIDE DEF obj, man
  <2> QED
    BY <1>4, <2>1, <2>2, <2>3, LoadTrue
<1> HIDE DEF obj, man
<1>5. ASSUME obj # None, obj.body.type = "bridge" PROVE SourcesTrue(mem, said, <<bridge>>)
  <2>1. SourceTrue(mem, said, bridge)
    BY <1>3, <1>4, <1>5 DEF SourceTrue, BridgeOf, BridgeTrue, ManTrue, StepTrue
  <2> HIDE DEF bridge
  <2> QED
    BY <2>1, SourcesJoin
<1>6. ASSUME obj # None, obj.body.type = "container" PROVE SourcesTrue(mem, said, <<Found(here)>>)
  <2>1. StepTrue(mem, said, here)
    BY <1>3, <1>4, <1>6 DEF Step, StepTrue, ContainerTrue
  <2> HIDE DEF here
  <2>2. SourceTrue(mem, said, Found(here))
    BY <2>1 DEF SourceTrue, Found
  <2> QED
    BY <2>2, SourcesJoin
<1>7. SourcesTrue(mem, said, <<>>)
  BY SourcesJoin
<1> HIDE DEF bridge, here
<1> QED
  BY <1>1, <1>2, <1>5, <1>6, <1>7, LooksTrue

(* A process that learned twice.                                              *)
LEMMA LaterTwice ==
    ASSUME NEW m, NEW mans, NEW m2, NEW mans2, NEW m3, NEW mans3,
           Later(m, mans, m2, mans2), Later(m2, mans2, m3, mans3)
    PROVE  Later(m, mans, m3, mans3)
<1>1. ASSUME NEW k \in Keys
      PROVE  /\ Len(m.lists[k]) \in Nat /\ Len(m3.lists[k]) \in Nat
             /\ Len(m.lists[k]) <= Len(m3.lists[k])
  BY DEF Later
<1> QED
  BY <1>1 DEF Later

(* The manifest at the hint, and what its keys are learned from.              *)
LEMMA ReadHintTrue == Learned /\ ReadHint => Learned'
<1> SUFFICES ASSUME Learned, ReadHint PROVE Learned'
  OBVIOUS
<1> DEFINE man == content[Source.file]
           v == VerifyAndLoadPubkeys(mem, root, man)
           user == Load(v.m, v.c, man, None, search.req.owner, FALSE)
           x == UserOf(user.body, None, None, search.req.owner, None, {}, TRUE)
<1>1. Busy /\ Top.todo # <<>> /\ Source.kind = "hint" /\ Keeps
  BY DEF ReadHint, At, Source
<1>2. \/ End(FALSE, {}) /\ UNCHANGED <<mem, root>>
      \/ /\ man # None /\ v.ok /\ mem' = v.m /\ root' = v.c
         /\ End(FALSE, {}) \/ (user # None /\ user.body.type = "user" /\ Yields(<<x>>))
  BY DEF ReadHint
<1>3. search # None /\ Source.file \in Files
  BY <1>1, AtTrue DEF SourceTrue
<1>4. CASE End(FALSE, {}) /\ UNCHANGED <<mem, root>>
  BY <1>1, <1>4, LooksTrue
<1>5. CASE /\ man # None /\ v.ok /\ mem' = v.m /\ root' = v.c
           /\ End(FALSE, {}) \/ (user # None /\ user.body.type = "user" /\ Yields(<<x>>))
  <2>1. MemoryTrue(mem, said) /\ ContextTrue(mem, root) /\ ManTrue(man)
        /\ (man.body.type = "user" => man \in said)
    BY <1>3, <1>5 DEF Learned, StoresTrue
  <2> HIDE DEF man
  <2>2. /\ MemoryTrue(v.m, said) /\ ContextTrue(v.m, v.c) /\ Later(mem, said, v.m, said)
        /\ v.ok /\ man.body.type = "user" => man \in UserManifests(said)
    BY <2>1, VerifyAndLoadPubkeysTrue
  <2> HIDE DEF v
  <2>3. PICK p : user = Load(v.m, v.c, man, None, search.req.owner, p)
    BY Zenon
  <2> HIDE DEF user
  <2>4. MemoryTrue(mem', said) /\ ContextTrue(mem', root') /\ Later(mem, said, mem', said)
    BY <1>5, <2>2
  <2>5. CASE End(FALSE, {})
    BY <1>1, <1>3, <2>4, <2>5, EndsTrue, KeepsTrue
  <2>6. CASE user # None /\ user.body.type = "user" /\ Yields(<<x>>)
    <3>1. user.body = man.body
      BY <2>1, <2>2, <2>3, <2>6, LoadTrue
    <3>2. user.body \in UserBodies(said)
      BY <1>5, <2>2, <2>6, <3>1 DEF UserBodies
    <3>3. SourceTrue(mem', said, x)
      BY <3>2 DEF SourceTrue, UserOf, ForestTrue, MaybeContext
    <3> HIDE DEF x
    <3>4. SourcesTrue(mem', said, <<x>>)
      BY <3>3, SourcesJoin
    <3>5. SearchTrue(mem', said, search') /\ answer' = answer
      BY <1>1, <2>4, <2>6, <3>4, YieldsTrue
    <3> QED
      BY <1>1, <2>4, <3>5, KeepsTrue
  <2> QED
    BY <1>5, <2>5, <2>6
<1> HIDE DEF man, v, user, x
<1> QED
  BY <1>2, <1>4, <1>5

(* The manifest behind a bridge, and the context its user is met with.        *)
LEMMA CrossBridgeTrue == Learned /\ CrossBridge => Learned'
<1> SUFFICES ASSUME Learned, CrossBridge PROVE Learned'
  OBVIOUS
<1> DEFINE b == Source.bridge
           c == Copy(Context(Source.ctx))
           known == AddPubkeys(mem, c, {b.to}, NoOwners)
           user == UserAt(b, known.m, known.c)
           all == Recognize(known.m, known.c, {user.body})
           x == UserOf(user.body, all.c, all.c, b.to, b, Source.via, FALSE)
<1>1. Busy /\ Top.todo # <<>> /\ Source.kind = "bridge" /\ Keeps /\ UNCHANGED root
  BY DEF CrossBridge, At, Source
<1>2. \/ End(FALSE, {}) /\ UNCHANGED mem
      \/ Yields(<<>>) /\ UNCHANGED mem
      \/ Yields(<<>>) /\ mem' = known.m
      \/ user # None /\ user.body.type = "user" /\ mem' = all.m /\ Yields(<<x>>)
  BY DEF CrossBridge
<1>3. BridgeTrue(b) /\ MaybeContext(mem, Source.ctx) /\ Source.via \subseteq UserBodies(said)
  BY <1>1, AtTrue DEF SourceTrue
<1>4. MemoryTrue(mem, said) /\ ContextTrue(mem, root) /\ StoresTrue(said) /\ search # None
  BY <1>1, AtTrue DEF Learned
<1>5. ContextTrue(mem, c)
  <2>1. ContextTrue(mem, Context(Source.ctx))
    BY <1>3, <1>4 DEF Context, MaybeContext
  <2> QED
    BY <2>1, CopyTrue
<1> HIDE DEF c
<1>6. MemoryTrue(known.m, said) /\ ContextTrue(known.m, known.c) /\ Later(mem, said, known.m, said)
  <2>1. NoOwners \in [Keys -> SUBSET Keys] /\ \A k \in Keys : NoOwners[k] = {}
    BY DEF NoOwners
  <2> QED
    BY <1>4, <1>5, <2>1, AddPubkeysTrue
<1> HIDE DEF known
<1>7. SourcesTrue(mem', said, <<>>)
  BY SourcesJoin
<1>8. CASE \/ End(FALSE, {}) /\ UNCHANGED mem
           \/ Yields(<<>>) /\ UNCHANGED mem
  <2>1. UNCHANGED <<mem, root>> /\ SourcesTrue(mem, said, <<>>)
    BY <1>1, <1>8, SourcesJoin
  <2> QED
    BY <1>1, <1>8, <2>1, LooksTrue
<1>9. CASE Yields(<<>>) /\ mem' = known.m
  <2>1. /\ MemoryTrue(mem', said) /\ Later(mem, said, mem', said) /\ ContextTrue(mem', root')
    BY <1>1, <1>4, <1>6, <1>9, ContextLater
  <2>2. SearchTrue(mem', said, search') /\ answer' = answer
    BY <1>1, <1>7, <1>9, <2>1, YieldsTrue
  <2> QED
    BY <1>1, <2>1, <2>2, KeepsTrue
<1>10. CASE user # None /\ user.body.type = "user" /\ mem' = all.m /\ Yields(<<x>>)
  <2> DEFINE man == content[b.at]
             expected == IF b.how = "dict" THEN b.to ELSE None
  <2>1. man # None => ManTrue(man) /\ (man.body.type = "user" => man \in said)
    BY <1>3, <1>4 DEF StoresTrue, BridgeTrue, Wellformed
  <2>2. man.signer = man.body.owner
    <3>1. Load(known.m, known.c, man, None, expected, TRUE) # None
      BY <1>10 DEF UserAt
    <3> HIDE DEF man, expected
    <3> QED
      BY <3>1, LoadPrimary, Zenon
  <2>3. PICK p : user = Load(known.m, known.c, man, None, expected, p)
    BY Zenon DEF UserAt
  <2> HIDE DEF user, man, expected
  <2>4. man # None /\ user.body = man.body
    BY <1>6, <1>10, <2>1, <2>3, LoadTrue
  <2>5. user.body \in UserBodies(said)
    BY <1>10, <2>1, <2>2, <2>4 DEF UserBodies, UserManifests
  <2>6. MemoryTrue(all.m, said) /\ ContextTrue(all.m, all.c) /\ Later(known.m, said, all.m, said)
    BY <1>4, <1>6, <2>5, RecognizeTrue
  <2> HIDE DEF all
  <2>7. MemoryTrue(mem', said) /\ Later(mem, said, mem', said) /\ ContextTrue(mem', root')
    <3>1. Later(mem, said, all.m, said)
      BY <1>6, <2>6, LaterTwice
    <3> QED
      BY <1>1, <1>4, <1>10, <2>6, <3>1, ContextLater
  <2>8. SourceTrue(mem', said, x)
    BY <1>3, <1>10, <2>5, <2>6 DEF SourceTrue, ForestTrue, UserOf, MaybeContext
  <2> HIDE DEF x
  <2>9. SourcesTrue(mem', said, <<x>>)
    BY <2>8, SourcesJoin
  <2>10. SearchTrue(mem', said, search') /\ answer' = answer
    BY <1>1, <1>10, <2>7, <2>9, YieldsTrue
  <2> QED
    BY <1>1, <2>7, <2>10, KeepsTrue
<1> HIDE DEF user, all, x
<1> QED
  BY <1>2, <1>8, <1>9, <1>10

(* A frame that is opened.                                                    *)
LEMMA FrameIsTrue ==
    ASSUME Learned, NEW key, NEW sources, SourcesTrue(mem, said, sources)
    PROVE  FrameTrue(mem, said, Frame(key, sources))
<1>1. \A k \in DOMAIN cache : \A s \in cache[k] : StepTrue(mem, said, s)
  BY DEF Learned
<1>2. SourcesTrue(mem, said, <<>>)
  BY SourcesJoin
<1> QED
  BY <1>1, <1>2 DEF Frame, FrameTrue

(* What a step that is delivered has found.                                   *)
LEMMA ResultTrue ==
    ASSUME NEW m, NEW mans, NEW s, StepTrue(m, mans, s)
    PROVE  GotTrue(mans, Result(s))
BY DEF StepTrue, ContainerTrue, Result, GotTrue

(* A step at the end of the path.                                             *)
LEMMA DeliverTrue ==
    ASSUME Learned, Busy, Keeps, NEW s, StepTrue(mem, said, s),
           NEW frames, FramesTrue(mem, said, frames), Deliver(s, frames)
    PROVE  Learned'
<1> DEFINE r == RecognizeFromSearch(s)
<1>1. search # None /\ SearchTrue(mem, said, search) /\ MemoryTrue(mem, said)
      /\ ContextTrue(mem, root) /\ StoresTrue(said) /\ Later(mem, said, mem, said)
  BY AtTrue, LaterSame DEF Learned
<1>2. CASE search.req.op = "load" /\ Takes(s)
  <2> DEFINE put == [search EXCEPT !.frames = frames]
             next == [search EXCEPT !.frames = frames, !.got = @ \union {Result(s)}]
  <2>1. search' = next /\ mem' = r.m /\ root' = r.c /\ answer' = answer
    BY <1>2 DEF Deliver
  <2>2. MemoryTrue(r.m, said) /\ ContextTrue(r.m, r.c) /\ Later(mem, said, r.m, said)
    BY <1>1, RecognizeTrue DEF RecognizeFromSearch, StepTrue
  <2> HIDE DEF r
  <2>3. SearchTrue(mem, said, put)
    BY <1>1, FramesPut
  <2>4. /\ DOMAIN next = {"req", "containers", "users", "bridges", "frames", "got"}
        /\ next.req = put.req /\ next.containers = put.containers /\ next.users = put.users
        /\ next.bridges = put.bridges /\ next.frames = put.frames
        /\ next.got = put.got \union {Result(s)}
    BY <1>1 DEF SearchTrue
  <2> HIDE DEF next, put
  <2>5. GotTrue(said, Result(s))
    BY ResultTrue
  <2>6. SearchTrue(mem, said, next)
    BY <2>3, <2>4, <2>5 DEF SearchTrue, LoadedTrue
  <2>7. SearchTrue(mem', said, search')
    BY <2>1, <2>2, <2>6, SearchLater
  <2> QED
    BY <2>1, <2>2, <2>7, KeepsTrue
<1>3. CASE search.req.op = "file" /\ HasFile(s)
  <2>1. End(TRUE, {Result(s)}) /\ UNCHANGED <<mem, root>>
    BY <1>3 DEF Deliver
  <2>2. PICK found : found = {Result(s)}
    OBVIOUS
  <2>3. \A g \in found : GotTrue(said, g)
    BY <2>2, ResultTrue
  <2>4. PICK ok : End(ok, found)
    BY <2>1, <2>2
  <2>5. search' = None /\ \A g \in answer'.got : GotTrue(said, g)
    BY <1>1, <2>3, <2>4, EndTrue
  <2> QED
    BY <1>1, <2>1, <2>5, KeepsTrue
<1>4. CASE ~(search.req.op = "load" /\ Takes(s)) /\ ~(search.req.op = "file" /\ HasFile(s))
  <2>1. search' = [search EXCEPT !.frames = frames] /\ UNCHANGED <<mem, root, answer>>
    BY <1>4 DEF Deliver
  <2> QED
    BY <1>1, <2>1, FramesPut, KeepsTrue
<1> QED
  BY <1>2, <1>3, <1>4

(* A step that a frame yields.                                                *)
LEMMA EmitTrue ==
    ASSUME Learned, Busy, Keeps, NEW s, StepTrue(mem, said, s),
           NEW frame, FrameTrue(mem, said, frame), Emit(s, frame)
    PROVE  Learned'
<1> DEFINE seen == \E t \in frame.seen : StepKey(t) = StepKey(s)
           later == [frame EXCEPT !.seen = IF seen THEN @ ELSE @ \union {s}]
           frames == [search.frames EXCEPT ![Depth] = later]
           deeper == <<None, StepKey(s), search.req.parts[Depth + 1]>>
           inner == Frame(deeper, <<NextOf(s)>>)
<1>1. /\ search # None /\ SearchTrue(mem, said, search) /\ Depth > 0
      /\ FramesTrue(mem, said, search.frames)
      /\ MemoryTrue(mem, said) /\ ContextTrue(mem, root) /\ Later(mem, said, mem, said)
  BY AtTrue, LaterSame DEF Learned, SearchTrue
<1>2. \/ search' = [search EXCEPT !.frames = frames] /\ UNCHANGED <<mem, root, answer>>
      \/ Deliver(s, frames)
      \/ search' = [search EXCEPT !.frames = Append(frames, inner)] /\ UNCHANGED <<mem, root, answer>>
  BY DEF Emit
<1>3. FrameTrue(mem, said, later)
  <2>1. /\ DOMAIN later = {"key", "pool", "seen", "todo"}
        /\ later.pool = frame.pool /\ later.todo = frame.todo
        /\ later.seen \subseteq frame.seen \union {s}
    BY DEF FrameTrue
  <2> HIDE DEF later
  <2> QED
    BY <2>1 DEF FrameTrue
<1> HIDE DEF later
<1>4. FramesTrue(mem, said, frames)
  BY <1>1, <1>3, FramesChange DEF Depth
<1> HIDE DEF frames
<1>5. FramesTrue(mem, said, Append(frames, inner))
  <2>1. SourceTrue(mem, said, NextOf(s))
    BY DEF SourceTrue, NextOf
  <2>2. FrameTrue(mem, said, inner)
    BY <2>1, SourcesJoin, FrameIsTrue
  <2> HIDE DEF inner
  <2> QED
    BY <1>4, <2>2, FramesChange
<1> HIDE DEF inner
<1>6. CASE search' = [search EXCEPT !.frames = frames] /\ UNCHANGED <<mem, root, answer>>
  BY <1>1, <1>4, <1>6, FramesPut, KeepsTrue
<1>7. CASE Deliver(s, frames)
  BY <1>4, <1>7, DeliverTrue
<1>8. CASE search' = [search EXCEPT !.frames = Append(frames, inner)] /\ UNCHANGED <<mem, root, answer>>
  BY <1>1, <1>5, <1>8, FramesPut, KeepsTrue
<1> QED
  BY <1>2, <1>6, <1>7, <1>8

(* It comes from the sources of the frame,                                    *)
LEMMA EmitFoundTrue == Learned /\ EmitFound => Learned'
<1> SUFFICES ASSUME Learned, EmitFound PROVE Learned'
  OBVIOUS
<1> DEFINE frame == [Top EXCEPT !.todo = Tail(@)]
<1>1. Busy /\ Top.todo # <<>> /\ Source.kind = "step" /\ Keeps /\ Emit(Source.step, frame)
  BY DEF EmitFound, At, Source
<1>2. FrameTrue(mem, said, Top) /\ StepTrue(mem, said, Source.step)
  BY <1>1, AtTrue DEF SourceTrue
<1>3. FrameTrue(mem, said, frame)
  <2>1. /\ DOMAIN frame = {"key", "pool", "seen", "todo"}
        /\ frame.pool = Top.pool /\ frame.seen = Top.seen /\ frame.todo = Tail(Top.todo)
    BY <1>2 DEF FrameTrue
  <2> HIDE DEF frame
  <2>2. SourcesTrue(mem, said, frame.todo)
    BY <1>1, <1>2, <2>1, SourcesSplit DEF FrameTrue
  <2> QED
    BY <1>2, <2>1, <2>2 DEF FrameTrue
<1> HIDE DEF frame
<1> QED
  BY <1>1, <1>2, <1>3, EmitTrue

(* or from what was kept of an earlier search.                                *)
LEMMA EmitCachedTrue == Learned /\ EmitCached => Learned'
<1> SUFFICES ASSUME Learned, EmitCached PROVE Learned'
  OBVIOUS
<1>1. PICK s \in Top.pool : Emit(s, [Top EXCEPT !.pool = @ \ {s}])
  BY DEF EmitCached
<1> DEFINE frame == [Top EXCEPT !.pool = @ \ {s}]
<1>2. Busy /\ Keeps /\ Emit(s, frame)
  BY <1>1 DEF EmitCached
<1>3. FrameTrue(mem, said, Top)
  BY <1>2, AtTrue
<1>4. StepTrue(mem, said, s)
  BY <1>3 DEF FrameTrue
<1>5. FrameTrue(mem, said, frame)
  <2>1. /\ DOMAIN frame = {"key", "pool", "seen", "todo"}
        /\ frame.pool \subseteq Top.pool /\ frame.seen = Top.seen /\ frame.todo = Top.todo
    BY <1>3 DEF FrameTrue
  <2> HIDE DEF frame
  <2> QED
    BY <1>3, <2>1 DEF FrameTrue
<1> HIDE DEF frame
<1> QED
  BY <1>2, <1>4, <1>5, EmitTrue

(* The steps that a frame has yielded are kept.                               *)
LEMMA ExhaustTrue == Learned /\ Exhaust => Learned'
<1> SUFFICES ASSUME Learned, Exhaust PROVE Learned'
  OBVIOUS
<1>1. /\ Busy
      /\ cache' = [key \in DOMAIN cache \union {Top.key} |->
                       IF key = Top.key THEN Top.seen ELSE cache[key]]
      /\ UNCHANGED <<mode, mem, root, written, content, said>>
  BY DEF Exhaust, storages
<1>2. /\ search # None /\ SearchTrue(mem, said, search) /\ Depth > 0
      /\ FramesTrue(mem, said, search.frames) /\ FrameTrue(mem, said, Top)
  BY <1>1, AtTrue DEF SearchTrue
<1>3. ASSUME NEW key \in DOMAIN cache', NEW s \in cache'[key] PROVE StepTrue(mem, said, s)
  <2>1. \/ s \in Top.seen
        \/ key \in DOMAIN cache /\ s \in cache[key]
    BY <1>1, <1>3
  <2> QED
    BY <1>2, <2>1 DEF FrameTrue, Learned
<1>4. CASE Depth = 1
  <2>1. PICK ok : End(ok, {})
    BY <1>4 DEF Exhaust
  <2>2. search' = None /\ \A g \in answer'.got : GotTrue(said, g)
    BY <1>2, <2>1, EndsTrue
  <2> QED
    BY <1>1, <1>3, <2>2 DEF Learned, StoresTrue
<1>5. CASE Depth # 1
  <2>1. search' = [search EXCEPT !.frames = Front(@)] /\ answer' = answer
    BY <1>5 DEF Exhaust
  <2>2. FramesTrue(mem, said, Front(search.frames))
    BY <1>2, FramesChange DEF Depth
  <2>3. search' = [search EXCEPT !.frames = Front(search.frames)]
    BY <2>1
  <2>4. SearchTrue(mem, said, search')
    BY <1>2, <2>2, <2>3, FramesPut
  <2> QED
    BY <1>1, <1>3, <2>1, <2>4 DEF Learned, StoresTrue
<1> QED
  BY <1>4, <1>5

-----------------------------------------------------------------------------
(* Processes and authors. *)

(* A new process has what it loads of the local users.                        *)
LEMMA StartClientTrue == Learned /\ StartClient => Learned'
<1> SUFFICES ASSUME Learned, StartClient PROVE Learned'
  OBVIOUS
<1> DEFINE m == [mem EXCEPT !.lists = NoLists]
           r == Recognize(m, NewContext, {})
           mans == {content[f] : f \in {g \in Files : content[g] # None /\ content[g].body.type = "user"}}
<1>1. /\ mem' = r.m /\ root' = r.c /\ search' = None /\ answer' = None
      /\ cache' = <<>> /\ said' = mans /\ UNCHANGED <<mode, written, content>>
  BY DEF StartClient
<1>2. StoresTrue(mans)
  BY DEF Learned, StoresTrue
<1> HIDE DEF mans
<1>3. MemoryTrue(m, mans)
  <2>1. {"lists", "pub"} \subseteq DOMAIN m /\ m.lists = [k \in Keys |-> <<>>]
    BY DEF Learned, MemoryTrue, NoLists
  <2> HIDE DEF m
  <2>2. <<>> \in Seq(SUBSET Keys) /\ DOMAIN <<>> = {}
    OBVIOUS
  <2> QED
    BY <2>1, <2>2 DEF MemoryTrue
<1>4. ContextTrue(m, NewContext)
  <2>1. \A k \in Keys : Len(m.lists[k]) \in Nat
    BY <1>3 DEF MemoryTrue
  <2> HIDE DEF m
  <2> QED
    BY <2>1 DEF ContextTrue, NewContext
<1> HIDE DEF m
<1>5. MemoryTrue(r.m, mans) /\ ContextTrue(r.m, r.c)
  <2>1. PICK none : none = {}
    OBVIOUS
  <2>2. none \subseteq UserBodies(mans) /\ r = Recognize(m, NewContext, none)
    BY <2>1
  <2> HIDE DEF r
  <2> QED
    BY <1>2, <1>3, <1>4, <2>2, RecognizeTrue
<1> HIDE DEF r
<1>6. DOMAIN cache' = {}
  BY <1>1
<1> QED
  BY <1>1, <1>2, <1>5, <1>6 DEF Learned, StoresTrue

(* A search begins with what is loaded of the local directories.              *)
LEMMA AskTrue == Learned /\ (\E req \in mode.requests : Ask(req)) => Learned'
<1> SUFFICES ASSUME Learned, NEW req \in mode.requests, Ask(req) PROVE Learned'
  OBVIOUS
<1> DEFINE containers == LoadAll(mem, root, "containers", {})
           users == LoadAll(mem, root, "users", broken)
           bridges == LoadAll(mem, root, "bridges", broken)
           s == [req |-> req, containers |-> containers, users |-> users, bridges |-> bridges,
                 frames |-> <<>>, got |-> {}]
           frame == Frame(FirstKey(req), ResolveFirst(s))
           t == [s EXCEPT !.frames = <<frame>>]
<1>1. /\ search' = t /\ answer' = None
      /\ UNCHANGED <<mode, mem, root, cache, written, content, said>>
  BY DEF Ask, storages
<1>2. MemoryTrue(mem, said) /\ ContextTrue(mem, root) /\ StoresTrue(said)
  BY DEF Learned
<1>3. /\ \E S : containers \in Seq(S) /\ \A o \in S : ContainerTrue(said, o)
      /\ \E S : users \in Seq(S) /\ \A o \in S : UserTrue(mem, said, o)
      /\ \E S : bridges \in Seq(S) /\ \A o \in S : BridgeTrue(o.body)
  <2>1. ASSUME NEW dir, NEW skipped
        PROVE  \E S : /\ LoadAll(mem, root, dir, skipped) \in Seq(S)
                      /\ dir = "users" => \A o \in S : UserTrue(mem, said, o)
                      /\ dir = "bridges" => \A o \in S : BridgeTrue(o.body)
                      /\ dir = "containers" => \A o \in S : ContainerTrue(said, o)
    BY <1>2, LoadAllTrue
  <2>2. \E S : containers \in Seq(S) /\ \A o \in S : ContainerTrue(said, o)
    BY <2>1
  <2>3. \E S : users \in Seq(S) /\ \A o \in S : UserTrue(mem, said, o)
    BY <2>1
  <2>4. \E S : bridges \in Seq(S) /\ \A o \in S : BridgeTrue(o.body)
    BY <2>1
  <2> QED
    BY <2>2, <2>3, <2>4
<1> HIDE DEF containers, users, bridges
<1>4. req.hint \in Files \union {None}
  BY ModesAssumption DEF Learned
<1>5. LoadedTrue(mem, said, s) /\ s.req = req
  BY <1>3 DEF LoadedTrue
<1>6. DOMAIN t = {"req", "containers", "users", "bridges", "frames", "got"}
      /\ t.req = req /\ t.containers = s.containers /\ t.users = s.users
      /\ t.bridges = s.bridges /\ t.frames = <<frame>> /\ t.got = {}
  OBVIOUS
<1> HIDE DEF s
<1>7. SourcesTrue(mem, said, ResolveFirst(s))
  BY <1>4, <1>5, ResolveFirstTrue
<1>8. FrameTrue(mem, said, frame)
  BY <1>7, FrameIsTrue
<1> HIDE DEF frame, t
<1>9. FramesTrue(mem, said, <<frame>>)
  <2> DEFINE S == {frame}
  <2>1. <<frame>> \in Seq(S) /\ \A fr \in S : FrameTrue(mem, said, fr)
    BY <1>8
  <2> HIDE DEF S
  <2> QED
    BY <2>1 DEF FramesTrue
<1>10. SearchTrue(mem, said, t)
  BY <1>4, <1>5, <1>6, <1>9 DEF SearchTrue, LoadedTrue
<1> QED
  BY <1>1, <1>10 DEF Learned, StoresTrue

(* What is made of fields for a manifest names what the fields name.          *)
LEMMA EncryptAndSignTrue ==
    ASSUME NEW m, NEW c, NEW fields, Wellformed(fields), NEW man \in EncryptAndSign(m, c, fields)
    PROVE  ManTrue(man)
<1> DEFINE sealed == IF Encrypts(fields)
                     THEN [fields EXCEPT !.store = EncryptStore(m, c, fields.owner, @)]
                     ELSE fields
<1>1. /\ man.signer \in SigningKeys(m, c, fields.owner, fields.type = "user")
      /\ man.body = sealed
  BY DEF EncryptAndSign
<1>2. man.signer \in Keys
  BY <1>1 DEF SigningKeys, OwnKeys, Wellformed
<1>3. Wellformed(sealed)
  <2>1. CASE Encrypts(fields)
    <3>1. DOMAIN EncryptStore(m, c, fields.owner, fields.store) = DOMAIN fields.store
      BY DEF EncryptStore
    <3> QED
      BY <2>1, <3>1 DEF Wellformed, Encrypts
  <2>2. CASE ~Encrypts(fields)
    BY <2>2
  <2> QED
    BY <2>1, <2>2
<1> QED
  BY <1>1, <1>2, <1>3 DEF ManTrue

(* What an author writes.                                                     *)
LEMMA WrittenTrue ==
    ASSUME Learned, NEW w \in Range(mode.script), NEW man \in Written(w), man # None
    PROVE  ManTrue(man)
<1> DEFINE a == Author(w.by)
           old == Load(a.m, a.c, content[w.file], None, None, FALSE)
<1>1. /\ w.do \in {"write", "unsigned", "grant", "remove"} /\ w.file \in Files
      /\ w.do \in {"write", "unsigned"} => Wellformed(w.body)
  BY ModesAssumption DEF Learned
<1>2. ASSUME NEW fields, Wellformed(fields), man \in Dump(a.m, a.c, fields) PROVE ManTrue(man)
  <2>1. PICK m, c : man \in EncryptAndSign(m, c, fields)
    BY <1>2 DEF Dump
  <2> QED
    BY <1>2, <2>1, EncryptAndSignTrue
<1>3. CASE w.do = "write"
  <2>1. man \in Dump(a.m, a.c, w.body)
    BY <1>3 DEF Written
  <2> QED
    BY <1>1, <1>2, <1>3, <2>1
<1>4. CASE w.do = "unsigned"
  <2>1. man = [signer |-> None, readers |-> {Everybody}, body |-> w.body]
    BY <1>4 DEF Written
  <2> QED
    BY <1>1, <1>4, <2>1 DEF ManTrue
<1>5. CASE w.do = "grant"
  <2>1. old # None /\ man \in Dump(a.m, a.c, [old.body EXCEPT !.access = w.access])
    BY <1>5 DEF Written
  <2>2. content[w.file] # None /\ old.body = content[w.file].body
    BY <2>1 DEF Load, FromBytes
  <2>3. Wellformed(old.body)
    BY <1>1, <2>2 DEF Learned, StoresTrue, ManTrue
  <2> HIDE DEF old
  <2>4. Wellformed([old.body EXCEPT !.access = w.access])
    BY <2>3 DEF Wellformed
  <2> QED
    BY <1>2, <2>1, <2>4
<1>6. CASE w.do = "remove"
  BY <1>6 DEF Written
<1> QED
  BY <1>1, <1>3, <1>4, <1>5, <1>6

(* A process has met the user manifests that are written.                     *)
LEMMA SaveTrue == Learned /\ Save => Learned'
<1> SUFFICES ASSUME Learned, Save PROVE Learned'
  OBVIOUS
<1> DEFINE w == mode.script[written + 1]
<1>1. /\ written < Len(mode.script) /\ written' = written + 1
      /\ UNCHANGED <<mode, mem, root, cache, search, answer>>
  BY DEF Save, reader
<1>2. PICK man \in Written(w) :
          /\ content' = [content EXCEPT ![w.file] = man]
          /\ said' = said \union {x \in {man} : x # None /\ x.body.type = "user"}
  BY DEF Save
<1>3. w \in Range(mode.script) /\ w.file \in Files
  <2>1. mode.script \in Seq(Range(mode.script)) /\ written \in Nat
    BY ModesAssumption DEF Learned
  <2>2. w \in Range(mode.script)
    BY <1>1, <2>1
  <2> QED
    BY <2>2, ModesAssumption DEF Learned
<1> HIDE DEF w
<1>4. man # None => ManTrue(man)
  BY <1>2, <1>3, WrittenTrue
<1>5. said \subseteq said' /\ \A u \in said' : ManTrue(u)
  BY <1>2, <1>4 DEF Learned, StoresTrue
<1>6. StoresTrue(said)'
  <2>1. /\ content' = [f \in Files |-> content'[f]]
        /\ \A f \in Files : content'[f] = IF f = w.file THEN man ELSE content[f]
    BY <1>2, <1>3 DEF Learned, StoresTrue
  <2>2. ASSUME NEW f \in Files, content'[f] # None
        PROVE  ManTrue(content'[f]) /\ (content'[f].body.type = "user" => content'[f] \in said')
    <3>1. CASE f = w.file
      BY <1>2, <1>4, <2>1, <2>2, <3>1
    <3>2. CASE f # w.file
      BY <1>5, <2>1, <2>2, <3>2 DEF Learned, StoresTrue
    <3> QED
      BY <3>1, <3>2
  <2> QED
    BY <1>5, <2>1, <2>2 DEF StoresTrue
<1>7. MemoryTrue(mem, said') /\ Later(mem, said, mem, said')
  <2>1. MemoryTrue(mem, said')
    BY <1>5, KeysOfGrows DEF Learned, MemoryTrue
  <2> QED
    BY <1>5, LaterSame, <2>1 DEF Later
<1>8. /\ search # None => SearchTrue(mem, said', search)
      /\ answer # None => \A g \in answer.got : GotTrue(said', g)
      /\ \A key \in DOMAIN cache : \A s \in cache[key] : StepTrue(mem, said', s)
  BY <1>5, <1>7, SearchLater, SignedLater, SourceLater DEF Learned
<1> QED
  BY <1>1, <1>6, <1>7, <1>8 DEF Learned

-----------------------------------------------------------------------------
(* Every step keeps what was learned.                                         *)
LEMMA LearnedNext == Learned /\ [Next]_vars => Learned'
<1>1. Learned /\ UNCHANGED vars => Learned'
  BY DEF vars, Learned, StoresTrue
<1>2. Learned /\ Advance => Learned'
  BY ReadHintTrue, CrossBridgeTrue, EnterForestTrue, ReadEntryTrue, LookInsideTrue,
     ListChildrenTrue, ReadChildTrue, EmitFoundTrue, EmitCachedTrue, ExhaustTrue DEF Advance
<1> QED
  BY <1>1, <1>2, StartClientTrue, AskTrue, SaveTrue DEF Next

(* Before the first process, nobody has learned anything.                     *)
LEMMA LearnedInit == Init => Learned
<1> SUFFICES ASSUME Init PROVE Learned
  OBVIOUS
<1> USE DEF Init
<1>1. StoresTrue(said)
  BY DEF StoresTrue
<1>2. MemoryTrue(mem, said)
  <2>1. {"lists", "pub"} \subseteq DOMAIN mem /\ mem.lists = [k \in Keys |-> <<>>]
    BY DEF NoLists
  <2>2. <<>> \in Seq(SUBSET Keys) /\ DOMAIN <<>> = {}
    OBVIOUS
  <2> QED
    BY <2>1, <2>2 DEF MemoryTrue
<1>3. ContextTrue(mem, root)
  <2>1. \A k \in Keys : Len(mem.lists[k]) \in Nat
    BY <1>2 DEF MemoryTrue
  <2> QED
    BY <2>1 DEF ContextTrue, NewContext
<1>4. DOMAIN cache = {}
  OBVIOUS
<1> QED
  BY <1>1, <1>2, <1>3, <1>4 DEF Learned

(* What a process has learned, at all times.                                  *)
LEMMA LearnedAlways == Spec => []Learned
BY LearnedInit, LearnedNext, PTL DEF Spec

(* Manifest.from_bytes, _verify_owner: a container that a search finds was signed with *)
(* a key that a user manifest of its owner has named since the process was started,    *)
(* however storages change while it is searched for, whatever the process met or kept  *)
(* of earlier searches, and for any users, containers and bridges.                      *)
THEOREM FoundIsAuthentic == Spec => []Authentic
<1>1. Learned => Authentic
  BY DEF Learned, Authentic, GotTrue, Signed
<1> QED
  BY <1>1, LearnedAlways, PTL

-----------------------------------------------------------------------------
(* What authors close, and to whom. *)

(* The keys that an author has for a user.                                    *)
LEMMA AuthorKnows ==
    ASSUME NEW by, \A u \in Range(by.users) : u.type = "user" /\ Wellformed(u), NEW o
    PROVE  AllPubkeys(Author(by).m, Author(by).c, o)
               = KeysOf(o, {[signer |-> x.owner, body |-> x] : x \in Range(by.users)})
<1> DEFINE users == Range(by.users)
           known == {[signer |-> x.owner, body |-> x] : x \in users}
           m == [lists |-> NoLists, pub |-> {}, sec |-> by.secret]
           keys == UNION {{u.owner} \union u.pubkeys : u \in users}
           of == [k \in Keys |-> {u.owner : u \in {v \in users : k \in v.pubkeys}}]
           a == AddPubkeys(m, NewContext, keys, of)
<1>1. Author(by) = a
  BY DEF Author, AddUserKeys
<1>2. ASSUME NEW k \in Keys PROVE Owners(a.m, a.c, k) = of[k]
  <2>1. /\ a.m.lists = [j \in Keys |-> IF of[j] = {} THEN <<>> ELSE Append(<<>>, of[j])]
        /\ a.c.owns = [j \in Keys |-> IF of[j] # {} THEN 1 ELSE 0]
    <3>1. m.lists = [j \in Keys |-> <<>>] /\ NewContext.owns = [j \in Keys |-> 0]
      BY DEF NoLists, NewContext
    <3> HIDE DEF of, keys
    <3>2. a.m.lists = [j \in Keys |-> IF of[j] = {} THEN m.lists[j]
                                    ELSE IF NewContext.owns[j] = 0 THEN Append(m.lists[j], of[j])
                                    ELSE [m.lists[j] EXCEPT ![NewContext.owns[j]] = @ \union of[j]]]
      BY DEF AddPubkeys
    <3>3. a.c.owns = [j \in Keys |-> IF of[j] # {} /\ NewContext.owns[j] = 0
                                   THEN Len(m.lists[j]) + 1 ELSE NewContext.owns[j]]
      BY DEF AddPubkeys, NewContext
    <3> HIDE DEF m
    <3>4. \A j \in Keys : m.lists[j] = <<>> /\ NewContext.owns[j] = 0 /\ Len(m.lists[j]) + 1 = 1
      <4>1. Len(<<>>) = 0
        OBVIOUS
      <4> QED
        BY <3>1, <4>1
    <3>5. a.m.lists = [j \in Keys |-> IF of[j] = {} THEN <<>> ELSE Append(<<>>, of[j])]
      BY <3>2, <3>4
    <3>6. a.c.owns = [j \in Keys |-> IF of[j] # {} THEN 1 ELSE 0]
      BY <3>3, <3>4
    <3> QED
      BY <3>5, <3>6
  <2> HIDE DEF a, of
  <2>2. /\ a.m.lists[k] = IF of[k] = {} THEN <<>> ELSE Append(<<>>, of[k])
        /\ a.c.owns[k] = IF of[k] # {} THEN 1 ELSE 0
    BY <2>1
  <2>3. CASE of[k] = {}
    BY <2>2, <2>3 DEF Owners
  <2>4. CASE of[k] # {}
    <3>1. a.c.owns[k] = 1 /\ a.m.lists[k] = <<of[k]>>
      BY <2>2, <2>4
    <3> QED
      BY <3>1 DEF Owners
  <2> QED
    BY <2>3, <2>4
<1> HIDE DEF a
<1>3. OwnKeys(a.m, a.c, o) = {k \in Keys : o \in of[k]}
  BY <1>2 DEF OwnKeys
<1>4. \A k \in Keys : o \in of[k] <=> \E u \in users : k \in u.pubkeys /\ u.owner = o
  OBVIOUS
<1> HIDE DEF of
<1>5. UserManifests(known) = known
  BY DEF UserManifests
<1>6. \A u \in users : u.pubkeys \subseteq Keys
  BY DEF Wellformed
<1>7. KeysOf(o, known) = {o} \union UNION {u.pubkeys : u \in {v \in users : v.owner = o}}
  <2>1. {v.body.pubkeys : v \in {x \in known : x.body.owner = o}}
            = {u.pubkeys : u \in {v \in users : v.owner = o}}
    <3>1. ASSUME NEW u \in users PROVE [signer |-> u.owner, body |-> u] \in known
      OBVIOUS
    <3>2. ASSUME NEW x \in known PROVE \E u \in users : x.body = u
      OBVIOUS
    <3>3. ASSUME NEW u \in users, u.owner = o
          PROVE  \E v \in known : v.body.owner = o /\ v.body.pubkeys = u.pubkeys
      BY <3>1, <3>3
    <3>4. ASSUME NEW x \in known, x.body.owner = o
          PROVE  \E u \in users : u.owner = o /\ u.pubkeys = x.body.pubkeys
      BY <3>2, <3>4
    <3> HIDE DEF known, users
    <3> QED
      BY <3>3, <3>4
  <2> HIDE DEF known
  <2> QED
    BY <1>5, <2>1 DEF KeysOf
<1> HIDE DEF known
<1>8. UNION {u.pubkeys : u \in {v \in users : v.owner = o}} = {k \in Keys : o \in of[k]}
  BY <1>4, <1>6
<1> HIDE DEF users
<1>9. AllPubkeys(a.m, a.c, o) = KeysOf(o, known)
  BY <1>3, <1>7, <1>8 DEF AllPubkeys
<1> QED
  BY <1>1, <1>9 DEF known, users

(* Whom it encrypts to for an access list.                                    *)
LEMMA EncryptDictNamed ==
    ASSUME NEW by, \A u \in Range(by.users) : u.type = "user" /\ Wellformed(u),
           NEW owner, NEW list
    PROVE  EncryptDict(Author(by).m, Author(by).c, owner, list) = Named(by, owner, list)
<1> DEFINE known == {[signer |-> x.owner, body |-> x] : x \in Range(by.users)}
           all(u) == AllPubkeys(Author(by).m, Author(by).c, u)
<1>1. \A u : all(u) = KeysOf(u, known)
  BY AuthorKnows
<1>2. {all(u) : u \in list \union {owner}} = {KeysOf(u, known) : u \in list \union {owner}}
  BY <1>1
<1>3. UNION {all(u) : u \in list \union {owner}} = UNION {KeysOf(u, known) : u \in list \union {owner}}
  BY <1>2
<1> QED
  BY <1>3 DEF EncryptDict, Named

(* What it makes of the fields of a container.                                *)
LEMMA DumpNamed ==
    ASSUME NEW by, \A u \in Range(by.users) : u.type = "user" /\ Wellformed(u),
           NEW fields, Wellformed(fields),
           NEW man \in Dump(Author(by).m, Author(by).c, fields), man.body.type = "container"
    PROVE  /\ fields.type = "container"
           /\ man.readers = Named(by, fields.owner, fields.access)
           /\ man.body.owner = fields.owner /\ man.body.access = fields.access
           /\ man.body.store.access = fields.store.access
           /\ \/ man.body.store.readers = fields.store.readers /\ Everybody \notin fields.store.readers
              \/ /\ fields.store.access # None
                 /\ man.body.store.readers = Named(by, fields.owner, fields.store.access)
              \/ fields.store.access = None
<1> DEFINE m == Author(by).m
           c == Author(by).c
           sealed(mm, cc) == IF Encrypts(fields)
                             THEN [fields EXCEPT !.store = EncryptStore(mm, cc, fields.owner, @)]
                             ELSE fields
<1>1. ASSUME NEW mm, NEW cc, man \in EncryptAndSign(mm, cc, fields)
      PROVE  fields.type = "container"
  <2>1. man.body = sealed(mm, cc)
    BY <1>1 DEF EncryptAndSign
  <2> QED
    BY <2>1 DEF Encrypts
<1>2. fields.type = "container" /\ man \in EncryptAndSign(m, c, fields)
  <2>1. fields.type = "container"
    BY <1>1 DEF Dump
  <2> QED
    BY <2>1 DEF Dump
<1>3. /\ man.readers = EncryptDict(m, c, fields.owner, fields.access)
      /\ man.body = [fields EXCEPT !.store = EncryptStore(m, c, fields.owner, @)]
  BY <1>2 DEF EncryptAndSign, Encrypts
<1>4. /\ {"type", "owner", "access", "store"} \subseteq DOMAIN fields
      /\ {"access", "readers"} \subseteq DOMAIN fields.store
  BY <1>2 DEF Wellformed
<1>5. /\ man.body.owner = fields.owner /\ man.body.access = fields.access
      /\ man.body.store = EncryptStore(m, c, fields.owner, fields.store)
  BY <1>3, <1>4
<1>6. man.readers = Named(by, fields.owner, fields.access)
  BY <1>3, EncryptDictNamed
<1>7. CASE ~Reads(c, fields.store.readers)
  <2>1. EncryptStore(m, c, fields.owner, fields.store) = fields.store
    BY <1>7 DEF EncryptStore
  <2>2. Everybody \notin fields.store.readers
    BY <1>7 DEF Reads
  <2> QED
    BY <1>2, <1>5, <1>6, <2>1, <2>2
<1>8. CASE Reads(c, fields.store.readers) /\ fields.store.access # None
  <2>1. EncryptStore(m, c, fields.owner, fields.store)
            = [fields.store EXCEPT !.readers = EncryptDict(m, c, fields.owner, fields.store.access)]
    BY <1>8 DEF EncryptStore
  <2>2. EncryptDict(m, c, fields.owner, fields.store.access) = Named(by, fields.owner, fields.store.access)
    BY EncryptDictNamed
  <2> HIDE DEF m, c
  <2> QED
    BY <1>2, <1>4, <1>5, <1>6, <1>8, <2>1, <2>2
<1>9. CASE Reads(c, fields.store.readers) /\ fields.store.access = None
  <2>1. EncryptStore(m, c, fields.owner, fields.store) = [fields.store EXCEPT !.readers = {Everybody}]
    BY <1>9 DEF EncryptStore
  <2> HIDE DEF m, c
  <2> QED
    BY <1>2, <1>4, <1>5, <1>6, <1>9, <2>1
<1> QED
  BY <1>7, <1>8, <1>9

(* What the script says of a file; the last that was written there is known.  *)
Closed ==
    /\ written \in 0..Len(mode.script)
    /\ wrote = [f \in Files |-> wrote[f]]
    /\ \A f \in Files :
           /\ wrote[f] \in 0..written
           /\ \A j \in (wrote[f] + 1)..written : mode.script[j].file # f
    /\ ReadersAreNamed

(* Only authors change what is written.                                       *)
LEMMA OnlyAuthorsWrite ==
    ASSUME [Next]_vars, ~Save
    PROVE  UNCHANGED <<mode, written, content, wrote>>
<1>1. CASE UNCHANGED vars
  BY <1>1 DEF vars
<1>2. CASE StartClient
  BY <1>2 DEF StartClient
<1>3. ASSUME NEW req \in mode.requests, Ask(req) PROVE UNCHANGED <<mode, written, content, wrote>>
  BY <1>3 DEF Ask, storages
<1>4. CASE Advance
  BY <1>4 DEF Advance, Keeps, storages, ReadHint, CrossBridge, EnterForest, ReadEntry, LookInside,
      ListChildren, ReadChild, EmitFound, EmitCached, Exhaust
<1> QED
  BY <1>1, <1>2, <1>3, <1>4 DEF Next

(* The authors that may have closed the storage of the container at f.        *)
Closers(f, i, last) ==
    /\ i \in 1..last
    /\ mode.script[i].file = f
    /\ mode.script[i].do \in {"write", "grant"}
    /\ \A j \in (i + 1)..last : mode.script[j].file = f => mode.script[j].do = "grant"

(* A container that is closed as its access lists say.                        *)
ClosedAs(f, man, last) ==
    /\ man.readers = Named(mode.script[last].by, man.body.owner, man.body.access)
    /\ man.body.store.access # None =>
           \E i \in 1..last :
               /\ Closers(f, i, last)
               /\ man.body.store.readers
                      = Named(mode.script[i].by, man.body.owner, man.body.store.access)

IsContainer(man) == man # None /\ man.signer # None /\ man.body.type = "container"

(* All containers are.                                                        *)
LEMMA ReadersAre ==
    ReadersAreNamed <=> \A f \in Files : IsContainer(content[f]) => ClosedAs(f, content[f], wrote[f])
BY DEF ReadersAreNamed, IsContainer, ClosedAs, Closers

(* An author closes the storages of a container again, unless it cannot read them. *)
LEMMA WrittenClosed ==
    ASSUME Learned, Closed, NEW n, n = written + 1, n \in 1..Len(mode.script),
           NEW man \in Written(mode.script[n]), IsContainer(man)
    PROVE  ClosedAs(mode.script[n].file, man, n)
<1> DEFINE w == mode.script[n]
           f == w.file
           m == Author(w.by).m
           c == Author(w.by).c
<1>1. /\ w \in Range(mode.script) /\ f \in Files /\ mode \in Modes
      /\ w.do \in {"write", "unsigned", "grant", "remove"}
      /\ w.do = "write" => Wellformed(w.body)
      /\ w.do \in {"write", "grant"} => \A u \in Range(w.by.users) : u.type = "user" /\ Wellformed(u)
  <2>1. mode \in Modes /\ mode.script \in Seq(Range(mode.script))
    BY ModesAssumption DEF Learned
  <2>2. w \in Range(mode.script)
    BY <2>1
  <2> HIDE DEF w
  <2> QED
    BY <2>1, <2>2, ModesAssumption
<1>2. n \in Nat /\ n \in 1..n /\ written \in Nat /\ \A j \in (n + 1)..n : FALSE
  BY DEF Learned
<1>3. w.do \in {"write", "grant"}
  <2> HIDE DEF w
  <2>1. man \in Written(w)
    BY DEF w
  <2>2. ASSUME w.do = "unsigned" PROVE FALSE
    <3>1. man = [signer |-> None, readers |-> {Everybody}, body |-> w.body]
      BY <2>1, <2>2 DEF Written
    <3> QED
      BY <3>1 DEF IsContainer
  <2>3. w.do # "remove"
    BY <2>1 DEF Written, IsContainer
  <2> QED
    BY <1>1, <2>2, <2>3
<1>4. Closers(f, n, n)
  BY <1>2, <1>3 DEF Closers
<1>5. ASSUME NEW fields, Wellformed(fields), man \in Dump(m, c, fields)
      PROVE  /\ fields.type = "container"
             /\ man.readers = Named(w.by, man.body.owner, man.body.access)
             /\ man.body.owner = fields.owner /\ man.body.store.access = fields.store.access
             /\ \/ man.body.store.readers = fields.store.readers /\ Everybody \notin fields.store.readers
                \/ ClosedAs(f, man, n)
  <2>1. \A u \in Range(w.by.users) : u.type = "user" /\ Wellformed(u)
    BY <1>1, <1>3
  <2>2. man.body.type = "container"
    BY DEF IsContainer
  <2> HIDE DEF f
  <2>3. /\ fields.type = "container"
        /\ man.readers = Named(w.by, fields.owner, fields.access)
        /\ man.body.owner = fields.owner /\ man.body.access = fields.access
        /\ man.body.store.access = fields.store.access
        /\ \/ man.body.store.readers = fields.store.readers /\ Everybody \notin fields.store.readers
           \/ /\ fields.store.access # None
              /\ man.body.store.readers = Named(w.by, fields.owner, fields.store.access)
           \/ fields.store.access = None
    <3> HIDE DEF w
    <3> QED
      BY <1>5, <2>1, <2>2, DumpNamed
  <2>4. man.readers = Named(w.by, man.body.owner, man.body.access)
    BY <2>3
  <2>5. CASE fields.store.access = None
    BY <2>3, <2>4, <2>5 DEF ClosedAs
  <2>6. CASE man.body.store.readers = Named(w.by, fields.owner, fields.store.access)
    BY <1>2, <1>4, <2>3, <2>4, <2>6 DEF ClosedAs
  <2> QED
    BY <2>3, <2>4, <2>5, <2>6
<1>6. CASE w.do = "write"
  <2>1. man \in Dump(m, c, w.body) /\ Wellformed(w.body)
    BY <1>1, <1>6 DEF Written
  <2>2. w.body.type = "container"
    BY <1>5, <2>1
  <2>3. w.body.store.readers = {Everybody}
    BY <1>1, <1>6, <2>2, ClearAssumption
  <2> HIDE DEF w, f, m, c
  <2> QED
    BY <1>5, <2>1, <2>3 DEF w, f
<1>7. CASE w.do = "grant"
  <2> DEFINE old == Load(m, c, content[f], None, None, FALSE)
             fields == [old.body EXCEPT !.access = w.access]
  <2>1. old # None /\ man \in Dump(m, c, fields)
    BY <1>7 DEF Written
  <2>2. content[f] # None /\ content[f].signer # None /\ old.body = content[f].body
    BY <2>1 DEF Load, FromBytes, Accepts
  <2>3. Wellformed(old.body)
    BY <1>1, <2>2 DEF Learned, StoresTrue, ManTrue
  <2> HIDE DEF old
  <2>4. /\ Wellformed(fields) /\ fields.type = old.body.type
        /\ fields.owner = old.body.owner /\ fields.store = old.body.store
    BY <2>3 DEF Wellformed
  <2> HIDE DEF fields
  <2>5. /\ man.readers = Named(w.by, man.body.owner, man.body.access)
        /\ man.body.owner = old.body.owner /\ man.body.store.access = old.body.store.access
        /\ \/ man.body.store.readers = old.body.store.readers
           \/ ClosedAs(f, man, n)
        /\ old.body.type = "container"
    BY <1>5, <2>1, <2>4
  <2>6. ClosedAs(f, content[f], wrote[f])
    BY <1>1, <2>2, <2>5, ReadersAre DEF Closed, IsContainer
  <2>7. CASE man.body.store.readers = old.body.store.readers /\ man.body.store.access # None
    <3>1. PICK i \in 1..wrote[f] :
              /\ Closers(f, i, wrote[f])
              /\ old.body.store.readers
                     = Named(mode.script[i].by, old.body.owner, old.body.store.access)
      BY <2>2, <2>5, <2>6, <2>7 DEF ClosedAs
    <3>2. /\ wrote[f] \in 0..written
          /\ \A j \in (wrote[f] + 1)..written : mode.script[j].file # f
      BY <1>1 DEF Closed
    <3>3. i \in 1..n
      BY <1>2, <3>2
    <3>4. ASSUME NEW j \in (i + 1)..n, mode.script[j].file = f PROVE mode.script[j].do = "grant"
      <4>1. j \in (i + 1)..wrote[f] \/ j \in (wrote[f] + 1)..written \/ j = n
        BY <1>2, <3>2
      <4> QED
        BY <1>7, <3>1, <3>2, <3>4, <4>1 DEF Closers
    <3>5. Closers(f, i, n)
      BY <3>1, <3>3, <3>4 DEF Closers
    <3> QED
      BY <2>5, <2>7, <3>1, <3>3, <3>5 DEF ClosedAs
  <2>8. CASE man.body.store.access = None
    BY <2>5, <2>8 DEF ClosedAs
  <2> QED
    BY <2>5, <2>7, <2>8
<1> QED
  BY <1>3, <1>6, <1>7

(* Every step keeps the containers closed.                                    *)
LEMMA ClosedNext == Learned /\ Closed /\ [Next]_vars => Closed'
<1> SUFFICES ASSUME Learned, Closed, [Next]_vars PROVE Closed'
  OBVIOUS
<1>1. CASE ~Save
  <2>1. UNCHANGED <<mode, written, content, wrote>>
    BY <1>1, OnlyAuthorsWrite
  <2> QED
    BY <2>1 DEF Closed, ReadersAreNamed
<1>2. CASE Save
  <2> DEFINE n == written + 1
             w == mode.script[n]
  <2>1. /\ written < Len(mode.script) /\ written' = n /\ mode' = mode
        /\ wrote' = [wrote EXCEPT ![w.file] = n]
    BY <1>2 DEF Save
  <2>2. PICK man \in Written(w) : content' = [content EXCEPT ![w.file] = man]
    BY <1>2 DEF Save
  <2>3. n \in 1..Len(mode.script) /\ written \in Nat /\ Len(mode.script) \in Nat
    <3>1. mode.script \in Seq(Range(mode.script)) /\ written \in Nat
      BY ModesAssumption DEF Learned
    <3>2. Len(mode.script) \in Nat
      BY <3>1
    <3> QED
      BY <2>1, <3>1, <3>2
  <2>4. w.file \in Files
    <3>1. mode.script \in Seq(Range(mode.script))
      BY ModesAssumption DEF Learned
    <3>2. w \in Range(mode.script)
      BY <2>3, <3>1
    <3> HIDE DEF w
    <3> QED
      BY <3>2, ModesAssumption DEF Learned
  <2>5. IsContainer(man) => ClosedAs(w.file, man, n)
    BY <2>2, <2>3, WrittenClosed
  <2> HIDE DEF n, w
  <2>6. ASSUME NEW f \in Files
        PROVE  /\ wrote'[f] = IF f = w.file THEN n ELSE wrote[f]
               /\ content'[f] = IF f = w.file THEN man ELSE content[f]
    BY <2>1, <2>2, <2>4 DEF Closed, Learned, StoresTrue
  <2>7. wrote' = [f \in Files |-> wrote'[f]]
    BY <2>1 DEF Closed
  <2>8. ASSUME NEW f \in Files
        PROVE  /\ wrote'[f] \in 0..n
               /\ \A j \in (wrote'[f] + 1)..n : mode.script[j].file # f
    <3>1. CASE f = w.file
      BY <2>3, <2>6, <3>1 DEF n
    <3>2. CASE f # w.file
      <4>1. /\ wrote'[f] = wrote[f] /\ wrote[f] \in 0..written
            /\ \A j \in (wrote[f] + 1)..written : mode.script[j].file # f
        BY <2>6, <3>2 DEF Closed
      <4>2. ASSUME NEW j \in (wrote[f] + 1)..n PROVE mode.script[j].file # f
        <5>1. j \in (wrote[f] + 1)..written \/ j = n
          BY <2>3, <4>1 DEF n
        <5> QED
          BY <3>2, <4>1, <5>1 DEF w
      <4> QED
        BY <2>3, <4>1, <4>2 DEF n
    <3> QED
      BY <3>1, <3>2
  <2>9. ASSUME NEW f \in Files, IsContainer(content'[f])
        PROVE  ClosedAs(f, content'[f], wrote'[f])
    <3>1. CASE f = w.file
      BY <2>5, <2>6, <2>9, <3>1
    <3>2. CASE f # w.file
      BY <2>6, <2>9, <3>2, ReadersAre DEF Closed
    <3> QED
      BY <3>1, <3>2
  <2>10. ReadersAreNamed'
    <3>1. \A f \in Files : IsContainer(content'[f]) => ClosedAs(f, content'[f], wrote'[f])
      BY <2>9
    <3> QED
      BY <2>1, <3>1 DEF ReadersAreNamed, IsContainer, ClosedAs, Closers
  <2> QED
    BY <2>1, <2>3, <2>7, <2>8, <2>10 DEF Closed, n
<1> QED
  BY <1>1, <1>2

(* Nothing is written in the beginning.                                       *)
LEMMA ClosedInit == Init => Closed
<1> SUFFICES ASSUME Init PROVE Closed
  OBVIOUS
<1>1. Len(mode.script) \in Nat
  <2>1. mode.script \in Seq(Range(mode.script))
    BY ModesAssumption DEF Init
  <2> QED
    BY <2>1
<1> QED
  BY <1>1 DEF Init, Closed, ReadersAreNamed

(* Manifest.encrypt, encrypt_dict: a container can be read with the keys of its owner  *)
(* and of those in its access list, as its last author knew them, and with no others;  *)
(* its storage can be read as the authors closed it since the container was written,   *)
(* whoever gave access to whom in between, knowing whichever users.                     *)
THEOREM ContainersAreClosed == Spec => []ReadersAreNamed
<1>1. Closed => ReadersAreNamed
  BY DEF Closed
<1> QED
  BY <1>1, LearnedAlways, ClosedInit, ClosedNext, PTL DEF Spec
=============================================================================
