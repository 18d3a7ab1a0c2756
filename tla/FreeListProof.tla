--------------------------- MODULE FreeListProof ---------------------------
(***************************************************************************)
(* Proofs about FreeList for any number of threads and nodes: IInv is      *)
(* inductive, the safety properties follow from it, and every step is a    *)
(* step of NodePool or leaves the pool unchanged.                          *)
(***************************************************************************)
EXTENDS FreeList, FiniteSetTheorems, SequenceTheorems, TLAPS

-----------------------------------------------------------------------------
(* The counter.                                                            *)

\* The flag is larger than any count of threads.
LEMMA FlagIsLarge ==
    /\ SHOULD_BE_ON_FREELIST \in Nat
    /\ Cardinality(Thread) \in Nat
    /\ SHOULD_BE_ON_FREELIST > Cardinality(Thread) + 1
    /\ SHOULD_BE_ON_FREELIST > 2
<1>1. Cardinality(Thread) \in Nat /\ Cardinality(Thread) # 0
  BY ThreadAssumption, FS_CardinalityType, FS_EmptySet
<1> QED
  BY <1>1, FlagAssumption

\* The count of a set of threads leaves room for the reference of the list.
LEMMA ThreadCount ==
    ASSUME NEW S \in SUBSET Thread
    PROVE  /\ IsFiniteSet(S)
           /\ Cardinality(S) \in Nat
           /\ Cardinality(S) + 1 < SHOULD_BE_ON_FREELIST
           /\ Cardinality(S) = 0 <=> S = {}
<1>1. IsFiniteSet(S) /\ Cardinality(S) <= Cardinality(Thread)
  BY ThreadAssumption, FS_Subset
<1>2. Cardinality(S) \in Nat
  BY <1>1, FS_CardinalityType
<1>3. Cardinality(S) = 0 <=> S = {}
  BY <1>1, FS_EmptySet
<1> QED
  BY <1>1, <1>2, <1>3, FlagIsLarge

\* Unsigned arithmetic stays within the 32 bits of the counter.
LEMMA WrapInRange ==
    ASSUME NEW r \in RefsRange, NEW d \in Int,
           d >= -2, d <= SHOULD_BE_ON_FREELIST
    PROVE  Wrap(r + d) \in RefsRange
BY FlagIsLarge DEF Wrap, RefsRange

\* The counter decoded: whether the node waits shows in the flag.
LEMMA Decode ==
    ASSUME RefsExact, NEW n \in Node
    PROVE  /\ Cardinality(RefSet(n)) \in Nat
           /\ Cardinality(RefSet(n)) + 1 < SHOULD_BE_ON_FREELIST
           /\ Cardinality(RefSet(n)) = 0 <=> RefSet(n) = {}
           /\ freeListRefs[n] =
                  IF Waiting(n) THEN Cardinality(RefSet(n)) + SHOULD_BE_ON_FREELIST
                  ELSE IF ListReference(n) THEN Cardinality(RefSet(n)) + 1
                  ELSE Cardinality(RefSet(n))
<1>1. RefSet(n) \in SUBSET Thread
  BY DEF RefSet
<1>2. Waiting(n) => ~ ListReference(n)
  BY DEF Waiting
<1> QED
  BY <1>1, <1>2, ThreadCount, FlagIsLarge DEF RefsExact

-----------------------------------------------------------------------------
(* The list as the pointers spell it.                                      *)

\* The empty sequence is the one of length zero.
LEMMA EmptyIsLengthZero ==
    ASSUME NEW S, NEW s \in Seq(S)
    PROVE  s = <<>> <=> Len(s) = 0
BY EmptySeq

\* The sequence without its first element.
LEMMA TailOfSeq ==
    ASSUME NEW S, NEW s \in Seq(S), s # <<>>
    PROVE  /\ Tail(s) \in Seq(S)
           /\ Len(s) \in Nat /\ Len(s) >= 1
           /\ Len(Tail(s)) = Len(s) - 1
           /\ Tail(s) = <<>> <=> Len(s) = 1
           /\ \A i \in 1 .. Len(s) - 1 :
                 /\ i + 1 \in 1 .. Len(s)
                 /\ Tail(s)[i] = s[i + 1]
<1>1. Len(s) \in Nat /\ Len(s) >= 1
  BY EmptySeq, LenProperties
<1>2. /\ Tail(s) \in Seq(S)
      /\ Len(Tail(s)) = Len(s) - 1
      /\ \A i \in 1 .. Len(s) - 1 : Tail(s)[i] = s[i + 1]
  BY <1>1, HeadTailProperties
<1>3. Tail(s) = <<>> <=> Len(Tail(s)) = 0
  BY <1>2, EmptyIsLengthZero
<1> QED
  BY <1>1, <1>2, <1>3

\* Taking the head off the list.
LEMMA PopList ==
    ASSUME list \in Seq(Node), PointersSpellList, freeListHead \in Node,
           freeListHead' = freeListNext[freeListHead], freeListNext' = freeListNext,
           list' \in Seq(Node), Len(list') = Len(list) - 1,
           list' = <<>> <=> Len(list) = 1,
           \A i \in 1 .. Len(list) - 1 : list'[i] = list[i + 1]
    PROVE  /\ PointersSpellList'
           /\ OnList(freeListHead)
           /\ \A n : OnList(n)' <=> OnList(n) /\ n # freeListHead
<1>1. list # <<>> /\ freeListHead = list[1] /\ Len(list) \in Nat /\ Len(list) >= 1
  BY NodeAssumption, TailOfSeq DEF PointersSpellList
<1>2. \A i \in 1 .. Len(list) - 1 : i + 1 \in 1 .. Len(list)
  BY <1>1
<1>3. PointersSpellList'
  <2>1. freeListNext[list[1]] = IF 1 = Len(list) THEN NULL ELSE list[2]
    <3>1. 1 \in 1 .. Len(list) /\ 1 + 1 = 2
      BY <1>1
    <3> QED
      BY <3>1 DEF PointersSpellList
  <2>2. freeListHead' = IF list' = <<>> THEN NULL ELSE list'[1]
    BY <2>1, <1>1, <1>2
  <2>3. \A i \in 1 .. Len(list') : /\ i \in 1 .. Len(list) - 1
                                    /\ i + 1 \in 1 .. Len(list)
                                    /\ list'[i] = list[i + 1]
                                    /\ i = Len(list') <=> i + 1 = Len(list)
    BY <1>1, <1>2
  <2>4. ASSUME NEW i \in 1 .. Len(list')
        PROVE freeListNext'[list'[i]] = IF i = Len(list') THEN NULL ELSE list'[i + 1]
    <3>1. freeListNext[list[i + 1]]
            = IF i + 1 = Len(list) THEN NULL ELSE list[(i + 1) + 1]
      BY <2>3 DEF PointersSpellList
    <3>2. i # Len(list') => list'[i + 1] = list[(i + 1) + 1]
      BY <2>3, <1>1, <1>2
    <3> QED
      BY <3>1, <3>2, <2>3
  <2>5. ASSUME NEW i \in 1 .. Len(list'), NEW j \in 1 .. Len(list'),
               list'[i] = list'[j]
        PROVE i = j
    BY <2>3, <2>5, <1>1 DEF PointersSpellList
  <2> QED
    BY <2>2, <2>4, <2>5 DEF PointersSpellList
<1>4. OnList(freeListHead)
  BY <1>1 DEF OnList
<1>5. ASSUME NEW n PROVE OnList(n)' <=> OnList(n) /\ n # freeListHead
  <2>1. ASSUME OnList(n)' PROVE OnList(n) /\ n # freeListHead
    <3>1. PICK i \in 1 .. Len(list) - 1 : list[i + 1] = n
      BY <2>1, <1>2 DEF OnList
    <3> QED
      BY <3>1, <1>1 DEF OnList, PointersSpellList
  <2>2. ASSUME OnList(n), n # freeListHead PROVE OnList(n)'
    <3>1. PICK i \in 1 .. Len(list) : list[i] = n
      BY <2>2 DEF OnList
    <3>2. i # 1 /\ i - 1 \in 1 .. Len(list) - 1 /\ list'[i - 1] = n
      BY <3>1, <2>2, <1>1, <1>2
    <3> QED
      BY <3>2, <1>2 DEF OnList
  <2> QED
    BY <2>1, <2>2
<1> QED
  BY <1>3, <1>4, <1>5

\* Putting a node in front of the list.
LEMMA PushList ==
    ASSUME list \in Seq(Node), PointersSpellList, NEW n \in Node, ~ OnList(n),
           freeListNext[n] = freeListHead, freeListHead' = n,
           freeListNext' = freeListNext, list' = <<n>> \o list
    PROVE  /\ list' \in Seq(Node)
           /\ PointersSpellList'
           /\ \A m : OnList(m)' <=> OnList(m) \/ m = n
<1>1. Len(list) \in Nat
  BY LenProperties
<1>2. /\ list' \in Seq(Node)
      /\ Len(list') = Len(list) + 1
      /\ list'[1] = n
      /\ \A i \in 1 .. Len(list) : list'[i + 1] = list[i]
      /\ list' # <<>>
  <2>1. <<n>> \in Seq(Node) /\ Len(<<n>>) = 1 /\ <<n>>[1] = n
    OBVIOUS
  <2>2. /\ list' \in Seq(Node)
        /\ Len(list') = Len(list) + 1
        /\ \A i \in 1 .. Len(list') :
              list'[i] = IF i <= 1 THEN <<n>>[i] ELSE list[i - 1]
    BY <2>1, ConcatProperties
  <2>3. \A i \in 1 .. Len(list) : list'[i + 1] = list[i]
    BY <2>2, <1>1
  <2>4. list' # <<>>
    BY <2>2, <1>1, EmptySeq
  <2> QED
    BY <2>1, <2>2, <2>3, <2>4, <1>1
<1>3. \A i \in 2 .. Len(list') : i - 1 \in 1 .. Len(list) /\ list'[i] = list[i - 1]
  BY <1>1, <1>2
<1>4. PointersSpellList'
  <2>1. freeListHead' = IF list' = <<>> THEN NULL ELSE list'[1]
    BY <1>2
  <2>2. ASSUME NEW i \in 1 .. Len(list')
        PROVE freeListNext'[list'[i]] = IF i = Len(list') THEN NULL ELSE list'[i + 1]
    <3>1. CASE i = 1
      <4>1. CASE list = <<>>
        BY <3>1, <4>1, <1>1, <1>2, EmptySeq DEF PointersSpellList
      <4>2. CASE list # <<>>
        <5>1. Len(list) >= 1
          BY <4>2, <1>1, EmptySeq
        <5> QED
          BY <5>1, <3>1, <4>2, <1>1, <1>2 DEF PointersSpellList
      <4> QED
        BY <4>1, <4>2
    <3>2. CASE i # 1
      <4>1. /\ i - 1 \in 1 .. Len(list) /\ list'[i] = list[i - 1]
            /\ i = Len(list') <=> i - 1 = Len(list)
        BY <3>2, <1>1, <1>2, <1>3
      <4>2. i # Len(list') => list'[i + 1] = list[(i - 1) + 1]
        BY <3>2, <1>1, <1>2, <1>3
      <4> QED
        BY <4>1, <4>2 DEF PointersSpellList
    <3> QED
      BY <3>1, <3>2
  <2>3. ASSUME NEW i \in 1 .. Len(list'), NEW j \in 1 .. Len(list'),
               list'[i] = list'[j]
        PROVE i = j
    BY <2>3, <1>1, <1>2, <1>3 DEF OnList, PointersSpellList
  <2> QED
    BY <2>1, <2>2, <2>3 DEF PointersSpellList
<1>5. ASSUME NEW m PROVE OnList(m)' <=> OnList(m) \/ m = n
  <2>1. ASSUME OnList(m)' PROVE OnList(m) \/ m = n
    BY <2>1, <1>1, <1>2, <1>3 DEF OnList
  <2>2. ASSUME OnList(m) \/ m = n PROVE OnList(m)'
    BY <2>2, <1>1, <1>2 DEF OnList
  <2> QED
    BY <2>1, <2>2
<1> QED
  BY <1>2, <1>4, <1>5

-----------------------------------------------------------------------------
(* The steps that move no node.                                            *)

\* What the step is to the pool of NodePool.
PoolStep == [Pool!Next]_(Pool!vars)

LEMMA PoolStutters ==
    ASSUME list' = list,
           \A u \in Thread, m \in Node : Owns(u, m)' <=> Owns(u, m),
           \A m \in Node : Pending(m)' <=> Pending(m)
    PROVE  PoolStep
<1>1. poolHeld' = poolHeld
  BY DEF poolHeld
<1>2. poolPending' = poolPending
  BY DEF poolPending
<1> QED
  BY <1>1, <1>2 DEF PoolStep, Pool!vars

\* Nothing changes in where the nodes are and who references them.
Unmoved ==
    /\ UNCHANGED <<freeListRefs, held, list>>
    /\ \A u \in Thread, m \in Node : /\ References(u, m)' <=> References(u, m)
                                     /\ Taking(u, m)' <=> Taking(u, m)
                                     /\ Preparing(u, m)' <=> Preparing(u, m)
                                     /\ Publishing(u, m)' <=> Publishing(u, m)

LEMMA UnmovedKeeps ==
    ASSUME Exclusive, RefsExact, ZeroMeansPreparing, Unmoved
    PROVE  Exclusive' /\ RefsExact' /\ ZeroMeansPreparing' /\ PoolStep
<1>1. \A m \in Node : OnList(m)' <=> OnList(m)
  BY DEF Unmoved, OnList
<1>2. \A m \in Node : RefSet(m)' = RefSet(m)
  BY DEF Unmoved, RefSet
<1>3. \A m \in Node : /\ ListReference(m)' <=> ListReference(m)
                      /\ Waiting(m)' <=> Waiting(m)
  BY <1>1 DEF Unmoved, ListReference, Waiting
<1>4. Exclusive'
  BY <1>1 DEF Unmoved, Exclusive, Controls, Owns, Adding
<1>5. RefsExact'
  BY <1>2, <1>3 DEF Unmoved, RefsExact
<1>6. ZeroMeansPreparing'
  BY <1>2, <1>3 DEF Unmoved, ZeroMeansPreparing
<1>7. PoolStep
  BY PoolStutters DEF Unmoved, Owns, Pending
<1> QED
  BY <1>4, <1>5, <1>6, <1>7

LEMMA TryGetKeeps ==
    ASSUME IInv, NEW t \in Thread, TryGet(t) \/ Reload(t)
    PROVE  IInv' /\ PoolStep
<1> USE DEF TryGet, Reload, Iterate, Goto, shared, getLocals, addLocals
<1>1. TypeOK'
  BY DEF IInv, TypeOK
<1>2. LocalsFresh'
  BY DEF IInv, TypeOK, LocalsFresh
<1>3. PointersSpellList'
  BY DEF IInv, PointersSpellList
<1>4. Unmoved
  BY DEF IInv, TypeOK, Unmoved, References, Taking, Preparing, Publishing
<1> QED
  BY <1>1, <1>2, <1>3, <1>4, UnmovedKeeps DEF IInv

LEMMA LoadKeeps ==
    ASSUME IInv, NEW t \in Thread, LoadRefs(t) \/ LoadNext(t) \/ LoadHead(t)
    PROVE  IInv' /\ PoolStep
<1> USE DEF LoadRefs, LoadNext, LoadHead, Goto, shared, getLocals, addLocals
<1>1. TypeOK'
  BY DEF IInv, TypeOK, LocalsFresh
<1>2. LocalsFresh'
  BY DEF IInv, TypeOK, LocalsFresh
<1>3. PointersSpellList'
  BY DEF IInv, PointersSpellList
<1>4. Unmoved
  BY DEF IInv, TypeOK, Unmoved, References, Taking, Preparing, Publishing
<1> QED
  BY <1>1, <1>2, <1>3, <1>4, UnmovedKeeps DEF IInv

\* A node being prepared is on no list and nobody holds a reference to it, so
\* its link may change.
LEMMA StoreNextKeeps ==
    ASSUME IInv, NEW t \in Thread, StoreNext(t)
    PROVE  IInv' /\ PoolStep
<1> DEFINE n == node[t]
<1> USE DEF StoreNext, Goto, shared, getLocals, addLocals
<1>1. n \in Node /\ Preparing(t, n)
  BY DEF IInv, LocalsFresh, Preparing
<1>2. TypeOK'
  BY <1>1 DEF IInv, TypeOK
<1>3. ~ OnList(n)
  BY <1>1 DEF IInv, Exclusive, Controls, Adding
<1>4. \A u \in Thread : ~ References(u, n)
  BY <1>1 DEF IInv, ZeroMeansPreparing, RefSet
<1>5. \A u \in Thread : pc[u] \in {"storeNext", "storeRefs", "casAdd"} /\ node[u] = n
                             => u = t
  BY <1>1 DEF IInv, Exclusive, Controls, Adding, Preparing, Publishing
<1>6. LocalsFresh'
  <2> SUFFICES ASSUME NEW u \in Thread PROVE LocalsFresh!(u)'
    BY DEF LocalsFresh
  <2> QED
    BY <1>1, <1>4, <1>5 DEF IInv, TypeOK, LocalsFresh, References
<1>7. PointersSpellList'
  BY <1>3 DEF IInv, TypeOK, PointersSpellList, OnList
<1>8. Unmoved
  BY DEF IInv, TypeOK, Unmoved, References, Taking, Preparing, Publishing
<1> QED
  BY <1>2, <1>6, <1>7, <1>8, UnmovedKeeps DEF IInv

\* The branches in which an exchange fails.
LEMMA FailureKeeps ==
    ASSUME IInv, NEW t \in Thread,
           \/ IncRefs(t) /\ ~ MayReference(t)
           \/ CasHead(t) /\ freeListHead # head[t]
           \/ CasAdd(t) /\ freeListHead # addHead[t]
    PROVE  IInv' /\ PoolStep
<1> USE DEF IncRefs, CasHead, CasAdd, Goto, shared, getLocals, addLocals
<1>1. TypeOK'
  <2>1. 0 \in RefsRange
    BY FlagIsLarge DEF RefsRange
  <2>2. CASE IncRefs(t)
    BY <2>1, <2>2 DEF IInv, TypeOK
  <2>3. CASE CasHead(t)
    BY <2>3 DEF IInv, TypeOK
  <2>4. CASE CasAdd(t)
    BY <2>4 DEF IInv, TypeOK
  <2> QED
    BY <2>2, <2>3, <2>4
<1>2. LocalsFresh'
  BY DEF IInv, TypeOK, LocalsFresh
<1>3. PointersSpellList'
  BY DEF IInv, PointersSpellList
<1>4. Unmoved
  BY DEF IInv, TypeOK, Unmoved, References, Taking, Preparing, Publishing
<1> QED
  BY <1>1, <1>2, <1>3, <1>4, UnmovedKeeps DEF IInv

-----------------------------------------------------------------------------
(* The steps that move a node or change its count.                         *)

\* The parts of the invariant that are about one node at a time.
Placed(m) ==
    /\ \A u, v \in Thread : Controls(u, m) /\ Controls(v, m) => u = v
    /\ \A u \in Thread : Controls(u, m) => ~ OnList(m)
    /\ freeListRefs[m] =
          Cardinality(RefSet(m))
          + (IF ListReference(m) THEN 1 ELSE 0)
          + (IF Waiting(m) THEN SHOULD_BE_ON_FREELIST ELSE 0)
    /\ (\E u \in Thread : Preparing(u, m)) <=> Waiting(m) /\ RefSet(m) = {}

\* Nothing changes for node m.
UnmovedNode(m) ==
    /\ freeListRefs'[m] = freeListRefs[m]
    /\ OnList(m)' <=> OnList(m)
    /\ \A u \in Thread : /\ m \in held'[u] <=> m \in held[u]
                         /\ References(u, m)' <=> References(u, m)
                         /\ Taking(u, m)' <=> Taking(u, m)
                         /\ Preparing(u, m)' <=> Preparing(u, m)
                         /\ Publishing(u, m)' <=> Publishing(u, m)

\* It is enough to look at the node a step works on.
LEMMA OneNode ==
    ASSUME Exclusive, RefsExact, ZeroMeansPreparing, NEW n \in Node,
           \A m \in Node \ {n} : UnmovedNode(m), Placed(n)'
    PROVE  Exclusive' /\ RefsExact' /\ ZeroMeansPreparing'
<1>1. ASSUME NEW m \in Node PROVE Placed(m)'
  <2>1. CASE m = n
    BY <2>1
  <2>2. CASE m # n
    <3>1. UnmovedNode(m)
      BY <2>2
    <3>2. RefSet(m)' = RefSet(m)
      BY <3>1 DEF UnmovedNode, RefSet
    <3>3. /\ ListReference(m)' <=> ListReference(m)
          /\ Waiting(m)' <=> Waiting(m)
      BY <3>1 DEF UnmovedNode, ListReference, Waiting
    <3>4. \A u \in Thread : Controls(u, m)' <=> Controls(u, m)
      BY <3>1 DEF UnmovedNode, Controls, Owns, Adding
    <3>5. Placed(m)
      BY DEF Placed, Exclusive, RefsExact, ZeroMeansPreparing
    <3>6. (\E u \in Thread : Preparing(u, m))' <=> \E u \in Thread : Preparing(u, m)
      BY <3>1 DEF UnmovedNode
    <3> QED
      BY <3>1, <3>2, <3>3, <3>4, <3>5, <3>6 DEF Placed, UnmovedNode
  <2> QED
    BY <2>1, <2>2
<1> QED
  BY <1>1 DEF Placed, Exclusive, RefsExact, ZeroMeansPreparing

\* fetch_add and fetch_sub change one counter, and by so much unless it wraps.
LEMMA FetchAddIs ==
    ASSUME TypeOK, NEW n \in Node, NEW d \in Int, FetchAdd(n, d),
           d >= -2, d <= SHOULD_BE_ON_FREELIST
    PROVE  /\ freeListRefs' \in [Node -> RefsRange]
           /\ \A m \in Node \ {n} : freeListRefs'[m] = freeListRefs[m]
           /\ freeListRefs[n] + d \in RefsRange
                => freeListRefs'[n] = freeListRefs[n] + d
<1>1. freeListRefs[n] \in RefsRange /\ Wrap(freeListRefs[n] + d) \in RefsRange
  BY WrapInRange DEF TypeOK
<1>2. freeListRefs' = [freeListRefs EXCEPT ![n] = Wrap(freeListRefs[n] + d)]
  BY DEF FetchAdd
<1>3. freeListRefs[n] + d \in RefsRange => Wrap(freeListRefs[n] + d) = freeListRefs[n] + d
  BY <1>1, FlagIsLarge DEF Wrap, RefsRange
<1> QED
  BY <1>1, <1>2, <1>3 DEF TypeOK

\* A node whose count below the flag is not zero gets one more reference.
LEMMA IncRefsKeeps ==
    ASSUME IInv, NEW t \in Thread, IncRefs(t), MayReference(t)
    PROVE  IInv' /\ PoolStep
<1> DEFINE n == prevHead[t]
<1> USE DEF IncRefs, MayReference, Goto, addLocals
<1>1. n \in Node /\ n = head[t] /\ freeListRefs[n] \in RefsRange
  BY DEF IInv, TypeOK, LocalsFresh
<1>0. /\ freeListRefs' \in [Node -> RefsRange]
      /\ \A m \in Node \ {n} : freeListRefs'[m] = freeListRefs[m]
      /\ freeListRefs[n] + 1 \in RefsRange => freeListRefs'[n] = freeListRefs[n] + 1
  BY <1>1, FetchAddIs, FlagIsLarge DEF IInv
<1>2. TypeOK'
  <2>1. 0 \in RefsRange
    BY FlagIsLarge DEF RefsRange
  <2> QED
    BY <1>1, <1>0, <2>1 DEF IInv, TypeOK
<1>3. LocalsFresh'
  BY DEF IInv, TypeOK, LocalsFresh
<1>4. PointersSpellList'
  BY DEF IInv, PointersSpellList
<1>5. \A m \in Node : OnList(m)' <=> OnList(m)
  BY DEF OnList
<1>6. \A u \in Thread, m \in Node :
         /\ References(u, m)' <=> References(u, m) \/ (u = t /\ m = n)
         /\ Taking(u, m)' <=> Taking(u, m)
         /\ Preparing(u, m)' <=> Preparing(u, m)
         /\ Publishing(u, m)' <=> Publishing(u, m)
  BY DEF IInv, TypeOK, References, Taking, Preparing, Publishing
<1>7. \A m \in Node \ {n} : UnmovedNode(m)
  BY <1>0, <1>5, <1>6 DEF UnmovedNode
<1>8. /\ t \notin RefSet(n)
      /\ RefSet(n)' = RefSet(n) \cup {t}
      /\ RefSet(n)' \subseteq Thread
  BY <1>1, <1>6 DEF RefSet, References
<1>9. Cardinality(RefSet(n)') = Cardinality(RefSet(n)) + 1
  BY <1>8, ThreadCount, FS_AddElement
<1>10. /\ ListReference(n)' <=> ListReference(n)
       /\ Waiting(n)' <=> Waiting(n)
       /\ \A u \in Thread : Controls(u, n)' <=> Controls(u, n)
  BY <1>1, <1>5, <1>6 DEF ListReference, Waiting, Controls, Owns, Adding
<1>11. freeListRefs'[n] = freeListRefs[n] + 1
  <2>1. freeListRefs[n] + 1 < 2 * SHOULD_BE_ON_FREELIST
    BY <1>1, Decode, FlagIsLarge DEF IInv
  <2> QED
    BY <1>1, <1>0, <2>1, FlagIsLarge DEF RefsRange
<1>12. ~ \E u \in Thread : Preparing(u, n)
  BY <1>1, Decode, FlagIsLarge DEF IInv, ZeroMeansPreparing, Masked
<1>13. Placed(n)'
  <2>1. freeListRefs'[n] =
          Cardinality(RefSet(n)')
          + (IF ListReference(n)' THEN 1 ELSE 0)
          + (IF Waiting(n)' THEN SHOULD_BE_ON_FREELIST ELSE 0)
    BY <1>1, <1>9, <1>10, <1>11, Decode, FlagIsLarge DEF IInv, RefsExact
  <2> QED
    BY <2>1, <1>1, <1>5, <1>6, <1>8, <1>10, <1>12 DEF IInv, Exclusive, Placed
<1>14. PoolStep
  <2>1. freeListRefs'[n] >= SHOULD_BE_ON_FREELIST
           <=> freeListRefs[n] >= SHOULD_BE_ON_FREELIST
    BY <1>1, <1>8, <1>9, <1>11, Decode, ThreadCount, FlagIsLarge DEF IInv
  <2>2. \A m \in Node : Pending(m)' <=> Pending(m)
    BY <1>0, <1>6, <2>1 DEF Pending
  <2> QED
    BY <1>6, <2>2, PoolStutters DEF Owns
<1> QED
  BY <1>14, <1>1, <1>2, <1>3, <1>4, <1>7, <1>13, OneNode DEF IInv

\* The head leaves the list and becomes the thread's.
LEMMA CasHeadKeeps ==
    ASSUME IInv, NEW t \in Thread, CasHead(t), freeListHead = head[t]
    PROVE  IInv' /\ PoolStep
<1> DEFINE n == prevHead[t]
<1> USE DEF CasHead, Goto, addLocals
<1>1. n \in Node /\ n = freeListHead /\ next[t] = freeListNext[n]
  BY DEF IInv, TypeOK, LocalsFresh
<1>2. /\ list' \in Seq(Node)
      /\ Len(list') = Len(list) - 1
      /\ list' = <<>> <=> Len(list) = 1
      /\ \A i \in 1 .. Len(list) - 1 : list'[i] = list[i + 1]
  <2>1. list \in Seq(Node) /\ list # <<>> /\ list' = Tail(list)
    BY <1>1, NodeAssumption DEF IInv, TypeOK, PointersSpellList
  <2> QED
    BY <2>1, TailOfSeq
<1>3. /\ PointersSpellList'
      /\ OnList(n)
      /\ \A m : OnList(m)' <=> OnList(m) /\ m # n
  <2>1. list \in Seq(Node) /\ PointersSpellList
    BY DEF IInv, TypeOK
  <2>2. freeListHead' = freeListNext[freeListHead] /\ freeListNext' = freeListNext
    BY <1>1
  <2> QED
    BY <1>1, <1>2, <2>1, <2>2, PopList
<1>4. TypeOK'
  BY <1>1, <1>2 DEF IInv, TypeOK
<1>5. LocalsFresh'
  BY <1>1 DEF IInv, TypeOK, LocalsFresh
<1>6. \A u \in Thread, m \in Node :
         /\ References(u, m)' <=> References(u, m)
         /\ Taking(u, m)' <=> Taking(u, m) \/ (u = t /\ m = n)
         /\ Preparing(u, m)' <=> Preparing(u, m)
         /\ Publishing(u, m)' <=> Publishing(u, m)
  BY DEF IInv, TypeOK, References, Taking, Preparing, Publishing
<1>7. \A m \in Node \ {n} : UnmovedNode(m)
  BY <1>3, <1>6 DEF UnmovedNode
<1>8. RefSet(n)' = RefSet(n)
  BY <1>1, <1>6 DEF RefSet
<1>9. /\ ListReference(n) /\ ListReference(n)'
      /\ ~ Waiting(n) /\ ~ Waiting(n)'
  BY <1>1, <1>3, <1>6 DEF ListReference, Waiting
<1>10. \A u \in Thread : ~ Controls(u, n)
  BY <1>1, <1>3 DEF IInv, Exclusive
<1>11. \A u \in Thread : Controls(u, n)' => u = t
  BY <1>1, <1>6, <1>10 DEF Controls, Owns, Adding
<1>12. Placed(n)'
  BY <1>1, <1>3, <1>6, <1>8, <1>9, <1>10, <1>11
  DEF IInv, RefsExact, Placed, Controls, Adding
<1>13. PoolStep
  <2>1. list # <<>> /\ list' = Tail(list) /\ Head(list) = n
    BY <1>1, NodeAssumption DEF IInv, TypeOK, PointersSpellList
  <2>2. \A u \in Thread, m \in Node :
           Owns(u, m)' <=> Owns(u, m) \/ (u = t /\ m = n)
    BY <1>6 DEF Owns
  <2>3. poolHeld' = [poolHeld EXCEPT ![t] = @ \cup {n}]
    <3>1. ASSUME NEW u \in Thread
          PROVE {m \in Node : Owns(u, m)'}
                  = IF u = t THEN {m \in Node : Owns(u, m)} \cup {n}
                             ELSE {m \in Node : Owns(u, m)}
      BY <1>1, <2>2
    <3>2. poolHeld' = [u \in Thread |-> {m \in Node : Owns(u, m)'}]
      BY DEF poolHeld
    <3>3. poolHeld = [u \in Thread |-> {m \in Node : Owns(u, m)}]
      BY DEF poolHeld
    <3>4. poolHeld[t] = {m \in Node : Owns(t, m)}
      BY <3>3
    <3> QED
      <4>1. [poolHeld EXCEPT ![t] = @ \cup {n}]
              = [u \in Thread |-> IF u = t THEN poolHeld[t] \cup {n} ELSE poolHeld[u]]
        BY <3>3
      <4>2. ASSUME NEW u \in Thread
            PROVE  (IF u = t THEN poolHeld[t] \cup {n} ELSE poolHeld[u])
                     = {m \in Node : Owns(u, m)'}
        BY <3>1, <3>3, <3>4
      <4> HIDE DEF poolHeld
      <4> QED
        BY <3>2, <4>1, <4>2
  <2>4. poolPending' = poolPending
    BY <1>6 DEF poolPending, Pending
  <2>5. Pool!Obtain(t)
    BY <2>1, <2>3, <2>4 DEF Pool!Obtain
  <2> QED
    BY <2>5 DEF PoolStep, Pool!Next
<1> QED
  BY <1>13, <1>1, <1>3, <1>4, <1>5, <1>7, <1>12, OneNode DEF IInv

\* Two references are given up: the thread's, and that of the list.
LEMMA TakeKeeps ==
    ASSUME IInv, NEW t \in Thread, Take(t)
    PROVE  IInv' /\ PoolStep
<1> USE DEF Take, Goto, addLocals
<1>1. PICK n \in Node : /\ n = prevHead[t] /\ n = head[t]
                       /\ freeListRefs[n] \in RefsRange
                       /\ Taking(t, n)
  BY DEF IInv, TypeOK, LocalsFresh, Taking
<1>2. /\ freeListRefs' \in [Node -> RefsRange]
      /\ \A m \in Node \ {n} : freeListRefs'[m] = freeListRefs[m]
      /\ freeListRefs[n] - 2 \in RefsRange => freeListRefs'[n] = freeListRefs[n] - 2
  <2>1. FetchAdd(n, -2) /\ -2 \in Int /\ -2 >= -2 /\ -2 <= SHOULD_BE_ON_FREELIST
    BY <1>1, FlagIsLarge
  <2> QED
    BY <1>1, <2>1, FetchAddIs DEF IInv, TypeOK, RefsRange
<1>3. TypeOK'
  BY <1>1, <1>2 DEF IInv, TypeOK
<1>4. LocalsFresh'
  BY DEF IInv, TypeOK, LocalsFresh
<1>5. PointersSpellList'
  BY DEF IInv, PointersSpellList
<1>6. \A m \in Node : OnList(m)' <=> OnList(m)
  BY DEF OnList
<1>7. \A u \in Thread, m \in Node :
         /\ m \in held'[u] <=> m \in held[u] \/ (u = t /\ m = n)
         /\ References(u, m)' <=> References(u, m) /\ ~ (u = t /\ m = n)
         /\ Taking(u, m)' <=> Taking(u, m) /\ ~ (u = t /\ m = n)
         /\ Preparing(u, m)' <=> Preparing(u, m)
         /\ Publishing(u, m)' <=> Publishing(u, m)
  BY <1>1 DEF IInv, TypeOK, References, Taking, Preparing, Publishing
<1>8. \A m \in Node \ {n} : UnmovedNode(m)
  BY <1>2, <1>6, <1>7 DEF UnmovedNode
<1>9. t \in RefSet(n) /\ RefSet(n) \subseteq Thread /\ RefSet(n)' = RefSet(n) \ {t}
  BY <1>1, <1>7 DEF RefSet, References, Taking
<1>10. /\ Cardinality(RefSet(n)) \in Nat
       /\ Cardinality(RefSet(n)') \in Nat
       /\ Cardinality(RefSet(n)') = Cardinality(RefSet(n)) - 1
  BY <1>9, ThreadCount, FS_RemoveElement
<1>11. /\ ~ OnList(n)
       /\ \A u \in Thread : Controls(u, n) => u = t
       /\ \A u \in Thread : ~ Adding(u, n)
  BY <1>1 DEF IInv, Exclusive, Controls, Owns, Adding, Taking, Preparing, Publishing
<1>12. /\ ListReference(n) /\ ~ ListReference(n)'
       /\ ~ Waiting(n) /\ ~ Waiting(n)'
  <2>1. ListReference(n) /\ ~ Waiting(n)
    BY <1>1 DEF ListReference, Waiting
  <2>2. ~ ListReference(n)'
    BY <1>1, <1>6, <1>7, <1>11 DEF ListReference, Adding, Controls, Owns
  <2>3. ~ Waiting(n)'
    BY <1>1, <1>7 DEF Waiting
  <2> QED
    BY <2>1, <2>2, <2>3
<1>13. freeListRefs[n] = Cardinality(RefSet(n)) + 1
  BY <1>1, <1>12, Decode DEF IInv
<1>14. freeListRefs'[n] = Cardinality(RefSet(n)')
  BY <1>1, <1>2, <1>10, <1>13, FlagIsLarge DEF RefsRange
<1>15. \A u \in Thread : Controls(u, n)' => u = t
  BY <1>1, <1>7, <1>11 DEF Controls, Owns, Adding
<1>16. Placed(n)'
  BY <1>1, <1>6, <1>7, <1>10, <1>11, <1>12, <1>14, <1>15 DEF Placed, Adding
<1>17. PoolStep
  <2>1. \A m \in Node : Pending(m)' <=> Pending(m)
    <3>1. ~ Pending(n) /\ ~ Pending(n)'
      BY <1>1, <1>7, <1>9, <1>10, <1>11, <1>13, <1>14, ThreadCount, FlagIsLarge
      DEF Pending, Adding
    <3> QED
      BY <1>2, <1>7, <3>1 DEF Pending
  <2>2. \A u \in Thread, m \in Node : Owns(u, m)' <=> Owns(u, m)
    BY <1>1, <1>7 DEF Owns
  <2> QED
    BY <2>1, <2>2, PoolStutters
<1> QED
  BY <1>17, <1>1, <1>3, <1>4, <1>5, <1>8, <1>16, OneNode DEF IInv

\* The last reference to a waiting node turns its holder into the one that
\* puts it on the list; any other reference is just given up.
LEMMA DecRefsKeeps ==
    ASSUME IInv, NEW t \in Thread, DecRefs(t)
    PROVE  IInv' /\ PoolStep
<1> DEFINE last == LastReference(freeListRefs[prevHead[t]])
<1> USE DEF DecRefs, Iterate, Goto
<1>1. PICK n \in Node : n = prevHead[t] /\ freeListRefs[n] \in RefsRange
  BY DEF IInv, TypeOK, LocalsFresh
<1>2. t \in RefSet(n) /\ RefSet(n) \subseteq Thread /\ References(t, n)
  BY <1>1 DEF RefSet, References
<1>3. Cardinality(RefSet(n)) \in Nat /\ Cardinality(RefSet(n)) >= 1
  BY <1>2, ThreadCount
<1>4. freeListRefs[n] - 1 \in RefsRange
  BY <1>1, <1>3, Decode, FlagIsLarge DEF IInv, RefsRange
<1>5. /\ freeListRefs' \in [Node -> RefsRange]
      /\ \A m \in Node \ {n} : freeListRefs'[m] = freeListRefs[m]
      /\ freeListRefs'[n] = freeListRefs[n] - 1
  <2>1. FetchAdd(n, -1) /\ -1 \in Int /\ -1 >= -2 /\ -1 <= SHOULD_BE_ON_FREELIST
    BY <1>1, FlagIsLarge
  <2>2. freeListRefs[n] + -1 = freeListRefs[n] - 1
    BY <1>1, FlagIsLarge DEF RefsRange
  <2> QED
    BY <1>4, <2>1, <2>2, FetchAddIs DEF IInv
<1>6. last <=> Waiting(n) /\ RefSet(n) = {t}
  <2>1. last <=> Waiting(n) /\ Cardinality(RefSet(n)) = 1
    BY <1>1, <1>3, Decode, FlagIsLarge DEF IInv, LastReference
  <2>2. Cardinality(RefSet(n)) = 1 <=> RefSet(n) = {t}
    <3>1. Cardinality(RefSet(n) \ {t}) = Cardinality(RefSet(n)) - 1
      BY <1>2, ThreadCount, FS_RemoveElement
    <3>2. Cardinality(RefSet(n) \ {t}) = 0 <=> RefSet(n) \ {t} = {}
      BY <1>2, ThreadCount
    <3> QED
      BY <1>2, <1>3, <3>1, <3>2
  <2> QED
    BY <2>1, <2>2
<1>7. last => \A u \in Thread : ~ Controls(u, n)
  BY <1>2, <1>6
  DEF IInv, ZeroMeansPreparing, Waiting, ListReference, Controls, Owns, Adding
<1>8. TypeOK'
  <2>1. CASE last
    BY <1>1, <1>5, <2>1 DEF IInv, TypeOK
  <2>2. CASE ~ last
    BY <1>1, <1>5, <2>2 DEF IInv, TypeOK
  <2> QED
    BY <2>1, <2>2
<1>9. LocalsFresh'
  <2>1. CASE last
    <3>1. n \notin held[t]
      BY <1>7, <2>1 DEF Controls, Owns
    <3> QED
      BY <1>1, <2>1, <3>1 DEF IInv, TypeOK, LocalsFresh
  <2>2. CASE ~ last
    BY <1>1, <2>2 DEF IInv, TypeOK, LocalsFresh
  <2> QED
    BY <2>1, <2>2
<1>10. PointersSpellList'
  BY DEF IInv, PointersSpellList
<1>11. \A m \in Node : OnList(m)' <=> OnList(m)
  BY DEF OnList
<1>12. \A u \in Thread, m \in Node :
          /\ m \in held'[u] <=> m \in held[u]
          /\ References(u, m)' <=> References(u, m) /\ ~ (u = t /\ m = n)
          /\ Taking(u, m)' <=> Taking(u, m)
          /\ Preparing(u, m)' <=> Preparing(u, m) \/ (last /\ u = t /\ m = n)
          /\ Publishing(u, m)' <=> Publishing(u, m)
  <2>1. CASE last
    BY <1>1, <2>1 DEF IInv, TypeOK, References, Taking, Preparing, Publishing
  <2>2. CASE ~ last
    BY <1>1, <2>2 DEF IInv, TypeOK, References, Taking, Preparing, Publishing
  <2> QED
    BY <2>1, <2>2
<1>13. \A m \in Node \ {n} : UnmovedNode(m)
  BY <1>5, <1>11, <1>12 DEF UnmovedNode
<1>14. RefSet(n)' = RefSet(n) \ {t}
  BY <1>12 DEF RefSet
<1>15. Cardinality(RefSet(n)') = Cardinality(RefSet(n)) - 1
  BY <1>2, <1>14, ThreadCount, FS_RemoveElement
<1>16. /\ ListReference(n)' <=> ListReference(n)
       /\ Waiting(n)' <=> Waiting(n)
  BY <1>11, <1>12 DEF ListReference, Waiting
<1>17. \A u \in Thread : Controls(u, n)' <=> Controls(u, n) \/ (last /\ u = t)
  BY <1>12 DEF Controls, Owns, Adding
<1>18. /\ \A u, v \in Thread : Controls(u, n)' /\ Controls(v, n)' => u = v
       /\ \A u \in Thread : Controls(u, n)' => ~ OnList(n)'
  BY <1>6, <1>7, <1>11, <1>17 DEF IInv, Exclusive, Waiting, ListReference
<1>19. freeListRefs'[n] = Cardinality(RefSet(n)')
                          + (IF ListReference(n)' THEN 1 ELSE 0)
                          + (IF Waiting(n)' THEN SHOULD_BE_ON_FREELIST ELSE 0)
  BY <1>3, <1>5, <1>15, <1>16, FlagIsLarge DEF IInv, RefsExact
<1>20. (\E u \in Thread : Preparing(u, n))' <=> Waiting(n)' /\ RefSet(n)' = {}
  <2>1. ~ \E u \in Thread : Preparing(u, n)
    BY <1>2 DEF IInv, ZeroMeansPreparing
  <2>2. (\E u \in Thread : Preparing(u, n)') <=> last
    BY <2>1, <1>12
  <2>3. RefSet(n)' = {} <=> RefSet(n) = {t}
    BY <1>2, <1>14
  <2> QED
    BY <2>2, <2>3, <1>6, <1>16
<1>21. Placed(n)'
  BY <1>18, <1>19, <1>20 DEF Placed
<1>22. PoolStep
  <2>1. freeListRefs'[n] >= SHOULD_BE_ON_FREELIST
           <=> freeListRefs[n] >= SHOULD_BE_ON_FREELIST
    BY <1>1, <1>3, <1>5, <1>15, <1>16, Decode, FlagIsLarge DEF IInv
  <2>2. \A m \in Node : Pending(m)' <=> Pending(m)
    BY <1>5, <1>12, <2>1 DEF Pending
  <2> QED
    BY <1>12, <2>2, PoolStutters DEF Owns
<1> QED
  BY <1>22, <1>8, <1>9, <1>10, <1>13, <1>21, OneNode DEF IInv

\* add: the caller's node starts to wait.
LEMMA AddKeeps ==
    ASSUME IInv, NEW t \in Thread, NEW n \in held[t], Add(t, n)
    PROVE  IInv' /\ PoolStep
<1> DEFINE free == freeListRefs[n] = 0
<1> USE DEF Add, Goto, getLocals
<1>1. n \in Node /\ freeListRefs[n] \in RefsRange /\ n \in held[t]
  BY DEF IInv, TypeOK
<1>2. /\ ~ OnList(n)
      /\ \A u \in Thread : Controls(u, n) => u = t
      /\ ~ Taking(t, n) /\ ~ Adding(t, n)
  BY <1>1 DEF IInv, Exclusive, Controls, Owns, Taking, Adding, Preparing, Publishing
<1>3. ~ ListReference(n) /\ ~ Waiting(n)
  BY <1>1, <1>2 DEF ListReference, Waiting, Controls, Owns, Adding
<1>4. /\ Cardinality(RefSet(n)) \in Nat
      /\ freeListRefs[n] = Cardinality(RefSet(n))
      /\ Cardinality(RefSet(n)) + 1 < SHOULD_BE_ON_FREELIST
      /\ free <=> RefSet(n) = {}
  BY <1>1, <1>3, Decode DEF IInv
<1>5. /\ freeListRefs' \in [Node -> RefsRange]
      /\ \A m \in Node \ {n} : freeListRefs'[m] = freeListRefs[m]
      /\ freeListRefs'[n] = freeListRefs[n] + SHOULD_BE_ON_FREELIST
  <2>1. freeListRefs[n] + SHOULD_BE_ON_FREELIST \in RefsRange
    BY <1>1, <1>4, FlagIsLarge DEF RefsRange
  <2> QED
    BY <1>1, <2>1, FetchAddIs, FlagIsLarge DEF IInv
<1>6. TypeOK'
  <2>1. CASE free
    BY <1>1, <1>5, <2>1 DEF IInv, TypeOK
  <2>2. CASE ~ free
    BY <1>1, <1>5, <2>2 DEF IInv, TypeOK
  <2> QED
    BY <2>1, <2>2
<1>7. LocalsFresh'
  <2>1. CASE free
    BY <1>1, <2>1 DEF IInv, TypeOK, LocalsFresh
  <2>2. CASE ~ free
    BY <1>1, <2>2 DEF IInv, TypeOK, LocalsFresh
  <2> QED
    BY <2>1, <2>2
<1>8. PointersSpellList'
  BY DEF IInv, PointersSpellList
<1>9. \A m \in Node : OnList(m)' <=> OnList(m)
  BY DEF OnList
<1>10. \A u \in Thread, m \in Node :
          /\ m \in held'[u] <=> m \in held[u] /\ ~ (u = t /\ m = n)
          /\ References(u, m)' <=> References(u, m)
          /\ Taking(u, m)' <=> Taking(u, m)
          /\ Preparing(u, m)' <=> Preparing(u, m) \/ (free /\ u = t /\ m = n)
          /\ Publishing(u, m)' <=> Publishing(u, m)
  <2>1. CASE free
    BY <1>1, <2>1 DEF IInv, TypeOK, References, Taking, Preparing, Publishing
  <2>2. CASE ~ free
    BY <1>1, <2>2 DEF IInv, TypeOK, References, Taking, Preparing, Publishing
  <2> QED
    BY <2>1, <2>2
<1>11. \A m \in Node \ {n} : UnmovedNode(m)
  BY <1>5, <1>9, <1>10 DEF UnmovedNode
<1>12. RefSet(n)' = RefSet(n)
  BY <1>1, <1>10 DEF RefSet
<1>13. ~ ListReference(n)' /\ Waiting(n)'
  BY <1>1, <1>2, <1>3, <1>9, <1>10 DEF ListReference, Waiting, Controls, Owns
<1>14. \A u \in Thread : Controls(u, n)' => u = t
  BY <1>1, <1>2, <1>10 DEF Controls, Owns, Adding
<1>15. (\E u \in Thread : Preparing(u, n))' <=> free
  BY <1>1, <1>2, <1>10 DEF Controls, Adding
<1>16. Placed(n)'
  BY <1>1, <1>2, <1>4, <1>5, <1>9, <1>12, <1>13, <1>14, <1>15, FlagIsLarge DEF Placed
<1>17. PoolStep
  <2>1. n \in poolHeld[t]
    BY <1>1 DEF poolHeld, Owns
  <2>2. \A u \in Thread, m \in Node :
           Owns(u, m)' <=> Owns(u, m) /\ ~ (u = t /\ m = n)
    BY <1>2, <1>10 DEF Owns
  <2>3. poolHeld' = [poolHeld EXCEPT ![t] = @ \ {n}]
    BY <2>2 DEF poolHeld
  <2>4. \A m \in Node : Pending(m)' <=> Pending(m) \/ m = n
    <3>1. Pending(n)'
      BY <1>4, <1>5, FlagIsLarge DEF Pending
    <3> QED
      BY <1>5, <1>10, <3>1 DEF Pending
  <2>5. poolPending' = poolPending \cup {n}
    BY <1>1, <2>4 DEF poolPending
  <2>6. Pool!HandOver(t, n)
    BY <2>1, <2>3, <2>5 DEF Pool!HandOver
  <2> QED
    BY <2>1, <2>6 DEF PoolStep, Pool!Next
<1> QED
  BY <1>17, <1>1, <1>6, <1>7, <1>8, <1>11, <1>16, OneNode DEF IInv

\* The count goes from zero to the one of the list; nobody references the node.
LEMMA StoreRefsKeeps ==
    ASSUME IInv, NEW t \in Thread, StoreRefs(t)
    PROVE  IInv' /\ PoolStep
<1> USE DEF StoreRefs, Goto, getLocals, addLocals
<1>1. PICK n \in Node : n = node[t] /\ Preparing(t, n)
  BY DEF IInv, LocalsFresh, Preparing
<1>2. Waiting(n) /\ RefSet(n) = {}
  BY <1>1 DEF IInv, ZeroMeansPreparing
<1>3. /\ ~ OnList(n) /\ \A u \in Thread : n \notin held[u]
      /\ \A u \in Thread : Controls(u, n) => u = t
  BY <1>1, <1>2 DEF IInv, Exclusive, Waiting, ListReference, Controls, Adding
<1>4. 1 \in RefsRange
  BY FlagIsLarge DEF RefsRange
<1>5. /\ freeListRefs' \in [Node -> RefsRange]
      /\ \A m \in Node \ {n} : freeListRefs'[m] = freeListRefs[m]
      /\ freeListRefs'[n] = 1
  BY <1>1, <1>4 DEF IInv, TypeOK
<1>6. TypeOK'
  BY <1>5 DEF IInv, TypeOK
<1>7. LocalsFresh'
  BY DEF IInv, TypeOK, LocalsFresh
<1>8. PointersSpellList'
  BY DEF IInv, PointersSpellList
<1>9. \A m \in Node : OnList(m)' <=> OnList(m)
  BY DEF OnList
<1>10. \A u \in Thread, m \in Node :
          /\ m \in held'[u] <=> m \in held[u]
          /\ References(u, m)' <=> References(u, m)
          /\ Taking(u, m)' <=> Taking(u, m)
          /\ Preparing(u, m)' <=> Preparing(u, m) /\ ~ (u = t /\ m = n)
          /\ Publishing(u, m)' <=> Publishing(u, m) \/ (u = t /\ m = n)
  BY <1>1 DEF IInv, TypeOK, References, Taking, Preparing, Publishing
<1>11. \A m \in Node \ {n} : UnmovedNode(m)
  BY <1>5, <1>9, <1>10 DEF UnmovedNode
<1>12. RefSet(n)' = {} /\ Cardinality(RefSet(n)') = 0
  BY <1>2, <1>10, FS_EmptySet DEF RefSet
<1>13. ListReference(n)' /\ ~ Waiting(n)'
  BY <1>1, <1>10 DEF ListReference, Waiting
<1>14. \A u \in Thread : Controls(u, n)' => u = t
  BY <1>1, <1>3, <1>10 DEF Controls, Owns, Adding
<1>15. ~ \E u \in Thread : Preparing(u, n)'
  BY <1>1, <1>3, <1>10 DEF Controls, Adding
<1>16. Placed(n)'
  BY <1>1, <1>3, <1>5, <1>9, <1>12, <1>13, <1>14, <1>15, FlagIsLarge DEF Placed
<1>17. PoolStep
  <2>1. \A m \in Node : Pending(m)' <=> Pending(m)
    <3>1. Pending(n)
      BY <1>2, Decode, FlagIsLarge DEF IInv, Pending
    <3>2. Pending(n)'
      BY <1>10 DEF Pending
    <3> QED
      BY <1>5, <1>10, <3>1, <3>2 DEF Pending
  <2> QED
    BY <1>10, <2>1, PoolStutters DEF Owns
<1> QED
  BY <1>17, <1>1, <1>6, <1>7, <1>8, <1>11, <1>16, OneNode DEF IInv

\* The node becomes the head of the list.
LEMMA CasAddKeeps ==
    ASSUME IInv, NEW t \in Thread, CasAdd(t), freeListHead = addHead[t]
    PROVE  IInv' /\ PoolStep
<1> USE DEF CasAdd, ReturnFromAdd, Iterate, Goto
<1>1. PICK n \in Node : /\ n = node[t] /\ Publishing(t, n)
                       /\ freeListNext[n] = freeListHead
                       /\ n \notin held[t]
  BY DEF IInv, LocalsFresh, Publishing
<1>2. /\ ~ OnList(n) /\ \A u \in Thread : Controls(u, n) => u = t
      /\ \A u \in Thread : n \notin held[u]
  BY <1>1 DEF IInv, Exclusive, Controls, Owns, Adding
<1>3. /\ list' \in Seq(Node)
      /\ PointersSpellList'
      /\ \A m : OnList(m)' <=> OnList(m) \/ m = n
  <2>1. /\ list \in Seq(Node) /\ PointersSpellList
        /\ freeListHead' = n /\ freeListNext' = freeListNext /\ list' = <<n>> \o list
    BY <1>1 DEF IInv, TypeOK
  <2> QED
    BY <1>1, <1>2, <2>1, PushList
<1>4. TypeOK'
  BY <1>1, <1>3 DEF IInv, TypeOK
<1>5. LocalsFresh'
  BY DEF IInv, TypeOK, LocalsFresh
<1>6. \A u \in Thread, m \in Node :
         /\ References(u, m)' <=> References(u, m)
         /\ Taking(u, m)' <=> Taking(u, m)
         /\ Preparing(u, m)' <=> Preparing(u, m)
         /\ Publishing(u, m)' <=> Publishing(u, m) /\ ~ (u = t /\ m = n)
  BY <1>1 DEF IInv, TypeOK, References, Taking, Preparing, Publishing
<1>7. \A m \in Node \ {n} : UnmovedNode(m)
  BY <1>3, <1>6 DEF UnmovedNode
<1>8. RefSet(n)' = RefSet(n)
  BY <1>1, <1>6 DEF RefSet
<1>9. /\ ListReference(n) /\ ListReference(n)'
      /\ ~ Waiting(n) /\ ~ Waiting(n)'
  BY <1>1, <1>3 DEF ListReference, Waiting
<1>10. ~ Preparing(t, n)
  BY <1>1 DEF Preparing, Publishing
<1>11. \A u \in Thread : ~ Controls(u, n)'
  <2>1. ~ Taking(t, n)
    BY <1>1 DEF Taking, Publishing
  <2> QED
    BY <2>1, <1>1, <1>2, <1>6, <1>10 DEF Controls, Owns, Adding
<1>12. Placed(n)'
  BY <1>1, <1>3, <1>6, <1>8, <1>9, <1>11
  DEF IInv, RefsExact, Placed, Controls, Adding
<1>13. PoolStep
  <2>1. Pending(n) /\ ~ Pending(n)'
    <3>1. freeListRefs'[n] < SHOULD_BE_ON_FREELIST
      BY <1>1, <1>9, Decode, FlagIsLarge DEF IInv
    <3>2. \A u \in Thread : ~ Publishing(u, n)'
      BY <1>11 DEF Controls, Adding
    <3>3. freeListRefs'[n] \in Int
      BY <1>4, FlagIsLarge DEF TypeOK, RefsRange
    <3> QED
      BY <1>1, <3>1, <3>2, <3>3, FlagIsLarge DEF Pending
  <2>2. \A m \in Node : Pending(m)' <=> Pending(m) /\ m # n
    BY <1>6, <2>1 DEF Pending
  <2>3. n \in poolPending /\ poolPending' = poolPending \ {n}
    BY <1>1, <2>1, <2>2 DEF poolPending
  <2>4. poolHeld' = poolHeld
    BY <1>6 DEF poolHeld, Owns
  <2>5. Pool!Insert(n)
    BY <1>1, <2>3, <2>4 DEF Pool!Insert
  <2> QED
    BY <2>3, <2>5 DEF PoolStep, Pool!Next
<1> QED
  BY <1>13, <1>1, <1>3, <1>4, <1>5, <1>7, <1>12, OneNode DEF IInv

\* The reference of the list is taken back: the node waits again, for this
\* thread to retry or for one that references it.
LEMMA UndoKeeps ==
    ASSUME IInv, NEW t \in Thread, Undo(t)
    PROVE  IInv' /\ PoolStep
<1> DEFINE retry == freeListRefs[node[t]] = 1
<1> USE DEF Undo, ReturnFromAdd, Iterate, Goto, addLocals
<1>1. PICK n \in Node : /\ n = node[t] /\ Publishing(t, n)
                       /\ n \notin held[t]
                       /\ freeListRefs[n] \in RefsRange
  BY DEF IInv, TypeOK, LocalsFresh, Publishing
<1>2. /\ ~ OnList(n) /\ \A u \in Thread : Controls(u, n) => u = t
      /\ \A u \in Thread : n \notin held[u]
      /\ ~ Taking(t, n) /\ ~ Preparing(t, n)
  BY <1>1 DEF IInv, Exclusive, Controls, Owns, Adding, Taking, Preparing, Publishing
<1>3. ListReference(n) /\ ~ Waiting(n)
  BY <1>1 DEF ListReference, Waiting
<1>4. /\ Cardinality(RefSet(n)) \in Nat
      /\ freeListRefs[n] = Cardinality(RefSet(n)) + 1
      /\ Cardinality(RefSet(n)) + 1 < SHOULD_BE_ON_FREELIST
      /\ retry <=> RefSet(n) = {}
  BY <1>1, <1>3, Decode DEF IInv
<1>5. /\ freeListRefs' \in [Node -> RefsRange]
      /\ \A m \in Node \ {n} : freeListRefs'[m] = freeListRefs[m]
      /\ freeListRefs'[n] = Cardinality(RefSet(n)) + SHOULD_BE_ON_FREELIST
  <2> DEFINE d == SHOULD_BE_ON_FREELIST - 1
  <2>1. FetchAdd(n, d) /\ d \in Int /\ d >= -2 /\ d <= SHOULD_BE_ON_FREELIST
    BY <1>1, FlagIsLarge
  <2>2. /\ freeListRefs[n] + d = Cardinality(RefSet(n)) + SHOULD_BE_ON_FREELIST
        /\ freeListRefs[n] + d \in RefsRange
    BY <1>1, <1>4, FlagIsLarge DEF RefsRange
  <2> HIDE DEF d
  <2> QED
    BY <2>1, <2>2, FetchAddIs DEF IInv
<1>6. TypeOK'
  <2>1. TypeOK /\ freeListHead' = freeListHead /\ freeListNext' = freeListNext
        /\ refs' = refs /\ next' = next /\ held' = held /\ list' = list
    BY DEF IInv
  <2>2. /\ head' \in [Thread -> Node \cup {NULL}]
        /\ prevHead' \in [Thread -> Node \cup {NULL}]
    <3>1. CASE retry
      BY <2>1, <3>1 DEF TypeOK
    <3>2. CASE ~ retry
      BY <2>1, <3>2 DEF TypeOK
    <3> QED
      BY <3>1, <3>2
  <2>3. /\ node' \in [Thread -> Node \cup {NULL}]
        /\ addHead' \in [Thread -> Node \cup {NULL}]
    <3>1. CASE retry
      BY <2>1, <3>1 DEF TypeOK
    <3>2. CASE ~ retry
      BY <2>1, <3>2 DEF TypeOK
    <3> QED
      BY <3>1, <3>2
  <2>4. \/ pc' = [pc EXCEPT ![t] = "storeNext"]
        \/ pc' = [pc EXCEPT ![t] = "idle"]
        \/ pc' = [pc EXCEPT ![t] = "loadRefs"]
    BY <1>1
  <2> HIDE DEF Undo, ReturnFromAdd, Iterate, Goto, addLocals
  <2> QED
    BY <1>5, <2>1, <2>2, <2>3, <2>4 DEF TypeOK
<1>7. LocalsFresh'
  <2>1. CASE retry
    BY <1>1, <2>1 DEF IInv, TypeOK, LocalsFresh
  <2>2. CASE ~ retry
    BY <1>1, <2>2 DEF IInv, TypeOK, LocalsFresh
  <2> QED
    BY <2>1, <2>2
<1>8. PointersSpellList'
  BY DEF IInv, PointersSpellList
<1>9. \A m \in Node : OnList(m)' <=> OnList(m)
  BY DEF OnList
<1>10. \A u \in Thread, m \in Node :
          /\ m \in held'[u] <=> m \in held[u]
          /\ References(u, m)' <=> References(u, m)
          /\ Taking(u, m)' <=> Taking(u, m)
          /\ Preparing(u, m)' <=> Preparing(u, m) \/ (retry /\ u = t /\ m = n)
          /\ Publishing(u, m)' <=> Publishing(u, m) /\ ~ (u = t /\ m = n)
  <2>1. CASE retry
    BY <1>1, <2>1 DEF IInv, TypeOK, References, Taking, Preparing, Publishing
  <2>2. CASE ~ retry
    BY <1>1, <2>2 DEF IInv, TypeOK, References, Taking, Preparing, Publishing
  <2> QED
    BY <2>1, <2>2
<1>11. \A m \in Node \ {n} : UnmovedNode(m)
  BY <1>5, <1>9, <1>10 DEF UnmovedNode
<1>12. RefSet(n)' = RefSet(n)
  BY <1>1, <1>10 DEF RefSet
<1>13. ~ ListReference(n)' /\ Waiting(n)'
  BY <1>1, <1>2, <1>9, <1>10 DEF ListReference, Waiting, Controls, Owns, Adding
<1>14. \A u \in Thread : Controls(u, n)' => u = t
  BY <1>1, <1>2, <1>10 DEF Controls, Owns, Adding
<1>15. (\E u \in Thread : Preparing(u, n))' <=> retry
  BY <1>1, <1>2, <1>10 DEF Controls, Adding
<1>16. Placed(n)'
  BY <1>1, <1>2, <1>4, <1>5, <1>9, <1>12, <1>13, <1>14, <1>15, FlagIsLarge DEF Placed
<1>17. PoolStep
  <2>1. \A m \in Node : Pending(m)' <=> Pending(m)
    <3>1. Pending(n)
      BY <1>1 DEF Pending
    <3>2. Pending(n)'
      BY <1>4, <1>5, FlagIsLarge DEF Pending
    <3> QED
      BY <1>5, <1>10, <3>1, <3>2 DEF Pending
  <2> QED
    BY <1>10, <2>1, PoolStutters DEF Owns
<1> QED
  BY <1>17, <1>1, <1>6, <1>7, <1>8, <1>11, <1>16, OneNode DEF IInv

-----------------------------------------------------------------------------
(* The theorems.                                                           *)

\* Initially the invariant holds: the nodes are new and each has one owner.
LEMMA InitIInv == Init => IInv
<1> SUFFICES ASSUME Init PROVE IInv
  OBVIOUS
<1> USE DEF Init
<1>1. PICK creator \in [Node -> Thread] :
         held = [t \in Thread |-> {n \in Node : creator[n] = t}]
  OBVIOUS
<1>2. \A t \in Thread, n \in Node : n \in held[t] <=> creator[n] = t
  BY <1>1
<1>3. TypeOK
  <2>1. 0 \in RefsRange
    BY FlagIsLarge DEF RefsRange
  <2>2. held \in [Thread -> SUBSET Node]
    BY <1>1
  <2> QED
    BY <2>1, <2>2 DEF TypeOK
<1>4. LocalsFresh
  BY DEF LocalsFresh
<1>5. PointersSpellList
  BY DEF PointersSpellList
<1>6. \A t \in Thread, n \in Node :
         /\ ~ References(t, n) /\ ~ Taking(t, n) /\ ~ Preparing(t, n)
         /\ ~ Publishing(t, n) /\ ~ OnList(n)
  BY DEF References, Taking, Preparing, Publishing, OnList
<1>7. \A n \in Node : /\ RefSet(n) = {} /\ Cardinality(RefSet(n)) = 0
                      /\ ~ ListReference(n) /\ ~ Waiting(n)
  <2> SUFFICES ASSUME NEW n \in Node
               PROVE  /\ RefSet(n) = {} /\ Cardinality(RefSet(n)) = 0
                      /\ ~ ListReference(n) /\ ~ Waiting(n)
    OBVIOUS
  <2>1. RefSet(n) = {}
    BY <1>6 DEF RefSet
  <2>2. n \in held[creator[n]] /\ creator[n] \in Thread
    BY <1>2
  <2> QED
    BY <2>1, <2>2, <1>6, FS_EmptySet DEF ListReference, Waiting
<1>8. Exclusive
  BY <1>2, <1>6 DEF Exclusive, Controls, Owns, Adding
<1>9. RefsExact
  BY <1>7 DEF RefsExact
<1>10. ZeroMeansPreparing
  BY <1>6, <1>7 DEF ZeroMeansPreparing
<1> QED
  BY <1>3, <1>4, <1>5, <1>8, <1>9, <1>10 DEF IInv

\* No step of any thread breaks the invariant, and each is a step of the pool.
LEMMA StepIInv == IInv /\ [Next]_vars => IInv' /\ PoolStep
<1> SUFFICES ASSUME IInv, [Next]_vars PROVE IInv' /\ PoolStep
  OBVIOUS
<1>1. CASE UNCHANGED vars
  <2>1. TypeOK' /\ LocalsFresh' /\ PointersSpellList'
    BY <1>1 DEF vars, shared, getLocals, addLocals, IInv, TypeOK, LocalsFresh,
                PointersSpellList
  <2>2. Unmoved
    BY <1>1 DEF vars, shared, getLocals, addLocals, Unmoved, References, Taking,
                Preparing, Publishing
  <2> QED
    BY <2>1, <2>2, UnmovedKeeps DEF IInv
<1>2. ASSUME NEW t \in Thread, TryGet(t) \/ Reload(t) PROVE IInv' /\ PoolStep
  BY <1>2, TryGetKeeps
<1>3. ASSUME NEW t \in Thread, LoadRefs(t) \/ LoadNext(t) \/ LoadHead(t) PROVE IInv' /\ PoolStep
  BY <1>3, LoadKeeps
<1>4. ASSUME NEW t \in Thread, IncRefs(t) PROVE IInv' /\ PoolStep
  BY <1>4, IncRefsKeeps, FailureKeeps
<1>5. ASSUME NEW t \in Thread, CasHead(t) PROVE IInv' /\ PoolStep
  BY <1>5, CasHeadKeeps, FailureKeeps
<1>6. ASSUME NEW t \in Thread, Take(t) PROVE IInv' /\ PoolStep
  BY <1>6, TakeKeeps
<1>7. ASSUME NEW t \in Thread, DecRefs(t) PROVE IInv' /\ PoolStep
  BY <1>7, DecRefsKeeps
<1>8. ASSUME NEW t \in Thread, NEW n \in held[t], Add(t, n) PROVE IInv' /\ PoolStep
  BY <1>8, AddKeeps
<1>9. ASSUME NEW t \in Thread, StoreNext(t) PROVE IInv' /\ PoolStep
  BY <1>9, StoreNextKeeps
<1>10. ASSUME NEW t \in Thread, StoreRefs(t) PROVE IInv' /\ PoolStep
  BY <1>10, StoreRefsKeeps
<1>11. ASSUME NEW t \in Thread, CasAdd(t) PROVE IInv' /\ PoolStep
  BY <1>11, CasAddKeeps, FailureKeeps
<1>12. ASSUME NEW t \in Thread, Undo(t) PROVE IInv' /\ PoolStep
  BY <1>12, UndoKeeps
<1> QED
  BY <1>1, <1>2, <1>3, <1>4, <1>5, <1>6, <1>7, <1>8, <1>9, <1>10, <1>11, <1>12
  DEF Next, Call, Step

\* The invariant holds in every reachable state of add and try_get.
THEOREM Invariance == Spec => []IInv
BY InitIInv, StepIInv, PTL DEF Spec

\* The counters and pointers of the code keep their types.
THEOREM TypeCorrect == Spec => []TypeOK
<1>1. IInv => TypeOK
  BY DEF IInv
<1> QED
  BY <1>1, Invariance, PTL

\* No node is ever given to two callers, and add_knowing_refcount_is_zero runs
\* once per node at a time.
THEOREM MutualExclusion == Spec => []Exclusive
<1>1. IInv => Exclusive
  BY DEF IInv
<1> QED
  BY <1>1, Invariance, PTL

\* The reference counts are exact.
THEOREM Accounting == Spec => []RefsExact
<1>1. IInv => RefsExact
  BY DEF IInv
<1> QED
  BY <1>1, Invariance, PTL

\* The assertion of line 62 never fails.
THEOREM AssertionCorrect == Spec => []AssertionHolds
<1>1. ASSUME IInv PROVE AssertionHolds
  <2> SUFFICES ASSUME NEW t \in Thread, pc[t] = "take"
               PROVE  freeListRefs[head[t]] < SHOULD_BE_ON_FREELIST
    BY DEF AssertionHolds
  <2>1. PICK n \in Node : n = head[t] /\ Taking(t, n)
    BY <1>1 DEF IInv, LocalsFresh, Taking
  <2>2. ~ Waiting(n)
    BY <2>1 DEF Waiting, ListReference
  <2> QED
    BY <1>1, <2>1, <2>2, Decode, FlagIsLarge DEF IInv
<1> QED
  BY <1>1, Invariance, PTL

\* The pointers always spell a list without repetition that ends in nullptr.
THEOREM PointersCorrect == Spec => []PointersSpellList
<1>1. IInv => PointersSpellList
  BY DEF IInv
<1> QED
  BY <1>1, Invariance, PTL

\* No node is lost between add and the list.
THEOREM NoNodeStranded == Spec => []NotStranded
<1>1. IInv => NotStranded
  BY DEF IInv, NotStranded, ZeroMeansPreparing, RefSet, Adding
<1> QED
  BY <1>1, Invariance, PTL

\* When no call is running, every node is on the list or with a caller.
THEOREM QuiescentCorrect == Spec => []Quiescent
<1>1. ASSUME IInv PROVE Quiescent
  <2> SUFFICES ASSUME \A t \in Thread : pc[t] = "idle", NEW n \in Node
               PROVE  OnList(n) \/ \E t \in Thread : n \in held[t]
    BY DEF Quiescent
  <2>1. /\ \A t \in Thread : ~ Preparing(t, n) /\ ~ Taking(t, n) /\ ~ Publishing(t, n)
        /\ RefSet(n) = {}
    BY DEF Preparing, Taking, Publishing, RefSet, References
  <2> QED
    BY <1>1, <2>1 DEF IInv, ZeroMeansPreparing, Waiting, ListReference
<1> QED
  BY <1>1, Invariance, PTL

\* The free list implements the pool of nodes: whatever the threads interleave,
\* its callers see nodes handed over, inserted and obtained one at a time.
THEOREM Refinement == Spec => ImplementsPool
<1>1. ASSUME Init PROVE Pool!Init
  <2> USE <1>1 DEF Init
  <2>1. PICK creator \in [Node -> Thread] :
           held = [t \in Thread |-> {n \in Node : creator[n] = t}]
    OBVIOUS
  <2>2. \A t \in Thread, n \in Node : n \in poolHeld[t] <=> creator[n] = t
    BY <2>1 DEF poolHeld, Owns, Taking
  <2>3. poolHeld \in [Thread -> SUBSET Node]
    BY DEF poolHeld
  <2>4. poolPending = {}
    BY FlagIsLarge DEF poolPending, Pending, Publishing
  <2> QED
    BY <2>2, <2>3, <2>4 DEF Pool!Init
<1>2. IInv /\ [Next]_vars => [Pool!Next]_(Pool!vars)
  BY StepIInv DEF PoolStep
<1> QED
  BY <1>1, <1>2, Invariance, PTL DEF Spec, ImplementsPool, Pool!Spec

=============================================================================
