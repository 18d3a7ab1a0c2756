------------------------------ MODULE FoldProof ------------------------------
(***************************************************************************)
(* What the proofs of several programs need of numbers, and of functions   *)
(* that refer to themselves, which FoldLeft and FlattenSeq are: that there *)
(* is such a function, place by place.                                     *)
(***************************************************************************)
EXTENDS Integers, Sequences, FiniteSets, SequencesExt, TLAPS, FiniteSetTheorems, SequenceTheorems,
        WellFoundedInduction

-----------------------------------------------------------------------------
(* Numbers, and what a fold is *)

LEMMA LeastNumber ==
  ASSUME NEW T \in SUBSET Nat, T # {}
  PROVE  \E x \in T : \A y \in T : x <= y
<1>1. PICK x \in T : \A y \in T : ~(<<y, x>> \in OpToRel(<, Nat))
  BY NatLessThanWellFounded, WFMin
<1>2. \A y \in T : ~(y < x)
  BY <1>1 DEF OpToRel
<1> QED
  BY <1>2

\* A set of numbers that has n + 1 with every n and is not without 0 has all.
LEMMA AllNumbers ==
  ASSUME NEW G, 0 \in G, \A n \in Nat : n \in G => n + 1 \in G
  PROVE  Nat \subseteq G
<1> DEFINE T == {n \in Nat : n \notin G}
<1> SUFFICES ASSUME T # {} PROVE FALSE
  OBVIOUS
<1>1. PICK x \in T : \A y \in T : x <= y
  <2>1. T \in SUBSET Nat
    OBVIOUS
  <2> HIDE DEF T
  <2> QED
    BY <2>1, LeastNumber
<1>2. x \in Nat \ {0} /\ x \notin G
  BY <1>1
<1>3. x - 1 \in Nat /\ x - 1 \notin T /\ (x - 1) + 1 = x
  BY <1>1, <1>2
<1> QED
  BY <1>2, <1>3

LEMMA LargestIs ==
  ASSUME NEW n \in Nat, NEW T \in SUBSET (1..n), T # {}
  PROVE  Max(T) \in T /\ \A k \in T : k <= Max(T)
<1> DEFINE U == {i \in Nat : \A k \in T : k <= i}
<1>1. PICK m \in U : \A y \in U : m <= y
  <2>1. U \in SUBSET Nat /\ n \in U
    OBVIOUS
  <2> HIDE DEF U
  <2> QED
    BY <2>1, LeastNumber
<1>2. m \in T
  <2> SUFFICES ASSUME m \notin T PROVE FALSE
    OBVIOUS
  <2>1. PICK k \in T : TRUE
    OBVIOUS
  <2>2. m \in Nat /\ k <= m /\ k \in 1..n
    BY <1>1
  <2>3. m - 1 \in Nat /\ \A j \in T : j <= m - 1
    <3>1. \A j \in T : j <= m /\ j # m /\ j \in Int
      BY <1>1
    <3> QED
      BY <2>2, <3>1
  <2>4. m - 1 \in U
    BY <2>3
  <2> QED
    BY <1>1, <2>2, <2>4
<1> QED
  BY <1>1, <1>2, Zenon DEF Max

\* The same, up to a bound.
LEMMA UpTo ==
  ASSUME NEW n \in Nat, NEW G, 0 \in G, \A i \in 1..n : i - 1 \in G => i \in G
  PROVE  \A i \in 0..n : i \in G
<1> DEFINE H == {i \in Nat : i <= n => i \in G}
<1>1. 0 \in H
  OBVIOUS
<1>2. ASSUME NEW i \in Nat, i \in H
      PROVE  i + 1 \in H
  <2>1. i + 1 <= n => i + 1 \in 1..n /\ (i + 1) - 1 = i /\ i \in G
    BY <1>2
  <2> QED
    BY <2>1
<1>3. Nat \subseteq H
  <2> HIDE DEF H
  <2> QED
    BY <1>1, <1>2, AllNumbers
<1> QED
  BY <1>3

LEMMA LargestOfInterval ==
  ASSUME NEW n \in Nat, n > 0
  PROVE  Max(1..n) = n /\ (1..n) \ {n} = 1..n - 1 /\ 1..n # {}
<1>1. 1..n \in SUBSET (1..n) /\ 1..n # {} /\ n \in 1..n
  OBVIOUS
<1>2. Max(1..n) \in 1..n /\ n <= Max(1..n)
  BY <1>1, LargestIs
<1>3. Max(1..n) = n
  BY <1>2
<1> QED
  BY <1>1, <1>3

\* f folds the numbers of the sets up to n, the largest last, as FoldLeft does the places of
\* a sequence.
Folds(f, base, n, F) ==
  \A T \in SUBSET (1..n) : f[T] = IF T = {} THEN base ELSE F[<<f[T \ {Max(T)}], Max(T)>>]

LEMMA FoldThere ==
  ASSUME NEW A, NEW base \in A, NEW n \in Nat, NEW F \in [A \X (1..n) -> A]
  PROVE  \E f \in [SUBSET (1..n) -> A] : Folds(f, base, n, F)
<1> DEFINE Good(k, f) == \A T \in SUBSET (1..k) : f[T] = IF T = {} THEN base ELSE F[<<f[T \ {Max(T)}], Max(T)>>]
           Has(k) == k <= n => \E f \in [SUBSET (1..k) -> A] : Good(k, f)
           G == {k \in Nat : Has(k)}
<1>1. Has(0)
  <2>1. Good(0, [T \in SUBSET (1..0) |-> base])
    OBVIOUS
  <2> QED
    BY <2>1
<1>2. ASSUME NEW k \in Nat, Has(k)
      PROVE  Has(k + 1)
  <2> SUFFICES ASSUME k + 1 <= n
               PROVE  \E f \in [SUBSET (1..k + 1) -> A] : Good(k + 1, f)
    OBVIOUS
  <2>1. PICK g \in [SUBSET (1..k) -> A] : Good(k, g)
    <3>1. k <= n
      OBVIOUS
    <3> HIDE DEF Good
    <3> QED
      BY <1>2, <3>1
  <2> DEFINE f == [T \in SUBSET (1..k + 1) |->
                     IF k + 1 \in T THEN F[<<g[T \ {k + 1}], k + 1>>] ELSE g[T]]
  <2>2. ASSUME NEW T \in SUBSET (1..k + 1)
        PROVE  /\ k + 1 \notin T => T \in SUBSET (1..k)
               /\ T \ {k + 1} \in SUBSET (1..k)
    OBVIOUS
  <2>3. f \in [SUBSET (1..k + 1) -> A]
    <3>1. ASSUME NEW T \in SUBSET (1..k + 1) PROVE f[T] \in A
      <4>1. CASE k + 1 \in T
        <5>1. g[T \ {k + 1}] \in A /\ k + 1 \in 1..n
          BY <2>1, <2>2
        <5>2. <<g[T \ {k + 1}], k + 1>> \in A \X (1..n)
          BY <5>1
        <5> QED
          BY <4>1, <5>2
      <4>2. CASE k + 1 \notin T
        BY <2>1, <2>2, <4>2
      <4> QED
        BY <4>1, <4>2
    <3> QED
      BY <3>1
  <2>4. Good(k + 1, f)
    <3> SUFFICES ASSUME NEW T \in SUBSET (1..k + 1)
                 PROVE  f[T] = IF T = {} THEN base ELSE F[<<f[T \ {Max(T)}], Max(T)>>]
      OBVIOUS
    <3>1. CASE k + 1 \in T
      <4>1. Max(T) \in T /\ \A j \in T : j <= Max(T)
        <5>1. k + 1 \in Nat /\ T # {}
          BY <3>1
        <5> QED
          BY <5>1, LargestIs
      <4>2. Max(T) = k + 1
        <5>1. Max(T) \in 1..k + 1 /\ k + 1 <= Max(T)
          BY <3>1, <4>1
        <5> HIDE DEF f
        <5> QED
          BY <5>1
      <4>3. f[T \ {k + 1}] = g[T \ {k + 1}]
        BY <2>2
      <4> QED
        BY <3>1, <4>2, <4>3
    <3>2. CASE k + 1 \notin T
      <4>1. T \in SUBSET (1..k) /\ f[T] = g[T]
        BY <2>2, <3>2
      <4>2. f[T \ {Max(T)}] = g[T \ {Max(T)}]
        BY <3>2, <4>1
      <4> QED
        BY <2>1, <4>1, <4>2
    <3> QED
      BY <3>1, <3>2
  <2> QED
    BY <2>3, <2>4
<1>3. Nat \subseteq G
  <2> HIDE DEF Has
  <2>1. 0 \in G /\ \A k \in Nat : k \in G => k + 1 \in G
    BY <1>1, <1>2
  <2> HIDE DEF G
  <2> QED
    BY <2>1, AllNumbers
<1>4. Has(n)
  <2> HIDE DEF Has
  <2> QED
    BY <1>3
<1>5. PICK f \in [SUBSET (1..n) -> A] : Good(n, f)
  <2>1. n <= n
    OBVIOUS
  <2> HIDE DEF Good
  <2> QED
    BY <1>4, <2>1
<1> QED
  BY <1>5 DEF Folds

\* What holds of a place when it holds of all places after it holds of all.
LEMMA DownFrom ==
  ASSUME NEW lo \in Nat, NEW n \in Nat, NEW G,
         \A k \in lo..n : (\A j \in k + 1..n : j \in G) => k \in G
  PROVE  \A k \in lo..n : k \in G
<1> DEFINE T == {i \in 0..n : n - i >= lo /\ n - i \notin G}
<1>1. T = {}
  <2> SUFFICES ASSUME T # {} PROVE FALSE
    OBVIOUS
  <2>1. PICK x \in T : \A y \in T : x <= y
    <3>1. T \in SUBSET Nat
      OBVIOUS
    <3> HIDE DEF T
    <3> QED
      BY <3>1, LeastNumber
  <2>2. \A j \in (n - x) + 1..n : j \in G
    <3> SUFFICES ASSUME NEW j \in (n - x) + 1..n, j \notin G PROVE FALSE
      OBVIOUS
    <3>1. n - j \in Nat /\ n - j < x /\ n - (n - j) = j /\ j >= lo
      BY <2>1
    <3>2. n - j \in T
      BY <3>1
    <3> QED
      BY <2>1, <3>1, <3>2
  <2>3. n - x \in lo..n
    BY <2>1
  <2> QED
    BY <2>1, <2>2, <2>3
<1> QED
  <2> SUFFICES ASSUME NEW k \in lo..n, k \notin G PROVE FALSE
    OBVIOUS
  <2>1. PICK i : i = n - k
    OBVIOUS
  <2>2. i \in 0..n /\ n - i = k
    BY <2>1
  <2>3. i \in T
    BY <2>2
  <2> QED
    BY <1>1, <2>3

\* f is computed from the top down: at a stop it is given, elsewhere it follows from a value
\* further up.
Climbs(f, lo, n, Stop, B, next, F) ==
  \A k \in lo..n : f[k] = IF k \in Stop THEN B[k] ELSE F[<<k, f[next[k]]>>]


\* A function that refers at a place to a later one, or to none, is there.
LEMMA UpwardThere ==
  ASSUME NEW A, NEW lo \in Nat, NEW n \in Nat, lo <= n, NEW Stop, NEW B \in [lo..n -> A],
         NEW next, \A k \in lo..n : k \notin Stop => next[k] \in k + 1..n, NEW F \in [(lo..n) \X A -> A]
  PROVE  \E f \in [lo..n -> A] : Climbs(f, lo, n, Stop, B, next, F)
<1> DEFINE Good(m, f) == \A k \in m..n : f[k] = IF k \in Stop THEN B[k] ELSE F[<<k, f[next[k]]>>]
           Has(m) == \E f \in [m..n -> A] : Good(m, f)
           G == {m \in lo..n : Has(m)}
<1>1. ASSUME NEW m \in lo..n, \A j \in m + 1..n : Has(j)
      PROVE  Has(m)
  <2>1. PICK g \in [m + 1..n -> A] : Good(m + 1, g)
    <3>1. CASE m = n
      <4>1. m + 1..n = {}
        BY <3>1
      <4>2. [i \in {} |-> i] \in [m + 1..n -> A] /\ Good(m + 1, [i \in {} |-> i])
        BY <4>1
      <4> QED
        BY <4>2
    <3>2. CASE m # n
      <4>1. m + 1 \in m + 1..n
        BY <3>2
      <4> HIDE DEF Good
      <4> QED
        BY <1>1, <4>1
    <3> QED
      BY <3>1, <3>2
  <2> DEFINE f == [k \in m..n |-> IF k = m THEN IF m \in Stop THEN B[m] ELSE F[<<m, g[next[m]]>>] ELSE g[k]]
  <2>2. f \in [m..n -> A]
    <3>1. B[m] \in A
      OBVIOUS
    <3>2. m \notin Stop => F[<<m, g[next[m]]>>] \in A
      <4> SUFFICES ASSUME m \notin Stop PROVE F[<<m, g[next[m]]>>] \in A
        OBVIOUS
      <4>1. g[next[m]] \in A
        OBVIOUS
      <4>2. <<m, g[next[m]]>> \in (lo..n) \X A
        BY <4>1
      <4> QED
        BY <4>2
    <3>3. \A k \in m..n : k # m => g[k] \in A
      OBVIOUS
    <3> QED
      BY <3>1, <3>2, <3>3
  <2>3. \A k \in m + 1..n : f[k] = g[k] /\ k # m
    OBVIOUS
  <2>4. Good(m, f)
    <3> SUFFICES ASSUME NEW k \in m..n
                 PROVE  f[k] = IF k \in Stop THEN B[k] ELSE F[<<k, f[next[k]]>>]
      OBVIOUS
    <3>1. k \in lo..n
      OBVIOUS
    <3>2. k \notin Stop => next[k] \in m + 1..n /\ f[next[k]] = g[next[k]]
      BY <2>3, <3>1
    <3>3. CASE k = m
      <4>1. f[k] = IF k \in Stop THEN B[k] ELSE F[<<k, g[next[k]]>>]
        BY <3>3
      <4> QED
        BY <3>2, <4>1
    <3>4. CASE k # m
      <4>1. k \in m + 1..n
        BY <3>4
      <4>2. f[k] = g[k] /\ g[k] = IF k \in Stop THEN B[k] ELSE F[<<k, g[next[k]]>>]
        BY <2>1, <2>3, <4>1
      <4> QED
        BY <3>2, <4>2
    <3> QED
      BY <3>3, <3>4
  <2> QED
    BY <2>2, <2>4
<1>2. lo \in G
  <2> HIDE DEF Has
  <2>1. ASSUME NEW k \in lo..n, \A j \in k + 1..n : j \in G
        PROVE  k \in G
    BY <1>1, <2>1
  <2> HIDE DEF G
  <2>2. \A k \in lo..n : k \in G
    BY <2>1, DownFrom
  <2> QED
    BY <2>2
<1>3. PICK f \in [lo..n -> A] : Good(lo, f)
  <2> HIDE DEF Good
  <2> QED
    BY <1>2
<1> QED
  BY <1>3 DEF Climbs

\* FlattenSeq appends one sequence after another.
LEMMA FlattenRun ==
  ASSUME NEW A, NEW ss \in Seq(Seq(A))
  PROVE  \E run : /\ run[0] = <<>> /\ run[Len(ss)] = FlattenSeq(ss)
                  /\ \A i \in 0..Len(ss) : run[i] \in Seq(A)
                  /\ \A i \in 1..Len(ss) : run[i] = run[i - 1] \o ss[i]
<1> PICK n \in Nat : n = Len(ss)
  OBVIOUS
<1>1. DOMAIN ss = 1..n /\ \A i \in 1..n : ss[i] \in Seq(A)
  OBVIOUS
<1>2. CASE n = 0
  <2>1. FlattenSeq(ss) = <<>>
    <3>1. ss = <<>> /\ Len(ss) = 0
      BY <1>2, EmptySeq
    <3> QED
      BY <3>1 DEF FlattenSeq
  <2>2. PICK run : run = [i \in 0..0 |-> <<>>]
    OBVIOUS
  <2>3. run[0] = <<>> /\ run[0] \in Seq(A)
    BY <2>2
  <2>4. Len(ss) = 0 /\ (\A i \in 0..Len(ss) : i = 0) /\ (\A i \in 1..Len(ss) : FALSE)
    BY <1>2
  <2> QED
    BY <2>1, <2>3, <2>4, Zenon
<1>3. CASE n > 0
  <2> DEFINE step == [p \in Seq(A) \X (1..n) |-> p[1] \o ss[p[2]]]
             Rule(f) == [i \in 1..n |-> IF i = 1 THEN ss[i] ELSE f[i - 1] \o ss[i]]
             flatten == CHOOSE f : f = Rule(f)
  <2>1. step \in [Seq(A) \X (1..n) -> Seq(A)]
    <3>1. ASSUME NEW p \in Seq(A) \X (1..n) PROVE p[1] \o ss[p[2]] \in Seq(A)
      <4>1. p[1] \in Seq(A) /\ ss[p[2]] \in Seq(A)
        BY <1>1
      <4> QED
        BY <4>1
    <3> QED
      BY <3>1
  <2>2. PICK f \in [SUBSET (1..n) -> Seq(A)] : Folds(f, <<>>, n, step)
    <3>1. <<>> \in Seq(A)
      OBVIOUS
    <3> HIDE DEF step
    <3> QED
      BY <2>1, <3>1, FoldThere
  <2>3. ASSUME NEW i \in 1..n
        PROVE  /\ f[1..i] \in Seq(A)
               /\ f[1..i] = IF i = 1 THEN ss[i] ELSE f[1..i - 1] \o ss[i]
    <3>1. Max(1..i) = i /\ (1..i) \ {i} = 1..i - 1 /\ 1..i # {}
      BY LargestOfInterval
    <3>2. 1..i \in SUBSET (1..n) /\ 1..i - 1 \in SUBSET (1..n)
      OBVIOUS
    <3>3. f[1..i - 1] \in Seq(A) /\ f[1..i] \in Seq(A)
      BY <3>2
    <3>4. f[1..i] = step[<<f[1..i - 1], i>>]
      BY <2>2, <3>1, <3>2 DEF Folds
    <3>5. f[1..i] = f[1..i - 1] \o ss[i]
      BY <3>3, <3>4
    <3>6. ASSUME i = 1
          PROVE  f[1..i] = ss[i]
      <4>1. 1..i - 1 = {} /\ {} \in SUBSET (1..n)
        BY <3>6
      <4>2. f[1..i - 1] = <<>>
        BY <2>2, <4>1 DEF Folds
      <4> QED
        BY <1>1, <3>5, <4>2
    <3> QED
      BY <3>3, <3>5, <3>6
  <2>4. PICK g : g = [i \in 1..n |-> f[1..i]]
    OBVIOUS
  <2>5. g = Rule(g)
    <3>1. ASSUME NEW i \in 1..n
          PROVE  g[i] = IF i = 1 THEN ss[i] ELSE g[i - 1] \o ss[i]
      <4>1. g[i] = f[1..i]
        BY <2>4
      <4>2. i # 1 => g[i - 1] = f[1..i - 1]
        BY <2>4
      <4> QED
        BY <2>3, <4>1, <4>2
    <3> QED
      BY <2>4, <3>1
  <2>6. flatten = Rule(flatten)
    <3> HIDE DEF Rule
    <3> QED
      BY <2>5
  <2>7. FlattenSeq(ss) = flatten[n]
    <3>1. Len(ss) = n /\ n # 0
      BY <1>3
    <3> QED
      BY <3>1, Zenon DEF FlattenSeq
  <2> HIDE DEF flatten
  <2>8. \A i \in 1..n : flatten[i] = IF i = 1 THEN ss[i] ELSE flatten[i - 1] \o ss[i]
    BY <2>6
  <2>9. PICK run : run = [i \in 0..n |-> IF i = 0 THEN <<>> ELSE flatten[i]]
    OBVIOUS
  <2> DEFINE G == {i \in 0..n : run[i] \in Seq(A)}
  <2>10. 0 \in G
    BY <2>9
  <2>11. ASSUME NEW i \in 1..n, i - 1 \in G
         PROVE  i \in G /\ run[i] = run[i - 1] \o ss[i]
    <3>1. run[i - 1] \in Seq(A)
      BY <2>11
    <3>2. run[i] = flatten[i]
      BY <2>9
    <3>3. CASE i = 1
      <4>1. run[i - 1] = <<>> /\ run[i] = ss[i]
        BY <2>8, <2>9, <3>2, <3>3
      <4> QED
        BY <1>1, <4>1
    <3>4. CASE i # 1
      <4>1. run[i] = run[i - 1] \o ss[i]
        <5>1. i - 1 \in 0..n /\ i - 1 # 0
          BY <3>4
        <5>2. run[i - 1] = flatten[i - 1]
          BY <2>9, <5>1
        <5> QED
          BY <2>8, <3>2, <3>4, <5>2
      <4>2. run[i - 1] \o ss[i] \in Seq(A) /\ i \in 0..n
        <5>1. ss[i] \in Seq(A)
          BY <1>1
        <5> QED
          BY <3>1, <5>1, ConcatProperties
      <4> QED
        BY <4>1, <4>2
    <3> QED
      BY <3>3, <3>4
  <2>12. \A i \in 0..n : i \in G
    <3>1. \A i \in 1..n : i - 1 \in G => i \in G
      BY <2>11
    <3> HIDE DEF G
    <3> QED
      BY <2>10, <3>1, UpTo
  <2>13. \A i \in 1..n : run[i] = run[i - 1] \o ss[i]
    <3> TAKE i \in 1..n
    <3>1. i - 1 \in 0..n
      OBVIOUS
    <3> QED
      BY <2>11, <2>12, <3>1
  <2>14. run[0] = <<>> /\ run[n] = FlattenSeq(ss)
    BY <1>3, <2>7, <2>9
  <2> QED
    BY <2>12, <2>13, <2>14
<1>4. n = 0 \/ n > 0
  OBVIOUS
<1> QED
  BY <1>2, <1>3, <1>4, Zenon
=============================================================================
