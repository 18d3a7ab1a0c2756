----------------------------- MODULE JobsProof ------------------------------
(***************************************************************************)
(* Proofs about the programs of Jobs.                                      *)
(***************************************************************************)
EXTENDS Jobs, FoldProof

-----------------------------------------------------------------------------
(* The widths of lines, added up *)

\* Total adds one number after another.
LEMMA TotalRun ==
  ASSUME NEW s \in Seq(Int)
  PROVE  \E run : /\ run[0] = 0 /\ run[Len(s)] = Total(s)
                  /\ \A i \in 1..Len(s) : run[i] = run[i - 1] + s[i]
<1> PICK n \in Nat : n = Len(s)
  OBVIOUS
<1> DEFINE step == [p \in Int \X (1..n) |-> p[1] + s[p[2]]]
           Rule(f) == [T \in SUBSET (1..n) |-> IF T = {} THEN 0 ELSE f[T \ {Max(T)}] + s[Max(T)]]
<1>1. n \in Nat /\ DOMAIN s = 1..n /\ \A i \in 1..n : s[i] \in Int
  OBVIOUS
<1>2. step \in [Int \X (1..n) -> Int]
  BY <1>1
<1>3. PICK f \in [SUBSET (1..n) -> Int] : Folds(f, 0, n, step)
  <2>1. 0 \in Int
    OBVIOUS
  <2> HIDE DEF step
  <2> QED
    BY <1>1, <1>2, <2>1, FoldThere
<1>4. f = Rule(f)
  <2>1. ASSUME NEW T \in SUBSET (1..n), T # {}
        PROVE  f[T] = f[T \ {Max(T)}] + s[Max(T)]
    <3>1. Max(T) \in 1..n /\ f[T \ {Max(T)}] \in Int
      BY <1>1, <2>1, LargestIs
    <3> QED
      BY <1>3, <2>1, <3>1 DEF Folds
  <2>2. f[{}] = 0
    BY <1>3 DEF Folds
  <2> QED
    BY <1>3, <2>1, <2>2
<1> DEFINE fold == CHOOSE g : g = Rule(g)
<1>5. fold = Rule(fold)
  <2> HIDE DEF Rule
  <2> QED
    BY <1>4
<1>6. Total(s) = fold[1..n]
  BY <1>1, Zenon DEF Total, FoldLeft, MapThenFoldSet
<1> HIDE DEF fold
<1>7. \A T \in SUBSET (1..n) : fold[T] = IF T = {} THEN 0 ELSE fold[T \ {Max(T)}] + s[Max(T)]
  BY <1>5
<1> DEFINE run == [i \in 0..n |-> fold[1..i]]
<1>8. run[0] = 0
  <2>1. 1..0 = {} /\ {} \in SUBSET (1..n) /\ 0 \in 0..n
    OBVIOUS
  <2>2. run[0] = fold[{}]
    BY <2>1
  <2> QED
    BY <1>7, <2>1, <2>2
<1>9. ASSUME NEW i \in 1..n
      PROVE  run[i] = run[i - 1] + s[i]
  <2>1. Max(1..i) = i /\ (1..i) \ {i} = 1..i - 1 /\ 1..i # {}
    <3>1. i \in Nat /\ i > 0
      OBVIOUS
    <3> QED
      BY <3>1, LargestOfInterval
  <2>2. 1..i \in SUBSET (1..n) /\ i \in 0..n /\ i - 1 \in 0..n
    BY <1>1
  <2>3. run[i] = fold[1..i] /\ run[i - 1] = fold[1..i - 1]
    BY <2>2
  <2> QED
    BY <1>7, <2>1, <2>2, <2>3
<1>10. run[n] = Total(s)
  BY <1>1, <1>6
<1> QED
  BY <1>8, <1>9, <1>10

\* p adds up the first numbers of s.
Adds(p, s) == p[0] = 0 /\ \A i \in 1..Len(s) : p[i] = p[i - 1] + s[i]

\* It does so in one way.
LEMMA TotalIs ==
  ASSUME NEW s \in Seq(Int), NEW p, Adds(p, s)
  PROVE  p[Len(s)] = Total(s) /\ \A i \in 0..Len(s) : p[i] \in Int
<1>1. PICK run : run[0] = 0 /\ run[Len(s)] = Total(s) /\ \A i \in 1..Len(s) : run[i] = run[i - 1] + s[i]
  BY TotalRun
<1>2. PICK n \in Nat : n = Len(s) /\ \A i \in 1..n : s[i] \in Int
  OBVIOUS
<1> DEFINE G == {i \in 0..n : run[i] = p[i] /\ p[i] \in Int}
<1>3. 0 \in G
  BY <1>1, <1>2 DEF Adds
<1>4. ASSUME NEW i \in 1..n, i - 1 \in G PROVE i \in G
  <2>1. run[i] = run[i - 1] + s[i] /\ p[i] = p[i - 1] + s[i]
    BY <1>1, <1>2 DEF Adds
  <2>2. s[i] \in Int /\ p[i - 1] \in Int /\ run[i - 1] = p[i - 1]
    BY <1>2, <1>4
  <2> QED
    BY <2>1, <2>2
<1>5. \A i \in 0..n : i \in G
  <2> HIDE DEF G
  <2> QED
    BY <1>3, <1>4, UpTo
<1>6. n \in 0..n
  BY <1>2
<1> QED
  BY <1>1, <1>2, <1>5, <1>6

LEMMA AtMost ==
  ASSUME NEW x \in Int, NEW y \in Int, NEW u \in Int, NEW v \in Int, x <= y, y <= u
  PROVE  x + (v - u) <= v
OBVIOUS

LEMMA TotalThere ==
  ASSUME NEW s \in Seq(Int)
  PROVE  \E p : Adds(p, s) /\ p[Len(s)] = Total(s) /\ \A i \in 0..Len(s) : p[i] \in Int
<1>1. PICK p : p[0] = 0 /\ p[Len(s)] = Total(s) /\ \A i \in 1..Len(s) : p[i] = p[i - 1] + s[i]
  BY TotalRun
<1>2. Adds(p, s)
  BY <1>1 DEF Adds
<1> QED
  BY <1>1, <1>2, TotalIs

\* The total of two sequences, one after the other.
LEMMA TotalConcat ==
  ASSUME NEW s \in Seq(Int), NEW t \in Seq(Int)
  PROVE  Total(s \o t) = Total(s) + Total(t) /\ Total(s) \in Int /\ Total(t) \in Int
<1>1. PICK p : Adds(p, s) /\ p[Len(s)] = Total(s) /\ \A i \in 0..Len(s) : p[i] \in Int
  BY TotalThere
<1>2. PICK q : Adds(q, t) /\ q[Len(t)] = Total(t) /\ \A i \in 0..Len(t) : q[i] \in Int
  BY TotalThere
<1>3. PICK m \in Nat, n \in Nat : m = Len(s) /\ n = Len(t)
  OBVIOUS
<1>4. PICK r : r = [i \in 0..m + n |-> IF i <= m THEN p[i] ELSE p[m] + q[i - m]]
  OBVIOUS
<1>5. /\ s \o t \in Seq(Int) /\ Len(s \o t) = m + n
      /\ \A i \in 1..m + n : (s \o t)[i] = IF i <= m THEN s[i] ELSE t[i - m]
  BY <1>3, ConcatProperties
<1>6. Adds(r, s \o t)
  <2>1. r[0] = 0
    BY <1>1, <1>4 DEF Adds
  <2>2. ASSUME NEW i \in 1..m + n
        PROVE  r[i] = r[i - 1] + (s \o t)[i]
    <3>1. CASE i <= m
      BY <1>1, <1>3, <1>4, <1>5, <3>1 DEF Adds
    <3>2. CASE i = m + 1
      <4>1. q[1] = q[0] + t[1] /\ q[0] = 0 /\ t[1] \in Int
        BY <1>2, <1>3, <3>2 DEF Adds
      <4>2. r[i] = p[m] + q[1] /\ r[i - 1] = p[m] /\ (s \o t)[i] = t[1] /\ p[m] \in Int
        BY <1>1, <1>3, <1>4, <1>5, <3>2
      <4> QED
        BY <4>1, <4>2
    <3>3. CASE i > m + 1
      <4>1. i - m \in 1..n /\ (i - 1) - m = (i - m) - 1 /\ i - m - 1 \in 0..n
        BY <3>3
      <4>2. q[i - m] = q[(i - m) - 1] + t[i - m] /\ q[(i - m) - 1] \in Int /\ t[i - m] \in Int
        <5>1. PICK j \in 1..n : j = i - m /\ j - 1 \in 0..n
          BY <4>1
        <5>2. q[j] = q[j - 1] + t[j] /\ q[j - 1] \in Int /\ t[j] \in Int
          <6>1. j \in 1..Len(t) /\ j - 1 \in 0..Len(t)
            BY <1>3, <5>1
          <6>2. q[j] = q[j - 1] + t[j]
            BY <1>2, <6>1 DEF Adds
          <6>3. q[j - 1] \in Int
            BY <1>2, <6>1
          <6>4. t[j] \in Int
            BY <6>1
          <6> QED
            BY <6>2, <6>3, <6>4
        <5> QED
          BY <5>1, <5>2
      <4>3. r[i] = p[m] + q[i - m] /\ r[i - 1] = p[m] + q[(i - 1) - m] /\ (s \o t)[i] = t[i - m] /\ p[m] \in Int
        BY <1>1, <1>3, <1>4, <1>5, <3>3
      <4> QED
        BY <4>1, <4>2, <4>3
    <3>4. i <= m \/ i = m + 1 \/ i > m + 1
      OBVIOUS
    <3> QED
      BY <3>1, <3>2, <3>3, <3>4
  <2> QED
    BY <1>5, <2>1, <2>2 DEF Adds
<1>7. r[m + n] = Total(s \o t)
  BY <1>5, <1>6, TotalIs
<1>8. r[m + n] = p[m] + q[n]
  <2>1. q[0] = 0 /\ p[m] \in Int /\ q[n] \in Int
    BY <1>1, <1>2, <1>3 DEF Adds
  <2>2. CASE n = 0
    BY <1>4, <2>1, <2>2
  <2>3. CASE n > 0
    BY <1>4, <2>1, <2>3
  <2> QED
    BY <2>2, <2>3
<1>9. p[m] \in Int /\ q[n] \in Int
  BY <1>1, <1>2, <1>3
<1> QED
  BY <1>1, <1>2, <1>3, <1>7, <1>8, <1>9

-----------------------------------------------------------------------------
(* The exchange *)

\* What becomes of an order of the book has the types of the tables; deals are only made of
\* an order that is accepted.
LEMMA OutcomeType ==
    ASSUME NEW order \in Order
    PROVE  /\ Outcome(order).status \in {"W", "F", "O"}
           /\ Outcome(order).volumes \in Seq(Int)
           /\ Outcome(order).volumes # <<>> => Outcome(order).status = "O"
  BY DEF Outcome, Order

\* The row at hand is one of those that were read.
LEMMA HeadOfRows ==
    ASSUME OrderTypeOK, oiwst.rows # <<>>
    PROVE  /\ 1 \in DOMAIN oiwst.rows /\ Head(oiwst.rows) = oiwst.rows[1]
           /\ Head(oiwst.rows) \in Row
           /\ Head(oiwst.rows).order \in 1 .. Len(Book)
           /\ Book[Head(oiwst.rows).order] \in Order
<1>1. oiwst.rows \in Seq(Row)
  BY DEF OrderTypeOK, Tables, Process, Row
<1>2. 1 \in DOMAIN oiwst.rows /\ Head(oiwst.rows) = oiwst.rows[1] /\ Head(oiwst.rows) \in Row
  BY <1>1
<1>3. Head(oiwst.rows).order \in 1 .. Len(Book)
  BY <1>2 DEF Row
<1>4. Book[Head(oiwst.rows).order] \in Order
  BY <1>3, BookAssumption
<1> QED
  BY <1>2, <1>3, <1>4

\* What is said of the tables alone holds while they, the life and the number of the next
\* deal stay as they are.
LEMMA TablesStay ==
    ASSUME OrderIInv, UNCHANGED tables, oiwst'.deal = oiwst.deal, oiwst'.life = oiwst.life
    PROVE  NumbersBelow' /\ ConfirmedOnce' /\ NumbersUnique'
  BY DEF OrderIInv, NumbersBelow, ConfirmedOnce, NumbersUnique

\* The rows behind the first are as they were when the first is done with.
LEMMA NextRow ==
    ASSUME OrderIInv, UNCHANGED tables, oiwst.rows # <<>>,
           oiwst'.pc = "row", oiwst'.rows = Tail(oiwst.rows)
    PROVE  RowsUnmarked' /\ MarkedFirst'
<1>1. oiwst.rows \in Seq(Row)
  BY DEF OrderIInv, OrderTypeOK, Tables, Process, Row
<1>2. \A i \in DOMAIN oiwst'.rows : i \in Nat /\ i + 1 \in DOMAIN oiwst.rows /\ i + 1 > 1
                                   /\ oiwst'.rows[i] = oiwst.rows[i + 1]
  BY <1>1
<1>3. RowsUnmarked
  BY DEF OrderIInv
<1>4. ASSUME NEW i \in DOMAIN oiwst'.rows
      PROVE  ~oiwst'.rows[i].sent => oiwst'.rows[i].order \notin tables'.sent
  BY <1>2, <1>3, <1>4 DEF RowsUnmarked
<1>5. ASSUME NEW i \in DOMAIN oiwst'.rows, NEW j \in DOMAIN oiwst'.rows,
             oiwst'.rows[i].order = oiwst'.rows[j].order
      PROVE  i = j
  <2>1. i + 1 = j + 1
    BY <1>2, <1>3, <1>5 DEF RowsUnmarked
  <2> QED
    BY <2>1, <1>2
<1> QED
  BY <1>4, <1>5 DEF RowsUnmarked, OrderIInv, MarkedFirst

\* At first nothing has been placed, marked or confirmed.
LEMMA InitIInv == OrderInit => OrderIInv
  BY BookAssumption
  DEF OrderInit, OrderIInv, OrderTypeOK, Tables, Process, RowsUnmarked, MarkedFirst, NumbersBelow,
      ConfirmedOnce, NumbersUnique

\* An order that is placed is none that has been read.
LEMMA PlaceIInv == OrderIInv /\ Place => OrderIInv'
<1> SUFFICES ASSUME OrderIInv, Place PROVE OrderIInv'
  OBVIOUS
<1> USE DEF OrderIInv, Place
<1>1. OrderTypeOK'
  <2>1. tables' = [placed |-> tables.placed + 1, sent |-> tables.sent,
                   confirms |-> tables.confirms, deals |-> tables.deals]
    BY DEF OrderTypeOK, Tables, Process
  <2>2. tables.placed + 1 \in 0 .. Len(Book)
    BY BookAssumption DEF OrderTypeOK, Tables, Process
  <2> QED
    BY <2>1, <2>2 DEF OrderTypeOK, Tables, Process
<1>2. RowsUnmarked' /\ MarkedFirst' /\ NumbersBelow' /\ ConfirmedOnce' /\ NumbersUnique'
  BY DEF OrderTypeOK, Tables, Process, RowsUnmarked, MarkedFirst, NumbersBelow, ConfirmedOnce, NumbersUnique
<1> QED
  BY <1>1, <1>2

\* The rows that are read say what the table says.
LEMMA QueryIInv == OrderIInv /\ Query => OrderIInv'
<1> SUFFICES ASSUME OrderIInv, Query PROVE OrderIInv'
  OBVIOUS
<1>1. PICK n \in (IF oiwst.faults < DbFaults THEN 0 .. tables.placed ELSE {tables.placed}) :
        oiwst' = [oiwst EXCEPT !.pc = "row",
                               !.rows = [k \in 1 .. n |-> [order |-> k, sent |-> k \in tables.sent]],
                               !.faults = IF n < tables.placed THEN @ + 1 ELSE @]
  BY DEF Query
<1> DEFINE rows == [k \in 1 .. n |-> [order |-> k, sent |-> k \in tables.sent]]
<1>2. n \in 0 .. tables.placed /\ n \in 0 .. Len(Book)
  BY DEF OrderIInv, OrderTypeOK, Tables, Process
<1>3. rows \in Seq(Row)
  BY <1>2 DEF Row
<1>4. oiwst' = [pc |-> "row", rows |-> rows, deal |-> oiwst.deal, volumes |-> oiwst.volumes,
                life |-> oiwst.life, lost |-> oiwst.lost,
                faults |-> IF n < tables.placed THEN oiwst.faults + 1 ELSE oiwst.faults]
  BY <1>1, <1>2 DEF OrderIInv, OrderTypeOK, Tables, Process
<1> HIDE DEF rows
<1>5. OrderTypeOK'
  <2>1. (IF n < tables.placed THEN oiwst.faults + 1 ELSE oiwst.faults) \in Nat
    BY <1>2 DEF OrderIInv, OrderTypeOK, Tables, Process
  <2>2. /\ oiwst.deal \in Nat /\ oiwst.life \in Nat
        /\ oiwst.volumes \in Seq(Int) /\ oiwst.lost \in SUBSET Nat
    BY DEF OrderIInv, OrderTypeOK, Tables, Process
  <2>3. oiwst' \in Process
    BY <1>3, <1>4, <2>1, <2>2 DEF Process
  <2> QED
    BY <2>3 DEF OrderIInv, OrderTypeOK, Tables, Process, Row, Query
<1>6. RowsUnmarked'
  <2>1. DOMAIN rows = 1 .. n /\ \A i \in 1 .. n : rows[i].order = i /\ (rows[i].sent <=> i \in tables.sent)
    BY DEF rows
  <2>2. oiwst'.rows = rows /\ tables'.sent = tables.sent
    BY <1>4 DEF Query
  <2> QED
    BY <2>1, <2>2 DEF RowsUnmarked
<1>7. MarkedFirst' /\ NumbersBelow' /\ ConfirmedOnce' /\ NumbersUnique'
  BY <1>4 DEF OrderIInv, OrderTypeOK, Tables, Process, MarkedFirst, NumbersBelow, ConfirmedOnce, NumbersUnique, Query
<1> QED
  BY <1>5, <1>6, <1>7 DEF OrderIInv

\* A row that is passed over leaves those behind it as they are.
LEMMA SkipIInv == OrderIInv /\ Skip => OrderIInv'
<1> SUFFICES ASSUME OrderIInv, Skip PROVE OrderIInv'
  OBVIOUS
<1>1. UNCHANGED tables /\ oiwst.pc = "row"
  BY DEF Skip
<1>2. CASE oiwst.rows = <<>>
  <2>1. oiwst' = [oiwst EXCEPT !.pc = "idle"]
    BY <1>2 DEF Skip
  <2>2. OrderTypeOK' /\ oiwst'.pc = "idle" /\ oiwst'.rows = <<>>
        /\ oiwst'.deal = oiwst.deal /\ oiwst'.life = oiwst.life
    BY <1>1, <1>2, <2>1 DEF OrderIInv, OrderTypeOK, Tables, Process
  <2>3. RowsUnmarked' /\ MarkedFirst'
    BY <1>1, <2>2 DEF OrderIInv, RowsUnmarked, MarkedFirst
  <2> QED
    BY <1>1, <2>2, <2>3, TablesStay DEF OrderIInv
<1>3. CASE oiwst.rows # <<>>
  <2>1. oiwst' = [oiwst EXCEPT !.rows = Tail(@)]
    BY <1>3 DEF Skip
  <2>2. Tail(oiwst.rows) \in Seq(Row)
    BY <1>3 DEF OrderIInv, OrderTypeOK, Tables, Process, Row
  <2>3. OrderTypeOK' /\ oiwst'.pc = "row" /\ oiwst'.rows = Tail(oiwst.rows)
        /\ oiwst'.deal = oiwst.deal /\ oiwst'.life = oiwst.life
    BY <1>1, <2>1, <2>2 DEF OrderIInv, OrderTypeOK, Tables, Process, Row
  <2> QED
    BY <1>1, <1>3, <2>3, TablesStay, NextRow DEF OrderIInv
<1> QED
  BY <1>2, <1>3

\* A row whose deals are all there leaves those behind it as they are.
LEMMA RowDoneIInv == OrderIInv /\ RowDone => OrderIInv'
<1> SUFFICES ASSUME OrderIInv, RowDone PROVE OrderIInv'
  OBVIOUS
<1>1. oiwst' = [oiwst EXCEPT !.pc = "row", !.rows = Tail(@)] /\ UNCHANGED tables
  BY DEF RowDone
<1>2. oiwst.rows # <<>> /\ oiwst.pc = "deals"
  BY DEF RowDone, OrderIInv, MarkedFirst
<1>3. Tail(oiwst.rows) \in Seq(Row)
  BY <1>2 DEF OrderIInv, OrderTypeOK, Tables, Process, Row
<1>4. OrderTypeOK' /\ oiwst'.pc = "row" /\ oiwst'.rows = Tail(oiwst.rows)
      /\ oiwst'.deal = oiwst.deal /\ oiwst'.life = oiwst.life
  BY <1>1, <1>3 DEF OrderIInv, OrderTypeOK, Tables, Process, Row
<1> QED
  BY <1>1, <1>2, <1>4, TablesStay, NextRow DEF OrderIInv

\* The next life numbers its deals from the beginning, as deals of that life.
LEMMA RestartIInv == OrderIInv /\ Restart => OrderIInv'
<1> SUFFICES ASSUME OrderIInv, Restart PROVE OrderIInv'
  OBVIOUS
<1> DEFINE lost == IF oiwst.pc \in {"confirm", "deals"} THEN oiwst.lost \cup {Head(oiwst.rows).order}
                   ELSE oiwst.lost
<1>1. lost \in SUBSET Nat
  <2>1. oiwst.pc \in {"confirm", "deals"} => Head(oiwst.rows).order \in 1 .. Len(Book)
    BY HeadOfRows DEF OrderIInv, MarkedFirst
  <2>2. oiwst.lost \in SUBSET Nat
    BY DEF OrderIInv, OrderTypeOK, Tables, Process
  <2> QED
    BY <2>1, <2>2
<1>2. /\ oiwst' = [pc |-> "idle", rows |-> <<>>, volumes |-> <<>>, deal |-> 1, life |-> oiwst.life + 1,
                  faults |-> oiwst.faults, lost |-> lost]
      /\ UNCHANGED tables
  BY DEF Restart, OrderIInv, OrderTypeOK, Tables, Process
<1> HIDE DEF lost
<1>3. OrderTypeOK'
  BY <1>1, <1>2 DEF OrderIInv, OrderTypeOK, Tables, Process
<1>4. RowsUnmarked' /\ MarkedFirst' /\ ConfirmedOnce' /\ NumbersUnique'
  BY <1>2 DEF OrderIInv, OrderTypeOK, Tables, Process, RowsUnmarked, MarkedFirst, ConfirmedOnce, NumbersUnique
<1>5. NumbersBelow'
  <2>1. oiwst'.life = oiwst.life + 1 /\ oiwst.life \in Nat
    BY <1>2 DEF OrderIInv, OrderTypeOK, Tables, Process
  <2>2. \A d \in DOMAIN tables.deals : tables.deals[d].life \in Nat
    <3>1. tables.deals \in Seq(DealRow)
      BY DEF OrderIInv, OrderTypeOK, Tables
    <3>2. \A d \in DOMAIN tables.deals : tables.deals[d] \in DealRow
      BY <3>1
    <3> QED
      BY <3>2 DEF DealRow
  <2>3. \A d \in DOMAIN tables.deals : tables.deals[d].life <= oiwst.life
    BY DEF OrderIInv, NumbersBelow
  <2> QED
    BY <1>2, <2>1, <2>2, <2>3 DEF NumbersBelow
<1> QED
  BY <1>3, <1>4, <1>5 DEF OrderIInv

\* A process that gives up stands still between two rounds.
LEMMA GivenUp ==
    ASSUME NEW o \in Process, NEW order \in 1 .. Len(Book),
           oiwst' = [GiveUp(o, order) EXCEPT !.faults = @ + 1]
    PROVE  /\ oiwst' \in Process /\ oiwst'.pc = "idle" /\ oiwst'.rows = <<>>
           /\ oiwst'.deal = o.deal /\ oiwst'.life = o.life
<1>1. oiwst' = [pc |-> "idle", rows |-> <<>>, deal |-> o.deal, volumes |-> <<>>, life |-> o.life,
                faults |-> o.faults + 1, lost |-> o.lost \cup {order}]
  BY DEF GiveUp, Process
<1>2. order \in Nat
  BY BookAssumption
<1>3. /\ o.deal \in Nat /\ o.life \in Nat /\ o.faults + 1 \in Nat
      /\ o.lost \cup {order} \in SUBSET Nat
  BY <1>2 DEF Process
<1>4. ASSUME NEW lost \in SUBSET Nat, NEW faults \in Nat
      PROVE  [pc |-> "idle", rows |-> <<>>, deal |-> o.deal, volumes |-> <<>>, life |-> o.life,
              faults |-> faults, lost |-> lost] \in Process
  BY <1>3 DEF Process
<1> DEFINE l == o.lost \cup {order}
           f == o.faults + 1
<1>5. oiwst' = [pc |-> "idle", rows |-> <<>>, deal |-> o.deal, volumes |-> <<>>, life |-> o.life,
                faults |-> f, lost |-> l]
      /\ l \in SUBSET Nat /\ f \in Nat
  BY <1>1, <1>3
<1> HIDE DEF l, f
<1>6. oiwst' \in Process
  BY <1>4, <1>5
<1> QED
  BY <1>5, <1>6

\* An order is marked once: the rows behind it are of others, and none was confirmed before
\* it was marked.
LEMMA MarkSentIInv == OrderIInv /\ MarkSent => OrderIInv'
<1> SUFFICES ASSUME OrderIInv, MarkSent PROVE OrderIInv'
  OBVIOUS
<1> DEFINE order == Head(oiwst.rows).order
           marked == [tables EXCEPT !.sent = @ \cup {order}]
<1>1. /\ oiwst.pc = "row" /\ oiwst.rows # <<>> /\ ~Head(oiwst.rows).sent
      /\ Cmd(marked, [oiwst EXCEPT !.pc = "confirm"], GiveUp(oiwst, order))
  BY DEF MarkSent
<1>2. 1 \in DOMAIN oiwst.rows /\ Head(oiwst.rows) = oiwst.rows[1] /\ order \in 1 .. Len(Book)
  BY <1>1, HeadOfRows DEF OrderIInv
<1> HIDE DEF order
<1>3. marked = [placed |-> tables.placed, sent |-> tables.sent \cup {order},
                confirms |-> tables.confirms, deals |-> tables.deals]
  <2>1. ASSUME NEW s
        PROVE  [tables EXCEPT !.sent = s] =
                  [placed |-> tables.placed, sent |-> s, confirms |-> tables.confirms, deals |-> tables.deals]
    BY DEF OrderIInv, OrderTypeOK, Tables
  <2> QED
    BY <2>1
<1>4. marked \in Tables
  BY <1>2, <1>3, BookAssumption DEF OrderIInv, OrderTypeOK, Tables
<1>5. order \notin tables.sent
  BY <1>1, <1>2 DEF OrderIInv, RowsUnmarked, order
<1> HIDE DEF marked
<1>6. CASE tables' = marked /\ oiwst' = [oiwst EXCEPT !.pc = "confirm"]
  <2>1. /\ oiwst' \in Process /\ oiwst'.pc = "confirm" /\ oiwst'.rows = oiwst.rows
        /\ oiwst'.deal = oiwst.deal /\ oiwst'.life = oiwst.life
    BY <1>6 DEF OrderIInv, OrderTypeOK, Process
  <2>2. RowsUnmarked'
    BY <1>2, <1>3, <1>6, <2>1 DEF OrderIInv, RowsUnmarked, order
  <2>3. MarkedFirst'
    BY <1>1, <1>2, <1>3, <1>5, <1>6, <2>1 DEF OrderIInv, MarkedFirst, order
  <2>4. NumbersBelow' /\ ConfirmedOnce' /\ NumbersUnique'
    BY <1>3, <1>6, <2>1 DEF OrderIInv, NumbersBelow, ConfirmedOnce, NumbersUnique
  <2> QED
    BY <1>4, <1>6, <2>1, <2>2, <2>3, <2>4 DEF OrderIInv, OrderTypeOK
<1>7. CASE tables' \in {marked, tables} /\ oiwst' = [GiveUp(oiwst, order) EXCEPT !.faults = @ + 1]
  <2>1. /\ oiwst' \in Process /\ oiwst'.pc = "idle" /\ oiwst'.rows = <<>>
        /\ oiwst'.deal = oiwst.deal /\ oiwst'.life = oiwst.life
    BY <1>2, <1>7, GivenUp DEF OrderIInv, OrderTypeOK
  <2>2. /\ tables' \in Tables /\ tables'.confirms = tables.confirms /\ tables'.deals = tables.deals
        /\ tables.sent \subseteq tables'.sent
    BY <1>3, <1>4, <1>7 DEF OrderIInv, OrderTypeOK
  <2>3. RowsUnmarked' /\ MarkedFirst'
    BY <2>1, <2>2 DEF OrderIInv, RowsUnmarked, MarkedFirst
  <2>4. NumbersBelow' /\ ConfirmedOnce' /\ NumbersUnique'
    BY <2>1, <2>2 DEF OrderIInv, NumbersBelow, ConfirmedOnce, NumbersUnique
  <2> QED
    BY <2>1, <2>2, <2>3, <2>4 DEF OrderIInv, OrderTypeOK
<1> QED
  BY <1>1, <1>6, <1>7 DEF Cmd

\* The one confirmation of an order: it was marked, and had none yet.
LEMMA ConfirmIInv == OrderIInv /\ Confirm => OrderIInv'
<1> SUFFICES ASSUME OrderIInv, Confirm PROVE OrderIInv'
  OBVIOUS
<1> DEFINE order == Head(oiwst.rows).order
           o == Outcome(Book[order])
           row == [order |-> order, status |-> o.status]
           longer == Append(tables.confirms, row)
           done == [tables EXCEPT !.confirms = longer]
           ok == [oiwst EXCEPT !.pc = "deals", !.volumes = o.volumes]
<1>1. oiwst.pc = "confirm" /\ Cmd(done, ok, GiveUp(oiwst, order))
  BY DEF Confirm
<1>2. oiwst.rows # <<>> /\ oiwst.rows[1].order \in tables.sent
      /\ \A k \in DOMAIN tables.confirms : tables.confirms[k].order # oiwst.rows[1].order
  BY <1>1 DEF OrderIInv, MarkedFirst
<1>3. 1 \in DOMAIN oiwst.rows /\ order = oiwst.rows[1].order /\ order \in 1 .. Len(Book)
      /\ Book[order] \in Order
  BY <1>2, HeadOfRows DEF OrderIInv
<1>4. o.status \in {"W", "F", "O"} /\ o.volumes \in Seq(Int) /\ (o.volumes # <<>> => o.status = "O")
  BY <1>3, OutcomeType
<1> HIDE DEF order, o
<1>5. row \in ConfirmRow /\ row.order = order /\ row.status = o.status
  BY <1>3, <1>4, BookAssumption DEF ConfirmRow
<1>6. tables.confirms \in Seq(ConfirmRow)
  BY DEF OrderIInv, OrderTypeOK, Tables
<1> HIDE DEF row
<1>7. /\ longer \in Seq(ConfirmRow)
      /\ DOMAIN longer = DOMAIN tables.confirms \cup {Len(longer)}
      /\ Len(longer) \notin DOMAIN tables.confirms
      /\ \A k \in DOMAIN tables.confirms : longer[k] = tables.confirms[k]
      /\ longer[Len(longer)] = row
  BY <1>5, <1>6
<1> HIDE DEF longer
<1>8. done = [placed |-> tables.placed, sent |-> tables.sent, confirms |-> longer, deals |-> tables.deals]
      /\ done \in Tables
  BY <1>7 DEF OrderIInv, OrderTypeOK, Tables
<1> HIDE DEF done
<1>9. ASSUME tables' = done
      PROVE  /\ ConfirmedOnce' /\ NumbersUnique'
             /\ \A k \in DOMAIN tables'.confirms : tables'.confirms[k].order \in tables'.sent
  <2>1. tables'.confirms = longer /\ tables'.sent = tables.sent /\ tables'.deals = tables.deals
    BY <1>8, <1>9
  <2>2. ConfirmedOnce /\ NumbersUnique /\ MarkedFirst
    BY DEF OrderIInv
  <2>3. \A i, j \in DOMAIN longer : longer[i].order = longer[j].order => i = j
    <3>1. \A i, j \in DOMAIN tables.confirms :
              tables.confirms[i].order = tables.confirms[j].order => i = j
      BY <2>2 DEF ConfirmedOnce
    <3>2. \A i \in DOMAIN tables.confirms : longer[i].order # longer[Len(longer)].order
      BY <1>2, <1>3, <1>5, <1>7
    <3>3. SUFFICES ASSUME NEW i \in DOMAIN longer, NEW j \in DOMAIN longer, longer[i].order = longer[j].order
                   PROVE  i = j
      OBVIOUS
    <3>4. CASE i \in DOMAIN tables.confirms /\ j \in DOMAIN tables.confirms
      BY <1>7, <3>1, <3>3, <3>4
    <3>5. CASE i = Len(longer) \/ j = Len(longer)
      BY <1>7, <3>2, <3>3, <3>5
    <3> QED
      BY <1>7, <3>4, <3>5
  <2>4. \A d \in DOMAIN tables.deals : \E k \in DOMAIN longer :
            longer[k].order = tables.deals[d].order /\ longer[k].status = "O"
    <3>1. SUFFICES ASSUME NEW d \in DOMAIN tables.deals
                   PROVE  \E k \in DOMAIN longer : longer[k].order = tables.deals[d].order /\ longer[k].status = "O"
      OBVIOUS
    <3>2. PICK k \in DOMAIN tables.confirms :
              tables.confirms[k].order = tables.deals[d].order /\ tables.confirms[k].status = "O"
      BY <2>2 DEF ConfirmedOnce
    <3> QED
      BY <1>7, <3>2
  <2>5. \A k \in DOMAIN longer : longer[k].order \in tables.sent
    BY <1>2, <1>3, <1>5, <1>7, <2>2 DEF MarkedFirst
  <2> QED
    BY <2>1, <2>2, <2>3, <2>4, <2>5 DEF ConfirmedOnce, NumbersUnique
<1>10. CASE tables' = done /\ oiwst' = ok
  <2>1. oiwst' \in Process
    BY <1>4, <1>10 DEF OrderIInv, OrderTypeOK, Process
  <2>2. /\ oiwst'.pc = "deals" /\ oiwst'.rows = oiwst.rows /\ oiwst'.volumes = o.volumes
        /\ oiwst'.deal = oiwst.deal /\ oiwst'.life = oiwst.life
    BY <1>10 DEF OrderIInv, OrderTypeOK, Process
  <2>3. tables' \in Tables /\ tables'.sent = tables.sent /\ tables'.confirms = longer /\ tables'.deals = tables.deals
    BY <1>8, <1>10
  <2>4. RowsUnmarked'
    BY <1>1, <2>2, <2>3 DEF OrderIInv, RowsUnmarked
  <2>5. o.volumes # <<>> => \E k \in DOMAIN longer : longer[k].order = oiwst.rows[1].order /\ longer[k].status = "O"
    BY <1>3, <1>4, <1>5, <1>7
  <2>6. MarkedFirst'
    BY <1>2, <1>9, <1>10, <2>2, <2>3, <2>5 DEF MarkedFirst
  <2>7. NumbersBelow'
    BY <2>2, <2>3 DEF OrderIInv, NumbersBelow
  <2> QED
    BY <1>9, <1>10, <2>1, <2>3, <2>4, <2>6, <2>7 DEF OrderIInv, OrderTypeOK
<1>11. CASE tables' \in {done, tables} /\ oiwst' = [GiveUp(oiwst, order) EXCEPT !.faults = @ + 1]
  <2>1. /\ oiwst' \in Process /\ oiwst'.pc = "idle" /\ oiwst'.rows = <<>>
        /\ oiwst'.deal = oiwst.deal /\ oiwst'.life = oiwst.life
    BY <1>3, <1>11, GivenUp DEF OrderIInv, OrderTypeOK
  <2>2. /\ ConfirmedOnce' /\ NumbersUnique'
        /\ \A k \in DOMAIN tables'.confirms : tables'.confirms[k].order \in tables'.sent
    BY <1>9, <1>11 DEF OrderIInv, ConfirmedOnce, NumbersUnique, MarkedFirst
  <2>3. tables' \in Tables /\ tables'.deals = tables.deals
    BY <1>8, <1>11 DEF OrderIInv, OrderTypeOK
  <2>4. RowsUnmarked' /\ MarkedFirst' /\ NumbersBelow'
    BY <2>1, <2>2, <2>3 DEF OrderIInv, RowsUnmarked, MarkedFirst, NumbersBelow
  <2> QED
    BY <2>1, <2>2, <2>3, <2>4 DEF OrderIInv, OrderTypeOK
<1> QED
  BY <1>1, <1>10, <1>11 DEF Cmd

\* A deal is of the order at hand, which was confirmed as accepted, under a number that is
\* used up, carried out or not.
LEMMA DealIInv == OrderIInv /\ Deal => OrderIInv'
<1> SUFFICES ASSUME OrderIInv, Deal PROVE OrderIInv'
  OBVIOUS
<1> DEFINE order == Head(oiwst.rows).order
           row == [no |-> oiwst.deal, order |-> order, volume |-> Head(oiwst.volumes), life |-> oiwst.life]
           longer == Append(tables.deals, row)
           done == [tables EXCEPT !.deals = longer]
           next == [oiwst EXCEPT !.deal = @ + 1, !.volumes = Tail(@)]
<1>1. oiwst.pc = "deals" /\ oiwst.volumes # <<>> /\ Cmd(done, next, GiveUp(next, order))
  BY DEF Deal
<1>2. /\ oiwst.rows # <<>> /\ oiwst.rows[1].order \in tables.sent
      /\ \E k \in DOMAIN tables.confirms :
            tables.confirms[k].order = oiwst.rows[1].order /\ tables.confirms[k].status = "O"
  BY <1>1 DEF OrderIInv, MarkedFirst
<1>3. 1 \in DOMAIN oiwst.rows /\ order = oiwst.rows[1].order /\ order \in 1 .. Len(Book)
  BY <1>2, HeadOfRows DEF OrderIInv
<1>4. oiwst.volumes \in Seq(Int) /\ oiwst.deal \in Nat /\ oiwst.life \in Nat
  BY DEF OrderIInv, OrderTypeOK, Process
<1>5. Head(oiwst.volumes) \in Int /\ Tail(oiwst.volumes) \in Seq(Int)
  BY <1>1, <1>4
<1> HIDE DEF order
<1>6. row \in DealRow /\ row.no = oiwst.deal /\ row.order = order /\ row.life = oiwst.life
  BY <1>3, <1>4, <1>5, BookAssumption DEF DealRow
<1>7. tables.deals \in Seq(DealRow)
  BY DEF OrderIInv, OrderTypeOK, Tables
<1> HIDE DEF row
<1>8. /\ longer \in Seq(DealRow)
      /\ DOMAIN longer = DOMAIN tables.deals \cup {Len(longer)}
      /\ Len(longer) \notin DOMAIN tables.deals
      /\ \A d \in DOMAIN tables.deals : longer[d] = tables.deals[d]
      /\ longer[Len(longer)] = row
  BY <1>6, <1>7
<1> HIDE DEF longer
<1>9. done = [placed |-> tables.placed, sent |-> tables.sent, confirms |-> tables.confirms, deals |-> longer]
      /\ done \in Tables
  BY <1>8 DEF OrderIInv, OrderTypeOK, Tables
<1> HIDE DEF done
<1>10. next \in Process /\ next.deal = oiwst.deal + 1 /\ next.life = oiwst.life
       /\ next.pc = "deals" /\ next.rows = oiwst.rows
  <2>1. oiwst.deal + 1 \in Nat
    BY <1>4
  <2>2. ASSUME NEW number \in Nat, NEW rest \in Seq(Int)
        PROVE  LET o == [oiwst EXCEPT !.deal = number, !.volumes = rest] IN
               o \in Process /\ o.deal = number /\ o.life = oiwst.life /\ o.pc = oiwst.pc /\ o.rows = oiwst.rows
    BY DEF OrderIInv, OrderTypeOK, Process
  <2> QED
    BY <1>1, <1>5, <2>1, <2>2
<1> HIDE DEF next
<1>11. \A d \in DOMAIN tables.deals : tables.deals[d].no \in Nat /\ tables.deals[d].life \in Nat
  <2>1. \A d \in DOMAIN tables.deals : tables.deals[d] \in DealRow
    BY <1>7
  <2> QED
    BY <2>1 DEF DealRow
<1>12. \A d \in DOMAIN tables.deals :
           tables.deals[d].life <= oiwst.life /\ (tables.deals[d].life = oiwst.life => tables.deals[d].no < oiwst.deal)
  BY DEF OrderIInv, NumbersBelow
<1>13. ASSUME tables' \in {done, tables}, oiwst'.deal = oiwst.deal + 1, oiwst'.life = oiwst.life
       PROVE  ConfirmedOnce' /\ NumbersUnique' /\ NumbersBelow'
  <2>1. CASE tables' = tables
    <3>1. NumbersBelow'
      BY <1>4, <1>11, <1>12, <1>13, <2>1 DEF NumbersBelow
    <3> QED
      BY <2>1, <3>1 DEF OrderIInv, ConfirmedOnce, NumbersUnique
  <2>2. CASE tables' = done
    <3>1. tables'.confirms = tables.confirms /\ tables'.deals = longer
      BY <1>9, <2>2
    <3>2. ConfirmedOnce'
      <4>1. \A d \in DOMAIN tables.deals : \E k \in DOMAIN tables.confirms :
                tables.confirms[k].order = longer[d].order /\ tables.confirms[k].status = "O"
        <5>1. \A d \in DOMAIN tables.deals : \E k \in DOMAIN tables.confirms :
                  tables.confirms[k].order = tables.deals[d].order /\ tables.confirms[k].status = "O"
          BY DEF OrderIInv, ConfirmedOnce
        <5> QED
          BY <1>8, <5>1
      <4>2. \E k \in DOMAIN tables.confirms :
                tables.confirms[k].order = longer[Len(longer)].order /\ tables.confirms[k].status = "O"
        BY <1>2, <1>3, <1>6, <1>8
      <4>3. \A i, j \in DOMAIN tables.confirms : tables.confirms[i].order = tables.confirms[j].order => i = j
        BY DEF OrderIInv, ConfirmedOnce
      <4> QED
        <5>1. \A d \in DOMAIN longer : \E k \in DOMAIN tables.confirms :
                  tables.confirms[k].order = longer[d].order /\ tables.confirms[k].status = "O"
          BY <1>8, <4>1, <4>2
        <5> QED
          BY <3>1, <4>3, <5>1 DEF ConfirmedOnce
    <3>3. \A d \in DOMAIN tables.deals :
              longer[d].life = oiwst.life => longer[d].no < longer[Len(longer)].no
      BY <1>6, <1>8, <1>12
    <3>4. NumbersUnique'
      <4>1. \A i, j \in DOMAIN tables.deals :
                i # j /\ longer[i].life = longer[j].life => longer[i].no # longer[j].no
        <5>1. \A i, j \in DOMAIN tables.deals :
                  i # j /\ tables.deals[i].life = tables.deals[j].life => tables.deals[i].no # tables.deals[j].no
          BY Zenon DEF OrderIInv, NumbersUnique
        <5> QED
          BY <1>8, <5>1, Zenon
      <4>2. \A i \in DOMAIN tables.deals :
                longer[i].life = longer[Len(longer)].life => longer[i].no # longer[Len(longer)].no
        <5>1. SUFFICES ASSUME NEW i \in DOMAIN tables.deals, longer[i].life = longer[Len(longer)].life
                       PROVE  longer[i].no # longer[Len(longer)].no
          OBVIOUS
        <5>2. longer[Len(longer)].no = oiwst.deal /\ longer[Len(longer)].life = oiwst.life
          BY <1>6, <1>8
        <5>3. longer[i].no \in Nat /\ longer[i].no < oiwst.deal
          BY <1>8, <1>11, <1>12, <5>1, <5>2
        <5> QED
          BY <1>4, <5>2, <5>3
      <4>3. SUFFICES ASSUME NEW i \in DOMAIN longer, NEW j \in DOMAIN longer,
                            i # j, longer[i].life = longer[j].life
                     PROVE  longer[i].no # longer[j].no
        BY <3>1 DEF NumbersUnique
      <4>4. CASE i \in DOMAIN tables.deals /\ j \in DOMAIN tables.deals
        BY <4>1, <4>3, <4>4
      <4>5. CASE i = Len(longer) \/ j = Len(longer)
        BY <1>8, <4>2, <4>3, <4>5
      <4> QED
        BY <1>8, <4>4, <4>5
    <3>5. NumbersBelow'
      <4>1. SUFFICES ASSUME NEW d \in DOMAIN longer
                     PROVE  longer[d].life <= oiwst.life /\ (longer[d].life = oiwst.life => longer[d].no < oiwst.deal + 1)
        BY <1>13, <3>1 DEF NumbersBelow
      <4>2. CASE d \in DOMAIN tables.deals
        <5>1. longer[d] = tables.deals[d]
          BY <1>8, <4>2
        <5> QED
          BY <1>4, <1>11, <1>12, <4>2, <5>1
      <4>3. CASE d = Len(longer)
        <5>1. longer[d].no = oiwst.deal /\ longer[d].life = oiwst.life
          BY <1>6, <1>8, <4>3
        <5> QED
          BY <1>4, <5>1
      <4> QED
        BY <1>8, <4>2, <4>3
    <3> QED
      BY <3>2, <3>4, <3>5
  <2> QED
    BY <1>13, <2>1, <2>2
<1>14. ASSUME tables' \in {done, tables}
       PROVE  tables' \in Tables /\ tables'.sent = tables.sent /\ tables'.confirms = tables.confirms
  BY <1>9, <1>14 DEF OrderIInv, OrderTypeOK
<1>15. CASE tables' = done /\ oiwst' = next
  <2>1. RowsUnmarked'
    BY <1>1, <1>10, <1>14, <1>15 DEF OrderIInv, RowsUnmarked
  <2>2. MarkedFirst'
    BY <1>2, <1>10, <1>14, <1>15 DEF OrderIInv, MarkedFirst
  <2> QED
    BY <1>10, <1>13, <1>14, <1>15, <2>1, <2>2 DEF OrderIInv, OrderTypeOK
<1>16. CASE tables' \in {done, tables} /\ oiwst' = [GiveUp(next, order) EXCEPT !.faults = @ + 1]
  <2>1. /\ oiwst' \in Process /\ oiwst'.pc = "idle" /\ oiwst'.rows = <<>>
        /\ oiwst'.deal = next.deal /\ oiwst'.life = next.life
    BY <1>3, <1>10, <1>16, GivenUp
  <2>2. RowsUnmarked' /\ MarkedFirst'
    BY <1>14, <1>16, <2>1 DEF OrderIInv, RowsUnmarked, MarkedFirst
  <2> QED
    BY <1>10, <1>13, <1>14, <1>16, <2>1, <2>2 DEF OrderIInv, OrderTypeOK
<1> QED
  BY <1>1, <1>15, <1>16 DEF Cmd

\* A step that changes nothing.
LEMMA StutterIInv == OrderIInv /\ UNCHANGED orderVars => OrderIInv'
  BY DEF orderVars, OrderIInv, OrderTypeOK, RowsUnmarked, MarkedFirst, NumbersBelow,
         ConfirmedOnce, NumbersUnique

\* OrderIInv holds in every state of the exchange, whatever the book, the commands that fail
\* and the ends of the process.
THEOREM Inductive == OrderSpec => []OrderIInv
<1>1. OrderInit => OrderIInv
  BY InitIInv
<1>2. OrderIInv /\ [OrderNext]_orderVars => OrderIInv'
  BY PlaceIInv, QueryIInv, SkipIInv, MarkSentIInv, ConfirmIInv, DealIInv, RowDoneIInv, RestartIInv,
     StutterIInv
  DEF OrderNext, TimerCallback
<1> QED
  BY <1>1, <1>2, PTL DEF OrderSpec

\* An order is confirmed at most once, and dealt only after a confirmation that accepts it,
\* through any failing commands and restarts (main.cpp marks it before it answers).
THEOREM OrdersConfirmedOnce == OrderSpec => []ConfirmedOnce
<1>1. OrderIInv => ConfirmedOnce
  BY DEF OrderIInv
<1> QED
  BY <1>1, Inductive, PTL

\* No two deals of one life of the process have one number (dealNumberSatrt of main.cpp).
THEOREM DealNumbersUnique == OrderSpec => []NumbersUnique
<1>1. OrderIInv => NumbersUnique
  BY DEF OrderIInv
<1> QED
  BY <1>1, Inductive, PTL

-----------------------------------------------------------------------------
(* The volume of an order *)

\* The fold runs through the deals in their order.
LEMMA VolumeRun ==
    ASSUME NEW s \in Seq(DealRow), NEW order
    PROVE  \E run : /\ run[0] = 0 /\ run[Len(s)] = VolumeIn(s, order)
                    /\ \A i \in 1 .. Len(s) :
                          run[i] = IF s[i].order = order THEN run[i - 1] + s[i].volume ELSE run[i - 1]
<1> PICK n \in Nat : n = Len(s)
  OBVIOUS
<1> DEFINE step == [p \in Int \X (1 .. n) |-> IF s[p[2]].order = order THEN p[1] + s[p[2]].volume ELSE p[1]]
           Rule(f) == [T \in SUBSET (1 .. n) |->
                         IF T = {} THEN 0
                         ELSE IF s[Max(T)].order = order THEN f[T \ {Max(T)}] + s[Max(T)].volume
                         ELSE f[T \ {Max(T)}]]
<1>1. n \in Nat /\ DOMAIN s = 1 .. n /\ \A i \in 1 .. n : s[i] \in DealRow
  OBVIOUS
<1>2. step \in [Int \X (1 .. n) -> Int]
  <2>1. ASSUME NEW p \in Int \X (1 .. n) PROVE s[p[2]].volume \in Int /\ p[1] \in Int
    <3>1. s[p[2]] \in DealRow
      BY <1>1
    <3> QED
      BY <3>1 DEF DealRow
  <2> QED
    BY <2>1
<1>3. PICK f \in [SUBSET (1 .. n) -> Int] : Folds(f, 0, n, step)
  <2>1. 0 \in Int
    OBVIOUS
  <2> HIDE DEF step
  <2> QED
    BY <1>1, <1>2, <2>1, FoldThere
<1>4. f = Rule(f)
  <2>1. ASSUME NEW T \in SUBSET (1 .. n), T # {}
        PROVE  f[T] = IF s[Max(T)].order = order THEN f[T \ {Max(T)}] + s[Max(T)].volume
                      ELSE f[T \ {Max(T)}]
    <3>1. Max(T) \in 1 .. n /\ f[T \ {Max(T)}] \in Int
      BY <1>1, <2>1, LargestIs
    <3> QED
      BY <1>3, <2>1, <3>1 DEF Folds
  <2>2. f[{}] = 0
    BY <1>3 DEF Folds
  <2> QED
    BY <1>3, <2>1, <2>2
<1> DEFINE fold == CHOOSE g : g = Rule(g)
<1>5. fold = Rule(fold)
  <2> HIDE DEF Rule
  <2> QED
    BY <1>4
<1>6. VolumeIn(s, order) = fold[1 .. n]
  BY <1>1, Zenon DEF VolumeIn, FoldLeft, MapThenFoldSet
<1> HIDE DEF fold
<1>7. \A T \in SUBSET (1 .. n) :
          fold[T] = IF T = {} THEN 0
                    ELSE IF s[Max(T)].order = order THEN fold[T \ {Max(T)}] + s[Max(T)].volume
                    ELSE fold[T \ {Max(T)}]
  BY <1>5
<1> DEFINE run == [i \in 0 .. n |-> fold[1 .. i]]
<1>8. run[0] = 0
  <2>1. 1 .. 0 = {} /\ {} \in SUBSET (1 .. n) /\ 0 \in 0 .. n
    OBVIOUS
  <2>2. run[0] = fold[{}]
    BY <2>1
  <2> QED
    BY <1>7, <2>1, <2>2
<1>9. ASSUME NEW i \in 1 .. n
      PROVE  run[i] = IF s[i].order = order THEN run[i - 1] + s[i].volume ELSE run[i - 1]
  <2>1. Max(1 .. i) = i /\ (1 .. i) \ {i} = 1 .. i - 1 /\ 1 .. i # {}
    BY LargestOfInterval
  <2>2. 1 .. i \in SUBSET (1 .. n) /\ i \in 0 .. n /\ i - 1 \in 0 .. n
    BY <1>1
  <2>3. run[i] = fold[1 .. i] /\ run[i - 1] = fold[1 .. i - 1]
    BY <2>2
  <2> QED
    BY <1>7, <2>1, <2>2, <2>3
<1>10. run[n] = VolumeIn(s, order)
  BY <1>1, <1>6
<1> QED
  BY <1>8, <1>9, <1>10

LEMMA VolumeType ==
    ASSUME NEW s \in Seq(DealRow), NEW order
    PROVE  /\ VolumeIn(s, order) \in Int
           /\ (\A i \in DOMAIN s : s[i].order # order) => VolumeIn(s, order) = 0
<1>1. PICK run : /\ run[0] = 0 /\ run[Len(s)] = VolumeIn(s, order)
                 /\ \A i \in 1 .. Len(s) :
                       run[i] = IF s[i].order = order THEN run[i - 1] + s[i].volume ELSE run[i - 1]
  BY VolumeRun
<1>2. \A i \in 1 .. Len(s) : s[i].volume \in Int
  <2>1. \A i \in 1 .. Len(s) : s[i] \in DealRow
    OBVIOUS
  <2> QED
    BY <2>1 DEF DealRow
<1> DEFINE n == Len(s)
           G == {i \in 0 .. n : run[i] \in Int /\ ((\A j \in DOMAIN s : s[j].order # order) => run[i] = 0)}
<1>3. n \in Nat /\ 0 \in G
  BY <1>1
<1>4. ASSUME NEW i \in 1 .. n, i - 1 \in G
      PROVE  i \in G
  <2>1. i \in 0 .. n /\ i \in DOMAIN s
    OBVIOUS
  <2>2. run[i - 1] \in Int /\ ((\A j \in DOMAIN s : s[j].order # order) => run[i - 1] = 0)
    BY <1>4
  <2> QED
    BY <1>1, <1>2, <2>1, <2>2
<1>5. n \in G
  <2> HIDE DEF G
  <2>1. \A i \in 0 .. n : i \in G
    BY <1>3, <1>4, UpTo
  <2>2. n \in 0 .. n
    BY <1>3
  <2> QED
    BY <2>1, <2>2
<1> QED
  BY <1>1, <1>5

LEMMA VolumeAppend ==
    ASSUME NEW s \in Seq(DealRow), NEW d \in DealRow, NEW order
    PROVE  VolumeIn(Append(s, d), order) =
              IF d.order = order THEN VolumeIn(s, order) + d.volume ELSE VolumeIn(s, order)
<1> DEFINE t == Append(s, d)
<1> PICK n \in Nat : n = Len(s)
  OBVIOUS
<1>1. t \in Seq(DealRow) /\ Len(t) = n + 1 /\ t[n + 1] = d /\ \A i \in 1 .. n : t[i] = s[i]
  OBVIOUS
<1> HIDE DEF t
<1>2. PICK a : /\ a[0] = 0 /\ a[n] = VolumeIn(s, order)
               /\ \A i \in 1 .. n : a[i] = IF s[i].order = order THEN a[i - 1] + s[i].volume ELSE a[i - 1]
  BY VolumeRun
<1>3. PICK b : /\ b[0] = 0 /\ b[Len(t)] = VolumeIn(t, order)
               /\ \A i \in 1 .. Len(t) :
                     b[i] = IF t[i].order = order THEN b[i - 1] + t[i].volume ELSE b[i - 1]
  BY <1>1, VolumeRun
<1> DEFINE G == {i \in 0 .. n : a[i] = b[i]}
<1>4. 0 \in G
  BY <1>1, <1>2, <1>3
<1>5. ASSUME NEW i \in 1 .. n, i - 1 \in G
      PROVE  i \in G
  <2>1. i \in 0 .. n /\ i \in 1 .. Len(t) /\ a[i - 1] = b[i - 1]
    BY <1>1, <1>5
  <2> QED
    BY <1>1, <1>2, <1>3, <2>1
<1>6. n \in G
  <2> HIDE DEF G
  <2>1. \A i \in 0 .. n : i \in G
    BY <1>4, <1>5, UpTo
  <2> QED
    BY <2>1
<1>7. n + 1 \in 1 .. Len(t) /\ (n + 1) - 1 = n
  BY <1>1
<1> QED
  BY <1>1, <1>2, <1>3, <1>6, <1>7 DEF t

\* A step that leaves the deals alone and is not at the deals of an order.
LEMMA VolumesStay ==
    ASSUME DealtWithin, tables'.deals = tables.deals, oiwst'.pc # "deals"
    PROVE  DealtWithin' /\ VolumesLeft'
<1>1. \A order : Volume(order)' = Volume(order)
  BY DEF Volume
<1> QED
  BY <1>1 DEF DealtWithin, VolumesLeft

\* What an order that is confirmed is dealt is not more than its quantity.
LEMMA OutcomeVolumes ==
    ASSUME NEW order \in Order
    PROVE  LET v == Outcome(order).volumes IN
           /\ v \in Seq(Int) /\ Len(v) <= 3 /\ \A k \in DOMAIN v : v[k] >= 0
           /\ Len(v) >= 1 => v[1] <= order.qty
           /\ Len(v) >= 2 => v[1] + v[2] <= order.qty
           /\ Len(v) >= 3 => v[1] + v[2] + v[3] <= order.qty
<1>1. order.qty \in Int
  BY DEF Order
<1>2. CASE order.wth \/ order.qty = 1000 \/ order.qty < 0 \/ order.qty = 900
  BY <1>1, <1>2 DEF Outcome
<1> DEFINE v == Outcome(order).volumes
<1>3. CASE ~order.wth /\ order.qty = 600
  <2>1. v = <<200>>
    BY <1>3 DEF Outcome
  <2> QED
    BY <1>3, <2>1
<1>4. CASE ~order.wth /\ order.qty > 1000
  <2>1. v = <<400, 600, order.qty - 1000>>
    BY <1>1, <1>4 DEF Outcome
  <2> HIDE DEF v
  <2>2. v \in Seq(Int) /\ Len(v) = 3 /\ v[1] = 400 /\ v[2] = 600 /\ v[3] = order.qty - 1000
    BY <1>1, <2>1
  <2>3. \A k \in DOMAIN v : v[k] >= 0
    BY <1>1, <1>4, <2>2
  <2> QED
    BY <1>1, <1>4, <2>2, <2>3 DEF v
<1>5. CASE ~order.wth /\ order.qty >= 0 /\ order.qty < 1000 /\ order.qty \notin {600, 900}
  <2>1. v = <<order.qty>>
    BY <1>1, <1>5 DEF Outcome
  <2> QED
    BY <1>1, <1>5, <2>1
<1> QED
  BY <1>1, <1>2, <1>3, <1>4, <1>5

LEMMA ConfirmVolumes ==
    ASSUME OrderIInv, DealtWithin, Confirm
    PROVE  DealtWithin' /\ VolumesLeft'
<1>0. PICK order : order = Head(oiwst.rows).order
  OBVIOUS
<1>1. oiwst.pc = "confirm" /\ oiwst.rows # <<>> /\ order = oiwst.rows[1].order /\ Book[order] \in Order
  <2>1. oiwst.pc = "confirm"
    BY DEF Confirm
  <2> QED
    BY <1>0, <2>1, HeadOfRows DEF OrderIInv, MarkedFirst
<1>2. PICK v : v = Outcome(Book[order]).volumes
  OBVIOUS
<1>3. /\ tables'.deals = tables.deals
      /\ \/ oiwst' = [oiwst EXCEPT !.pc = "deals", !.volumes = v]
         \/ oiwst'.pc = "idle"
  BY <1>0, <1>2 DEF Confirm, Cmd, GiveUp, OrderIInv, OrderTypeOK, Tables, Process
<1>4. CASE oiwst'.pc # "deals"
  BY <1>3, <1>4, VolumesStay
<1>5. CASE oiwst' = [oiwst EXCEPT !.pc = "deals", !.volumes = v]
  <2>1. oiwst'.rows = oiwst.rows /\ oiwst'.volumes = v
    BY <1>5 DEF OrderIInv, OrderTypeOK, Process
  <2>2. \A d \in DOMAIN tables.deals : tables.deals[d].order # order
    BY <1>1 DEF OrderIInv, MarkedFirst, ConfirmedOnce
  <2>3. Volume(order) = 0
    <3>1. tables.deals \in Seq(DealRow)
      BY DEF OrderIInv, OrderTypeOK, Tables
    <3> QED
      BY <2>2, <3>1, VolumeType DEF Volume
  <2>4. \A k : Volume(k)' = Volume(k)
    BY <1>3 DEF Volume
  <2>5. DealtWithin'
    BY <1>3, <2>4 DEF DealtWithin
  <2>6. VolumesLeft'
    <3>1. /\ v \in Seq(Int) /\ Len(v) <= 3 /\ \A k \in DOMAIN v : v[k] >= 0
          /\ Len(v) >= 1 => v[1] <= Book[order].qty
          /\ Len(v) >= 2 => v[1] + v[2] <= Book[order].qty
          /\ Len(v) >= 3 => v[1] + v[2] + v[3] <= Book[order].qty
      BY <1>1, <1>2, OutcomeVolumes
    <3>2. Volume(order)' = 0 /\ order = oiwst'.rows[1].order /\ v = oiwst'.volumes
      BY <1>1, <2>1, <2>3, <2>4
    <3>3. /\ Len(v) >= 1 => v[1] \in Int
          /\ Len(v) >= 2 => v[2] \in Int
          /\ Len(v) >= 3 => v[3] \in Int
      BY <3>1
    <3> QED
      BY <3>1, <3>2, <3>3 DEF VolumesLeft
  <2> QED
    BY <2>5, <2>6
<1> QED
  BY <1>3, <1>4, <1>5

LEMMA DealVolumes ==
    ASSUME OrderIInv, DealtWithin, VolumesLeft, Deal
    PROVE  DealtWithin' /\ VolumesLeft'
<1>0. PICK order, v : order = Head(oiwst.rows).order /\ v = oiwst.volumes
  OBVIOUS
<1>r. PICK row : row = [no |-> oiwst.deal, order |-> order, volume |-> Head(v), life |-> oiwst.life]
  OBVIOUS
<1>1. oiwst.pc = "deals" /\ v # <<>> /\ oiwst.rows # <<>>
  BY <1>0 DEF Deal, OrderIInv, MarkedFirst
<1>2. order = oiwst.rows[1].order /\ order \in Nat /\ Book[order].qty \in Int
  BY <1>0, <1>1, HeadOfRows, BookAssumption DEF OrderIInv, Order
<1>3. /\ tables'.deals \in {tables.deals, Append(tables.deals, row)}
      /\ \/ /\ oiwst'.pc = "deals" /\ oiwst'.rows = oiwst.rows /\ oiwst'.volumes = Tail(v)
            /\ tables'.deals = Append(tables.deals, row)
         \/ oiwst'.pc = "idle"
  BY <1>0, <1>1, <1>r DEF Deal, Cmd, GiveUp, OrderIInv, OrderTypeOK, Tables, Process
<1>4. tables.deals \in Seq(DealRow) /\ v \in Seq(Int) /\ oiwst.deal \in Nat /\ oiwst.life \in Nat
  BY <1>0 DEF OrderIInv, OrderTypeOK, Tables, Process
<1>5. /\ Len(v) <= 3 /\ Len(v) >= 1 /\ v[1] \in Int /\ v[1] >= 0 /\ Head(v) = v[1]
      /\ \A k \in DOMAIN v : v[k] >= 0
      /\ Volume(order) + v[1] <= Book[order].qty
      /\ Len(v) >= 2 => Volume(order) + v[1] + v[2] <= Book[order].qty
      /\ Len(v) >= 3 => Volume(order) + v[1] + v[2] + v[3] <= Book[order].qty
  BY <1>0, <1>1, <1>2, <1>4 DEF VolumesLeft
<1>6. row \in DealRow /\ row.order = order /\ row.volume = v[1]
  BY <1>2, <1>4, <1>5, <1>r DEF DealRow
<1>7. ASSUME tables'.deals = Append(tables.deals, row)
      PROVE  /\ \A k : Volume(k)' = IF k = order THEN Volume(k) + v[1] ELSE Volume(k)
             /\ DealtWithin'
  <2>1. \A k : Volume(k)' = IF k = order THEN Volume(k) + v[1] ELSE Volume(k)
    <3> TAKE k
    <3>1. Volume(k)' = VolumeIn(Append(tables.deals, row), k) /\ Volume(k) = VolumeIn(tables.deals, k)
      BY <1>7 DEF Volume
    <3> QED
      BY <1>4, <1>6, <3>1, VolumeAppend
  <2>2. ASSUME NEW d \in DOMAIN tables'.deals
        PROVE  VolumeIn(tables'.deals, tables'.deals[d].order) <= Book[tables'.deals[d].order].qty
    <3>0. PICK k : k = tables'.deals[d].order
      OBVIOUS
    <3>3. VolumeIn(tables'.deals, k) = IF k = order THEN Volume(k) + v[1] ELSE Volume(k)
      BY <2>1 DEF Volume
    <3>1. CASE k = order
      BY <1>5, <3>0, <3>1, <3>3
    <3>2. CASE k # order
      <4>1. d \in DOMAIN tables.deals /\ tables'.deals[d] = tables.deals[d]
        BY <1>4, <1>6, <1>7, <2>2, <3>0, <3>2
      <4> QED
        BY <3>0, <3>2, <3>3, <4>1 DEF DealtWithin
    <3> QED
      BY <3>1, <3>2
  <2> QED
    BY <2>1, <2>2 DEF DealtWithin, Volume
<1>8. CASE oiwst'.pc = "idle"
  <2>1. CASE tables'.deals = tables.deals
    BY <1>8, <2>1, VolumesStay
  <2>2. CASE tables'.deals = Append(tables.deals, row)
    BY <1>7, <1>8, <2>2 DEF VolumesLeft
  <2> QED
    BY <1>3, <2>1, <2>2
<1>9. CASE /\ oiwst'.pc = "deals" /\ oiwst'.rows = oiwst.rows /\ oiwst'.volumes = Tail(v)
           /\ tables'.deals = Append(tables.deals, row)
  <2>0. Tail(v) \in Seq(Int)
    BY <1>1, <1>4
  <2>1. PICK w \in Seq(Int) : w = Tail(v)
    BY <2>0
  <2>2. Len(w) = Len(v) - 1 /\ \A k \in DOMAIN w : w[k] = v[k + 1] /\ k + 1 \in DOMAIN v
    BY <1>4, <1>5, <2>1
  <2>3. Volume(order)' = Volume(order) + v[1] /\ order = oiwst'.rows[1].order /\ w = oiwst'.volumes
    <3>1. Volume(order)' = Volume(order) + v[1]
      BY <1>7, <1>9
    <3> QED
      BY <1>2, <1>9, <2>1, <3>1
  <2>4. Len(w) <= 2 /\ (Len(w) >= 1 => w[1] = v[2]) /\ (Len(w) >= 2 => w[2] = v[3])
    BY <1>5, <2>2
  <2>5. \A k \in DOMAIN w : w[k] >= 0
    BY <1>5, <2>2
  <2>6. Volume(order) \in Int
    BY <1>4, VolumeType DEF Volume
  <2> QED
    BY <1>5, <1>7, <1>9, <2>2, <2>3, <2>4, <2>5, <2>6 DEF VolumesLeft
<1> QED
  BY <1>3, <1>8, <1>9

\* No order is confirmed twice or dealt beyond its quantity, whatever the book, the commands
\* that fail and the ends of the process: the volumes that are left are those of the order at
\* hand alone, and an order that is given up is not looked at again.
LEMMA VolumesStep ==
    ASSUME OrderIInv, DealtWithin, VolumesLeft, [OrderNext]_orderVars
    PROVE  DealtWithin' /\ VolumesLeft'
<1>1. CASE Place
  <2>1. tables'.deals = tables.deals /\ UNCHANGED oiwst
    BY <1>1 DEF Place, OrderIInv, OrderTypeOK, Tables
  <2>2. \A k : Volume(k)' = Volume(k)
    BY <2>1 DEF Volume
  <2> QED
    BY <2>1, <2>2 DEF DealtWithin, VolumesLeft
<1>2. CASE UNCHANGED orderVars
  <2>1. UNCHANGED <<tables, oiwst>>
    BY <1>2 DEF orderVars
  <2>2. \A k : Volume(k)' = Volume(k)
    BY <2>1 DEF Volume
  <2> QED
    BY <2>1, <2>2 DEF DealtWithin, VolumesLeft
<1>3. CASE Query \/ Skip \/ MarkSent \/ RowDone \/ Restart
  <2>1. tables'.deals = tables.deals /\ oiwst'.pc # "deals"
    <3>1. CASE Query
      BY <3>1 DEF Query, OrderIInv, OrderTypeOK, Process
    <3>2. CASE Skip
      BY <3>2 DEF Skip, OrderIInv, OrderTypeOK, Process
    <3>3. CASE MarkSent
      BY <3>3 DEF MarkSent, Cmd, GiveUp, OrderIInv, OrderTypeOK, Tables, Process
    <3>4. CASE RowDone
      BY <3>4 DEF RowDone, OrderIInv, OrderTypeOK, Process
    <3>5. CASE Restart
      BY <3>5 DEF Restart, OrderIInv, OrderTypeOK, Process
    <3> QED
      BY <1>3, <3>1, <3>2, <3>3, <3>4, <3>5
  <2> QED
    BY <2>1, VolumesStay
<1>4. CASE Confirm
  BY <1>4, ConfirmVolumes
<1>5. CASE Deal
  BY <1>5, DealVolumes
<1> QED
  BY <1>1, <1>2, <1>3, <1>4, <1>5 DEF OrderNext, TimerCallback

\* The order at hand when the process starts is none.
LEMMA VolumesInit ==
    ASSUME OrderInit
    PROVE  DealtWithin /\ VolumesLeft
  BY DEF OrderInit, DealtWithin, VolumesLeft

\* Whatever fails and however often oiwst ends, no order is confirmed twice, dealt without a
\* confirmation that accepts it, or dealt beyond its quantity.
THEOREM OrdersNeverTwice == OrderSpec => []NeverTwice
<1>1. OrderInit => OrderIInv /\ DealtWithin /\ VolumesLeft
  BY InitIInv, VolumesInit
<1>2. OrderIInv /\ DealtWithin /\ VolumesLeft /\ [OrderNext]_orderVars => (DealtWithin /\ VolumesLeft)'
  BY VolumesStep
<1>3. OrderIInv /\ DealtWithin => NeverTwice
  BY DEF OrderIInv, NeverTwice
<1> QED
  BY <1>1, <1>2, <1>3, Inductive, PTL DEF OrderSpec

-----------------------------------------------------------------------------
(* The writers of the log *)

\* The names a roll gives.
Name(p) == <<p, writer.day, writer.number[p]>>

LEMMA NameType ==
    ASSUME LogTypeOK, NEW p \in Parts(writer.kind)
    PROVE  Name(p) \in FileName /\ Name(p)[1] = p /\ Name(p)[3] = writer.number[p]
<1>1. writer.day \in Nat /\ writer.number[p] \in Nat
  BY DEF LogTypeOK
<1> QED
  BY <1>1 DEF Name, FileName

\* A name a roll gives was not opened in this life.
LEMMA NameNew ==
    ASSUME LogTypeOK, OpenedBefore, NEW p \in Parts(writer.kind)
    PROVE  \A o \in writer.opened : o[2] = Name(p) => o[1] < writer.life
<1> SUFFICES ASSUME NEW o \in writer.opened, o[2] = Name(p)
             PROVE  o[1] < writer.life
  OBVIOUS
<1>1. o \in Nat \X FileName /\ writer.number[p] \in Nat /\ writer.life \in Nat
  BY DEF LogTypeOK
<1>2. o[1] \in Nat /\ o[2][1] = p /\ o[2][3] = writer.number[p]
  BY <1>1, NameType
<1> QED
  BY <1>1, <1>2 DEF OpenedBefore

LEMMA LogInitIInv == LogInit => LogIInv
<1> SUFFICES ASSUME LogInit PROVE LogIInv
  OBVIOUS
<1>1. disk = <<>> /\ logged = <<>>
  BY DEF LogInit
<1>2. /\ writer.kind \in {"file", "multi", "map"} /\ writer.func \in FuncBytes
      /\ writer = Fresh(writer.kind, writer.func)
  <2>1. PICK kind \in {"file", "multi", "map"}, func \in FuncBytes : writer = Fresh(kind, func)
    BY DEF LogInit
  <2>2. writer.kind = kind /\ writer.func = func
    BY <2>1 DEF Fresh
  <2> QED
    BY <2>1, <2>2
<1>3. LogTypeOK
  <2>1. writer \in [kind : {"file", "multi", "map"}, func : FuncBytes, opened : SUBSET (Nat \X FileName),
                   number : [Parts(writer.kind) -> Nat], bytes : [Parts(writer.kind) -> Nat],
                   open : [Parts(writer.kind) -> FileName \cup {<<>>}],
                   day : Nat, life : Nat, ready : BOOLEAN]
    <3>1. PICK kind, func : kind = writer.kind /\ func = writer.func
      OBVIOUS
    <3>2. writer = [kind |-> kind, func |-> func, opened |-> {}, number |-> [p \in Parts(kind) |-> 0],
                    bytes |-> [p \in Parts(kind) |-> 0], open |-> [p \in Parts(kind) |-> <<>>],
                    day |-> 1, life |-> 1, ready |-> FALSE]
      BY <1>2, <3>1, Zenon DEF Fresh
    <3> QED
      BY <1>2, <3>1, <3>2
  <2>2. DOMAIN disk = {}
    BY <1>1
  <2> QED
    BY <1>1, <2>1, <2>2 DEF LogTypeOK
<1>4. writer.ready = FALSE /\ writer.opened = {}
  BY <1>2 DEF Fresh
<1> QED
  BY <1>1, <1>3, <1>4 DEF LogIInv, OpenLast, OpenedBefore, LinesOpened, LinesStay, FilesInOrder

LEMMA LoggedType ==
    ASSUME LogTypeOK
    PROVE  /\ Len(logged) \in Nat /\ DOMAIN logged = 1 .. Len(logged)
           /\ \A k \in DOMAIN logged :
                 logged[k].life \in Nat /\ logged[k].size \in Nat /\ logged[k].file \in FileName \cup {<<>>}
<1>1. PICK lines : lines = [level : {4, 7}, key : Keys \cup {"unregistered"}, life : Nat, size : LineSizes,
                            file : FileName \cup {<<>>}]
  OBVIOUS
<1>2. logged \in Seq(lines)
  BY <1>1 DEF LogTypeOK
<1>3. ASSUME NEW l \in lines
      PROVE  l.life \in Nat /\ l.size \in Nat /\ l.file \in FileName \cup {<<>>}
  <2>1. l.life \in Nat /\ l.size \in LineSizes /\ l.file \in FileName \cup {<<>>}
    BY <1>1, <1>3
  <2> QED
    BY <2>1, LogAssumption
<1>4. \A k \in DOMAIN logged : logged[k] \in lines
  BY <1>2
<1> HIDE <1>1
<1> QED
  BY <1>2, <1>3, <1>4

\* Steps that write and open nothing.
LEMMA ReleaseIInv == LogIInv /\ ReleaseWriter => LogIInv'
<1> SUFFICES ASSUME LogIInv, ReleaseWriter PROVE LogIInv'
  OBVIOUS
<1>1. /\ writer'.kind = writer.kind /\ writer'.opened = writer.opened /\ writer'.number = writer.number
      /\ writer'.life = writer.life /\ writer'.ready = FALSE /\ disk' = disk /\ logged' = logged
  BY DEF ReleaseWriter, LogIInv, LogTypeOK
<1>2. FileName' = FileName
  BY <1>1 DEF FileName
<1>3. LogTypeOK'
  <2>1. writer' \in [kind : {"file", "multi", "map"}, func : FuncBytes, opened : SUBSET (Nat \X FileName),
                    number : [Parts(writer.kind) -> Nat], bytes : [Parts(writer.kind) -> Nat],
                    open : [Parts(writer.kind) -> FileName \cup {<<>>}],
                    day : Nat, life : Nat, ready : BOOLEAN]
    BY DEF ReleaseWriter, LogIInv, LogTypeOK
  <2> QED
    BY <1>1, <1>2, <2>1 DEF LogIInv, LogTypeOK
<1> QED
  BY <1>1, <1>3 DEF LogIInv, OpenLast, OpenedBefore, LinesOpened, LinesStay, FilesInOrder

LEMMA NextDayIInv == LogIInv /\ NextDay => LogIInv'
<1> SUFFICES ASSUME LogIInv, NextDay PROVE LogIInv'
  OBVIOUS
<1>1. /\ writer'.kind = writer.kind /\ writer'.opened = writer.opened /\ writer'.number = writer.number
      /\ writer'.life = writer.life /\ writer'.ready = writer.ready /\ writer'.open = writer.open
      /\ disk' = disk /\ logged' = logged
  BY DEF NextDay, LogIInv, LogTypeOK
<1>2. FileName' = FileName
  BY <1>1 DEF FileName
<1>3. LogTypeOK'
  <2>1. writer' \in [kind : {"file", "multi", "map"}, func : FuncBytes, opened : SUBSET (Nat \X FileName),
                    number : [Parts(writer.kind) -> Nat], bytes : [Parts(writer.kind) -> Nat],
                    open : [Parts(writer.kind) -> FileName \cup {<<>>}],
                    day : Nat, life : Nat, ready : BOOLEAN]
    <3>1. PICK day : day = writer.day + 1
      OBVIOUS
    <3>2. day \in Nat /\ writer' = [writer EXCEPT !.day = day]
      BY <3>1 DEF NextDay, LogIInv, LogTypeOK
    <3> QED
      BY <3>2 DEF LogIInv, LogTypeOK
  <2> QED
    BY <1>1, <1>2, <2>1 DEF LogIInv, LogTypeOK
<1>4. OpenLast' /\ OpenedBefore'
  BY <1>1, <1>2 DEF LogIInv, OpenLast, OpenedBefore
<1>5. LinesOpened' /\ LinesStay' /\ FilesInOrder'
  BY <1>1 DEF LogIInv, LinesOpened, LinesStay, FilesInOrder
<1> QED
  BY <1>3, <1>4, <1>5 DEF LogIInv

LEMMA StartAgainIInv == LogIInv /\ StartAgain => LogIInv'
<1> SUFFICES ASSUME LogIInv, StartAgain PROVE LogIInv'
  OBVIOUS
<1>0. writer.life \in Nat /\ writer.day \in Nat /\ writer.opened \in SUBSET (Nat \X FileName)
  BY DEF LogIInv, LogTypeOK
<1>1. /\ writer'.kind = writer.kind /\ writer'.opened = writer.opened
      /\ writer'.life = writer.life + 1 /\ writer'.ready = FALSE /\ disk' = disk /\ logged' = logged
  BY DEF StartAgain, Fresh
<1>2. FileName' = FileName
  BY <1>1 DEF FileName
<1>3. LogTypeOK'
  <2>1. writer' \in [kind : {"file", "multi", "map"}, func : FuncBytes, opened : SUBSET (Nat \X FileName),
                    number : [Parts(writer.kind) -> Nat], bytes : [Parts(writer.kind) -> Nat],
                    open : [Parts(writer.kind) -> FileName \cup {<<>>}],
                    day : Nat, life : Nat, ready : BOOLEAN]
    <3>1. PICK kind, func, day, life, opened :
             kind = writer.kind /\ func = writer.func /\ day = writer.day /\ life = writer.life + 1 /\ opened = writer.opened
      OBVIOUS
    <3>2. writer' = [kind |-> kind, func |-> func, opened |-> opened, number |-> [p \in Parts(kind) |-> 0],
                     bytes |-> [p \in Parts(kind) |-> 0], open |-> [p \in Parts(kind) |-> <<>>],
                     day |-> day, life |-> life, ready |-> FALSE]
      BY <3>1 DEF StartAgain, Fresh
    <3>3. kind \in {"file", "multi", "map"} /\ func \in FuncBytes
      BY <3>1 DEF LogIInv, LogTypeOK
    <3> QED
      BY <1>0, <3>1, <3>2, <3>3
  <2> QED
    BY <1>1, <1>2, <2>1 DEF LogIInv, LogTypeOK
<1>4. OpenedBefore'
  BY <1>0, <1>1 DEF LogIInv, OpenedBefore
<1>5. LinesOpened'
  BY <1>1 DEF LogIInv, LinesOpened
<1> QED
  BY <1>1, <1>3, <1>4, <1>5 DEF LogIInv, OpenLast, LinesStay, FilesInOrder

Writers(kind, names) ==
    [kind : {"file", "multi", "map"}, func : FuncBytes, opened : SUBSET (Nat \X names),
     number : [Parts(kind) -> Nat], bytes : [Parts(kind) -> Nat], open : [Parts(kind) -> names \cup {<<>>}],
     day : Nat, life : Nat, ready : BOOLEAN]

Rolled(kind, names, w, ps, r) ==
    /\ r \in Writers(kind, names) /\ r.kind = w.kind /\ r.life = w.life /\ r.ready = w.ready
    /\ r.opened = w.opened \cup {<<w.life, <<p, w.day, w.number[p]>>>> : p \in ps}
    /\ \A p \in Parts(kind) :
          /\ r.number[p] = IF p \in ps THEN w.number[p] + 1 ELSE w.number[p]
          /\ r.open[p] = IF p \in ps THEN <<p, w.day, w.number[p]>> ELSE w.open[p]

\* A roll numbers, names and empties the files of ps, and leaves the rest.
LEMMA RollFields ==
    ASSUME NEW kind, NEW names, NEW w \in Writers(kind, names), NEW ps \in SUBSET Parts(kind),
           \A p \in ps : <<p, w.day, w.number[p]>> \in names
    PROVE  Rolled(kind, names, w, ps, RollFile(w, ps))
<1> PICK r : r = RollFile(w, ps)
  OBVIOUS
<1>1. PICK number, bytes, open, opened :
         /\ number = [p \in Parts(kind) |-> IF p \in ps THEN w.number[p] + 1 ELSE w.number[p]]
         /\ bytes = [p \in Parts(kind) |-> IF p \in ps THEN 0 ELSE w.bytes[p]]
         /\ open = [p \in Parts(kind) |-> IF p \in ps THEN <<p, w.day, w.number[p]>> ELSE w.open[p]]
         /\ opened = w.opened \cup {<<w.life, <<p, w.day, w.number[p]>>>> : p \in ps}
  OBVIOUS
<1>2. w.number \in [Parts(kind) -> Nat] /\ w.bytes \in [Parts(kind) -> Nat] /\ w.life \in Nat
      /\ w.open \in [Parts(kind) -> names \cup {<<>>}] /\ w.opened \in SUBSET (Nat \X names)
  BY DEF Writers
<1>3. r = [w EXCEPT !.number = number, !.bytes = bytes, !.open = open, !.opened = opened]
  <2>1. DOMAIN w.number = Parts(kind) /\ DOMAIN w.bytes = Parts(kind) /\ DOMAIN w.open = Parts(kind)
    BY <1>2
  <2> QED
    BY <1>1, <2>1, Zenon DEF RollFile
<1>4. number \in [Parts(kind) -> Nat] /\ bytes \in [Parts(kind) -> Nat]
  BY <1>1, <1>2
<1>5. open \in [Parts(kind) -> names \cup {<<>>}] /\ opened \in SUBSET (Nat \X names)
  BY <1>1, <1>2
<1>6. r \in Writers(kind, names)
  BY <1>3, <1>4, <1>5 DEF Writers
<1>7. r.kind = w.kind /\ r.life = w.life /\ r.ready = w.ready
  BY <1>3 DEF Writers
<1>8. r.opened = opened /\ r.number = number /\ r.open = open
  BY <1>3 DEF Writers
<1> QED
  BY <1>1, <1>6, <1>7, <1>8 DEF Rolled

LEMMA InitializeIInv == LogIInv /\ InitializeWriter => LogIInv'
<1> SUFFICES ASSUME LogIInv, InitializeWriter PROVE LogIInv'
  OBVIOUS
<1> PICK ps, names : ps = Parts(writer.kind) /\ names = FileName
  OBVIOUS
<1>1. writer \in Writers(writer.kind, names) /\ ~writer.ready
  BY DEF LogIInv, LogTypeOK, Writers, InitializeWriter
<1>w. PICK w : w = [writer EXCEPT !.ready = TRUE]
  OBVIOUS
<1>2. /\ w \in Writers(writer.kind, names) /\ w.kind = writer.kind /\ w.life = writer.life /\ w.day = writer.day
      /\ w.number = writer.number /\ w.opened = writer.opened /\ w.ready = TRUE
  BY <1>1, <1>w DEF Writers
<1>3. \A p \in ps : <<p, w.day, w.number[p]>> \in names /\ <<p, w.day, w.number[p]>> = Name(p)
  BY <1>2, NameType DEF LogIInv, Name
<1>4. /\ writer' = RollFile(w, ps)
      /\ disk' = Emptied(disk, {writer'.open[p] : p \in ps}) /\ logged' = logged
  BY <1>w, Zenon DEF InitializeWriter
<1>5. /\ writer' \in Writers(writer.kind, names) /\ writer'.kind = writer.kind /\ writer'.life = writer.life
      /\ writer'.ready = TRUE /\ writer'.opened = writer.opened \cup {<<writer.life, Name(p)>> : p \in ps}
      /\ \A p \in ps : writer'.number[p] = writer.number[p] + 1 /\ writer'.open[p] = Name(p)
  <2>1. \A p \in ps : <<p, w.day, w.number[p]>> \in names
    BY <1>3
  <2>2. ps \in SUBSET Parts(writer.kind)
    OBVIOUS
  <2>3. PICK r, kind : r = RollFile(w, ps) /\ kind = writer.kind
    OBVIOUS
  <2>4. w \in Writers(kind, names) /\ ps \in SUBSET Parts(kind)
    BY <1>2, <2>2, <2>3
  <2>5. Rolled(kind, names, w, ps, r)
    <3>1. \A p \in ps : <<p, w.day, w.number[p]>> \in names
      BY <2>1
    <3>2. w \in Writers(kind, names) /\ ps \in SUBSET Parts(kind) /\ r = RollFile(w, ps)
      BY <2>3, <2>4
    <3> HIDE <2>3
    <3> QED
      BY <3>1, <3>2, RollFields
  <2>6. {<<w.life, <<p, w.day, w.number[p]>>>> : p \in ps} = {<<writer.life, Name(p)>> : p \in ps}
    <3>1. \A p \in ps : <<w.life, <<p, w.day, w.number[p]>>>> = <<writer.life, Name(p)>>
      BY <1>2, <1>3
    <3> QED
      BY <3>1, Zenon
  <2>7. writer' = r
    BY <1>4, <2>3
  <2> QED
    BY <1>2, <1>3, <2>3, <2>5, <2>6, <2>7 DEF Rolled
<1>6. FileName' = names
  BY <1>5 DEF FileName
<1>7. /\ DOMAIN disk' = DOMAIN disk \cup {Name(p) : p \in ps}
      /\ \A f \in DOMAIN disk' : disk'[f] = IF f \in {Name(p) : p \in ps} THEN <<>> ELSE disk[f]
  <2>1. {writer'.open[p] : p \in ps} = {Name(p) : p \in ps}
    BY <1>5
  <2> QED
    BY <1>4, <2>1 DEF Emptied
<1>8. LogTypeOK'
  <2>0. DOMAIN disk \subseteq names /\ \A f \in DOMAIN disk : disk[f] \in Seq(1 .. Len(logged))
    BY DEF LogIInv, LogTypeOK
  <2>1. DOMAIN disk' \subseteq names
    BY <1>3, <1>7, <2>0
  <2>2. \A f \in DOMAIN disk' : disk'[f] \in Seq(1 .. Len(logged'))
    <3> TAKE f \in DOMAIN disk'
    <3>1. CASE f \in {Name(p) : p \in ps}
      <4>1. disk'[f] = <<>> /\ <<>> \in Seq(1 .. Len(logged'))
        BY <1>7, <3>1
      <4> QED
        BY <4>1
    <3>2. CASE f \notin {Name(p) : p \in ps}
      BY <1>4, <1>7, <2>0, <3>2
    <3> QED
      BY <3>1, <3>2
  <2> QED
    BY <1>4, <1>5, <1>6, <2>1, <2>2 DEF LogIInv, LogTypeOK, Writers
<1>9. OpenLast'
  <2>1. \A p \in ps : /\ Name(p) \in FileName' /\ Name(p)[1] = p /\ Name(p)[3] + 1 = writer'.number[p]
                      /\ Name(p) \in DOMAIN disk' /\ <<writer'.life, Name(p)>> \in writer'.opened
    BY <1>3, <1>5, <1>6, <1>7, NameType DEF LogIInv
  <2> QED
    BY <1>5, <2>1 DEF OpenLast
<1>10. OpenedBefore'
  <2> SUFFICES ASSUME NEW o \in writer'.opened
               PROVE  /\ o[1] <= writer'.life
                      /\ o[1] = writer'.life => o[2][1] \in ps /\ o[2][3] < writer'.number[o[2][1]]
    BY <1>5 DEF OpenedBefore
  <2>0. writer.life \in Nat /\ writer.number \in [ps -> Nat] /\ writer.opened \in SUBSET (Nat \X names)
    BY <1>1 DEF Writers
  <2>1. CASE o \in writer.opened
    <3>1. /\ o[1] <= writer.life
          /\ o[1] = writer.life => o[2][1] \in ps /\ o[2][3] < writer.number[o[2][1]]
      BY <2>1 DEF LogIInv, OpenedBefore
    <3>2. o[2][3] \in Nat
      BY <2>0, <2>1 DEF FileName
    <3> QED
      BY <1>5, <2>0, <3>1, <3>2
  <2>2. ASSUME NEW p \in ps, o = <<writer.life, Name(p)>>
        PROVE  o[1] = writer'.life /\ o[2][1] \in ps /\ o[2][3] < writer'.number[o[2][1]]
    BY <1>5, <2>0, <2>2, NameType DEF LogIInv
  <2> QED
    BY <1>5, <2>0, <2>1, <2>2
<1>11. LinesOpened'
  <2> SUFFICES ASSUME NEW k \in DOMAIN logged, NEW f, f = logged[k].file, f # <<>>
               PROVE  /\ <<logged[k].life, f>> \in writer'.opened /\ f \in DOMAIN disk'
                      /\ logged[k].life = writer'.life /\ writer'.ready /\ f = writer'.open[f[1]] =>
                             logged[k].size <= FileMax
    BY <1>4 DEF LinesOpened
  <2>1. <<logged[k].life, f>> \in writer.opened /\ f \in DOMAIN disk
    BY DEF LogIInv, LinesOpened
  <2>2. ASSUME logged[k].life = writer'.life, f = writer'.open[f[1]]
        PROVE  FALSE
    <3>1. f \in names /\ f[1] \in ps
      BY <2>1 DEF LogIInv, LogTypeOK, FileName
    <3>2. f = Name(f[1])
      BY <1>5, <2>2, <3>1
    <3>3. logged[k].life < writer.life
      BY <2>1, <3>1, <3>2, NameNew DEF LogIInv
    <3>4. writer.life \in Nat
      BY <1>1 DEF Writers
    <3> QED
      BY <1>5, <2>2, <3>3, <3>4
  <2> QED
    BY <1>5, <1>7, <2>1, <2>2
<1>12. LinesStay'
  <2>1. ASSUME NEW k \in DOMAIN logged', NEW f, f = logged'[k].file, f # <<>>
        PROVE  k \in ToSet(disk'[f]) \/ \E o \in writer'.opened : o[1] > logged'[k].life /\ o[2] = f
    <3>0. k \in DOMAIN logged /\ logged'[k] = logged[k] /\ f = logged[k].file
      BY <1>4, <2>1
    <3>1. <<logged[k].life, f>> \in writer.opened /\ f \in DOMAIN disk
      BY <2>1, <3>0 DEF LogIInv, LinesOpened
    <3>2. CASE \E o \in writer.opened : o[1] > logged[k].life /\ o[2] = f
      BY <1>5, <3>0, <3>2
    <3>3. CASE f \in {Name(p) : p \in ps}
      <4>1. PICK p \in ps : f = Name(p)
        BY <3>3
      <4>2. logged[k].life < writer.life
        BY <3>1, <4>1, NameNew DEF LogIInv
      <4>3. writer.life \in Nat /\ logged[k].life \in Nat
        BY <3>0, LoggedType DEF LogIInv, LogTypeOK
      <4>4. <<writer.life, Name(p)>> \in writer'.opened
        BY <1>5
      <4> QED
        BY <3>0, <4>1, <4>2, <4>3, <4>4
    <3>4. CASE f \notin {Name(p) : p \in ps} /\ k \in ToSet(disk[f])
      BY <1>7, <3>1, <3>4
    <3> QED
      BY <2>1, <3>0, <3>2, <3>3, <3>4 DEF LogIInv, LinesStay
  <2>2. \A f \in DOMAIN disk' : \A i \in 1 .. Len(disk'[f]) - 1 : disk'[f][i] < disk'[f][i + 1]
    BY <1>7 DEF LogIInv, LinesStay
  <2> QED
    BY <2>1, <2>2, Zenon DEF LinesStay
<1>13. FilesInOrder'
  BY <1>4 DEF LogIInv, FilesInOrder
<1> QED
  BY <1>8, <1>9, <1>10, <1>11, <1>12, <1>13 DEF LogIInv

\* A line of a part that is not known goes nowhere.
LEMMA WriteNowhere ==
    ASSUME LogIInv, NEW line,
           line \in [level : {4, 7}, key : Keys \cup {"unregistered"}, life : Nat, size : LineSizes,
                     file : {<<>>}],
           logged' = Append(logged, line), writer' = writer, disk' = disk
    PROVE  LogIInv'
<1>1. FileName' = FileName
  BY DEF FileName
<1>2. PICK n \in Nat : n = Len(logged)
  BY LoggedType DEF LogIInv
<1>3. /\ DOMAIN logged = 1 .. n /\ DOMAIN logged' = 1 .. n + 1 /\ Len(logged') = n + 1
      /\ logged'[n + 1] = line /\ \A k \in 1 .. n : logged'[k] = logged[k]
  BY <1>2, LoggedType DEF LogIInv, LogTypeOK
<1>4. line.file = <<>>
  OBVIOUS
<1>5. LogTypeOK'
  <2>1. logged' \in Seq([level : {4, 7}, key : Keys \cup {"unregistered"}, life : Nat, size : LineSizes,
                         file : FileName \cup {<<>>}])
    BY DEF LogIInv, LogTypeOK
  <2>2. \A f \in DOMAIN disk : disk[f] \in Seq(1 .. n + 1)
    BY <1>2 DEF LogIInv, LogTypeOK
  <2> QED
    BY <1>1, <1>3, <2>1, <2>2 DEF LogIInv, LogTypeOK
<1>6. OpenLast' /\ OpenedBefore'
  BY <1>1 DEF LogIInv, OpenLast, OpenedBefore
<1>7. LinesOpened'
  BY <1>3, <1>4 DEF LogIInv, LinesOpened
<1>8. LinesStay'
  BY <1>3, <1>4 DEF LogIInv, LinesStay
<1>9. FilesInOrder'
  BY <1>3, <1>4 DEF LogIInv, FilesInOrder
<1> QED
  BY <1>5, <1>6, <1>7, <1>8, <1>9 DEF LogIInv

Added(w, p, size) == w = [writer EXCEPT !.bytes[p] = @ + size]
Joined(with, f, n) == with = [disk EXCEPT ![f] = Append(@, n)]

\* A line goes into the open file of its part, which may be rolled then.
LEMMA WriteSomewhere ==
    ASSUME LogIInv, writer.ready, NEW p \in Parts(writer.kind), NEW size \in LineSizes, NEW f, f = writer.open[p],
           NEW line,
           line \in [level : {4, 7}, key : Keys \cup {"unregistered"}, life : {writer.life}, size : {size}, file : {f}],
           NEW n, n = Len(logged) + 1, logged' = Append(logged, line),
           NEW w, Added(w, p, size), NEW with, Joined(with, f, n),
           NEW rolls, rolls <=> w.bytes[p] > FileMax,
           writer' = IF rolls THEN RollFile(w, {p}) ELSE w,
           disk' = IF rolls THEN Emptied(with, {writer'.open[p]}) ELSE with
    PROVE  LogIInv'
<1>1. PICK kind, names : kind = writer.kind /\ names = FileName
  OBVIOUS
<1>2. writer \in Writers(kind, names) /\ p \in Parts(kind) /\ size \in Nat
  BY <1>1, LogAssumption DEF LogIInv, LogTypeOK, Writers
<1>3. /\ writer.bytes \in [Parts(kind) -> Nat] /\ writer.number \in [Parts(kind) -> Nat] /\ writer.life \in Nat
      /\ writer.opened \in SUBSET (Nat \X names) /\ writer.day \in Nat
  BY <1>2 DEF Writers
<1>4. /\ w \in Writers(kind, names) /\ w.kind = kind /\ w.life = writer.life /\ w.day = writer.day
      /\ w.number = writer.number /\ w.opened = writer.opened /\ w.ready = TRUE /\ w.open = writer.open
      /\ w.bytes[p] = writer.bytes[p] + size
  <2>1. PICK bytes : bytes = [writer.bytes EXCEPT ![p] = @ + size]
    OBVIOUS
  <2>2. bytes \in [Parts(kind) -> Nat] /\ bytes[p] = writer.bytes[p] + size
    BY <1>2, <1>3, <2>1
  <2>3. w = [writer EXCEPT !.bytes = bytes]
    BY <1>2, <2>1 DEF Writers, Added
  <2> QED
    BY <1>1, <1>2, <2>2, <2>3 DEF Writers
<1>5. /\ f \in names /\ f[1] = p /\ f[3] + 1 = writer.number[p] /\ f[3] \in Nat
      /\ f \in DOMAIN disk /\ <<writer.life, f>> \in writer.opened
  <2>1. f \in names /\ f[1] = p /\ f[3] + 1 = writer.number[p] /\ f \in DOMAIN disk /\ <<writer.life, f>> \in writer.opened
    BY <1>1 DEF LogIInv, OpenLast
  <2> QED
    BY <1>1, <2>1 DEF FileName
<1>6. /\ Name(p) \in names /\ Name(p)[1] = p /\ Name(p)[3] = writer.number[p] /\ Name(p) # f
      /\ Name(p) = <<p, w.day, w.number[p]>>
  <2>1. Name(p) \in names /\ Name(p)[1] = p /\ Name(p)[3] = writer.number[p]
    BY <1>1, NameType DEF LogIInv
  <2>2. Name(p) # f
    BY <1>3, <1>5, <2>1
  <2> QED
    BY <1>4, <2>1, <2>2 DEF Name
<1>7. /\ writer' \in Writers(kind, names) /\ writer'.kind = kind /\ writer'.life = writer.life /\ writer'.ready = TRUE
      /\ writer'.opened = IF rolls THEN writer.opened \cup {<<writer.life, Name(p)>>} ELSE writer.opened
      /\ \A q \in Parts(kind) :
            /\ writer'.number[q] = IF rolls /\ q = p THEN writer.number[q] + 1 ELSE writer.number[q]
            /\ writer'.open[q] = IF rolls /\ q = p THEN Name(p) ELSE writer.open[q]
  <2>1. CASE ~rolls
    BY <1>4, <2>1
  <2>2. CASE rolls
    <3>1. PICK r, ps : r = RollFile(w, {p}) /\ ps = {p}
      OBVIOUS
    <3>2. ps \in SUBSET Parts(kind) /\ \A q \in ps : <<q, w.day, w.number[q]>> \in names
      BY <1>2, <1>6, <3>1
    <3>3. Rolled(kind, names, w, ps, r)
      <4>1. w \in Writers(kind, names) /\ ps \in SUBSET Parts(kind)
        BY <1>4, <3>2
      <4>2. \A q \in ps : <<q, w.day, w.number[q]>> \in names
        BY <3>2
      <4>3. Rolled(kind, names, w, ps, RollFile(w, ps))
        BY <4>1, <4>2, RollFields, Zenon
      <4> QED
        BY <3>1, <4>3, Zenon
    <3>4. {<<w.life, <<q, w.day, w.number[q]>>>> : q \in ps} = {<<writer.life, Name(p)>>}
      BY <1>4, <1>6, <3>1
    <3>5. writer' = r
      BY <2>2, <3>1
    <3>6. /\ r \in Writers(kind, names) /\ r.kind = w.kind /\ r.life = w.life /\ r.ready = w.ready
          /\ r.opened = w.opened \cup {<<writer.life, Name(p)>>}
      BY <3>3, <3>4 DEF Rolled
    <3>7. \A q \in Parts(kind) :
             /\ r.number[q] = IF q = p THEN w.number[q] + 1 ELSE w.number[q]
             /\ r.open[q] = IF q = p THEN Name(p) ELSE w.open[q]
      <4> TAKE q \in Parts(kind)
      <4>1. /\ r.number[q] = IF q \in ps THEN w.number[q] + 1 ELSE w.number[q]
            /\ r.open[q] = IF q \in ps THEN <<q, w.day, w.number[q]>> ELSE w.open[q]
        BY <3>3, Zenon DEF Rolled
      <4>2. q \in ps <=> q = p
        BY <3>1
      <4> QED
        BY <1>6, <4>1, <4>2
    <3>8. /\ writer' \in Writers(kind, names) /\ writer'.kind = kind /\ writer'.life = writer.life /\ writer'.ready = TRUE
          /\ writer'.opened = writer.opened \cup {<<writer.life, Name(p)>>}
      BY <1>4, <3>5, <3>6
    <3>9. ASSUME NEW q \in Parts(kind)
          PROVE  /\ writer'.number[q] = IF q = p THEN writer.number[q] + 1 ELSE writer.number[q]
                 /\ writer'.open[q] = IF q = p THEN Name(p) ELSE writer.open[q]
      BY <1>4, <3>5, <3>7
    <3> QED
      BY <2>2, <3>8, <3>9
  <2> QED
    BY <2>1, <2>2
<1>8. FileName' = names
  BY <1>1, <1>7 DEF FileName
<1>9. /\ DOMAIN disk' = DOMAIN disk \cup (IF rolls THEN {Name(p)} ELSE {})
      /\ disk'[f] = Append(disk[f], n)
      /\ \A g \in DOMAIN disk' \ {f} : disk'[g] = IF rolls /\ g = Name(p) THEN <<>> ELSE disk[g]
  <2>1. /\ DOMAIN with = DOMAIN disk /\ with[f] = Append(disk[f], n)
        /\ \A g \in DOMAIN disk \ {f} : with[g] = disk[g]
    BY <1>5 DEF Joined
  <2>2. CASE ~rolls
    BY <2>1, <2>2
  <2>3. CASE rolls
    <3>1. disk' = Emptied(with, {Name(p)})
      BY <1>2, <1>7, <2>3
    <3> QED
      <4>1. /\ DOMAIN disk' = DOMAIN with \cup {Name(p)}
            /\ \A g \in DOMAIN disk' : disk'[g] = IF g = Name(p) THEN <<>> ELSE with[g]
        BY <3>1 DEF Emptied
      <4>2. f \in DOMAIN disk /\ Name(p) # f
        BY <1>5, <1>6
      <4>3. disk'[f] = with[f]
        BY <2>1, <4>1, <4>2
      <4>4. ASSUME NEW g \in DOMAIN disk' \ {f} PROVE disk'[g] = IF g = Name(p) THEN <<>> ELSE disk[g]
        BY <2>1, <4>1
      <4> HIDE DEF Name
      <4> QED
        BY <2>1, <2>3, <4>1, <4>3, <4>4
  <2> QED
    BY <2>2, <2>3
<1>d1. f \in DOMAIN disk' /\ disk'[f] = Append(disk[f], n)
  BY <1>5, <1>9
<1>d2. rolls => Name(p) \in DOMAIN disk' /\ disk'[Name(p)] = <<>>
  BY <1>6, <1>9
<1>d3. ASSUME NEW g \in DOMAIN disk', g # f, ~(rolls /\ g = Name(p))
       PROVE  g \in DOMAIN disk /\ disk'[g] = disk[g]
  BY <1>9, <1>d3
<1>10. /\ n - 1 = Len(logged) /\ n - 1 \in Nat /\ DOMAIN logged = 1 .. n - 1 /\ DOMAIN logged' = 1 .. n /\ Len(logged') = n
       /\ logged'[n] = line /\ \A k \in 1 .. n - 1 : logged'[k] = logged[k]
  <2>1. Len(logged) \in Nat /\ DOMAIN logged = 1 .. Len(logged)
    BY LoggedType DEF LogIInv
  <2>2. logged \in Seq([level : {4, 7}, key : Keys \cup {"unregistered"}, life : Nat, size : LineSizes,
                       file : FileName \cup {<<>>}])
    BY DEF LogIInv, LogTypeOK
  <2> QED
    BY <2>1, <2>2
<1>11. line.file = f /\ line.life = writer.life /\ line.size = size
  OBVIOUS
<1>12. ASSUME NEW k \in 1 .. n - 1, NEW g, g = logged[k].file, g # <<>>
       PROVE  /\ g \in names /\ <<logged[k].life, g>> \in writer.opened /\ g \in DOMAIN disk
              /\ g[1] \in Parts(kind) /\ g[3] \in Nat /\ logged[k].life \in Nat /\ logged[k].life <= writer.life
              /\ logged[k].life = writer.life => g[3] < writer.number[g[1]]
              /\ logged[k].life = writer.life /\ g = writer.open[g[1]] => logged[k].size <= FileMax
  <2>1. k \in DOMAIN logged
    BY <1>10
  <2>2. /\ <<logged[k].life, g>> \in writer.opened /\ g \in DOMAIN disk
        /\ logged[k].life = writer.life /\ g = writer.open[g[1]] => logged[k].size <= FileMax
    BY <1>12, <2>1 DEF LogIInv, LinesOpened
  <2>3. g \in names /\ g[1] \in Parts(kind) /\ g[3] \in Nat
    <3>1. g \in names
      BY <1>3, <2>2
    <3> QED
      BY <1>1, <3>1 DEF FileName
  <2>4. logged[k].life \in Nat
    BY <2>1, LoggedType DEF LogIInv
  <2>5. logged[k].life <= writer.life /\ (logged[k].life = writer.life => g[3] < writer.number[g[1]])
    <3>1. PICK o : o = <<logged[k].life, g>>
      OBVIOUS
    <3>2. o \in writer.opened /\ o[1] = logged[k].life /\ o[2] = g
      BY <2>2, <3>1
    <3> QED
      BY <3>2 DEF LogIInv, OpenedBefore
  <2> QED
    BY <2>2, <2>3, <2>4, <2>5
<1>13. LogTypeOK'
  <2>1. logged' \in Seq([level : {4, 7}, key : Keys \cup {"unregistered"}, life : Nat, size : LineSizes,
                        file : names \cup {<<>>}])
    <3>1. PICK lines : lines = [level : {4, 7}, key : Keys \cup {"unregistered"}, life : Nat, size : LineSizes,
                                file : names \cup {<<>>}]
      OBVIOUS
    <3>2. logged \in Seq(lines)
      BY <1>1, <3>1 DEF LogIInv, LogTypeOK
    <3>3. line \in lines
      BY <1>3, <1>5, <3>1
    <3>4. Append(logged, line) \in Seq(lines)
      BY <3>2, <3>3
    <3> QED
      BY <3>1, <3>4
  <2>2. DOMAIN disk' \subseteq names
    BY <1>1, <1>6, <1>9 DEF LogIInv, LogTypeOK
  <2>3. \A g \in DOMAIN disk' : disk'[g] \in Seq(1 .. Len(logged'))
    <3> TAKE g \in DOMAIN disk'
    <3>0. \A h \in DOMAIN disk : disk[h] \in Seq(1 .. n - 1)
      BY <1>10 DEF LogIInv, LogTypeOK
    <3>1. CASE g = f
      <4>1. disk[f] \in Seq(1 .. n)
        BY <1>5, <1>10, <3>0
      <4>2. n \in 1 .. n
        BY <1>10
      <4>3. Append(disk[f], n) \in Seq(1 .. n)
        BY <4>1, <4>2
      <4> QED
        BY <1>10, <1>d1, <3>1, <4>3
    <3>2. CASE g # f /\ rolls /\ g = Name(p)
      <4>1. disk'[g] = <<>> /\ <<>> \in Seq(1 .. Len(logged'))
        BY <1>d2, <3>2
      <4> QED
        BY <4>1
    <3>3. CASE g # f /\ ~(rolls /\ g = Name(p))
      <4>1. g \in DOMAIN disk /\ disk'[g] = disk[g]
        BY <1>d3, <3>3
      <4> QED
        BY <1>10, <3>0, <4>1
    <3> QED
      BY <3>1, <3>2, <3>3
  <2> QED
    BY <1>7, <1>8, <2>1, <2>2, <2>3 DEF LogTypeOK, Writers
<1>14. OpenLast'
  <2>1. ASSUME NEW q \in Parts(kind)
        PROVE  LET g == writer'.open[q]
               IN  g \in names /\ g[1] = q /\ g[3] + 1 = writer'.number[q] /\ g \in DOMAIN disk' /\ <<writer'.life, g>> \in writer'.opened
    <3>1. CASE rolls /\ q = p
      <4>1. writer'.open[q] = Name(p) /\ writer'.number[q] = writer.number[p] + 1
        BY <1>2, <1>7, <3>1
      <4>2. Name(p) \in DOMAIN disk' /\ <<writer'.life, Name(p)>> \in writer'.opened
        BY <1>7, <1>d2, <3>1
      <4> QED
        BY <1>3, <1>6, <3>1, <4>1, <4>2
    <3>2. CASE ~(rolls /\ q = p)
      <4>1. PICK g : g = writer.open[q]
        OBVIOUS
      <4>2. g \in names /\ g[1] = q /\ g[3] + 1 = writer.number[q] /\ g \in DOMAIN disk /\ <<writer.life, g>> \in writer.opened
        BY <1>1, <4>1 DEF LogIInv, OpenLast
      <4>3. writer'.open[q] = g /\ writer'.number[q] = writer.number[q]
        BY <1>7, <3>2, <4>1
      <4>4. g \in DOMAIN disk'
        BY <1>9, <4>2
      <4>5. <<writer'.life, g>> \in writer'.opened
        BY <1>7, <4>2
      <4> QED
        BY <4>2, <4>3, <4>4, <4>5
    <3> QED
      BY <3>1, <3>2
  <2> QED
    BY <1>7, <1>8, <2>1 DEF OpenLast
<1>15. OpenedBefore'
  <2> SUFFICES ASSUME NEW o \in writer'.opened
               PROVE  /\ o[1] <= writer'.life
                      /\ o[1] = writer'.life => o[2][1] \in Parts(kind) /\ o[2][3] < writer'.number[o[2][1]]
    BY <1>7 DEF OpenedBefore
  <2>1. CASE o \in writer.opened
    <3>1. /\ o[1] <= writer.life
          /\ o[1] = writer.life => o[2][1] \in Parts(kind) /\ o[2][3] < writer.number[o[2][1]]
      BY <1>1, <2>1 DEF LogIInv, OpenedBefore
    <3>2. o[2][3] \in Nat
      BY <1>1, <1>3, <2>1 DEF FileName
    <3>3. \A q \in Parts(kind) : writer.number[q] \in Nat /\ writer'.number[q] \in Nat /\ writer.number[q] <= writer'.number[q]
      <4> TAKE q \in Parts(kind)
      <4>1. writer.number[q] \in Nat
        BY <1>3
      <4>2. writer'.number[q] = IF rolls /\ q = p THEN writer.number[q] + 1 ELSE writer.number[q]
        BY <1>7
      <4> QED
        BY <4>1, <4>2
    <3>4. ASSUME o[1] = writer.life
          PROVE  o[2][1] \in Parts(kind) /\ o[2][3] < writer'.number[o[2][1]]
      <4>1. o[2][1] \in Parts(kind) /\ o[2][3] < writer.number[o[2][1]]
        BY <3>1, <3>4
      <4>2. PICK q \in Parts(kind) : q = o[2][1]
        BY <4>1
      <4>3. writer.number[q] \in Nat /\ writer'.number[q] \in Nat /\ writer.number[q] <= writer'.number[q]
        BY <3>3
      <4> QED
        BY <3>2, <4>1, <4>2, <4>3
    <3> QED
      BY <1>7, <3>1, <3>4
  <2>2. CASE rolls /\ o = <<writer.life, Name(p)>>
    <3>1. o[1] = writer.life /\ o[2] = Name(p)
      BY <2>2
    <3>2. writer'.number[p] = writer.number[p] + 1
      BY <1>2, <1>7, <2>2
    <3>3. o[2][1] = p /\ o[2][3] < writer'.number[p]
      BY <1>2, <1>3, <1>6, <3>1, <3>2
    <3>4. writer'.life = writer.life /\ writer.life \in Nat
      BY <1>3, <1>7
    <3> QED
      BY <1>2, <3>1, <3>3, <3>4
  <2> QED
    BY <1>7, <2>1, <2>2
<1>16. LinesOpened'
  <2> SUFFICES ASSUME NEW k \in 1 .. n, NEW g, g = logged'[k].file, g # <<>>
               PROVE  /\ <<logged'[k].life, g>> \in writer'.opened /\ g \in DOMAIN disk'
                      /\ logged'[k].life = writer'.life /\ g = writer'.open[g[1]] => logged'[k].size <= FileMax
    BY <1>10, Zenon DEF LinesOpened
  <2>1. CASE k = n
    <3>1. g = f /\ logged'[k].life = writer.life /\ logged'[k].size = size
      BY <1>10, <1>11, <2>1
    <3>2. <<logged'[k].life, g>> \in writer'.opened /\ g \in DOMAIN disk'
      BY <1>5, <1>7, <1>9, <3>1
    <3>3. ASSUME g = writer'.open[g[1]]
          PROVE  size <= FileMax
      <4>1. ~rolls
        BY <1>2, <1>5, <1>6, <1>7, <3>1, <3>3
      <4>2. writer.bytes[p] \in Nat
        BY <1>2, <1>3
      <4> QED
        BY <1>2, <1>4, <4>1, <4>2, LogAssumption
    <3> QED
      BY <3>1, <3>2, <3>3
  <2>2. CASE k # n
    <3>1. k \in 1 .. n - 1
      BY <1>10, <2>2
    <3>2. logged'[k] = logged[k]
      BY <1>10, <3>1
    <3>3. /\ g \in names /\ <<logged[k].life, g>> \in writer.opened /\ g \in DOMAIN disk
          /\ g[1] \in Parts(kind) /\ g[3] \in Nat
          /\ logged[k].life = writer.life => g[3] < writer.number[g[1]]
          /\ logged[k].life = writer.life /\ g = writer.open[g[1]] => logged[k].size <= FileMax
      BY <1>12, <3>1, <3>2
    <3>4. ASSUME logged[k].life = writer.life, rolls, g[1] = p
          PROVE  g # Name(p)
      BY <1>3, <1>6, <3>3, <3>4
    <3> QED
      BY <1>7, <1>9, <3>2, <3>3, <3>4
  <2> QED
    BY <2>1, <2>2
<1>17. LinesStay'
  <2>1. ASSUME NEW k \in DOMAIN logged', NEW g, g = logged'[k].file, g # <<>>
        PROVE  k \in ToSet(disk'[g]) \/ \E o \in writer'.opened : o[1] > logged'[k].life /\ o[2] = g
    <3>0. disk[f] \in Seq(1 .. n - 1)
      BY <1>5, <1>10 DEF LogIInv, LogTypeOK
    <3>1. CASE k = n
      <4>1. g = f
        BY <1>10, <1>11, <2>1, <3>1
      <4>2. disk'[f] = Append(disk[f], n)
        BY <1>d1
      <4>3. Append(disk[f], n)[Len(disk[f]) + 1] = n /\ Len(disk[f]) + 1 \in DOMAIN Append(disk[f], n)
        BY <3>0
      <4>4. n \in ToSet(Append(disk[f], n))
        BY <4>3 DEF ToSet
      <4> QED
        BY <3>1, <4>1, <4>2, <4>4
    <3>2. CASE k # n
      <4>1. k \in 1 .. n - 1 /\ logged'[k] = logged[k] /\ k \in DOMAIN logged
        BY <1>10, <3>2
      <4>2. /\ g \in names /\ <<logged[k].life, g>> \in writer.opened /\ g \in DOMAIN disk
            /\ g[1] \in Parts(kind) /\ g[3] \in Nat /\ logged[k].life \in Nat /\ logged[k].life <= writer.life
            /\ logged[k].life = writer.life => g[3] < writer.number[g[1]]
        BY <1>12, <2>1, <4>1
      <4>3. CASE \E o \in writer.opened : o[1] > logged[k].life /\ o[2] = g
        BY <1>7, <4>1, <4>3
      <4>4. CASE rolls /\ g = Name(p)
        <5>1. logged[k].life < writer.life
          BY <1>3, <1>6, <4>2, <4>4
        <5>2. <<writer.life, g>> \in writer'.opened
          BY <1>7, <4>4
        <5> QED
          BY <1>3, <4>1, <4>2, <5>1, <5>2
      <4>5. CASE ~(rolls /\ g = Name(p)) /\ k \in ToSet(disk[g])
        <5>1. CASE g # f
          BY <1>9, <1>d3, <4>2, <4>5, <5>1
        <5>2. CASE g = f
          <6>1. PICK i \in DOMAIN disk[f] : disk[f][i] = k
            BY <4>5, <5>2 DEF ToSet
          <6>2. i \in DOMAIN Append(disk[f], n) /\ Append(disk[f], n)[i] = k
            BY <3>0, <6>1
          <6>3. disk'[g] = Append(disk[f], n)
            BY <1>d1, <5>2
          <6> QED
            BY <6>2, <6>3 DEF ToSet
        <5> QED
          BY <5>1, <5>2
      <4>6. k \in ToSet(disk[g]) \/ \E o \in writer.opened : o[1] > logged[k].life /\ o[2] = g
        BY <2>1, <4>1 DEF LogIInv, LinesStay
      <4> QED
        BY <4>3, <4>4, <4>5, <4>6
    <3> QED
      BY <3>1, <3>2
  <2>2. ASSUME NEW g \in DOMAIN disk', NEW i \in 1 .. Len(disk'[g]) - 1
        PROVE  disk'[g][i] < disk'[g][i + 1]
    <3>0. /\ \A h \in DOMAIN disk : disk[h] \in Seq(1 .. n - 1)
          /\ \A h \in DOMAIN disk : \A j \in 1 .. Len(disk[h]) - 1 : disk[h][j] < disk[h][j + 1]
      BY <1>10 DEF LogIInv, LogTypeOK, LinesStay
    <3>1. CASE g = f
      <4>1. PICK s : s = disk[f]
        OBVIOUS
      <4>2. s \in Seq(1 .. n - 1) /\ \A j \in 1 .. Len(s) - 1 : s[j] < s[j + 1]
        BY <1>5, <3>0, <4>1
      <4>3. disk'[g] = Append(s, n) /\ Len(Append(s, n)) = Len(s) + 1 /\ i \in 1 .. Len(s)
        <5>1. disk'[g] = Append(s, n)
          BY <1>d1, <3>1, <4>1
        <5>2. Len(Append(s, n)) = Len(s) + 1 /\ Len(s) \in Nat
          BY <4>2
        <5>3. Len(disk'[g]) - 1 = Len(s)
          BY <5>1, <5>2
        <5> QED
          BY <2>2, <5>1, <5>2, <5>3
      <4>4. Append(s, n)[i] = s[i] /\ s[i] \in 1 .. n - 1
        BY <4>2, <4>3
      <4>5. CASE i = Len(s)
        <5>1. Append(s, n)[i + 1] = n
          BY <4>2, <4>5
        <5>2. disk'[g][i] = s[i] /\ disk'[g][i + 1] = n
          BY <4>3, <4>4, <5>1
        <5> QED
          BY <1>10, <4>4, <5>2
      <4>6. CASE i # Len(s)
        <5>1. i \in 1 .. Len(s) - 1 /\ Append(s, n)[i + 1] = s[i + 1]
          <6>1. Len(s) \in Nat /\ i \in 1 .. Len(s) - 1
            BY <4>2, <4>3, <4>6
          <6> QED
            BY <4>2, <6>1
        <5> QED
          BY <4>2, <4>3, <4>4, <5>1
      <4> QED
        BY <4>5, <4>6
    <3>2. CASE g # f /\ rolls /\ g = Name(p)
      <4>1. Len(disk'[g]) = 0
        BY <1>d2, <3>2
      <4> QED
        BY <2>2, <4>1
    <3>3. CASE g # f /\ ~(rolls /\ g = Name(p))
      <4>1. g \in DOMAIN disk /\ disk'[g] = disk[g]
        BY <1>d3, <3>3
      <4> QED
        BY <2>2, <3>0, <4>1
    <3> QED
      BY <3>1, <3>2, <3>3
  <2> QED
    BY <2>1, <2>2, Zenon DEF LinesStay
<1>18. FilesInOrder'
  <2> SUFFICES ASSUME NEW j \in DOMAIN logged', NEW k \in DOMAIN logged', j < k, logged'[j].life = logged'[k].life,
                      logged'[j].file # <<>>, logged'[k].file # <<>>, logged'[j].file[1] = logged'[k].file[1]
               PROVE  /\ logged'[j].file[3] <= logged'[k].file[3]
                      /\ logged'[j].file = logged'[k].file => logged'[j].size <= FileMax
    BY Zenon DEF FilesInOrder
  <2>0. PICK g, h : /\ g = logged'[j].file /\ h = logged'[k].file /\ g # <<>> /\ h # <<>> /\ g[1] = h[1]
                    /\ j \in 1 .. n /\ k \in 1 .. n
    BY <1>10
  <2>1. j \in 1 .. n - 1 /\ logged'[j] = logged[j] /\ j \in DOMAIN logged
    BY <1>10, <2>0
  <2>2. CASE k # n
    <3>1. logged'[k] = logged[k] /\ k \in DOMAIN logged
      BY <1>10, <2>0, <2>2
    <3> QED
      BY <2>1, <3>1 DEF LogIInv, FilesInOrder
  <2>3. CASE k = n
    <3>1. h = f /\ logged[j].life = writer.life
      BY <1>10, <1>11, <2>0, <2>1, <2>3
    <3>2. /\ g[3] \in Nat /\ g[3] < writer.number[g[1]]
          /\ g = writer.open[g[1]] => logged[j].size <= FileMax
      BY <1>12, <2>0, <2>1, <3>1
    <3>3. g[1] = p /\ writer.number[p] \in Nat
      BY <1>2, <1>3, <1>5, <2>0, <3>1
    <3>4. g[3] <= h[3]
      <4>1. PICK a, b, c : a = g[3] /\ b = f[3] /\ c = writer.number[p]
        OBVIOUS
      <4>2. a \in Nat /\ a < c /\ b \in Nat /\ b + 1 = c
        BY <1>5, <3>2, <3>3, <4>1
      <4>3. a <= b
        BY <4>2
      <4> QED
        BY <3>1, <4>1, <4>3
    <3>5. g = h => logged'[j].size <= FileMax
      BY <2>0, <2>1, <3>1, <3>2, <3>3
    <3> QED
      BY <2>0, <3>4, <3>5
  <2> QED
    BY <2>2, <2>3
<1> QED
  BY <1>13, <1>14, <1>15, <1>16, <1>17, <1>18 DEF LogIInv

LEMMA WriteIInv ==
    ASSUME NEW level \in {4, 7}, NEW key \in Keys \cup {"unregistered"}, NEW size \in LineSizes
    PROVE  LogIInv /\ Write(level, key, size) => LogIInv'
<1> SUFFICES ASSUME LogIInv, Write(level, key, size) PROVE LogIInv'
  OBVIOUS
<1>1. PICK p, n : p = PartOf(level, key) /\ n = Len(logged) + 1
  OBVIOUS
<1>2. writer.ready /\ writer.life \in Nat
  BY DEF Write, LogIInv, LogTypeOK
<1>3. CASE p \in Parts(writer.kind)
  <2>1. PICK f, w, with, line, rolls :
           /\ f = writer.open[p] /\ Added(w, p, size) /\ Joined(with, f, n)
           /\ line = [level |-> level, key |-> key, life |-> writer.life, size |-> size, file |-> f]
           /\ rolls <=> w.bytes[p] > FileMax
    <3>1. PICK w, with : Added(w, p, size) /\ Joined(with, writer.open[p], n)
      BY Zenon DEF Added, Joined
    <3> QED
      BY <3>1, Zenon
  <2>2. /\ logged' = Append(logged, line)
        /\ writer' = IF rolls THEN RollFile(w, {p}) ELSE w
        /\ disk' = IF rolls THEN Emptied(with, {writer'.open[p]}) ELSE with
    BY <1>1, <1>3, <2>1, Zenon DEF Write, Added, Joined
  <2>3. line \in [level : {4, 7}, key : Keys \cup {"unregistered"}, life : {writer.life}, size : {size}, file : {f}]
    BY <2>1
  <2>4. writer.ready /\ n = Len(logged) + 1 /\ p \in Parts(writer.kind) /\ f = writer.open[p]
    BY <1>1, <1>2, <1>3, <2>1
  <2>5. Added(w, p, size) /\ Joined(with, f, n) /\ (rolls <=> w.bytes[p] > FileMax)
    BY <2>1
  <2> QED
    BY <2>2, <2>3, <2>4, <2>5, WriteSomewhere, Zenon
<1>4. CASE p \notin Parts(writer.kind)
  <2>1. PICK line : line = [level |-> level, key |-> key, life |-> writer.life, size |-> size, file |-> <<>>]
    OBVIOUS
  <2>2. logged' = Append(logged, line) /\ writer' = writer /\ disk' = disk
    BY <1>1, <1>4, <2>1, Zenon DEF Write
  <2>3. line \in [level : {4, 7}, key : Keys \cup {"unregistered"}, life : Nat, size : LineSizes, file : {<<>>}]
    BY <1>2, <2>1
  <2> QED
    BY <2>2, <2>3, WriteNowhere
<1> QED
  BY <1>3, <1>4

LEMMA LogStutters == LogIInv /\ UNCHANGED logVars => LogIInv'
<1> SUFFICES ASSUME LogIInv, UNCHANGED logVars PROVE LogIInv'
  OBVIOUS
<1>1. disk' = disk /\ writer' = writer /\ logged' = logged
  BY DEF logVars
<1>2. FileName' = FileName
  BY <1>1 DEF FileName
<1>3. LogTypeOK' /\ OpenLast' /\ OpenedBefore'
  BY <1>1, <1>2 DEF LogIInv, LogTypeOK, OpenLast, OpenedBefore
<1>4. LinesOpened' /\ LinesStay' /\ FilesInOrder'
  BY <1>1 DEF LogIInv, LinesOpened, LinesStay, FilesInOrder
<1> QED
  BY <1>3, <1>4 DEF LogIInv

LEMMA LogStep == LogIInv /\ [LogNext]_logVars => LogIInv'
<1>1. ASSUME LogIInv, NEW level \in {4, 7}, NEW key \in Keys \cup {"unregistered"}, NEW size \in LineSizes,
             Write(level, key, size)
      PROVE  LogIInv'
  BY <1>1, WriteIInv
<1> QED
  BY <1>1, InitializeIInv, ReleaseIInv, NextDayIInv, StartAgainIInv, LogStutters DEF LogNext

-----------------------------------------------------------------------------
(* The files of fileCrop: where lines and parts end *)

\* The total without the last number.
LEMMA TotalLast ==
  ASSUME NEW s \in Seq(Int), NEW n \in Nat, NEW t \in Seq(Int),
         Len(s) = n + 1, Len(t) = n, \A i \in 1..n : t[i] = s[i]
  PROVE  Total(s) = Total(t) + s[n + 1] /\ Total(t) \in Int /\ s[n + 1] \in Int
<1>1. PICK p : Adds(p, s) /\ p[Len(s)] = Total(s) /\ \A i \in 0..Len(s) : p[i] \in Int
  BY TotalThere
<1>2. Adds(p, t)
  BY <1>1 DEF Adds
<1>3. p[n] = Total(t)
  BY <1>2, TotalIs
<1>4. p[n + 1] = p[(n + 1) - 1] + s[n + 1] /\ (n + 1) - 1 = n
  BY <1>1 DEF Adds
<1>5. p[n] \in Int /\ s[n + 1] \in Int
  BY <1>1
<1> QED
  BY <1>1, <1>3, <1>4, <1>5

LEMMA TotalNone ==
  ASSUME NEW s \in Seq(Int), Len(s) = 0
  PROVE  Total(s) = 0
<1>1. PICK p : Adds(p, s) /\ p[Len(s)] = Total(s)
  BY TotalThere
<1> QED
  BY <1>1 DEF Adds

\* The total of numbers that are at least low.
LEMMA TotalAtLeast ==
  ASSUME NEW s \in Seq(Int), NEW low \in {0, 1}, \A i \in 1..Len(s) : s[i] >= low
  PROVE  Total(s) \in Nat /\ (low = 1 => Total(s) >= Len(s))
<1>1. PICK p : Adds(p, s) /\ p[Len(s)] = Total(s) /\ \A i \in 0..Len(s) : p[i] \in Int
  BY TotalThere
<1>2. PICK n \in Nat : n = Len(s)
  OBVIOUS
<1> DEFINE G == {i \in 0..n : p[i] >= 0 /\ (low = 1 => p[i] >= i)}
<1>3. 0 \in G
  BY <1>1 DEF Adds
<1>4. ASSUME NEW i \in 1..n, i - 1 \in G PROVE i \in G
  <2>1. p[i] = p[i - 1] + s[i] /\ s[i] >= low /\ s[i] \in Int /\ p[i - 1] \in Int
    BY <1>1, <1>2 DEF Adds
  <2>2. p[i - 1] >= 0 /\ (low = 1 => p[i - 1] >= i - 1)
    BY <1>4
  <2>3. CASE low = 0
    BY <2>1, <2>2, <2>3
  <2>4. CASE low = 1
    BY <2>1, <2>2, <2>4
  <2> QED
    BY <2>3, <2>4
<1>5. n \in G
  <2> HIDE DEF G
  <2>1. \A i \in 0..n : i \in G
    BY <1>3, <1>4, UpTo
  <2> QED
    BY <2>1
<1> QED
  BY <1>1, <1>2, <1>5

LEMMA LineSizeIs ==
  ASSUME NEW line \in Line
  PROVE  LineSize(line) \in Nat \ {0}
<1>1. line \in Seq(Int) /\ line \in Seq(Nat \ {0}) /\ line # <<>>
  <2>1. line \in Seq(Nat \ {0}) /\ line # <<>>
    BY DEF Line
  <2> QED
    BY <2>1, SeqMonotonic
<1>2. Len(line) \in Nat \ {0} /\ \A i \in 1..Len(line) : line[i] >= 1
  BY <1>1, EmptySeq
<1>3. Total(line) \in Nat /\ Total(line) >= Len(line)
  BY <1>1, <1>2, TotalAtLeast
<1> QED
  BY <1>2, <1>3 DEF LineSize

\* A line ends where the one before ends and its own cells do.
LEMMA EndOfStep ==
  ASSUME NEW lines \in Seq(Line), NEW k \in 1..Len(lines)
  PROVE  /\ EndOf(lines, k) = EndOf(lines, k - 1) + LineSize(lines[k])
         /\ LineSize(lines[k]) \in Nat \ {0} /\ EndOf(lines, k - 1) \in Int
<1>1. PICK s : s = [j \in 1..k |-> LineSize(lines[j])]
  OBVIOUS
<1>2. PICK t : t = [j \in 1..k - 1 |-> LineSize(lines[j])]
  OBVIOUS
<1>3. \A j \in 1..k : LineSize(lines[j]) \in Nat \ {0}
  BY LineSizeIs
<1>4. s \in Seq(Int) /\ Len(s) = k /\ s[k] = LineSize(lines[k]) /\ \A i \in 1..k - 1 : s[i] = LineSize(lines[i])
  BY <1>1, <1>3
<1>5. t \in Seq(Int) /\ Len(t) = k - 1 /\ \A i \in 1..k - 1 : t[i] = LineSize(lines[i])
  BY <1>2, <1>3
<1>6. PICK n \in Nat : n = k - 1 /\ n + 1 = k
  OBVIOUS
<1>7. Total(s) = Total(t) + s[n + 1] /\ Total(t) \in Int
  BY <1>4, <1>5, <1>6, TotalLast
<1> QED
  BY <1>1, <1>2, <1>3, <1>4, <1>6, <1>7 DEF EndOf

LEMMA EndOfStart ==
  ASSUME NEW lines \in Seq(Line)
  PROVE  EndOf(lines, 0) = 0
<1>1. PICK s : s = [j \in 1..0 |-> LineSize(lines[j])]
  OBVIOUS
<1>2. s \in Seq(Int) /\ Len(s) = 0
  BY <1>1
<1> QED
  BY <1>1, <1>2, TotalNone DEF EndOf

\* Lines end one after another.
LEMMA EndOfOrder ==
  ASSUME NEW lines \in Seq(Line), NEW n \in Nat, n = Len(lines)
  PROVE  /\ \A k \in 0..n : EndOf(lines, k) \in Nat
         /\ \A j, k \in 0..n : j < k => EndOf(lines, j) < EndOf(lines, k)
<1> DEFINE G == {k \in 0..n : EndOf(lines, k) \in Nat /\ \A j \in 0..n : j < k => EndOf(lines, j) < EndOf(lines, k)}
<1>1. 0 \in G
  BY EndOfStart
<1>2. ASSUME NEW k \in 1..n, k - 1 \in G PROVE k \in G
  <2>1. EndOf(lines, k - 1) \in Nat /\ \A j \in 0..n : j < k - 1 => EndOf(lines, j) < EndOf(lines, k - 1)
    BY <1>2
  <2>2. EndOf(lines, k) = EndOf(lines, k - 1) + LineSize(lines[k]) /\ LineSize(lines[k]) \in Nat \ {0}
    BY EndOfStep
  <2>3. PICK a, b, c : a = EndOf(lines, k) /\ b = EndOf(lines, k - 1) /\ c = LineSize(lines[k])
    BY <2>2
  <2>4. a = b + c /\ b \in Nat /\ c \in Nat \ {0} /\ a \in Nat
    BY <2>1, <2>2, <2>3
  <2>5. ASSUME NEW j \in 0..n, j < k PROVE EndOf(lines, j) < a
    <3>1. CASE j = k - 1
      BY <2>3, <2>4, <3>1
    <3>2. CASE j < k - 1
      <4>1. EndOf(lines, j) < b
        BY <2>1, <2>3, <3>2
      <4>2. EndOf(lines, j) \in Int
        BY EndOfStep, <2>5, <3>2
      <4> QED
        BY <2>4, <4>1, <4>2
    <3> QED
      BY <2>5, <3>1, <3>2
  <2>6. \A j \in 0..n : j < k => EndOf(lines, j) < EndOf(lines, k)
    BY <2>3, <2>5
  <2>7. k \in 0..n /\ EndOf(lines, k) \in Nat
    BY <2>3, <2>4
  <2> QED
    BY <2>6, <2>7
<1>3. \A k \in 0..n : k \in G
  <2> HIDE DEF G
  <2> QED
    BY <1>1, <1>2, UpTo
<1> QED
  BY <1>3

\* Where a part that begins after line k may end, and where it does.
Ends(f, k) ==
  {j \in k + 1 .. Len(f.lines) : (j < Len(f.lines) \/ f.ended) /\
     EndOf(f.lines, j) > EndOf(f.lines, k) + EndOf(f.lines, Len(f.lines)) \div TaskCounts}
EndIn(f, k) == CHOOSE j \in Ends(f, k) : \A i \in Ends(f, k) : j <= i

\* More than a step is left.
More(f, k) ==
  EndOf(f.lines, k) + EndOf(f.lines, Len(f.lines)) \div TaskCounts < EndOf(f.lines, Len(f.lines))

Piece == (Nat \X Nat) \cup {"none"}
File == {f \in {Directory[n] : n \in DOMAIN Directory} : f.lines # <<>>}

LEMMA FileType ==
  ASSUME NEW f \in File
  PROVE  f.lines \in Seq(Line) /\ Len(f.lines) \in Nat \ {0} /\ f.ended \in BOOLEAN
<1>1. f.lines \in Seq(Line) /\ f.ended \in BOOLEAN /\ f.lines # <<>>
  BY CropAssumption DEF File
<1> QED
  BY <1>1, EmptySeq

LEMMA EndInIs ==
  ASSUME NEW f, NEW k \in Nat, Ends(f, k) # {}, Len(f.lines) \in Nat
  PROVE  EndIn(f, k) \in Ends(f, k) /\ EndIn(f, k) \in k + 1 .. Len(f.lines)
<1>1. Ends(f, k) \in SUBSET Nat
  BY DEF Ends
<1>2. \E j \in Ends(f, k) : \A i \in Ends(f, k) : j <= i
  BY <1>1, LeastNumber
<1>3. EndIn(f, k) \in Ends(f, k)
  BY <1>2, Zenon DEF EndIn
<1> QED
  BY <1>3 DEF Ends

\* The parts from line to line, of which SeparateFile takes those from the first.
PartsFrom(f, part) ==
  \A k \in 0 .. Len(f.lines) :
    part[k] = IF More(f, k)
              THEN IF Ends(f, k) = {} THEN <<"none">> ELSE <<<<k + 1, EndIn(f, k)>>>> \o part[EndIn(f, k)]
              ELSE IF EndOf(f.lines, k) < EndOf(f.lines, Len(f.lines)) THEN <<<<k + 1, Len(f.lines)>>>> ELSE <<>>

LEMMA SeparateRun ==
  ASSUME NEW f \in File
  PROVE  \E part : PartsFrom(f, part) /\ part[0] = SeparateFile(f)
<1> PICK n : n = Len(f.lines)
  OBVIOUS
<1>1. n \in Nat /\ f.lines \in Seq(Line)
  BY FileType
<1> DEFINE B == [k \in 0 .. n |-> IF More(f, k) THEN <<"none">>
                                  ELSE IF EndOf(f.lines, k) < EndOf(f.lines, n) THEN <<<<k + 1, n>>>> ELSE <<>>]
           Stop == {k \in 0 .. n : ~(More(f, k) /\ Ends(f, k) # {})}
           next == [k \in 0 .. n |-> EndIn(f, k)]
           F == [p \in (0 .. n) \X Seq(Piece) |-> IF p[1] \in Stop THEN <<>> ELSE <<<<p[1] + 1, EndIn(f, p[1])>>>> \o p[2]]
           Rule(part) ==
             [k \in 0 .. n |->
                IF More(f, k)
                THEN IF Ends(f, k) = {} THEN <<"none">> ELSE <<<<k + 1, EndIn(f, k)>>>> \o part[EndIn(f, k)]
                ELSE IF EndOf(f.lines, k) < EndOf(f.lines, n) THEN <<<<k + 1, n>>>> ELSE <<>>]
           parts == CHOOSE part : part = Rule(part)
<1>2. \A k \in 0 .. n : k \notin Stop => next[k] \in k + 1 .. n
  BY <1>1, EndInIs
<1>3. B \in [0 .. n -> Seq(Piece)]
  <2>1. ASSUME NEW k \in 0 .. n
        PROVE  <<"none">> \in Seq(Piece) /\ <<<<k + 1, n>>>> \in Seq(Piece) /\ <<>> \in Seq(Piece)
    <3>1. "none" \in Piece /\ <<k + 1, n>> \in Piece
      BY <1>1 DEF Piece
    <3> QED
      BY <3>1
  <2> QED
    BY <2>1
<1>4. F \in [(0 .. n) \X Seq(Piece) -> Seq(Piece)]
  <2>1. ASSUME NEW p \in (0 .. n) \X Seq(Piece)
        PROVE  (IF p[1] \in Stop THEN <<>> ELSE <<<<p[1] + 1, EndIn(f, p[1])>>>> \o p[2]) \in Seq(Piece)
    <3>1. CASE p[1] \in Stop
      BY <3>1
    <3>2. CASE p[1] \notin Stop
      <4>0. PICK k \in 0 .. n : k = p[1]
        OBVIOUS
      <4>1. p[1] \in Nat /\ p[2] \in Seq(Piece) /\ EndIn(f, p[1]) \in Nat
        <5>1. More(f, k) /\ Ends(f, k) # {}
          BY <3>2, <4>0
        <5>2. EndIn(f, k) \in k + 1 .. n
          BY <1>1, <5>1, EndInIs
        <5>3. EndIn(f, k) \in Nat /\ k \in Nat
          BY <1>1, <5>2
        <5>4. p[2] \in Seq(Piece)
          BY <2>1
        <5> QED
          BY <4>0, <5>3, <5>4
      <4>2. <<p[1] + 1, EndIn(f, p[1])>> \in Piece
        BY <4>1 DEF Piece
      <4>3. <<<<p[1] + 1, EndIn(f, p[1])>>>> \in Seq(Piece)
        BY <4>2
      <4>4. <<<<p[1] + 1, EndIn(f, p[1])>>>> \o p[2] \in Seq(Piece)
        BY <4>1, <4>3, ConcatProperties
      <4> QED
        BY <3>2, <4>4
    <3> QED
      BY <3>1, <3>2
  <2> QED
    BY <2>1
<1>5. PICK g \in [0 .. n -> Seq(Piece)] : \A k \in 0 .. n : g[k] = IF k \in Stop THEN B[k] ELSE F[<<k, g[next[k]]>>]
  <2>1. 0 \in Nat /\ n \in Nat /\ 0 <= n
    BY <1>1
  <2>2. PICK C, stops, then, H : C = B /\ stops = Stop /\ then = next /\ H = F
    OBVIOUS
  <2> HIDE DEF B, Stop, next, F
  <2>3. /\ C \in [0 .. n -> Seq(Piece)]
        /\ \A k \in 0 .. n : k \notin stops => then[k] \in k + 1 .. n
        /\ H \in [(0 .. n) \X Seq(Piece) -> Seq(Piece)]
    BY <1>2, <1>3, <1>4, <2>2
  <2>4. \E g \in [0 .. n -> Seq(Piece)] : Climbs(g, 0, n, stops, C, then, H)
    BY <2>1, <2>3, UpwardThere, Zenon
  <2> QED
    BY <2>2, <2>4 DEF Climbs
<1>6. g = Rule(g)
  <2> SUFFICES ASSUME NEW k \in 0 .. n
               PROVE  g[k] = Rule(g)[k]
    OBVIOUS
  <2>1. CASE k \in Stop
    <3>1. g[k] = B[k] /\ (~More(f, k) \/ Ends(f, k) = {})
      BY <1>5, <2>1
    <3> QED
      BY <3>1
  <2>2. CASE k \notin Stop
    <3>0. More(f, k) /\ Ends(f, k) # {}
      BY <2>2
    <3>1. next[k] \in 0 .. n /\ next[k] = EndIn(f, k) /\ More(f, k) /\ Ends(f, k) # {}
      <4>1. EndIn(f, k) \in k + 1 .. n
        BY <1>1, <3>0, EndInIs
      <4> QED
        BY <1>1, <3>0, <4>1
    <3>2. <<k, g[next[k]]>> \in (0 .. n) \X Seq(Piece)
      BY <3>1
    <3>3. g[k] = <<<<k + 1, EndIn(f, k)>>>> \o g[next[k]]
      BY <1>5, <2>2, <3>2
    <3> QED
      BY <3>1, <3>3
  <2> QED
    BY <2>1, <2>2
<1>7. parts = Rule(parts)
  <2> HIDE DEF Rule
  <2> QED
    BY <1>6
<1>8. SeparateFile(f) = parts[0]
  BY Zenon DEF SeparateFile, Ends, EndIn, More
<1> HIDE DEF parts
<1>9. PartsFrom(f, parts)
  BY <1>7 DEF PartsFrom
<1> QED
  BY <1>8, <1>9

\* The parts s are the lines from a line to the last, n, in order.
Whole(s, from, n) ==
  /\ s \in Seq(Nat \X Nat) /\ s # <<>>
  /\ s[1][1] = from /\ s[Len(s)][2] = n
  /\ \A k \in 1 .. Len(s) - 1 : s[k][2] + 1 = s[k + 1][1]
  /\ \A k \in DOMAIN s : 1 <= s[k][1] /\ s[k][1] <= s[k][2] /\ s[k][2] <= n

\* What is put in front of a sequence.
LEMMA InFront ==
  ASSUME NEW A, NEW x \in A, NEW t \in Seq(A), NEW m \in Nat, m = Len(t)
  PROVE  /\ <<x>> \o t \in Seq(A) /\ Len(<<x>> \o t) = m + 1 /\ (<<x>> \o t)[1] = x
         /\ \A k \in 1..m : (<<x>> \o t)[k + 1] = t[k]
<1>1. <<x>> \in Seq(A) /\ Len(<<x>>) = 1
  OBVIOUS
<1> QED
  BY <1>1

LEMMA Behind ==
  ASSUME NEW A, NEW s \in Seq(A), NEW t \in Seq(A), NEW p, NEW q, p = Len(s), q = Len(t)
  PROVE  /\ s \o t \in Seq(A) /\ Len(s \o t) = p + q
         /\ (\A i \in 1..p : (s \o t)[i] = s[i]) /\ \A i \in 1..q : (s \o t)[p + i] = t[i]
OBVIOUS

LEMMA SameSeq ==
  ASSUME NEW A, NEW s \in Seq(A), NEW t \in Seq(A), NEW n \in Nat, Len(s) = n, Len(t) = n, \A i \in 1..n : s[i] = t[i]
  PROVE  s = t
OBVIOUS

LEMMA WholeOfOne ==
  ASSUME NEW from \in Nat, NEW n \in Nat, 1 <= from, from <= n
  PROVE  Whole(<<<<from, n>>>>, from, n)
<1>1. PICK s : s = <<<<from, n>>>>
  OBVIOUS
<1>2. s \in Seq(Nat \X Nat) /\ s # <<>> /\ Len(s) = 1 /\ DOMAIN s = {1} /\ s[1] = <<from, n>>
  <2>1. <<from, n>> \in Nat \X Nat
    OBVIOUS
  <2> QED
    BY <1>1, <2>1
<1>3. Whole(s, from, n)
  BY <1>2 DEF Whole
<1> QED
  BY <1>1, <1>3

LEMMA WholeOfMore ==
  ASSUME NEW from \in Nat, NEW j \in Nat, NEW n \in Nat, 1 <= from, from <= j, NEW t, Whole(t, j + 1, n)
  PROVE  Whole(<<<<from, j>>>> \o t, from, n)
<1>1. PICK m \in Nat : m = Len(t) /\ m > 0 /\ t \in Seq(Nat \X Nat) /\ DOMAIN t = 1..m
  <2>1. t \in Seq(Nat \X Nat) /\ t # <<>>
    BY DEF Whole
  <2> QED
    BY <2>1, EmptySeq
<1>2. PICK x \in Nat \X Nat : x = <<from, j>>
  OBVIOUS
<1>4. PICK s : s = <<x>> \o t
  OBVIOUS
<1>3. /\ s \in Seq(Nat \X Nat) /\ Len(s) = m + 1 /\ s[1] = x
      /\ \A k \in 1..m : s[k + 1] = t[k]
  <2>1. PICK A : A = Nat \X Nat
    OBVIOUS
  <2>2. x \in A /\ t \in Seq(A) /\ m = Len(t)
    BY <1>1, <2>1
  <2>3. /\ <<x>> \o t \in Seq(A) /\ Len(<<x>> \o t) = m + 1 /\ (<<x>> \o t)[1] = x
        /\ \A k \in 1..m : (<<x>> \o t)[k + 1] = t[k]
    BY <2>2, InFront
  <2> QED
    BY <1>4, <2>1, <2>3, Zenon
<1>5. s \in Seq(Nat \X Nat) /\ Len(s) = m + 1 /\ s # <<>> /\ DOMAIN s = 1..m + 1
  BY <1>1, <1>3
<1>6. s[1] = <<from, j>>
  BY <1>2, <1>3
<1>7. \A k \in 1..m : s[k + 1] = t[k]
  BY <1>3
<1>8. t[1][1] = j + 1 /\ t[m][2] = n /\ j <= n
  <2>1. t[1][1] = j + 1 /\ t[m][2] = n /\ t[1][1] <= t[1][2] /\ t[1][2] <= n
    <3>1. 1 \in DOMAIN t
      BY <1>1
    <3> QED
      BY <1>1, <3>1 DEF Whole
  <2>2. t[1] \in Nat \X Nat
    BY <1>1
  <2>3. t[1][1] \in Nat /\ t[1][2] \in Nat
    BY <2>2
  <2> QED
    BY <2>1, <2>3
<1>9. s[1][1] = from /\ s[Len(s)][2] = n
  <2>1. s[1][1] = from
    BY <1>6
  <2>2. m \in 1..m /\ s[m + 1] = t[m]
    BY <1>1, <1>7
  <2> QED
    BY <1>5, <1>8, <2>1, <2>2
<1>10. ASSUME NEW k \in 1..Len(s) - 1 PROVE s[k][2] + 1 = s[k + 1][1]
  <2>1. CASE k = 1
    BY <1>1, <1>6, <1>7, <1>8, <2>1
  <2>2. CASE k # 1
    <3>1. PICK i \in 1..m - 1 : k = i + 1
      BY <1>5, <2>2
    <3>2. t[i][2] + 1 = t[i + 1][1]
      BY <1>1 DEF Whole
    <3>3. s[k] = t[i] /\ s[k + 1] = t[i + 1]
      BY <1>7, <3>1
    <3> QED
      BY <3>2, <3>3
  <2> QED
    BY <2>1, <2>2
<1>11. ASSUME NEW k \in DOMAIN s PROVE 1 <= s[k][1] /\ s[k][1] <= s[k][2] /\ s[k][2] <= n
  <2>1. CASE k = 1
    BY <1>6, <1>8, <2>1
  <2>2. CASE k # 1
    <3>1. PICK i \in 1..m : k = i + 1
      <4>1. k \in 1..m + 1
        BY <1>5
      <4>2. k - 1 \in 1..m /\ k = (k - 1) + 1
        BY <2>2, <4>1
      <4> QED
        BY <4>2
    <3> QED
      BY <1>1, <1>7, <3>1 DEF Whole
  <2> QED
    BY <2>1, <2>2
<1> QED
  BY <1>2, <1>4, <1>5, <1>9, <1>10, <1>11 DEF Whole

\* The parts of a file are the file, unless the end of a line is looked for without end.
LEMMA SeparateWhole ==
  ASSUME NEW f \in File, Last(SeparateFile(f)) # "none"
  PROVE  Whole(SeparateFile(f), 1, Len(f.lines))
<1>1. PICK part : PartsFrom(f, part) /\ part[0] = SeparateFile(f)
  BY SeparateRun
<1>2. PICK n \in Nat \ {0} : n = Len(f.lines) /\ f.lines \in Seq(Line)
  BY FileType
<1> DEFINE Good(k) == \/ part[k] \in Seq(Piece) /\ part[k] # <<>> /\ part[k][Len(part[k])] = "none"
                      \/ k = n /\ part[k] = <<>>
                      \/ Whole(part[k], k + 1, n)
           G == {k \in 0..n : Good(k)}
<1>3. ASSUME NEW k \in 0..n, \A j \in k + 1..n : j \in G
      PROVE  k \in G
  <2>1. part[k] = IF More(f, k)
              THEN IF Ends(f, k) = {} THEN <<"none">> ELSE <<<<k + 1, EndIn(f, k)>>>> \o part[EndIn(f, k)]
              ELSE IF EndOf(f.lines, k) < EndOf(f.lines, n) THEN <<<<k + 1, n>>>> ELSE <<>>
    BY <1>1, <1>2 DEF PartsFrom
  <2>2. CASE More(f, k) /\ Ends(f, k) = {}
    <3>1. part[k] = <<"none">>
      BY <2>1, <2>2
    <3>2. Len(part[k]) = 1 /\ part[k][1] = "none" /\ part[k] # <<>>
      BY <3>1
    <3>3. part[k] \in Seq(Piece)
      BY <3>1 DEF Piece
    <3>4. Good(k)
      BY <3>2, <3>3
    <3> QED
      BY <3>4
  <2>3. CASE More(f, k) /\ Ends(f, k) # {}
    <3>1. PICK j \in k + 1..n : j = EndIn(f, k)
      BY <1>2, <2>3, EndInIs
    <3>2. part[k] = <<<<k + 1, j>>>> \o part[j]
      BY <2>1, <2>3, <3>1
    <3>3. Good(j)
      BY <1>3
    <3>4. CASE part[j] \in Seq(Piece) /\ part[j] # <<>> /\ part[j][Len(part[j])] = "none"
      <4>1. PICK m \in Nat : m = Len(part[j]) /\ m > 0
        BY <3>4, EmptySeq
      <4>2. PICK x \in Piece : x = <<k + 1, j>>
        <5>1. k + 1 \in Nat /\ j \in Nat
          BY <1>2
        <5> QED
          BY <5>1 DEF Piece
      <4>3. PICK t : t = part[j] /\ t \in Seq(Piece) /\ Len(t) = m /\ t[m] = "none"
        BY <3>4, <4>1
      <4>4. /\ <<x>> \o t \in Seq(Piece) /\ Len(<<x>> \o t) = m + 1
            /\ \A i \in 1..m : (<<x>> \o t)[i + 1] = t[i]
        BY <4>3, InFront
      <4>5. (<<x>> \o t)[m + 1] = "none" /\ <<x>> \o t # <<>>
        BY <4>1, <4>3, <4>4
      <4>6. part[k] = <<x>> \o t
        BY <3>2, <4>2, <4>3
      <4> QED
        BY <4>4, <4>5, <4>6
    <3>5. CASE j = n /\ part[j] = <<>>
      <4>1. part[k] = <<<<k + 1, n>>>>
        BY <3>2, <3>5
      <4>2. Whole(part[k], k + 1, n)
        BY <3>1, <4>1, WholeOfOne
      <4> QED
        BY <4>2
    <3>6. CASE Whole(part[j], j + 1, n)
      <4>1. Whole(<<<<k + 1, j>>>> \o part[j], k + 1, n)
        BY <3>1, <3>6, WholeOfMore
      <4> QED
        BY <3>2, <4>1
    <3> QED
      BY <3>3, <3>4, <3>5, <3>6
  <2>4. CASE ~More(f, k) /\ k # n
    <3>1. EndOf(f.lines, k) < EndOf(f.lines, n)
      BY <1>2, <2>4, EndOfOrder
    <3>2. part[k] = <<<<k + 1, n>>>>
      BY <2>1, <2>4, <3>1
    <3>3. Whole(part[k], k + 1, n)
      BY <2>4, <3>2, WholeOfOne
    <3> QED
      BY <3>3
  <2>5. CASE ~More(f, k) /\ k = n
    <3>1. EndOf(f.lines, k) \in Nat /\ ~(EndOf(f.lines, k) < EndOf(f.lines, n))
      BY <1>2, <2>5, EndOfOrder
    <3>2. part[k] = <<>>
      BY <2>1, <2>5, <3>1
    <3> QED
      BY <2>5, <3>2
  <2> QED
    BY <2>2, <2>3, <2>4, <2>5
<1>4. Good(0)
  <2> HIDE DEF G
  <2>1. \A k \in 0..n : k \in G
    BY <1>3, DownFrom
  <2> USE DEF G
  <2> QED
    BY <2>1
<1>5. part[0] = SeparateFile(f)
  BY <1>1
<1>6. ~(part[0][Len(part[0])] = "none")
  BY <1>5 DEF Last
<1> QED
  BY <1>2, <1>4, <1>5, <1>6

\* The parts lie one behind the other, and every line is in one.
LEMMA PartsOrder ==
  ASSUME NEW s, NEW from, NEW n, Whole(s, from, n)
  PROVE  \A i, j \in DOMAIN s : i < j => s[i][2] < s[j][1]
<1>1. PICK m \in Nat : m = Len(s) /\ DOMAIN s = 1..m
  BY DEF Whole
<1>2. ASSUME NEW k \in 1..m PROVE s[k][1] \in Nat /\ s[k][2] \in Nat /\ s[k][1] <= s[k][2]
  <2>1. k \in DOMAIN s /\ s \in Seq(Nat \X Nat) /\ \A i \in DOMAIN s : s[i][1] <= s[i][2]
    BY <1>1 DEF Whole
  <2>2. s[k] \in Nat \X Nat
    BY <2>1
  <2> QED
    BY <2>1, <2>2
<1>3. ASSUME NEW k \in 1..m - 1 PROVE s[k][2] + 1 = s[k + 1][1]
  BY <1>1 DEF Whole
<1> DEFINE G == {j \in 0..m : \A i \in 1..m : i < j => s[i][2] < s[j][1]}
<1>4. 0 \in G
  OBVIOUS
<1>5. ASSUME NEW j \in 1..m, j - 1 \in G PROVE j \in G
  <2> SUFFICES ASSUME NEW i \in 1..m, i < j PROVE s[i][2] < s[j][1]
    OBVIOUS
  <2>1. j - 1 \in 1..m - 1 /\ s[j - 1][2] + 1 = s[j][1] /\ s[j - 1][1] <= s[j - 1][2]
    <3>1. PICK h \in 1..m - 1 : h = j - 1 /\ h + 1 = j
      OBVIOUS
    <3>2. s[h][2] + 1 = s[h + 1][1] /\ s[h][1] <= s[h][2]
      BY <1>2, <1>3
    <3> QED
      BY <3>1, <3>2
  <2>2. s[j - 1][1] \in Nat /\ s[j - 1][2] \in Nat /\ s[j][1] \in Nat /\ s[i][2] \in Nat
    BY <1>2, <2>1
  <2>3. CASE i = j - 1
    BY <2>1, <2>2, <2>3
  <2>4. CASE i < j - 1
    <3>1. s[i][2] < s[j - 1][1]
      BY <1>5, <2>4
    <3> QED
      BY <2>1, <2>2, <3>1
  <2> QED
    BY <2>3, <2>4
<1>6. \A j \in 0..m : j \in G
  <2> HIDE DEF G
  <2> QED
    BY <1>4, <1>5, UpTo
<1> QED
  BY <1>1, <1>6

LEMMA PartsCover ==
  ASSUME NEW s, NEW n \in Nat, Whole(s, 1, n)
  PROVE  \A x \in 1..n : \E k \in DOMAIN s : s[k][1] <= x /\ x <= s[k][2]
<1>1. PICK m \in Nat : m = Len(s) /\ DOMAIN s = 1..m /\ m > 0
  <2>1. s \in Seq(Nat \X Nat) /\ s # <<>>
    BY DEF Whole
  <2> QED
    BY <2>1, EmptySeq
<1>2. ASSUME NEW k \in 1..m PROVE s[k][1] \in Nat /\ s[k][2] \in Nat
  <2>1. s[k] \in Nat \X Nat
    BY <1>1 DEF Whole
  <2> QED
    BY <2>1
<1>3. ASSUME NEW k \in 1..m - 1 PROVE s[k][2] + 1 = s[k + 1][1]
  BY <1>1 DEF Whole
<1>4. s[1][1] = 1 /\ s[m][2] = n
  BY <1>1 DEF Whole
<1> DEFINE G == {j \in 0..m : \A x \in 1..n : j # 0 /\ x <= s[j][2] => \E k \in 1..m : s[k][1] <= x /\ x <= s[k][2]}
<1>5. 0 \in G
  OBVIOUS
<1>6. ASSUME NEW j \in 1..m, j - 1 \in G PROVE j \in G
  <2> SUFFICES ASSUME NEW x \in 1..n, x <= s[j][2] PROVE \E k \in 1..m : s[k][1] <= x /\ x <= s[k][2]
    OBVIOUS
  <2>1. CASE s[j][1] <= x
    BY <2>1
  <2>2. CASE ~(s[j][1] <= x)
    <3>1. j # 1
      BY <1>4, <2>2
    <3>2. PICK h \in 1..m - 1 : h = j - 1 /\ h + 1 = j
      BY <3>1
    <3>3. s[h][2] + 1 = s[j][1]
      BY <1>3, <3>2
    <3>4. x <= s[h][2]
      <4>1. s[j][1] \in Nat /\ s[h][2] \in Nat
        BY <1>2
      <4> QED
        BY <2>2, <3>3, <4>1
    <3> QED
      BY <1>6, <3>2, <3>4
  <2> QED
    BY <2>1, <2>2
<1>7. \A j \in 0..m : j \in G
  <2> HIDE DEF G
  <2> QED
    BY <1>5, <1>6, UpTo
<1>8. m \in G /\ m # 0
  BY <1>1, <1>7
<1>9. \A x \in 1..n : x <= s[m][2] => \E k \in 1..m : s[k][1] <= x /\ x <= s[k][2]
  BY <1>8
<1>10. \A x \in 1..n : \E k \in 1..m : s[k][1] <= x /\ x <= s[k][2]
  <2> SUFFICES ASSUME NEW x \in 1..n PROVE \E k \in 1..m : s[k][1] <= x /\ x <= s[k][2]
    OBVIOUS
  <2>1. x <= n
    OBVIOUS
  <2>2. x <= s[m][2]
    BY <1>4, <2>1
  <2> HIDE DEF G
  <2> QED
    BY <1>9, <2>2
<1> QED
  <2> HIDE DEF G
  <2> QED
    BY <1>1, <1>10

Different(s) == \A i, j \in DOMAIN s : s[i] = s[j] => i = j

\* As many different numbers up to m as there are are all of them.
LEMMA AllTaken ==
  ASSUME NEW m \in Nat, NEW s \in [1..m -> 1..m], Different(s)
  PROVE  \A k \in 1..m : \E i \in 1..m : s[i] = k
<1>1. s \in Injection(1..m, 1..m)
  BY DEF Injection, IsInjective, Different
<1>2. IsFiniteSet(1..m)
  BY FS_Interval
<1>3. s \in Surjection(1..m, 1..m)
  BY <1>1, <1>2, FS_Injection
<1> QED
  BY <1>3 DEF Surjection

\* t has the lines from lo to hi.
Takes(t, lo, hi) ==
  /\ lo \in Int /\ hi \in Int /\ hi - lo + 1 \in Nat
  /\ Len(t) = hi - lo + 1 /\ t = [k \in 1..Len(t) |-> t[k]]
  /\ \A j \in 1..Len(t) : t[j].line = lo + j - 1

\* The pieces ss have the lines from lo to hi, no two of them the same.
Spans(ss, lo, hi, m) ==
  /\ \A i \in 1..m : Takes(ss[i], lo[i], hi[i])
  /\ \A i, h \in 1..m : i # h => (lo[i] .. hi[i]) \cap (lo[h] .. hi[h]) = {}

LineSet(r) == {r[j].line : j \in 1..Len(r)}
Spanned(lo, hi, i) == {x \in Int : \E h \in 1..i : x \in lo[h] .. hi[h]}

LEMMA LineSetConcat ==
  ASSUME NEW A, NEW r \in Seq(A), NEW t \in Seq(A)
  PROVE  LineSet(r \o t) = LineSet(r) \cup LineSet(t)
<1>1. PICK p \in Nat, q \in Nat : p = Len(r) /\ q = Len(t)
  OBVIOUS
<1>2. PICK u : u = r \o t
  OBVIOUS
<1>3. Len(u) = p + q /\ (\A j \in 1..p : u[j] = r[j]) /\ (\A j \in 1..q : u[p + j] = t[j])
  BY <1>1, <1>2
<1>4. ASSUME NEW j \in 1..p + q PROVE u[j].line \in LineSet(r) \cup LineSet(t)
  <2>1. CASE j \in 1..p
    BY <1>1, <1>3, <2>1 DEF LineSet
  <2>2. CASE j \notin 1..p
    <3>1. PICK i \in 1..q : p + i = j
      <4>1. j - p \in 1..q /\ p + (j - p) = j
        BY <2>2
      <4> QED
        BY <4>1
    <3>2. u[j] = t[i]
      BY <1>3, <3>1
    <3> QED
      BY <1>1, <3>1, <3>2 DEF LineSet
  <2> QED
    BY <2>1, <2>2
<1>5. ASSUME NEW j \in 1..p PROVE r[j].line \in LineSet(u)
  <2>1. j \in 1..p + q /\ u[j] = r[j]
    BY <1>3
  <2> QED
    BY <1>3, <2>1 DEF LineSet
<1>6. ASSUME NEW j \in 1..q PROVE t[j].line \in LineSet(u)
  <2>1. p + j \in 1..p + q /\ u[p + j] = t[j]
    BY <1>3
  <2> QED
    BY <1>3, <2>1 DEF LineSet
<1>7. LineSet(u) \subseteq LineSet(r) \cup LineSet(t)
  <2> SUFFICES ASSUME NEW x \in LineSet(u) PROVE x \in LineSet(r) \cup LineSet(t)
    OBVIOUS
  <2>1. PICK j \in 1..p + q : x = u[j].line
    BY <1>3 DEF LineSet
  <2> QED
    BY <1>4, <2>1
<1>8. LineSet(r) \subseteq LineSet(u) /\ LineSet(t) \subseteq LineSet(u)
  BY <1>1, <1>5, <1>6 DEF LineSet
<1> QED
  BY <1>2, <1>7, <1>8

\* The lines of one piece of a file after another, none of which share a line.
LEMMA LinesFlat ==
  ASSUME NEW A, NEW ss \in Seq(Seq(A)), NEW m \in Nat, m = Len(ss), NEW lo, NEW hi, Spans(ss, lo, hi, m),
         NEW out, out = FlattenSeq(ss)
  PROVE  Len(out) = Cardinality(Spanned(lo, hi, m)) /\ LineSet(out) = Spanned(lo, hi, m) /\ out \in Seq(A)
<1>1. PICK run : /\ run[0] = <<>> /\ run[Len(ss)] = FlattenSeq(ss)
                 /\ \A i \in 0..Len(ss) : run[i] \in Seq(A)
                 /\ \A i \in 1..Len(ss) : run[i] = run[i - 1] \o ss[i]
  BY FlattenRun
<1> DEFINE U(i) == Spanned(lo, hi, i)
           L(r) == LineSet(r)
           G == {i \in 0..m : IsFiniteSet(U(i)) /\ Len(run[i]) = Cardinality(U(i)) /\ L(run[i]) = U(i)}
<1>2. 0 \in G
  <2>0. run[0] = <<>> /\ Len(run[0]) = 0
    BY <1>1
  <2>1. U(0) = {} /\ L(run[0]) = {} /\ Len(run[0]) = 0
    BY <2>0 DEF Spanned, LineSet
  <2>2. IsFiniteSet(U(0)) /\ Cardinality(U(0)) = 0
    <3> HIDE DEF U
    <3> QED
      BY <2>1, FS_EmptySet
  <2> HIDE DEF U, L
  <2>3. L(run[0]) = U(0) /\ Len(run[0]) = Cardinality(U(0))
    BY <2>1, <2>2
  <2>4. 0 \in 0..m
    OBVIOUS
  <2> QED
    BY <2>2, <2>3, <2>4, Zenon
<1>3. ASSUME NEW i \in 1..m, i - 1 \in G PROVE i \in G
  <2>1. PICK r, t : r = run[i - 1] /\ t = ss[i] /\ r \in Seq(A) /\ t \in Seq(A) /\ run[i] = r \o t
    <3>1. i - 1 \in 0..Len(ss) /\ i \in 1..Len(ss)
      OBVIOUS
    <3>2. run[i - 1] \in Seq(A) /\ run[i] = run[i - 1] \o ss[i]
      BY <1>1, <3>1, Zenon
    <3>3. ss[i] \in Seq(A)
      OBVIOUS
    <3> QED
      BY <3>2, <3>3
  <2>2. PICK a \in Int, b \in Int : a = lo[i] /\ b = hi[i]
    BY DEF Spans, Takes
  <2>3. Len(t) = b - a + 1 /\ \A j \in 1..Len(t) : t[j].line = a + j - 1
    <3>1. Takes(t, a, b)
      BY <2>1, <2>2 DEF Spans
    <3> QED
      BY <3>1 DEF Takes
  <2>4. IsFiniteSet(U(i - 1)) /\ Len(r) = Cardinality(U(i - 1)) /\ L(r) = U(i - 1)
    BY <1>3, <2>1
  <2>5. L(t) = a .. b
    <3>1. ASSUME NEW x \in a .. b PROVE x \in L(t)
      <4>1. x - a + 1 \in 1..Len(t) /\ x = a + (x - a + 1) - 1
        BY <2>3
      <4> QED
        BY <2>3, <4>1 DEF LineSet
    <3>2. ASSUME NEW j \in 1..Len(t) PROVE t[j].line \in a .. b
      BY <2>3
    <3> QED
      BY <3>1, <3>2 DEF LineSet
  <2>6. L(r \o t) = L(r) \cup L(t) /\ Len(r \o t) = Len(r) + Len(t)
    BY <2>1, LineSetConcat, ConcatProperties
  <2>7. U(i) = U(i - 1) \cup (a .. b)
    <3>1. ASSUME NEW x \in U(i) PROVE x \in U(i - 1) \cup (a .. b)
      <4>1. PICK h \in 1..i : x \in lo[h] .. hi[h]
        BY DEF Spanned
      <4>2. h = i \/ h \in 1..i - 1
        OBVIOUS
      <4>3. x \in Int
        BY DEF Spanned
      <4> QED
        BY <2>2, <4>1, <4>2, <4>3 DEF Spanned
    <3>2. ASSUME NEW x \in a .. b PROVE x \in U(i)
      BY <2>2 DEF Spanned
    <3>3. U(i - 1) \subseteq U(i)
      BY DEF Spanned
    <3> QED
      BY <3>1, <3>2, <3>3
  <2>8. U(i - 1) \cap (a .. b) = {}
    <3> SUFFICES ASSUME NEW x \in U(i - 1), x \in a .. b PROVE FALSE
      OBVIOUS
    <3>1. PICK h \in 1..i - 1 : x \in lo[h] .. hi[h]
      BY DEF Spanned
    <3>2. h \in 1..m /\ h # i
      BY <3>1
    <3> QED
      BY <2>2, <3>1, <3>2 DEF Spans
  <2>9. IsFiniteSet(a .. b) /\ Cardinality(a .. b) = Len(t)
    <3>1. IsFiniteSet(a .. b) /\ Cardinality(a .. b) = IF a > b THEN 0 ELSE b - a + 1
      BY FS_Interval
    <3>2. Len(t) \in Nat
      BY <2>1
    <3> QED
      BY <2>3, <3>1, <3>2
  <2> HIDE DEF U, L
  <2>10. /\ IsFiniteSet(U(i - 1) \cup (a .. b))
         /\ Cardinality(U(i - 1) \cup (a .. b)) = Cardinality(U(i - 1)) + Cardinality(a .. b) - Cardinality(U(i - 1) \cap (a .. b))
    BY <2>4, <2>9, FS_Union
  <2>11. Cardinality(U(i - 1) \cap (a .. b)) = 0
    BY <2>8, FS_EmptySet
  <2>12. IsFiniteSet(U(i)) /\ Cardinality(U(i)) = Len(run[i])
    <3>1. Len(r) \in Nat /\ Len(t) \in Nat
      BY <2>1
    <3> QED
      BY <2>1, <2>4, <2>6, <2>7, <2>9, <2>10, <2>11, <3>1
  <2>13. L(run[i]) = U(i)
    BY <2>1, <2>4, <2>5, <2>6, <2>7
  <2> QED
    BY <2>12, <2>13
<1>4. m \in G
  <2> HIDE DEF G
  <2>1. \A i \in 0..m : i \in G
    BY <1>2, <1>3, UpTo
  <2> QED
    BY <2>1
<1>5. run[m] = out /\ out \in Seq(A)
  BY <1>1
<1> QED
  BY <1>4, <1>5

\* The lines of a part that a task takes.
LastIn(f, part) == IF part[2] = Len(f.lines) /\ ~f.ended THEN part[2] - 1 ELSE part[2]

LEMMA TaskLines ==
  ASSUME NEW f, NEW part \in Nat \X Nat, part[1] <= part[2], NEW cols, NEW t, t = ColTask(f, part, cols)
  PROVE  Takes(t, part[1], LastIn(f, part))
<1>1. part[1] \in Nat /\ part[2] \in Nat
  OBVIOUS
<1>2. LastIn(f, part) \in Int /\ LastIn(f, part) - part[1] + 1 \in Nat
  BY <1>1 DEF LastIn
<1>3. PICK n \in Nat : n = LastIn(f, part) - part[1] + 1
  BY <1>2
<1> DEFINE rec(k) == [line |-> part[1] + k - 1, cols |-> CropLine(f.lines[part[1] + k - 1], cols)]
<1>4. t = [k \in 1..n |-> rec(k)]
  BY <1>3 DEF ColTask, LastIn
<1>5. \A k \in Nat : rec(k).line = part[1] + k - 1
  OBVIOUS
<1> HIDE DEF rec
<1>6. Len(t) = n /\ \A k \in 1..n : t[k] = rec(k)
  BY <1>4
<1>7. t = [k \in 1..n |-> t[k]]
  BY <1>4
<1>8. ASSUME NEW j \in 1..n PROVE t[j].line = part[1] + j - 1
  <2>1. t[j] = rec(j) /\ j \in Nat
    BY <1>6
  <2>2. rec(j).line = part[1] + j - 1
    BY <1>5, <2>1
  <2> QED
    BY <2>1, <2>2
<1> QED
  BY <1>1, <1>2, <1>3, <1>6, <1>7, <1>8 DEF Takes

\* What is written of a file when its tasks ended in the order done.
TaskOutput(f, parts, done, cols) == FlattenSeq([i \in DOMAIN done |-> ColTask(f, parts[done[i]], cols)])

LEMMA FileWritten ==
  ASSUME NEW f, f.ended \in BOOLEAN, NEW n \in Nat \ {0}, n = Len(f.lines), NEW parts, Whole(parts, 1, n),
         NEW done, done \in Seq(DOMAIN parts), Len(done) = Len(parts),
         Different(done), NEW cols, NEW out,
         out = TaskOutput(f, parts, done, cols)
  PROVE  Len(out) = Lines(f) /\ LineSet(out) = 1 .. Lines(f) /\ DOMAIN out = 1..Len(out)
<1>1. PICK m \in Nat : m = Len(parts) /\ DOMAIN parts = 1..m /\ parts \in Seq(Nat \X Nat)
  BY DEF Whole
<1>2. done \in [1..m -> 1..m] /\ DOMAIN done = 1..m
  BY <1>1
<1>3. \A k \in 1..m : \E i \in 1..m : done[i] = k
  <2>1. PICK s \in [1..m -> 1..m] : s = done /\ Different(s)
    BY <1>2
  <2> QED
    BY <2>1, AllTaken
<1>4. PICK ss : ss = [i \in 1..m |-> ColTask(f, parts[done[i]], cols)] /\ out = FlattenSeq(ss)
  BY <1>2 DEF TaskOutput
<1>5. PICK lo, hi : lo = [i \in 1..m |-> parts[done[i]][1]] /\ hi = [i \in 1..m |-> LastIn(f, parts[done[i]])]
  OBVIOUS
<1>6. ASSUME NEW i \in 1..m
      PROVE  /\ parts[done[i]] \in Nat \X Nat /\ parts[done[i]][1] <= parts[done[i]][2]
             /\ 1 <= parts[done[i]][1] /\ parts[done[i]][2] <= n
  <2>1. PICK k \in 1..m : k = done[i]
    BY <1>2
  <2>2. parts[k] \in Nat \X Nat
    BY <1>1
  <2>3. k \in DOMAIN parts
    BY <1>1
  <2>4. 1 <= parts[k][1] /\ parts[k][1] <= parts[k][2] /\ parts[k][2] <= n
    BY <2>3 DEF Whole
  <2> QED
    BY <2>1, <2>2, <2>4
<1>7. ASSUME NEW i \in 1..m PROVE Takes(ss[i], lo[i], hi[i])
  <2>1. PICK p \in Nat \X Nat : p = parts[done[i]] /\ p[1] <= p[2]
    BY <1>6
  <2>2. PICK t : t = ss[i] /\ t = ColTask(f, p, cols)
    BY <1>4, <2>1
  <2>3. lo[i] = p[1] /\ hi[i] = LastIn(f, p)
    BY <1>5, <2>1
  <2>4. Takes(t, p[1], LastIn(f, p))
    BY <2>1, <2>2, TaskLines
  <2> QED
    BY <2>2, <2>3, <2>4
<1>8. ASSUME NEW i \in 1..m, NEW h \in 1..m, i # h
      PROVE  (lo[i] .. hi[i]) \cap (lo[h] .. hi[h]) = {}
  <2> SUFFICES ASSUME NEW x \in lo[i] .. hi[i], x \in lo[h] .. hi[h] PROVE FALSE
    OBVIOUS
  <2>1. PICK p, q : p = parts[done[i]] /\ q = parts[done[h]]
    OBVIOUS
  <2>2. p[1] \in Nat /\ p[2] \in Nat /\ q[1] \in Nat /\ q[2] \in Nat
    BY <1>6, <2>1
  <2>3. lo[i] = p[1] /\ hi[i] <= p[2] /\ lo[h] = q[1] /\ hi[h] <= q[2]
    <3>1. lo[i] = p[1] /\ hi[i] = LastIn(f, p) /\ lo[h] = q[1] /\ hi[h] = LastIn(f, q)
      BY <1>5, <2>1
    <3>2. LastIn(f, p) <= p[2] /\ LastIn(f, q) <= q[2]
      BY <2>2 DEF LastIn
    <3> QED
      BY <3>1, <3>2
  <2>4. p[2] < q[1] \/ q[2] < p[1]
    <3>1. done[i] \in DOMAIN parts /\ done[h] \in DOMAIN parts /\ done[i] \in Int /\ done[h] \in Int /\ done[i] # done[h]
      <4>1. done[i] \in 1..m /\ done[h] \in 1..m
        BY <1>2
      <4>2. done[i] # done[h]
        BY <1>2, <1>8 DEF Different
      <4>3. done[i] \in DOMAIN parts /\ done[h] \in DOMAIN parts
        BY <1>1, <4>1
      <4>4. done[i] \in Int /\ done[h] \in Int
        BY <4>1
      <4> QED
        BY <4>2, <4>3, <4>4
    <3>2. done[i] < done[h] \/ done[h] < done[i]
      BY <3>1
    <3>3. \A a, b \in DOMAIN parts : a < b => parts[a][2] < parts[b][1]
      BY PartsOrder
    <3> QED
      BY <2>1, <3>1, <3>2, <3>3
  <2>5. x \in Int /\ lo[i] <= x /\ x <= hi[i] /\ lo[h] <= x /\ x <= hi[h] /\ hi[i] \in Int /\ hi[h] \in Int
    <3>1. Takes(ss[i], lo[i], hi[i]) /\ Takes(ss[h], lo[h], hi[h])
      BY <1>7
    <3>2. lo[i] \in Int /\ hi[i] \in Int /\ lo[h] \in Int /\ hi[h] \in Int
      BY <3>1 DEF Takes
    <3> QED
      BY <3>2
  <2> QED
    BY <2>2, <2>3, <2>4, <2>5
<1> DEFINE A == UNION {{ss[i][j] : j \in 1..Len(ss[i])} : i \in 1..m}
<1>9. ss \in Seq(Seq(A)) /\ Len(ss) = m
  <2>1. ASSUME NEW i \in 1..m PROVE ss[i] \in Seq(A)
    <3>1. PICK t : t = ss[i]
      OBVIOUS
    <3>2. PICK l \in Nat : l = Len(t) /\ t = [k \in 1..l |-> t[k]]
      BY <1>7, <3>1 DEF Takes
    <3>3. ASSUME NEW k \in 1..l PROVE t[k] \in A
      BY <3>1, <3>2
    <3> HIDE DEF A
    <3>4. [k \in 1..l |-> t[k]] \in Seq(A)
      BY <3>3
    <3> QED
      BY <3>1, <3>2, <3>4
  <2>2. ss = [i \in 1..m |-> ss[i]]
    BY <1>4
  <2> HIDE DEF A
  <2> QED
    BY <2>1, <2>2
<1>10. Spans(ss, lo, hi, m)
  BY <1>7, <1>8 DEF Spans
<1> HIDE DEF A
<1>11. Len(out) = Cardinality(Spanned(lo, hi, m)) /\ LineSet(out) = Spanned(lo, hi, m) /\ out \in Seq(A)
  BY <1>4, <1>9, <1>10, LinesFlat
<1>12. Spanned(lo, hi, m) = 1 .. Lines(f) /\ Lines(f) \in Nat
  <2>1. Lines(f) = (IF f.ended THEN n ELSE n - 1) /\ Lines(f) \in Nat
    BY DEF Lines
  <2>2. ASSUME NEW x \in Spanned(lo, hi, m) PROVE x \in 1 .. Lines(f)
    <3>1. PICK i \in 1..m : x \in Int /\ x \in lo[i] .. hi[i]
      BY DEF Spanned
    <3>2. PICK p \in Nat \X Nat : p = parts[done[i]] /\ 1 <= p[1] /\ p[2] <= n
      BY <1>6
    <3>3. p[1] \in Nat /\ p[2] \in Nat /\ lo[i] = p[1] /\ hi[i] = LastIn(f, p)
      BY <1>5, <3>2
    <3>4. LastIn(f, p) <= Lines(f) /\ LastIn(f, p) \in Int
      <4>1. CASE f.ended
        BY <2>1, <3>2, <3>3, <4>1 DEF LastIn
      <4>2. CASE ~f.ended
        <5>1. Lines(f) = n - 1
          BY <2>1, <4>2
        <5>2. CASE p[2] = n
          <6>1. LastIn(f, p) = n - 1
            BY <4>2, <5>2 DEF LastIn
          <6> QED
            BY <5>1, <6>1
        <5>3. CASE p[2] # n
          <6>1. LastIn(f, p) = p[2]
            BY <5>3 DEF LastIn
          <6>2. PICK q \in Nat : q = p[2]
            BY <3>3
          <6>3. q <= n /\ q # n
            BY <3>2, <5>3, <6>2
          <6>4. q <= n - 1
            BY <6>3
          <6> QED
            BY <5>1, <6>1, <6>2, <6>4
        <5> QED
          BY <5>2, <5>3
      <4> QED
        BY <4>1, <4>2
    <3>5. PICK a, c, d : a = p[1] /\ c = LastIn(f, p) /\ d = Lines(f)
      OBVIOUS
    <3>6. a \in Nat /\ c \in Int /\ d \in Nat /\ 1 <= a /\ c <= d /\ x \in a .. c
      BY <2>1, <3>1, <3>2, <3>3, <3>4, <3>5
    <3>7. x \in 1 .. d
      BY <3>6
    <3> QED
      BY <3>5, <3>7
  <2>3. ASSUME NEW x \in 1 .. Lines(f) PROVE x \in Spanned(lo, hi, m)
    <3>1. x \in 1..n
      BY <2>1
    <3>2. PICK k \in 1..m : parts[k][1] <= x /\ x <= parts[k][2]
      BY <1>1, <3>1, PartsCover
    <3>3. PICK i \in 1..m : done[i] = k
      BY <1>3
    <3>4. PICK p \in Nat \X Nat : p = parts[k] /\ p = parts[done[i]]
      BY <1>6, <3>3
    <3>5. p[1] \in Nat /\ p[2] \in Nat /\ lo[i] = p[1] /\ hi[i] = LastIn(f, p)
      BY <1>5, <3>4
    <3>6. x <= LastIn(f, p) /\ p[1] <= x /\ LastIn(f, p) \in Int
      <4>1. PICK q \in Nat : q = p[2]
        BY <3>4
      <4>2. p[1] <= x /\ x <= q /\ x \in Int
        BY <3>2, <3>4, <4>1
      <4>3. CASE q = Len(f.lines) /\ ~f.ended
        <5>1. LastIn(f, p) = q - 1
          BY <4>1, <4>3 DEF LastIn
        <5>2. x # q
          BY <2>1, <4>3
        <5> QED
          BY <4>2, <5>1, <5>2
      <4>4. CASE ~(q = Len(f.lines) /\ ~f.ended)
        <5>1. LastIn(f, p) = q
          BY <4>1, <4>4 DEF LastIn
        <5> QED
          BY <4>2, <5>1
      <4> QED
        BY <4>3, <4>4
    <3>7. x \in lo[i] .. hi[i] /\ x \in Int
      BY <3>5, <3>6
    <3> QED
      BY <3>7 DEF Spanned
  <2> QED
    BY <2>1, <2>2, <2>3
<1>13. Cardinality(1 .. Lines(f)) = Lines(f)
  BY <1>12, FS_Interval
<1> QED
  BY <1>11, <1>12, <1>13

LEMMA NoPoolTasks == pool' = NoPool => TasksOnce'
<1> SUFFICES ASSUME pool' = NoPool PROVE TasksOnce'
  OBVIOUS
<1>1. pool'.waiting = <<>> /\ pool'.running = {} /\ pool'.ended = <<>> /\ pool'.results = <<>>
  BY DEF NoPool
<1>2. <<>> \o <<>> = <<>> /\ DOMAIN <<>> = {} /\ \A S : <<>> \in Seq(S)
  OBVIOUS
<1> QED
  BY <1>1, <1>2 DEF TasksOnce

LEMMA NoPoolType == NoPool \in [waiting : Seq(Nat), running : SUBSET Nat, ended : Seq(Nat), results : Seq(Nat)]
BY DEF NoPool

LEMMA CropInitIInv == CropInit => CropIInv
<1> SUFFICES ASSUME CropInit PROVE CropIInv
  OBVIOUS
<1>1. PICK S : S = {n \in DOMAIN Directory : Selected(Directory[n], job)}
  OBVIOUS
<1>2. PICK left \in SetToSeqs(S) : crop = [pc |-> "files", faults |-> 0, parts |-> <<>>, left |-> left]
  BY <1>1 DEF CropInit
<1>3. job \in CropJobs /\ pool = NoPool /\ written = [out |-> [n \in DOMAIN Directory |-> <<>>], names |-> <<>>, zip |-> <<>>]
  BY DEF CropInit
<1>4. left \in Seq(DOMAIN Directory)
  <2>1. S \in SUBSET DOMAIN Directory
    BY <1>1
  <2>2. IsFiniteSet(S)
    BY <2>1, CropAssumption, FS_Subset
  <2>3. PICK c \in Nat : c = Cardinality(S)
    BY <2>2, FS_CardinalityType
  <2>4. left \in [1..c -> S]
    BY <1>2, <2>3 DEF SetToSeqs
  <2>5. left \in [1..c -> DOMAIN Directory]
    BY <2>1, <2>4
  <2> QED
    BY <2>5
<1>5. crop.pc = "files" /\ crop.parts = <<>> /\ crop.left = left /\ crop.faults = 0
  BY <1>2
<1>6. crop \in [pc : {"files", "uv_run", "searching", "failed", "done"}, faults : Nat,
                left : Seq(DOMAIN Directory), parts : Seq(Nat \X Nat)]
  BY <1>2, <1>4
<1>7. pool.waiting = <<>> /\ pool.running = {} /\ pool.ended = <<>> /\ pool.results = <<>>
  BY <1>3 DEF NoPool
<1>8. CropState
  <2>1. written.names \in Seq(DOMAIN Directory) /\ DOMAIN written.out = DOMAIN Directory /\ DOMAIN written = {"out", "names", "zip"}
    BY <1>3
  <2>2. pool \in [waiting : Seq(Nat), running : SUBSET Nat, ended : Seq(Nat), results : Seq(Nat)]
    BY <1>3, NoPoolType
  <2> QED
    BY <1>3, <1>5, <1>6, <2>1, <2>2 DEF CropState
<1>9. TasksOnce
  <2>1. <<>> \o <<>> = <<>> /\ DOMAIN <<>> = {} /\ \A T : <<>> \in Seq(T)
    OBVIOUS
  <2> QED
    BY <1>7, <2>1 DEF TasksOnce
<1>10. PartsWhole
  BY <1>5 DEF PartsWhole
<1>11. EveryLineOnce
  <2>1. written.names = <<>> /\ DOMAIN <<>> = {}
    BY <1>3
  <2> QED
    BY <2>1 DEF EveryLineOnce
<1> QED
  BY <1>8, <1>9, <1>10, <1>11 DEF CropIInv

\* What the parts of a program at work are.
LEMMA PartsAre ==
  ASSUME CropIInv, crop.pc = "uv_run"
  PROVE  \E f : \E n \in Nat \ {0} :
            /\ f = Directory[Head(crop.left)] /\ n = Len(f.lines) /\ f.ended \in BOOLEAN
            /\ f.lines \in Seq(Line) /\ Whole(crop.parts, 1, n)
<1>1. PICK f, parts : f = Directory[Head(crop.left)] /\ parts = crop.parts
  OBVIOUS
<1>2. crop.left # <<>> /\ parts # <<>> /\ crop.left \in Seq(DOMAIN Directory) /\ parts \in Seq(Nat \X Nat)
  BY <1>1 DEF CropIInv, CropState
<1>3. Head(crop.left) \in DOMAIN Directory
  BY <1>2, EmptySeq
<1>4. f.lines \in Seq(Line) /\ f.ended \in BOOLEAN
  BY <1>1, <1>3, CropAssumption
<1>5. PICK n \in Nat : n = Len(f.lines)
  BY <1>4
<1>6. PICK m \in Nat : m = Len(parts) /\ m > 0 /\ DOMAIN parts = 1..m
  BY <1>2, EmptySeq
<1>7. /\ parts[1][1] = 1 /\ parts[m][2] = n
      /\ \A k \in 1 .. m - 1 : parts[k][2] + 1 = parts[k + 1][1]
      /\ \A k \in 1 .. m : parts[k][1] <= parts[k][2]
  <2>1. PartsWhole
    BY DEF CropIInv
  <2>2. /\ parts[1][1] = 1 /\ Last(parts)[2] = n
        /\ \A k \in 1 .. Len(parts) - 1 : parts[k][2] + 1 = parts[k + 1][1]
        /\ \A k \in DOMAIN parts : parts[k][1] <= parts[k][2]
    BY <1>1, <1>2, <1>5, <2>1 DEF PartsWhole
  <2> QED
    BY <1>6, <2>2 DEF Last
<1>8. \A k \in 1..m : parts[k][1] \in Nat /\ parts[k][2] \in Nat
  BY <1>2, <1>6
<1> DEFINE G == {j \in 0..m : j # 0 => 1 <= parts[j][1] /\ \A i \in 1..j : parts[i][2] <= parts[j][2]}
<1>9. ASSUME NEW j \in 1..m, j - 1 \in G PROVE j \in G
  <2>1. parts[j][1] \in Nat /\ parts[j][2] \in Nat /\ parts[j][1] <= parts[j][2]
    BY <1>7, <1>8
  <2>2. CASE j = 1
    BY <1>7, <2>1, <2>2
  <2>3. CASE j # 1
    <3>1. PICK h \in 1..m - 1 : h = j - 1 /\ h + 1 = j
      BY <2>3
    <3>2. parts[h][2] + 1 = parts[j][1] /\ parts[h][1] <= parts[h][2] /\ parts[h][1] \in Nat /\ parts[h][2] \in Nat
      BY <1>7, <1>8, <3>1
    <3>3. 1 <= parts[h][1] /\ \A i \in 1..h : parts[i][2] <= parts[h][2]
      BY <1>9, <3>1
    <3>4. 1 <= parts[j][1] /\ parts[h][2] <= parts[j][2]
      BY <2>1, <3>2, <3>3
    <3>5. ASSUME NEW i \in 1..j PROVE parts[i][2] <= parts[j][2]
      <4>1. CASE i = j
        BY <2>1, <4>1
      <4>2. CASE i # j
        <5>1. i \in 1..h
          BY <3>1, <4>2
        <5>2. parts[i][2] <= parts[h][2] /\ parts[i][2] \in Nat
          BY <1>8, <3>3, <5>1
        <5> QED
          BY <2>1, <3>2, <3>4, <5>2
      <4> QED
        BY <4>1, <4>2
    <3> QED
      BY <3>4, <3>5
  <2> QED
    BY <2>2, <2>3
<1>10. \A j \in 0..m : j \in G
  <2>1. 0 \in G
    OBVIOUS
  <2> HIDE DEF G
  <2> QED
    BY <1>9, <2>1, UpTo
<1>11. \A k \in 1..m : 1 <= parts[k][1] /\ parts[k][2] <= n
  <2>1. m \in G /\ m # 0
    BY <1>6, <1>10
  <2>2. \A k \in 1..m : k \in G /\ k # 0
    BY <1>10
  <2> QED
    BY <1>7, <2>1, <2>2
<1>12. Whole(parts, 1, n)
  BY <1>2, <1>6, <1>7, <1>11 DEF Whole
<1>13. n # 0
  <2>1. parts[1][1] = 1 /\ parts[1][1] <= parts[1][2] /\ parts[1][2] <= n /\ parts[1][2] \in Nat
    <3>1. 1 \in 1..m
      BY <1>6
    <3> QED
      BY <1>7, <1>8, <1>11, <3>1
  <2> QED
    BY <2>1
<1> QED
  BY <1>1, <1>4, <1>5, <1>12, <1>13

\* What EveryLineOnce says of the files written and of what was written of them.
OutputWhole(names, outs) ==
    \A k \in DOMAIN names :
        LET n == names[k]
            out == outs[n]
        IN  /\ Len(out) = Lines(Directory[n])
            /\ {out[i].line : i \in DOMAIN out} = 1 .. Lines(Directory[n])

LEMMA SameWritten ==
  ASSUME EveryLineOnce, written'.names = written.names, written'.out = written.out
  PROVE  EveryLineOnce'
<1>1. OutputWhole(written.names, written.out)
  BY Zenon DEF EveryLineOnce, OutputWhole
<1>2. OutputWhole(written'.names, written'.out)
  BY <1>1, Zenon
<1> QED
  BY <1>2, Zenon DEF EveryLineOnce, OutputWhole

LEMMA NoParts == ASSUME crop'.parts = <<>> PROVE PartsWhole'
BY DEF PartsWhole

\* A step that neither separates nor takes a task.
LEMMA IdleIInv ==
  ASSUME CropIInv, OpenFails \/ ZipFiles \/ (OpenFile /\ Last(SeparateFile(Directory[Head(crop.left)])) = "none")
  PROVE  CropIInv'
<1>1. CropState /\ EveryLineOnce
  BY DEF CropIInv
<1>2. /\ job \in CropJobs /\ crop.pc = "files" /\ crop.parts = <<>> /\ pool = NoPool
      /\ crop \in [pc : {"files", "uv_run", "searching", "failed", "done"}, faults : Nat,
                   left : Seq(DOMAIN Directory), parts : Seq(Nat \X Nat)]
      /\ written.names \in Seq(DOMAIN Directory) /\ DOMAIN written.out = DOMAIN Directory
      /\ DOMAIN written = {"out", "names", "zip"}
  BY <1>1 DEF CropState, OpenFails, ZipFiles, OpenFile
<1>3. job' = job /\ pool' = pool
  BY DEF OpenFails, ZipFiles, OpenFile
<1>4. /\ crop' \in [pc : {"files", "uv_run", "searching", "failed", "done"}, faults : Nat,
                    left : Seq(DOMAIN Directory), parts : Seq(Nat \X Nat)]
      /\ crop'.pc # "uv_run" /\ crop'.parts = <<>>
  <2>1. CASE OpenFails
    <3>1. PICK n \in Nat : crop' = [crop EXCEPT !.pc = "failed", !.faults = n]
      <4>1. crop.faults + 1 \in Nat
        BY <1>2
      <4>2. crop' = [crop EXCEPT !.pc = "failed", !.faults = crop.faults + 1]
        BY <2>1 DEF OpenFails
      <4> QED
        BY <4>1, <4>2
    <3> QED
      BY <1>2, <3>1
  <2>2. CASE ZipFiles
    <3>1. PICK pc \in {"failed", "done"} : crop' = [crop EXCEPT !.pc = pc]
      BY <2>2 DEF ZipFiles
    <3> QED
      BY <1>2, <3>1
  <2>3. CASE OpenFile /\ Last(SeparateFile(Directory[Head(crop.left)])) = "none"
    <3>1. crop' = [crop EXCEPT !.pc = "searching"]
      BY <2>3 DEF OpenFile
    <3> QED
      BY <1>2, <3>1
  <2> QED
    BY <2>1, <2>2, <2>3
<1>5. written'.names = written.names /\ written'.out = written.out /\ DOMAIN written' = DOMAIN written
  <2>1. CASE ZipFiles
    <3>1. PICK z : written' = [written EXCEPT !.zip = z]
      BY <2>1, Zenon DEF ZipFiles
    <3>2. "zip" \in DOMAIN written
      BY <1>2
    <3> QED
      BY <1>2, <3>1
  <2>2. CASE ~ZipFiles
    <3>1. written' = written
      BY <2>2 DEF OpenFails, OpenFile
    <3> QED
      BY <3>1
  <2> QED
    BY <2>1, <2>2
<1>6. CropState'
  <2>1. pool' \in [waiting : Seq(Nat), running : SUBSET Nat, ended : Seq(Nat), results : Seq(Nat)] /\ pool' = NoPool
    BY <1>2, <1>3, NoPoolType
  <2> QED
    BY <1>2, <1>3, <1>4, <1>5, <2>1 DEF CropState
<1>7. TasksOnce'
  BY <1>2, <1>3, NoPoolTasks
<1>8. PartsWhole'
  BY <1>4, NoParts
<1>9. EveryLineOnce'
  BY <1>1, <1>5, SameWritten
<1> QED
  BY <1>6, <1>7, <1>8, <1>9 DEF CropIInv

LEMMA OpenFileIInv ==
  ASSUME CropIInv, OpenFile, Last(SeparateFile(Directory[Head(crop.left)])) # "none"
  PROVE  CropIInv'
<1>1. CropState /\ EveryLineOnce
  BY DEF CropIInv
<1>2. /\ job \in CropJobs /\ crop.pc = "files" /\ crop.left # <<>>
      /\ crop \in [pc : {"files", "uv_run", "searching", "failed", "done"}, faults : Nat,
                   left : Seq(DOMAIN Directory), parts : Seq(Nat \X Nat)]
      /\ written.names \in Seq(DOMAIN Directory) /\ DOMAIN written.out = DOMAIN Directory
      /\ DOMAIN written = {"out", "names", "zip"}
  BY <1>1 DEF CropState, OpenFile
<1>3. PICK f, parts : f = Directory[Head(crop.left)] /\ parts = SeparateFile(f)
  OBVIOUS
<1>4. job' = job /\ written' = written /\ crop' = [crop EXCEPT !.pc = "uv_run", !.parts = parts]
  BY <1>3 DEF OpenFile
<1>5. pool' = [NoPool EXCEPT !.waiting = [k \in DOMAIN parts |-> k]]
  BY <1>3 DEF OpenFile
<1>6. f \in File
  <2>1. Head(crop.left) \in DOMAIN Directory
    BY <1>2, EmptySeq
  <2>2. f.lines # <<>>
    BY <1>3 DEF OpenFile
  <2> QED
    BY <1>3, <2>1, <2>2 DEF File
<1>7. Whole(parts, 1, Len(f.lines))
  BY <1>3, <1>6, SeparateWhole
<1>8. PICK m \in Nat : m = Len(parts) /\ m > 0 /\ DOMAIN parts = 1..m /\ parts \in Seq(Nat \X Nat) /\ parts # <<>>
  <2>1. parts \in Seq(Nat \X Nat) /\ parts # <<>>
    BY <1>7 DEF Whole
  <2> QED
    BY <2>1, EmptySeq
<1>9. /\ crop' \in [pc : {"files", "uv_run", "searching", "failed", "done"}, faults : Nat,
                    left : Seq(DOMAIN Directory), parts : Seq(Nat \X Nat)]
      /\ crop'.pc = "uv_run" /\ crop'.parts = parts /\ crop'.left = crop.left
  BY <1>2, <1>4, <1>8
<1>10. PICK all : all = [k \in 1..m |-> k]
  OBVIOUS
<1>11. pool' = [waiting |-> all, running |-> {}, ended |-> <<>>, results |-> <<>>]
  BY <1>5, <1>8, <1>10 DEF NoPool
<1>12. all \in Seq(Nat) /\ all \in Seq(1..m) /\ DOMAIN all = 1..m /\ \A k \in 1..m : all[k] = k
  BY <1>10
<1>13. CropState'
  <2>1. pool' \in [waiting : Seq(Nat), running : SUBSET Nat, ended : Seq(Nat), results : Seq(Nat)]
    BY <1>11, <1>12
  <2> QED
    BY <1>2, <1>4, <1>8, <1>9, <2>1 DEF CropState
<1>14. TasksOnce'
  <2>1. pool'.waiting = all /\ pool'.running = {} /\ pool'.ended = <<>> /\ pool'.results = <<>>
    BY <1>11
  <2>2. <<>> \o <<>> = <<>> /\ DOMAIN <<>> = {} /\ \A T : <<>> \in Seq(T)
    OBVIOUS
  <2> QED
    BY <1>8, <1>9, <1>12, <2>1, <2>2 DEF TasksOnce
<1>15. PartsWhole'
  <2>1. Directory[Head(crop'.left)] = f
    BY <1>3, <1>9
  <2>2. /\ parts[1][1] = 1 /\ Last(parts)[2] = Len(f.lines)
        /\ \A k \in 1 .. Len(parts) - 1 : parts[k][2] + 1 = parts[k + 1][1]
        /\ \A k \in DOMAIN parts : parts[k][1] <= parts[k][2]
    BY <1>7 DEF Whole, Last
  <2> QED
    BY <1>9, <2>1, <2>2 DEF PartsWhole
<1>16. EveryLineOnce'
  BY <1>1, <1>4, SameWritten
<1> QED
  BY <1>13, <1>14, <1>15, <1>16 DEF CropIInv

\* A step of the pool leaves the program and its files alone.
LEMMA PoolSteps ==
  ASSUME CropIInv, job' = job, crop' = crop, written' = written, TasksOnce', crop.pc = "uv_run",
         pool' \in [waiting : Seq(Nat), running : SUBSET Nat, ended : Seq(Nat), results : Seq(Nat)]
  PROVE  CropIInv'
<1>1. CropState'
  BY DEF CropIInv, CropState
<1>2. PartsWhole'
  BY DEF CropIInv, PartsWhole
<1>3. EveryLineOnce'
  BY SameWritten DEF CropIInv
<1> QED
  BY <1>1, <1>2, <1>3 DEF CropIInv

\* TasksOnce of what waits, runs, has ended and is taken.
Once(w, running, e, r, D) ==
  LET done == r \o e
  IN  /\ w \in Seq(D) /\ running \in SUBSET D
      /\ e \in Seq(D) /\ r \in Seq(D)
      /\ \A i, j \in DOMAIN w : w[i] = w[j] => i = j
      /\ \A i, j \in DOMAIN done : done[i] = done[j] => i = j
      /\ \A i \in DOMAIN w : w[i] \notin running
      /\ \A i \in DOMAIN done : done[i] \notin running
      /\ \A i \in DOMAIN done, j \in DOMAIN w : done[i] # w[j]

LEMMA OnceIs ==
  /\ TasksOnce <=> Once(pool.waiting, pool.running, pool.ended, pool.results, DOMAIN crop.parts)
  /\ TasksOnce' <=> Once(pool'.waiting, pool'.running, pool'.ended, pool'.results, DOMAIN crop'.parts)
BY DEF TasksOnce, Once

LEMMA StartWorkIInv ==
  ASSUME CropIInv, StartWork
  PROVE  CropIInv'
<1>1. CropState /\ TasksOnce
  BY DEF CropIInv
<1>2. PICK w, e, r, n : w = pool.waiting /\ e = pool.ended /\ r = pool.results /\ n = Head(w)
  OBVIOUS
<1>3. PICK D : D = DOMAIN crop.parts
  OBVIOUS
<1>4. PICK m \in Nat : w \in Seq(D) /\ w \in Seq(Nat) /\ m = Len(w) /\ DOMAIN w = 1..m /\ m > 0 /\ n = w[1] /\ n \in D /\ n \in Nat
  <2>1. w \in Seq(D) /\ w # <<>> /\ w \in Seq(Nat)
    BY <1>1, <1>2, <1>3 DEF StartWork, TasksOnce, CropState
  <2> QED
    BY <1>2, <2>1, EmptySeq
<1>5. pool \in [waiting : Seq(Nat), running : SUBSET Nat, ended : Seq(Nat), results : Seq(Nat)]
  BY <1>1 DEF CropState
<1>6. PICK t : t = Tail(w)
  OBVIOUS
<1>7. t \in Seq(D) /\ t \in Seq(Nat) /\ DOMAIN t = 1..m - 1 /\ \A i \in 1..m - 1 : t[i] = w[i + 1]
  BY <1>4, <1>6
<1>8. pool' = [pool EXCEPT !.waiting = t, !.running = pool.running \cup {n}]
  BY <1>2, <1>6 DEF StartWork
<1>9. /\ pool' \in [waiting : Seq(Nat), running : SUBSET Nat, ended : Seq(Nat), results : Seq(Nat)]
      /\ pool'.waiting = t /\ pool'.running = pool.running \cup {n} /\ pool'.ended = e /\ pool'.results = r
  BY <1>2, <1>4, <1>5, <1>7, <1>8
<1>10. job' = job /\ crop' = crop /\ written' = written
  BY DEF StartWork
<1>11. PICK done : done = r \o e
  OBVIOUS
<1>12. /\ e \in Seq(D) /\ r \in Seq(D) /\ pool.running \in SUBSET D
       /\ \A i, j \in DOMAIN w : w[i] = w[j] => i = j
       /\ \A i, j \in DOMAIN done : done[i] = done[j] => i = j
       /\ \A i \in DOMAIN w : w[i] \notin pool.running
       /\ \A i \in DOMAIN done : done[i] \notin pool.running
       /\ \A i \in DOMAIN done, j \in DOMAIN w : done[i] # w[j]
  BY <1>1, <1>2, <1>3, <1>11 DEF TasksOnce
<1>13. /\ \A i, j \in DOMAIN t : t[i] = t[j] => i = j
       /\ \A i \in DOMAIN t : t[i] \notin pool.running \cup {n}
       /\ \A i \in DOMAIN done : done[i] \notin pool.running \cup {n}
       /\ \A i \in DOMAIN done, j \in DOMAIN t : done[i] # t[j]
  <2>1. ASSUME NEW i \in 1..m - 1
        PROVE  i + 1 \in DOMAIN w /\ t[i] = w[i + 1] /\ t[i] # n
    <3>1. i + 1 \in DOMAIN w /\ t[i] = w[i + 1] /\ 1 \in DOMAIN w /\ i + 1 # 1
      BY <1>4, <1>7
    <3>2. w[i + 1] # w[1]
      BY <1>12, <3>1
    <3> QED
      BY <1>4, <3>1, <3>2
  <2>2. 1 \in DOMAIN w /\ DOMAIN t = 1..m - 1
    BY <1>4, <1>7
  <2>3. ASSUME NEW i \in DOMAIN t, NEW j \in DOMAIN t, t[i] = t[j] PROVE i = j
    <3>1. i + 1 = j + 1 /\ i \in Int /\ j \in Int
      BY <1>12, <2>1, <2>2, <2>3
    <3> QED
      BY <3>1
  <2>4. ASSUME NEW i \in DOMAIN t PROVE t[i] \notin pool.running \cup {n}
    BY <1>12, <2>1, <2>2
  <2>5. ASSUME NEW i \in DOMAIN done PROVE done[i] \notin pool.running \cup {n}
    BY <1>4, <1>12, <2>2
  <2>6. ASSUME NEW i \in DOMAIN done, NEW j \in DOMAIN t PROVE done[i] # t[j]
    BY <1>12, <2>1, <2>2
  <2> QED
    BY <2>3, <2>4, <2>5, <2>6
<1>14. TasksOnce'
  <2>1. pool.running \cup {n} \in SUBSET D
    BY <1>4, <1>12
  <2>2. Once(t, pool.running \cup {n}, e, r, D)
    BY <1>7, <1>11, <1>12, <1>13, <2>1 DEF Once
  <2> QED
    BY <1>3, <1>9, <1>10, <2>2, OnceIs
<1>15. crop.pc = "uv_run"
  <2>1. pool.waiting # <<>>
    BY DEF StartWork
  <2> QED
    BY <1>1, <2>1 DEF CropState, NoPool
<1> QED
  BY <1>9, <1>10, <1>14, <1>15, PoolSteps

LEMMA EndWorkIInv ==
  ASSUME CropIInv, NEW k, EndWork(k)
  PROVE  CropIInv'
<1>1. CropState /\ TasksOnce
  BY DEF CropIInv
<1>2. PICK w, e, r : w = pool.waiting /\ e = pool.ended /\ r = pool.results
  OBVIOUS
<1>3. PICK D : D = DOMAIN crop.parts
  OBVIOUS
<1>4. PICK done : done = r \o e
  OBVIOUS
<1>5. pool \in [waiting : Seq(Nat), running : SUBSET Nat, ended : Seq(Nat), results : Seq(Nat)]
  BY <1>1 DEF CropState
<1>6. /\ w \in Seq(D) /\ e \in Seq(D) /\ r \in Seq(D) /\ pool.running \in SUBSET D
      /\ \A i, j \in DOMAIN w : w[i] = w[j] => i = j
      /\ \A i, j \in DOMAIN done : done[i] = done[j] => i = j
      /\ \A i \in DOMAIN w : w[i] \notin pool.running
      /\ \A i \in DOMAIN done : done[i] \notin pool.running
      /\ \A i \in DOMAIN done, j \in DOMAIN w : done[i] # w[j]
  BY <1>1, <1>2, <1>3, <1>4 DEF TasksOnce
<1>7. k \in pool.running /\ k \in D /\ k \in Nat
  BY <1>5, <1>6 DEF EndWork
<1>8. PICK f : f = Append(e, k)
  OBVIOUS
<1>9. f \in Seq(D) /\ f \in Seq(Nat)
  BY <1>2, <1>5, <1>6, <1>7, <1>8
<1>10. pool' = [pool EXCEPT !.running = pool.running \ {k}, !.ended = f]
  BY <1>2, <1>8 DEF EndWork
<1>11. /\ pool' \in [waiting : Seq(Nat), running : SUBSET Nat, ended : Seq(Nat), results : Seq(Nat)]
       /\ pool'.waiting = w /\ pool'.running = pool.running \ {k} /\ pool'.ended = f /\ pool'.results = r
  BY <1>2, <1>5, <1>9, <1>10
<1>12. job' = job /\ crop' = crop /\ written' = written
  BY DEF EndWork
<1>13. PICK now, m : m \in Nat /\ now = r \o f /\ now \in Seq(D) /\ m = Len(done) /\ DOMAIN done = 1..m /\ DOMAIN now = 1..m + 1
                             /\ now[m + 1] = k /\ \A i \in 1..m : now[i] = done[i]
  <2>1. PICK now : now = r \o f
    OBVIOUS
  <2>2. PICK p \in Nat, q \in Nat : p = Len(r) /\ q = Len(e)
    BY <1>6
  <2>3. Len(f) = q + 1 /\ f[q + 1] = k /\ \A i \in 1..q : f[i] = e[i]
    BY <1>6, <1>8, <2>2
  <2>4. now \in Seq(D) /\ Len(now) = p + (q + 1) /\ (\A i \in 1..p : now[i] = r[i]) /\ \A i \in 1..q + 1 : now[p + i] = f[i]
    <3>1. r \in Seq(D) /\ f \in Seq(D) /\ Len(f) = q + 1
      BY <1>6, <1>9, <2>3
    <3>2. PICK l : l = q + 1
      OBVIOUS
    <3>3. l = Len(f) /\ p = Len(r)
      BY <2>2, <3>1, <3>2
    <3>4. /\ r \o f \in Seq(D) /\ Len(r \o f) = p + l
          /\ (\A i \in 1..p : (r \o f)[i] = r[i]) /\ \A i \in 1..l : (r \o f)[p + i] = f[i]
      BY <3>1, <3>3, Behind
    <3> QED
      BY <2>1, <3>2, <3>4
  <2>5. done \in Seq(D) /\ Len(done) = p + q /\ (\A i \in 1..p : done[i] = r[i]) /\ \A i \in 1..q : done[p + i] = e[i]
    BY <1>4, <1>6, <2>2
  <2>6. now[(p + q) + 1] = k
    <3>1. q + 1 \in 1..q + 1 /\ p + (q + 1) = (p + q) + 1
      OBVIOUS
    <3>2. now[p + (q + 1)] = f[q + 1]
      BY <2>4, <3>1
    <3> QED
      BY <2>3, <3>1, <3>2
  <2>7. ASSUME NEW i \in 1..p + q PROVE now[i] = done[i]
    <3>1. CASE i \in 1..p
      BY <2>4, <2>5, <3>1
    <3>2. CASE i \notin 1..p
      <4>1. PICK j \in 1..q : i = p + j
        <5>1. i - p \in 1..q /\ i = p + (i - p)
          BY <3>2
        <5> QED
          BY <5>1
      <4> QED
        BY <2>3, <2>4, <2>5, <4>1
    <3> QED
      BY <3>1, <3>2
  <2>8. p + q \in Nat /\ DOMAIN done = 1..p + q /\ DOMAIN now = 1..(p + q) + 1
    BY <2>4, <2>5
  <2>9. PICK m \in Nat : m = p + q
    OBVIOUS
  <2>10. m \in Nat /\ now = r \o f /\ now \in Seq(D) /\ m = Len(done) /\ DOMAIN done = 1..m /\ DOMAIN now = 1..m + 1
         /\ now[m + 1] = k /\ \A i \in 1..m : now[i] = done[i]
    BY <2>1, <2>4, <2>5, <2>6, <2>7, <2>8, <2>9
  <2> QED
    BY <2>10
<1>14. /\ \A i, j \in DOMAIN now : now[i] = now[j] => i = j
       /\ \A i \in DOMAIN w : w[i] \notin pool.running \ {k}
       /\ \A i \in DOMAIN now : now[i] \notin pool.running \ {k}
       /\ \A i \in DOMAIN now, j \in DOMAIN w : now[i] # w[j]
  <2>1. \A i \in 1..m : done[i] # k
    BY <1>6, <1>7, <1>13
  <2>2. \A i \in 1..m + 1 : i \in 1..m \/ i = m + 1
    BY <1>13
  <2>3. ASSUME NEW i \in DOMAIN now, NEW j \in DOMAIN now, now[i] = now[j] PROVE i = j
    <3>1. CASE i \in 1..m /\ j \in 1..m
      BY <1>6, <1>13, <2>3, <3>1
    <3>2. CASE i = m + 1 \/ j = m + 1
      BY <1>13, <2>1, <2>2, <2>3, <3>2
    <3> QED
      BY <1>13, <2>2, <3>1, <3>2
  <2>4. ASSUME NEW i \in DOMAIN now PROVE now[i] \notin pool.running \ {k}
    BY <1>6, <1>13, <2>2
  <2>5. ASSUME NEW i \in DOMAIN now, NEW j \in DOMAIN w PROVE now[i] # w[j]
    <3>1. CASE i \in 1..m
      BY <1>6, <1>13, <3>1
    <3>2. CASE i = m + 1
      BY <1>6, <1>7, <1>13, <3>2
    <3> QED
      BY <1>13, <2>2, <3>1, <3>2
  <2> QED
    BY <1>6, <2>3, <2>4, <2>5
<1>15. TasksOnce'
  <2>1. pool.running \ {k} \in SUBSET D
    BY <1>6
  <2>2. Once(w, pool.running \ {k}, f, r, D)
    BY <1>6, <1>9, <1>13, <1>14, <2>1 DEF Once
  <2> QED
    BY <1>3, <1>11, <1>12, <2>2, OnceIs
<1>16. crop.pc = "uv_run"
  BY <1>1, <1>7 DEF CropState, NoPool
<1> QED
  BY <1>11, <1>12, <1>15, <1>16, PoolSteps

LEMMA AfterWorkIInv ==
  ASSUME CropIInv, AfterWork
  PROVE  CropIInv'
<1>1. CropState /\ TasksOnce
  BY DEF CropIInv
<1>2. PICK w, e, r, D : w = pool.waiting /\ e = pool.ended /\ r = pool.results /\ D = DOMAIN crop.parts
  OBVIOUS
<1>3. pool \in [waiting : Seq(Nat), running : SUBSET Nat, ended : Seq(Nat), results : Seq(Nat)]
  BY <1>1 DEF CropState
<1>4. w \in Seq(D) /\ e \in Seq(D) /\ r \in Seq(D) /\ pool.running \in SUBSET D /\ e # <<>>
  BY <1>1, <1>2 DEF TasksOnce, AfterWork
<1>5. PICK s, t : s = Append(r, Head(e)) /\ t = Tail(e)
  OBVIOUS
<1>6. s \in Seq(D) /\ t \in Seq(D)
  BY <1>4, <1>5, EmptySeq
<1>7. s \in Seq(Nat) /\ t \in Seq(Nat)
  <2>1. e \in Seq(Nat) /\ r \in Seq(Nat)
    BY <1>2, <1>3
  <2> QED
    BY <1>4, <1>5, <2>1, EmptySeq
<1>8. s \o t = r \o e
  <2>1. PICK p \in Nat, q \in Nat : p = Len(r) /\ q = Len(e) /\ q > 0
    BY <1>4, EmptySeq
  <2>2. Len(s) = p + 1 /\ s[p + 1] = e[1] /\ \A i \in 1..p : s[i] = r[i]
    BY <1>4, <1>5, <2>1, EmptySeq
  <2>3. Len(t) = q - 1 /\ \A i \in 1..q - 1 : t[i] = e[i + 1]
    BY <1>4, <1>5, <2>1
  <2>4. PICK u, v : u = s \o t /\ v = r \o e
    OBVIOUS
  <2>5. u \in Seq(D) /\ Len(u) = p + q /\ (\A i \in 1..p + 1 : u[i] = s[i]) /\ \A i \in 1..q - 1 : u[(p + 1) + i] = t[i]
    <3>1. s \in Seq(D) /\ t \in Seq(D) /\ Len(s) = p + 1 /\ Len(t) = q - 1
      BY <1>6, <2>2, <2>3
    <3>2. PICK a, b : a = p + 1 /\ b = q - 1
      OBVIOUS
    <3>3. a = Len(s) /\ b = Len(t)
      BY <3>1, <3>2
    <3>4. /\ s \o t \in Seq(D) /\ Len(s \o t) = a + b
          /\ (\A i \in 1..a : (s \o t)[i] = s[i]) /\ \A i \in 1..b : (s \o t)[a + i] = t[i]
      BY <3>1, <3>3, Behind
    <3>5. a + b = p + q
      BY <3>2
    <3> QED
      BY <2>4, <3>2, <3>4, <3>5
  <2>6. v \in Seq(D) /\ Len(v) = p + q /\ (\A i \in 1..p : v[i] = r[i]) /\ \A i \in 1..q : v[p + i] = e[i]
    BY <1>4, <2>1, <2>4
  <2>7. ASSUME NEW i \in 1..p + q PROVE u[i] = v[i]
    <3>1. CASE i \in 1..p
      BY <2>2, <2>5, <2>6, <3>1
    <3>2. CASE i = p + 1
      <4>1. v[p + 1] = e[1]
        BY <2>1, <2>6
      <4>2. u[p + 1] = s[p + 1]
        BY <2>1, <2>5
      <4> QED
        BY <2>2, <3>2, <4>1, <4>2
    <3>3. CASE i \notin 1..p /\ i # p + 1
      <4>1. PICK j \in 1..q - 1 : i = (p + 1) + j /\ i = p + (j + 1)
        <5>1. i - (p + 1) \in 1..q - 1 /\ i = (p + 1) + (i - (p + 1)) /\ i = p + ((i - (p + 1)) + 1)
          BY <3>3
        <5> QED
          BY <5>1
      <4>2. u[i] = e[j + 1]
        BY <2>3, <2>5, <4>1
      <4>3. v[i] = e[j + 1]
        <5>1. j + 1 \in 1..q
          BY <2>1, <4>1
        <5> QED
          BY <2>6, <4>1, <5>1
      <4> QED
        BY <4>2, <4>3
    <3> QED
      BY <3>1, <3>2, <3>3
  <2>8. PICK m \in Nat : m = p + q
    OBVIOUS
  <2>9. u \in Seq(D) /\ v \in Seq(D) /\ Len(u) = m /\ Len(v) = m /\ \A i \in 1..m : u[i] = v[i]
    BY <2>5, <2>6, <2>7, <2>8
  <2>10. u = v
    BY <2>9, SameSeq
  <2> QED
    BY <2>4, <2>10
<1>9. pool' = [pool EXCEPT !.ended = t, !.results = s]
  BY <1>2, <1>5 DEF AfterWork
<1>10. /\ pool' \in [waiting : Seq(Nat), running : SUBSET Nat, ended : Seq(Nat), results : Seq(Nat)]
       /\ pool'.waiting = w /\ pool'.running = pool.running /\ pool'.ended = t /\ pool'.results = s
  BY <1>2, <1>3, <1>7, <1>9
<1>11. job' = job /\ crop' = crop /\ written' = written
  BY DEF AfterWork
<1>12. TasksOnce'
  BY <1>1, <1>2, <1>4, <1>6, <1>8, <1>10, <1>11 DEF TasksOnce
<1>13. crop.pc = "uv_run"
  BY <1>1, <1>2, <1>4 DEF CropState, NoPool
<1> QED
  BY <1>10, <1>11, <1>12, <1>13, PoolSteps

LEMMA WriteFileIInv ==
  ASSUME CropIInv, WriteFile
  PROVE  CropIInv'
<1>1. CropState /\ TasksOnce /\ EveryLineOnce
  BY DEF CropIInv
<1>2. /\ job \in CropJobs /\ crop.pc = "uv_run" /\ crop.left # <<>>
      /\ crop \in [pc : {"files", "uv_run", "searching", "failed", "done"}, faults : Nat,
                   left : Seq(DOMAIN Directory), parts : Seq(Nat \X Nat)]
      /\ written.names \in Seq(DOMAIN Directory) /\ DOMAIN written.out = DOMAIN Directory
      /\ DOMAIN written = {"out", "names", "zip"}
  BY <1>1 DEF CropState, WriteFile
<1>3. PICK f : \E n \in Nat \ {0} :
            /\ f = Directory[Head(crop.left)] /\ n = Len(f.lines) /\ f.ended \in BOOLEAN
            /\ f.lines \in Seq(Line) /\ Whole(crop.parts, 1, n)
  BY <1>2, PartsAre
<1>4. PICK n \in Nat \ {0} : n = Len(f.lines) /\ f.ended \in BOOLEAN /\ Whole(crop.parts, 1, n)
  BY <1>3
<1>5. PICK name, done, parts : name = Head(crop.left) /\ done = pool.results /\ parts = crop.parts
  OBVIOUS
<1>6. name \in DOMAIN Directory /\ f = Directory[name]
  BY <1>2, <1>3, <1>5, EmptySeq
<1>7. Different(done) /\ done \in Seq(DOMAIN parts)
  <2>1. Once(pool.waiting, pool.running, pool.ended, pool.results, DOMAIN crop.parts)
    BY <1>1, OnceIs
  <2>2. PICK e, D : e = pool.ended /\ D = DOMAIN parts
    OBVIOUS
  <2>3. done \in Seq(D) /\ e \in Seq(D) /\ \A i, j \in DOMAIN (done \o e) : (done \o e)[i] = (done \o e)[j] => i = j
    BY <1>5, <2>1, <2>2 DEF Once
  <2>4. PICK p \in Nat, q \in Nat : p = Len(done) /\ q = Len(e)
    BY <2>3
  <2>5. /\ done \o e \in Seq(D) /\ Len(done \o e) = p + q
        /\ (\A i \in 1..p : (done \o e)[i] = done[i]) /\ \A i \in 1..q : (done \o e)[p + i] = e[i]
    BY <2>3, <2>4, Behind
  <2>6. DOMAIN done = 1..p /\ DOMAIN (done \o e) = 1..p + q /\ \A i \in 1..p : i \in 1..p + q
    BY <2>3, <2>4, <2>5
  <2>7. ASSUME NEW i \in 1..p, NEW j \in 1..p, done[i] = done[j] PROVE i = j
    BY <2>3, <2>5, <2>6, <2>7
  <2> QED
    BY <2>2, <2>3, <2>6, <2>7 DEF Different
<1>8. Len(done) = Len(parts)
  BY <1>5 DEF WriteFile
<1>9. PICK out, cols : cols = job.cols /\ out = FlattenSeq([i \in DOMAIN done |-> ColTask(f, parts[done[i]], cols)])
  OBVIOUS
<1>10. Len(out) = Lines(f) /\ LineSet(out) = 1 .. Lines(f) /\ DOMAIN out = 1..Len(out)
  <2>1. f.ended \in BOOLEAN /\ n = Len(f.lines) /\ Whole(parts, 1, n)
    BY <1>4, <1>5
  <2>2. out = TaskOutput(f, parts, done, cols)
    BY <1>9 DEF TaskOutput
  <2>3. done \in Seq(DOMAIN parts)
    BY <1>7
  <2> QED
    BY <1>7, <1>8, <2>1, <2>2, <2>3, FileWritten
<1>11. written' = [written EXCEPT !.out[name] = out, !.names = Append(@, name)]
  BY <1>5, <1>6, <1>9, Zenon DEF WriteFile
<1>12. PICK names : names = Append(written.names, name)
  OBVIOUS
<1>13. written'.names = names /\ written'.out = [written.out EXCEPT ![name] = out] /\ DOMAIN written' = DOMAIN written
  <2>1. "out" \in DOMAIN written /\ "names" \in DOMAIN written
    BY <1>2
  <2> QED
    BY <1>11, <1>12, <2>1
<1>14. pool' = NoPool /\ job' = job
  BY DEF WriteFile
<1>15. PICK t : t = Tail(crop.left)
  OBVIOUS
<1>16. crop' = [crop EXCEPT !.pc = "files", !.left = t, !.parts = <<>>]
  BY <1>15 DEF WriteFile
<1>17. t \in Seq(DOMAIN Directory)
  BY <1>2, <1>15, EmptySeq
<1>18. /\ crop' \in [pc : {"files", "uv_run", "searching", "failed", "done"}, faults : Nat,
                     left : Seq(DOMAIN Directory), parts : Seq(Nat \X Nat)]
       /\ crop'.pc = "files" /\ crop'.parts = <<>>
  <2>1. PICK none \in Seq(Nat \X Nat) : none = <<>>
    <3>1. \A S : <<>> \in Seq(S)
      OBVIOUS
    <3> QED
      BY <3>1, Zenon
  <2>2. crop' = [crop EXCEPT !.pc = "files", !.left = t, !.parts = none]
    BY <1>16, <2>1
  <2>3. /\ crop' \in [pc : {"files", "uv_run", "searching", "failed", "done"}, faults : Nat,
                      left : Seq(DOMAIN Directory), parts : Seq(Nat \X Nat)]
        /\ crop'.pc = "files" /\ crop'.parts = none
    BY <1>2, <1>17, <2>1, <2>2
  <2> QED
    BY <2>1, <2>3
<1>19. names \in Seq(DOMAIN Directory)
  BY <1>2, <1>6, <1>12
<1>20. CropState'
  <2>1. pool' \in [waiting : Seq(Nat), running : SUBSET Nat, ended : Seq(Nat), results : Seq(Nat)]
    BY <1>14, NoPoolType
  <2>2. DOMAIN written'.out = DOMAIN Directory
    BY <1>2, <1>13
  <2> QED
    BY <1>2, <1>13, <1>14, <1>18, <1>19, <2>1, <2>2 DEF CropState
<1>21. EveryLineOnce'
  <2>1. ASSUME NEW k \in DOMAIN written'.names
        PROVE  /\ Len(written'.out[written'.names[k]]) = Lines(Directory[written'.names[k]])
               /\ {written'.out[written'.names[k]][i].line : i \in DOMAIN written'.out[written'.names[k]]}
                    = 1 .. Lines(Directory[written'.names[k]])
    <3>1. PICK x : x = names[k]
      OBVIOUS
    <3>2. CASE x = name
      <4>1. written'.out[x] = out /\ written'.names[k] = x /\ Directory[x] = f
        BY <1>2, <1>6, <1>13, <3>1, <3>2
      <4>2. {out[i].line : i \in DOMAIN out} = 1 .. Lines(f)
        BY <1>10 DEF LineSet
      <4> QED
        BY <1>10, <4>1, <4>2
    <3>3. CASE x # name
      <4>1. PICK l \in Nat : l = Len(written.names) /\ DOMAIN written.names = 1..l
        BY <1>2
      <4>2. k \in 1..l + 1 /\ names[l + 1] = name /\ \A i \in 1..l : names[i] = written.names[i]
        BY <1>2, <1>12, <1>13, <4>1
      <4>3. k \in DOMAIN written.names /\ written.names[k] = x
        BY <3>1, <3>3, <4>1, <4>2
      <4>4. PICK old : old = written.out[x]
        OBVIOUS
      <4>5. Len(old) = Lines(Directory[x]) /\ {old[i].line : i \in DOMAIN old} = 1 .. Lines(Directory[x])
        BY <1>1, <4>3, <4>4 DEF EveryLineOnce
      <4>6. x \in DOMAIN Directory
        BY <1>2, <4>3
      <4>7. written'.out[x] = old /\ written'.names[k] = x
        BY <1>2, <1>13, <3>1, <3>3, <4>4, <4>6
      <4> QED
        BY <4>5, <4>7
    <3> QED
      BY <3>2, <3>3
  <2> QED
    BY <2>1, Zenon DEF EveryLineOnce
<1> QED
  BY <1>14, <1>18, <1>20, <1>21, NoPoolTasks, NoParts DEF CropIInv

\* Every step of fileCrop keeps what its properties rest on.
LEMMA CropStep == CropIInv /\ [CropNext]_cropVars => CropIInv'
<1> SUFFICES ASSUME CropIInv, [CropNext]_cropVars PROVE CropIInv'
  OBVIOUS
<1>1. CASE OpenFails
  BY <1>1, IdleIInv
<1>2. CASE OpenFile
  BY <1>2, IdleIInv, OpenFileIInv
<1>3. CASE StartWork
  BY <1>3, StartWorkIInv
<1>4. CASE AfterWork
  BY <1>4, AfterWorkIInv
<1>5. CASE WriteFile
  BY <1>5, WriteFileIInv
<1>6. CASE ZipFiles
  BY <1>6, IdleIInv
<1>7. ASSUME NEW k, EndWork(k) PROVE CropIInv'
  BY <1>7, EndWorkIInv
<1>8. CASE UNCHANGED cropVars
  <2>1. job' = job /\ crop' = crop /\ pool' = pool /\ written' = written
    BY <1>8 DEF cropVars
  <2>1a. CropState /\ TasksOnce
    BY DEF CropIInv
  <2>1b. CropState'
    BY <2>1, <2>1a, Zenon DEF CropState
  <2>1c. TasksOnce'
    BY <2>1, <2>1a, Zenon DEF TasksOnce
  <2>2. CropState' /\ TasksOnce'
    BY <2>1b, <2>1c
  <2>3. PartsWhole'
    BY <2>1 DEF CropIInv, PartsWhole
  <2>4. EveryLineOnce'
    BY <2>1, SameWritten DEF CropIInv
  <2> QED
    BY <2>2, <2>3, <2>4 DEF CropIInv
<1> QED
  BY <1>1, <1>2, <1>3, <1>4, <1>5, <1>6, <1>7, <1>8 DEF CropNext

-----------------------------------------------------------------------------
(* The buffers of fileCrop *)

\* The conditions name columns, from left to right, of a line of n cells but its last.
Named(cols, n) ==
  /\ cols \in Seq(Int \X Int)
  /\ \A i \in DOMAIN cols : 1 <= cols[i][1] /\ cols[i][1] <= cols[i][2] /\ cols[i][2] < n
  /\ \A i, j \in DOMAIN cols : i < j => cols[i][2] < cols[j][1]

Columns(cols, k) == [i \in 1 .. cols[k][2] - cols[k][1] + 1 |-> cols[k][1] + i - 1]

LEMMA CropAll ==
  ASSUME NEW line, NEW n \in Nat, n = Len(line), NEW cols, Named(cols, n)
  PROVE  CropLine(line, cols) = FlattenSeq([k \in 1 .. Len(cols) |-> Columns(cols, k)])
<1>1. PICK m \in Nat : m = Len(cols) /\ DOMAIN cols = 1..m
  BY DEF Named
<1> DEFINE fits(c) == 1 <= c[1] /\ c[1] <= c[2] /\ c[2] < n
           good == {k \in 0 .. m : \A i \in 1 .. k : fits(cols[i])}
           most == CHOOSE k \in good : \A i \in good : i <= k
           picked == FlattenSeq([k \in 1 .. most |-> Columns(cols, k)])
<1>2. \A i \in 1..m : fits(cols[i])
  BY <1>1 DEF Named
<1>3. m \in good /\ \A i \in good : i <= m /\ i \in Nat
  BY <1>2
<1>4. CropLine(line, cols) = IF most = m THEN picked ELSE picked \o [i \in 1 .. n |-> i]
  BY <1>1 DEF CropLine, Columns
<1>5. most = m
  <2> HIDE DEF good
  <2>1. \A k \in good : (\A i \in good : i <= k) => k = m
    BY <1>3
  <2> QED
    BY <1>3, <2>1
<1> HIDE DEF most
<1> QED
  BY <1>1, <1>4, <1>5

\* The widths of cells of a line.
Widths(line, cells) == [i \in DOMAIN cells |-> line[cells[i]]]

Measured(line, A) == \A x \in A : line[x] \in Int

LEMMA WidthsType ==
  ASSUME NEW A, NEW line, Measured(line, A), NEW s \in Seq(A)
  PROVE  Widths(line, s) \in Seq(Int) /\ Len(Widths(line, s)) = Len(s) /\ \A i \in 1..Len(s) : Widths(line, s)[i] = line[s[i]]
<1>1. PICK n \in Nat : n = Len(s) /\ DOMAIN s = 1..n /\ \A i \in 1..n : s[i] \in A
  OBVIOUS
<1>5. \A i \in 1..n : line[s[i]] \in Int
  BY <1>1 DEF Measured
<1>2. PICK w : w = Widths(line, s)
  OBVIOUS
<1>3. w = [i \in 1..n |-> line[s[i]]]
  BY <1>1, <1>2 DEF Widths
<1>4. w \in Seq(Int) /\ Len(w) = n /\ \A i \in 1..n : w[i] = line[s[i]]
  BY <1>3, <1>5
<1> QED
  BY <1>1, <1>2, <1>4

LEMMA WidthsConcat ==
  ASSUME NEW A, NEW line, Measured(line, A), NEW r \in Seq(A), NEW s \in Seq(A)
  PROVE  Widths(line, r \o s) = Widths(line, r) \o Widths(line, s)
<1>1. PICK c \in Nat, d \in Nat : c = Len(r) /\ d = Len(s)
  OBVIOUS
<1>2. PICK rs : rs = r \o s
  OBVIOUS
<1>3. rs \in Seq(A) /\ Len(rs) = c + d /\ (\A i \in 1..c : rs[i] = r[i]) /\ \A i \in 1..d : rs[c + i] = s[i]
  BY <1>1, <1>2, Behind
<1>4. PICK u, v, t : u = Widths(line, r) /\ v = Widths(line, s) /\ t = Widths(line, rs)
  OBVIOUS
<1>5. u \in Seq(Int) /\ Len(u) = c /\ \A i \in 1..c : u[i] = line[r[i]]
  BY <1>1, <1>4, WidthsType
<1>6. v \in Seq(Int) /\ Len(v) = d /\ \A i \in 1..d : v[i] = line[s[i]]
  BY <1>1, <1>4, WidthsType
<1>7. t \in Seq(Int) /\ Len(t) = c + d /\ \A i \in 1..c + d : t[i] = line[rs[i]]
  BY <1>3, <1>4, WidthsType
<1>8. PICK uv : uv = u \o v
  OBVIOUS
<1>9. uv \in Seq(Int) /\ Len(uv) = c + d /\ (\A i \in 1..c : uv[i] = u[i]) /\ \A i \in 1..d : uv[c + i] = v[i]
  <2>1. u \in Seq(Int) /\ v \in Seq(Int) /\ c = Len(u) /\ d = Len(v)
    BY <1>5, <1>6
  <2>2. /\ u \o v \in Seq(Int) /\ Len(u \o v) = c + d
        /\ (\A i \in 1..c : (u \o v)[i] = u[i]) /\ \A i \in 1..d : (u \o v)[c + i] = v[i]
    BY <2>1, Behind
  <2> QED
    BY <1>8, <2>2
<1>10. ASSUME NEW i \in 1..c + d PROVE t[i] = uv[i]
  <2>1. CASE i \in 1..c
    <3>1. t[i] = line[rs[i]] /\ rs[i] = r[i] /\ uv[i] = u[i] /\ u[i] = line[r[i]]
      BY <1>3, <1>5, <1>7, <1>9, <2>1
    <3> QED
      BY <3>1
  <2>2. CASE i \notin 1..c
    <3>1. PICK j \in 1..d : i = c + j
      <4>1. i - c \in 1..d /\ i = c + (i - c)
        BY <2>2
      <4> QED
        BY <4>1
    <3>2. t[i] = line[rs[i]] /\ rs[i] = s[j] /\ uv[i] = v[j] /\ v[j] = line[s[j]]
      BY <1>3, <1>6, <1>7, <1>9, <3>1
    <3> QED
      BY <3>2
  <2> QED
    BY <2>1, <2>2
<1>11. t = uv
  <2>1. PICK l \in Nat : l = c + d
    OBVIOUS
  <2>2. t \in Seq(Int) /\ uv \in Seq(Int) /\ Len(t) = l /\ Len(uv) = l /\ \A i \in 1..l : t[i] = uv[i]
    BY <1>7, <1>9, <1>10, <2>1
  <2> QED
    BY <2>2
<1> QED
  BY <1>2, <1>4, <1>8, <1>11

LEMMA CopiedFits ==
  ASSUME NEW line \in Line, NEW n \in Nat, n = Len(line), NEW cols, Named(cols, n)
  PROVE  Copied(line, cols) \in Int /\ Copied(line, cols) <= LineSize(line)
<1>1. line \in Seq(Int) /\ \A i \in 1..n : line[i] \in Nat /\ line[i] >= 1
  <2>1. line \in Seq(Nat \ {0})
    BY DEF Line
  <2> QED
    BY <2>1, SeqMonotonic
<1>2. PICK p : Adds(p, line) /\ p[n] = Total(line) /\ \A i \in 0..n : p[i] \in Int
  BY <1>1, TotalThere
<1>3. p[0] = 0 /\ \A i \in 1..n : p[i] = p[i - 1] + line[i]
  BY <1>2 DEF Adds
<1>4. \A j \in 0..n : \A i \in 0..j : p[i] <= p[j]
  <2> DEFINE G == {j \in 0..n : \A i \in 0..j : p[i] <= p[j]}
  <2>1. 0 \in G
    BY <1>3
  <2>2. ASSUME NEW j \in 1..n, j - 1 \in G PROVE j \in G
    <3>1. PICK a \in Int, b \in Int : a = p[j - 1] /\ b = p[j] /\ a <= b
      <4>1. j - 1 \in 0..n /\ p[j - 1] \in Int /\ p[j] \in Int /\ p[j] = p[j - 1] + line[j] /\ line[j] \in Nat
        BY <1>1, <1>2, <1>3
      <4> QED
        BY <4>1
    <3>2. ASSUME NEW i \in 0..j PROVE p[i] <= p[j]
      <4>1. CASE i = j
        BY <3>1, <4>1
      <4>2. CASE i # j
        <5>1. i \in 0..j - 1 /\ p[i] \in Int
          BY <1>2, <4>2
        <5>2. p[i] <= a
          BY <2>2, <3>1, <5>1
        <5> QED
          BY <3>1, <5>1, <5>2
      <4> QED
        BY <4>1, <4>2
    <3> QED
      BY <3>2
  <2> HIDE DEF G
  <2>3. \A j \in 0..n : j \in G
    BY <2>1, <2>2, UpTo
  <2> USE DEF G
  <2> QED
    BY <2>3
<1>5. PICK m \in Nat : m = Len(cols) /\ DOMAIN cols = 1..m
  BY DEF Named
<1>6. ASSUME NEW k \in 1..m
      PROVE  cols[k][1] \in Nat /\ cols[k][2] \in Nat /\ 1 <= cols[k][1] /\ cols[k][1] <= cols[k][2] /\ cols[k][2] < n
  <2>1. cols[k] \in Int \X Int
    BY <1>5 DEF Named
  <2>2. 1 <= cols[k][1] /\ cols[k][1] <= cols[k][2] /\ cols[k][2] < n
    BY <1>5 DEF Named
  <2>3. cols[k][1] \in Int /\ cols[k][2] \in Int
    BY <2>1
  <2> QED
    BY <2>2, <2>3
<1>7. PICK ss : ss = [k \in 1..m |-> Columns(cols, k)]
  OBVIOUS
\* The widths of a condition's columns are a stretch of the line.
<1>8. ASSUME NEW k \in 1..m
      PROVE  /\ ss[k] \in Seq(1..n) /\ Widths(line, ss[k]) \in Seq(Int)
             /\ Total(Widths(line, ss[k])) = p[cols[k][2]] - p[cols[k][1] - 1]
  <2>1. PICK a \in Nat, b \in Nat : a = cols[k][1] /\ b = cols[k][2] /\ 1 <= a /\ a <= b /\ b < n
    BY <1>6
  <2>2. PICK w : w = Widths(line, ss[k])
    OBVIOUS
  <2>3. PICK l \in Nat : l = b - a + 1 /\ l > 0
    BY <2>1
  <2>4. ss[k] = [i \in 1..l |-> a + i - 1]
    BY <1>7, <2>1, <2>3 DEF Columns
  <2>5. ss[k] \in Seq(1..n) /\ DOMAIN ss[k] = 1..l
    <3>1. ASSUME NEW i \in 1..l PROVE a + i - 1 \in 1..n
      <4>1. 1 <= a + i - 1 /\ a + i - 1 <= b /\ a + i - 1 \in Int
        <5>1. a \in Nat /\ b \in Nat /\ 1 <= a /\ l \in Nat /\ l = b - a + 1 /\ i \in Int /\ 1 <= i /\ i <= l
          BY <2>1, <2>3
        <5> QED
          BY <5>1
      <4> QED
        BY <2>1, <4>1
    <3> QED
      BY <2>4, <3>1
  <2>6. w = [i \in 1..l |-> line[a + i - 1]]
    BY <2>2, <2>4, <2>5 DEF Widths
  <2>7. w \in Seq(Int) /\ Len(w) = l /\ \A i \in 1..l : w[i] = line[a + i - 1]
    <3>1. ASSUME NEW i \in 1..l PROVE line[a + i - 1] \in Int
      <4>1. ss[k][i] = a + i - 1
        BY <2>4
      <4>2. ss[k][i] \in 1..n
        BY <2>5
      <4> QED
        BY <1>1, <4>1, <4>2
    <3> QED
      BY <2>6, <3>1
  <2>8. PICK q : q = [i \in 0..l |-> p[a + i - 1] - p[a - 1]]
    OBVIOUS
  <2>9. Adds(q, w)
    <3>1. q[0] = 0
      <4>1. a + 0 - 1 = a - 1 /\ p[a - 1] \in Int
        BY <1>2, <2>1
      <4> QED
        BY <2>8, <4>1
    <3>2. ASSUME NEW i \in 1..l PROVE q[i] = q[i - 1] + w[i]
      <4>1. PICK c \in 1..n : c = a + i - 1 /\ c - 1 = a + (i - 1) - 1 /\ a - 1 \in 0..n
        <5>1. ss[k][i] = a + i - 1 /\ ss[k][i] \in 1..n
          BY <2>4, <2>5
        <5>2. (a + i - 1) - 1 = a + (i - 1) - 1 /\ a - 1 \in Nat /\ a - 1 <= n
          <6>1. i \in Int /\ a \in Nat /\ b \in Nat /\ 1 <= a /\ a <= b /\ b < n
            BY <2>1, <2>3
          <6> QED
            BY <6>1
        <5> QED
          BY <5>1, <5>2
      <4>2. p[c] = p[c - 1] + line[c] /\ p[c] \in Int /\ p[c - 1] \in Int /\ line[c] \in Int /\ p[a - 1] \in Int
        BY <1>1, <1>2, <1>3, <4>1
      <4>3. q[i] = p[c] - p[a - 1] /\ q[i - 1] = p[c - 1] - p[a - 1] /\ w[i] = line[c]
        BY <2>7, <2>8, <4>1
      <4> QED
        BY <4>2, <4>3
    <3> QED
      BY <2>7, <3>1, <3>2 DEF Adds
  <2>10. q[l] = Total(w)
    BY <2>7, <2>9, TotalIs
  <2>11. q[l] = p[b] - p[a - 1]
    <3>1. a + l - 1 = b
      BY <2>3
    <3> QED
      BY <2>8, <3>1
  <2> QED
    BY <2>1, <2>2, <2>5, <2>7, <2>10, <2>11
<1>9. ss \in Seq(Seq(1..n)) /\ Len(ss) = m
  <2>1. ss = [k \in 1..m |-> ss[k]]
    BY <1>7
  <2> QED
    BY <1>8, <2>1
<1>10. PICK run : /\ run[0] = <<>> /\ run[Len(ss)] = FlattenSeq(ss)
                  /\ \A i \in 0..Len(ss) : run[i] \in Seq(1..n)
                  /\ \A i \in 1..Len(ss) : run[i] = run[i - 1] \o ss[i]
  BY <1>9, FlattenRun
<1> DEFINE At(k) == IF k = 0 THEN 0 ELSE cols[k][2]
           G == {k \in 0..m : Total(Widths(line, run[k])) <= p[At(k)]}
<1>11. ASSUME NEW s \in Seq(1..n)
       PROVE  Widths(line, s) \in Seq(Int) /\ Len(Widths(line, s)) = Len(s)
  <2>1. PICK A : A = 1..n
    OBVIOUS
  <2>2. Measured(line, A) /\ s \in Seq(A)
    BY <1>1, <2>1 DEF Measured
  <2> QED
    BY <2>2, WidthsType
<1>12. 0 \in G
  <2>1. run[0] \in Seq(1..n) /\ Len(run[0]) = 0
    BY <1>10
  <2>2. Total(Widths(line, run[0])) = 0
    BY <1>11, <2>1, TotalNone
  <2> QED
    BY <1>3, <2>2
<1>13. ASSUME NEW k \in 1..m, k - 1 \in G PROVE k \in G
  <2>1. PICK r, s : r = run[k - 1] /\ s = ss[k] /\ run[k] = r \o s /\ r \in Seq(1..n) /\ s \in Seq(1..n)
    <3>1. k - 1 \in 0..Len(ss) /\ k \in 1..Len(ss)
      BY <1>9
    <3> QED
      BY <1>8, <1>10, <3>1
  <2>2. Widths(line, r \o s) = Widths(line, r) \o Widths(line, s)
    <3>1. PICK A : A = 1..n
      OBVIOUS
    <3>2. Measured(line, A) /\ r \in Seq(A) /\ s \in Seq(A)
      BY <1>1, <2>1, <3>1 DEF Measured
    <3> QED
      BY <3>2, WidthsConcat
  <2>3. Total(Widths(line, r) \o Widths(line, s)) = Total(Widths(line, r)) + Total(Widths(line, s)) /\ Total(Widths(line, r)) \in Int
    BY <1>11, <2>1, TotalConcat
  <2>4. Total(Widths(line, s)) = p[cols[k][2]] - p[cols[k][1] - 1]
    BY <1>8, <2>1
  <2>5. Total(Widths(line, r)) <= p[At(k - 1)]
    BY <1>13, <2>1
  <2>6. At(k - 1) \in 0..cols[k][1] - 1 /\ cols[k][1] - 1 \in 0..n /\ cols[k][2] \in 0..n /\ At(k) = cols[k][2]
    <3>1. cols[k][1] \in Nat /\ cols[k][2] \in Nat /\ 1 <= cols[k][1] /\ cols[k][1] <= cols[k][2] /\ cols[k][2] < n
      BY <1>6
    <3>2. CASE k = 1
      BY <3>1, <3>2
    <3>3. CASE k # 1
      <4>1. PICK j \in 1..m : j = k - 1 /\ j < k /\ At(k - 1) = cols[j][2]
        BY <3>3
      <4>2. cols[j][2] \in Nat /\ cols[j][2] < cols[k][1]
        BY <1>5, <1>6, <4>1 DEF Named
      <4> QED
        BY <3>1, <4>1, <4>2
    <3> QED
      BY <3>2, <3>3
  <2> HIDE DEF At
  <2>7. p[At(k - 1)] <= p[cols[k][1] - 1]
    BY <1>4, <2>6
  <2>8. p[At(k - 1)] \in Int /\ p[cols[k][1] - 1] \in Int /\ p[cols[k][2]] \in Int
    <3>1. At(k - 1) \in 0..n
      BY <2>6
    <3> QED
      BY <1>2, <2>6, <3>1
  <2>9. Total(Widths(line, run[k])) <= p[At(k)]
    <3>1. Total(Widths(line, run[k])) = Total(Widths(line, r)) + Total(Widths(line, s))
      BY <2>1, <2>2, <2>3
    <3>2. PICK x \in Int, y \in Int, u \in Int, v \in Int :
              x = Total(Widths(line, r)) /\ y = p[At(k - 1)] /\ u = p[cols[k][1] - 1] /\ v = p[cols[k][2]]
      BY <2>3, <2>8
    <3>3. x <= y /\ y <= u /\ Total(Widths(line, run[k])) = x + (v - u)
      BY <2>4, <2>5, <2>7, <3>1, <3>2
    <3>4. Total(Widths(line, run[k])) <= v
      <4>1. x + (v - u) <= v
        BY <3>3, AtMost
      <4> QED
        BY <3>3, <4>1, Zenon
    <3> QED
      BY <2>6, <3>2, <3>4
  <2> QED
    BY <2>9
<1>14. m \in G
  <2> HIDE DEF G
  <2>1. \A k \in 0..m : k \in G
    BY <1>12, <1>13, UpTo
  <2> QED
    BY <2>1
<1>15. p[At(m)] <= p[n]
  <2>1. At(m) \in 0..n
    BY <1>6
  <2> HIDE DEF At
  <2> QED
    BY <1>4, <2>1
<1>16. CropLine(line, cols) = run[m] /\ run[m] \in Seq(1..n)
  <2>1. CropLine(line, cols) = FlattenSeq(ss)
    BY <1>5, <1>7, CropAll
  <2> QED
    BY <1>9, <1>10, <2>1
<1>17. Copied(line, cols) = Total(Widths(line, run[m]))
  BY <1>16 DEF Copied, Widths
<1>18. Copied(line, cols) \in Int /\ p[At(m)] \in Int /\ p[n] \in Int
  <2>1. Total(Widths(line, run[m])) \in Int
    BY <1>11, <1>16, TotalThere
  <2>2. At(m) \in 0..n
    BY <1>6
  <2> HIDE DEF At
  <2> QED
    BY <1>2, <1>17, <2>1, <2>2
<1> HIDE DEF At
<1>19. Total(Widths(line, run[m])) <= p[At(m)]
  BY <1>14
<1> QED
  BY <1>2, <1>15, <1>17, <1>18, <1>19 DEF LineSize

LEMMA PartFits ==
  ASSUME NEW lines \in Seq(Line), NEW n \in Nat, n = Len(lines), NEW a \in Nat, NEW b \in Nat, 1 <= a, a <= b, b <= n,
         NEW cols, \A i \in 1..n : Named(cols, Len(lines[i]))
  PROVE  Total([i \in 1 .. b - a + 1 |-> Copied(lines[a + i - 1], cols)]) <= EndOf(lines, b) - EndOf(lines, a - 1)
<1>1. PICK l \in Nat : l = b - a + 1
  OBVIOUS
<1>2. PICK s : s = [i \in 1..l |-> Copied(lines[a + i - 1], cols)]
  OBVIOUS
<1>3. ASSUME NEW i \in 1..l
      PROVE  /\ a + i - 1 \in 1..n /\ (a + i - 1) - 1 \in 0..n
             /\ s[i] \in Int /\ s[i] <= LineSize(lines[a + i - 1])
             /\ EndOf(lines, a + i - 1) = EndOf(lines, (a + i - 1) - 1) + LineSize(lines[a + i - 1])
  <2>1. 1 <= a + i - 1 /\ a + i - 1 <= b /\ a + i - 1 \in Int
    BY <1>1
  <2>2. PICK c \in 1..n : c = a + i - 1 /\ c - 1 \in 0..n
    BY <2>1
  <2>3. PICK line \in Line : line = lines[c]
    OBVIOUS
  <2>4. Named(cols, Len(line)) /\ Len(line) \in Nat
    <3>1. Named(cols, Len(lines[c]))
      BY <2>2
    <3>2. line \in Seq(Nat \ {0})
      BY DEF Line
    <3> QED
      BY <2>3, <3>1, <3>2
  <2>5. Copied(line, cols) \in Int /\ Copied(line, cols) <= LineSize(line)
    BY <2>4, CopiedFits
  <2>6. EndOf(lines, c) = EndOf(lines, c - 1) + LineSize(lines[c])
    BY EndOfStep
  <2>7. s[i] = Copied(line, cols)
    BY <1>2, <2>2, <2>3
  <2> QED
    BY <2>2, <2>3, <2>5, <2>6, <2>7
<1>4. s \in Seq(Int) /\ Len(s) = l
  <2>1. s = [i \in 1..l |-> s[i]]
    BY <1>2
  <2>2. \A i \in 1..l : s[i] \in Int
    BY <1>3
  <2> QED
    BY <2>1, <2>2
<1>5. PICK p : Adds(p, s) /\ p[Len(s)] = Total(s) /\ \A i \in 0..Len(s) : p[i] \in Int
  BY <1>4, TotalThere
<1>6. p[0] = 0 /\ (\A i \in 1..l : p[i] = p[i - 1] + s[i]) /\ p[l] = Total(s) /\ \A i \in 0..l : p[i] \in Int
  BY <1>4, <1>5 DEF Adds
<1>7. \A k \in 0..n : EndOf(lines, k) \in Nat
  BY EndOfOrder
<1> DEFINE G == {i \in 0..l : p[i] <= EndOf(lines, (a + i) - 1) - EndOf(lines, a - 1)}
<1>8. 0 \in G
  <2>1. (a + 0) - 1 = a - 1 /\ a - 1 \in 0..n
    OBVIOUS
  <2>2. EndOf(lines, a - 1) - EndOf(lines, a - 1) = 0
    BY <1>7, <2>1
  <2> QED
    BY <1>6, <2>1, <2>2
<1>9. ASSUME NEW i \in 1..l, i - 1 \in G PROVE i \in G
  <2>1. PICK c : c = a + i - 1 /\ c - 1 = (a + (i - 1)) - 1 /\ c = (a + i) - 1 /\ c \in 1..n /\ c - 1 \in 0..n /\ a - 1 \in 0..n
    <3>1. a + i - 1 \in 1..n /\ (a + i - 1) - 1 \in 0..n
      BY <1>3
    <3>2. (a + i - 1) - 1 = (a + (i - 1)) - 1 /\ a + i - 1 = (a + i) - 1 /\ a - 1 \in 0..n
      OBVIOUS
    <3> QED
      BY <3>1, <3>2
  <2>2. s[i] \in Int /\ s[i] <= LineSize(lines[c]) /\ EndOf(lines, c) = EndOf(lines, c - 1) + LineSize(lines[c])
    BY <1>3, <2>1
  <2>3. LineSize(lines[c]) \in Int
    <3>1. LineSize(lines[c]) \in Nat \ {0}
      <4>1. PICK d \in 1..Len(lines) : d = c
        BY <2>1
      <4>2. LineSize(lines[d]) \in Nat \ {0}
        BY EndOfStep
      <4> QED
        BY <4>1, <4>2
    <3> QED
      BY <3>1
  <2>4. PICK x, y, z, w : x = EndOf(lines, c) /\ y = EndOf(lines, c - 1) /\ z = EndOf(lines, a - 1) /\ w = LineSize(lines[c])
    OBVIOUS
  <2>5. x \in Nat /\ y \in Nat /\ z \in Nat /\ w \in Int /\ x = y + w
    BY <1>7, <2>1, <2>2, <2>3, <2>4
  <2>6. p[i - 1] <= y - z /\ p[i - 1] \in Int /\ p[i] = p[i - 1] + s[i] /\ s[i] \in Int /\ s[i] <= w
    <3>1. i - 1 \in 0..l
      OBVIOUS
    <3> QED
      BY <1>6, <1>9, <2>1, <2>2, <2>4, <3>1
  <2>7. p[i] <= x - z
    BY <2>5, <2>6
  <2> QED
    BY <2>1, <2>4, <2>7
<1>10. l \in G
  <2> HIDE DEF G
  <2>1. \A i \in 0..l : i \in G
    BY <1>8, <1>9, UpTo
  <2> QED
    BY <2>1
<1>11. (a + l) - 1 = b
  BY <1>1
<1>12. Total(s) <= EndOf(lines, b) - EndOf(lines, a - 1)
  BY <1>6, <1>10, <1>11
<1> QED
  BY <1>1, <1>2, <1>12

LEMMA BuffersThere == CropIInv => BuffersSuffice
<1> SUFFICES ASSUME CropIInv, crop.parts # <<>> PROVE BuffersSuffice
  BY DEF BuffersSuffice
<1>1. crop.pc = "uv_run"
  BY DEF CropIInv, CropState
<1>2. PICK f : \E n \in Nat \ {0} :
            /\ f = Directory[Head(crop.left)] /\ n = Len(f.lines) /\ f.ended \in BOOLEAN
            /\ f.lines \in Seq(Line) /\ Whole(crop.parts, 1, n)
  BY <1>1, PartsAre
<1>3. PICK n \in Nat \ {0} : f = Directory[Head(crop.left)] /\ n = Len(f.lines) /\ f.lines \in Seq(Line) /\ Whole(crop.parts, 1, n)
  BY <1>2
<1>4. PICK cols, lines, parts : cols = job.cols /\ lines = f.lines /\ parts = crop.parts
  OBVIOUS
<1>5. cols \in Seq(Int \X Int)
  BY <1>4, CropAssumption DEF CropIInv, CropState
<1>6. SUFFICES ASSUME \A i \in DOMAIN cols : 1 <= cols[i][1] /\ cols[i][1] <= cols[i][2],
                      \A i, j \in DOMAIN cols : i < j => cols[i][2] < cols[j][1],
                      \A i \in DOMAIN lines, j \in DOMAIN cols : cols[j][2] < Len(lines[i]),
                      NEW k \in DOMAIN parts
               PROVE  Fits(f, parts[k], cols)
  BY <1>3, <1>4 DEF BuffersSuffice
<1>7. \A i \in 1..n : Named(cols, Len(lines[i]))
  <2>1. DOMAIN lines = 1..n
    BY <1>3, <1>4
  <2> QED
    BY <1>5, <1>6, <2>1 DEF Named
<1>8. PICK a \in Nat, b \in Nat : a = parts[k][1] /\ b = parts[k][2] /\ 1 <= a /\ a <= b /\ b <= n
  <2>1. parts \in Seq(Nat \X Nat) /\ 1 <= parts[k][1] /\ parts[k][1] <= parts[k][2] /\ parts[k][2] <= n
    BY <1>3, <1>4 DEF Whole
  <2>2. parts[k] \in Nat \X Nat
    BY <2>1
  <2> QED
    BY <2>1, <2>2
<1>9. lines \in Seq(Line) /\ n = Len(lines)
  BY <1>3, <1>4
<1>10. Total([i \in 1 .. b - a + 1 |-> Copied(lines[a + i - 1], cols)]) <= EndOf(lines, b) - EndOf(lines, a - 1)
  BY <1>7, <1>8, <1>9, PartFits
<1> QED
  BY <1>4, <1>8, <1>10 DEF Fits

LEMMA TasksThere == TasksKeep
<1> SUFFICES ASSUME NEW cells \in UNION {[1 .. n -> Cells] : n \in 1 .. 3}, NEW cell \in Cells
             PROVE  /\ CodeTask(Append(cells, cell), {"a"}) <=> [text |-> "a", len |-> 1, num |-> 0] \in ToSet(cells)
                    /\ DateTask(Append(cells, cell), 4, 6) <=> [text |-> "b", len |-> 8, num |-> 5] \in ToSet(cells)
  BY DEF TasksKeep
<1>1. PICK n \in 1..3 : cells \in [1..n -> Cells]
  OBVIOUS
<1>2. cells \in Seq(Cells) /\ Len(cells) = n /\ DOMAIN cells = 1..n
  BY <1>1
<1>3. PICK more : more = Append(cells, cell)
  OBVIOUS
<1>4. Len(more) = n + 1 /\ \A k \in 1..n : more[k] = cells[k]
  BY <1>2, <1>3
<1>5. Len(more) - 1 = n
  BY <1>4
<1>6. PICK a, b : a = [text |-> "a", len |-> 1, num |-> 0] /\ b = [text |-> "b", len |-> 8, num |-> 5]
  OBVIOUS
<1>7. \A c \in Cells : (c.text \in {"a"} <=> c = a) /\ (c.len = 8 /\ 4 <= c.num /\ c.num <= 6 <=> c = b)
  BY <1>6 DEF Cells
<1>8. \A k \in 1..n : cells[k] \in Cells
  BY <1>1
<1>9. \A x : x \in ToSet(cells) <=> \E k \in 1..n : cells[k] = x
  BY <1>2 DEF ToSet
<1>10. CodeTask(more, {"a"}) <=> \E k \in 1..n : more[k].text \in {"a"}
  BY <1>5 DEF CodeTask
<1>11. DateTask(more, 4, 6) <=> \E k \in 1..n : more[k].len = 8 /\ 4 <= more[k].num /\ more[k].num <= 6
  BY <1>5 DEF DateTask
<1>12. CodeTask(more, {"a"}) <=> a \in ToSet(cells)
  BY <1>4, <1>7, <1>8, <1>9, <1>10
<1>13. DateTask(more, 4, 6) <=> b \in ToSet(cells)
  BY <1>4, <1>7, <1>8, <1>9, <1>11
<1> QED
  BY <1>3, <1>6, <1>12, <1>13

-----------------------------------------------------------------------------
(* The lines of the log *)

LogLineType == [size : Nat, bytes : Seq(Nat), heap : BOOLEAN]

\* What an argument leaves in a line.
Bytes(arg) ==
  IF arg.type = Str THEN IF arg.chars = <<>> THEN <<>> ELSE <<Str>> \o arg.chars \o <<0>>
  ELSE <<arg.type>> \o [k \in 1 .. SizeOf[arg.type] |-> arg.chars[1]]

Encoded(n, args) == [k \in 1..n |-> Bytes(args[k])]

IsText(arg) == arg.type = Str /\ arg.chars \in Seq(Nat \ {0})
IsNumber(arg) ==
  /\ arg.type \in Nat /\ arg.type # Str /\ SizeOf[arg.type] \in Nat \ {0}
  /\ \E x \in Nat : arg.chars = <<x>>

\* Whatever can be put into a line: characters without a zero, and a number of any type.
AnyArg == {[type |-> Str, chars |-> c] : c \in Seq(Nat \ {0})} \cup {[type |-> t, chars |-> <<x>>] : t \in 1 .. 11, x \in Nat}

LEMMA ArgIs == \A arg \in AnyArg : IsText(arg) \/ IsNumber(arg)
<1> SUFFICES ASSUME NEW arg \in AnyArg PROVE IsText(arg) \/ IsNumber(arg)
  OBVIOUS
<1>1. CASE arg \in {[type |-> Str, chars |-> c] : c \in Seq(Nat \ {0})}
  BY <1>1 DEF IsText
<1>2. CASE arg \in {[type |-> t, chars |-> <<x>>] : t \in 1 .. 11, x \in Nat}
  <2>1. PICK t \in 1 .. 11, x \in Nat : arg.type = t /\ arg.chars = <<x>>
    BY <1>2
  <2>2. SizeOf[t] \in Nat \ {0} /\ t # Str
    <3>1. \A u \in 1 .. 11 : SizeOf[u] \in {1, 2, 4, 8}
      BY DEF SizeOf
    <3>2. t # Str
      BY DEF Str
    <3> QED
      BY <3>1, <3>2
  <2> QED
    BY <2>1, <2>2 DEF IsNumber
<1> QED
  BY <1>1, <1>2 DEF AnyArg

LEMMA SomeArgs == Args \subseteq AnyArg
<1> SUFFICES ASSUME NEW arg \in Args PROVE arg \in AnyArg
  OBVIOUS
<1>1. <<>> \in Seq(Nat \ {0}) /\ <<5>> \in Seq(Nat \ {0}) /\ <<5, 6, 7>> \in Seq(Nat \ {0})
  OBVIOUS
<1>2. \/ \E c \in {<<>>, <<5>>, <<5, 6, 7>>} : arg = [type |-> Str, chars |-> c]
      \/ \E t \in {1, 4, 5}, x \in {0, 8, 9} : arg = [type |-> t, chars |-> <<x>>]
  BY DEF Args
<1>3. (\E c \in Seq(Nat \ {0}) : arg = [type |-> Str, chars |-> c]) \/ \E t \in 1 .. 11, x \in Nat : arg = [type |-> t, chars |-> <<x>>]
  <2>1. CASE \E c \in {<<>>, <<5>>, <<5, 6, 7>>} : arg = [type |-> Str, chars |-> c]
    <3>1. PICK c : c \in Seq(Nat \ {0}) /\ arg = [type |-> Str, chars |-> c]
      BY <1>1, <2>1
    <3> QED
      BY <3>1
  <2>2. CASE \E t \in {1, 4, 5}, x \in {0, 8, 9} : arg = [type |-> t, chars |-> <<x>>]
    <3>1. PICK t \in {1, 4, 5}, x \in {0, 8, 9} : arg = [type |-> t, chars |-> <<x>>]
      BY <2>2
    <3>2. t \in 1 .. 11 /\ x \in Nat
      OBVIOUS
    <3> QED
      BY <3>1, <3>2
  <2> QED
    BY <1>2, <2>1, <2>2
<1> QED
  BY <1>3 DEF AnyArg

LEMMA BytesType ==
  ASSUME NEW arg, IsText(arg) \/ IsNumber(arg)
  PROVE  /\ Bytes(arg) \in Seq(Nat)
         /\ arg.chars = <<>> <=> Bytes(arg) = <<>>
         /\ arg.type = Str /\ arg.chars # <<>> => Len(Bytes(arg)) = Len(arg.chars) + 2 /\ Len(arg.chars) \in Nat \ {0}
         /\ arg.type # Str => Len(Bytes(arg)) = SizeOf[arg.type] + 1 /\ SizeOf[arg.type] \in Nat \ {0}
         /\ arg.type = Str /\ arg.chars = <<>> => Bytes(arg) = <<>>
<1>1. CASE IsText(arg) /\ arg.chars = <<>>
  BY <1>1 DEF IsText, Bytes
<1>2. CASE IsText(arg) /\ arg.chars # <<>>
  <2>1. PICK c \in Seq(Nat \ {0}) : c = arg.chars /\ c # <<>>
    BY <1>2 DEF IsText
  <2>2. PICK n \in Nat : n = Len(c) /\ n # 0 /\ c \in Seq(Nat)
    BY <2>1, EmptySeq, SeqMonotonic
  <2>3. PICK t : t = <<Str>> \o c \o <<0>>
    OBVIOUS
  <2>4. t \in Seq(Nat) /\ Len(t) = n + 2 /\ t # <<>>
    BY <2>2, <2>3 DEF Str
  <2>5. Bytes(arg) = t
    BY <1>2, <2>1, <2>3 DEF Bytes, IsText
  <2> QED
    BY <1>2, <2>1, <2>2, <2>4, <2>5 DEF IsText
<1>3. CASE IsNumber(arg)
  <2>1. PICK n \in Nat \ {0} : n = SizeOf[arg.type]
    BY <1>3 DEF IsNumber
  <2>2. PICK x \in Nat : arg.chars = <<x>>
    BY <1>3 DEF IsNumber
  <2>3. PICK y \in Nat : y = arg.type /\ arg.type # Str
    BY <1>3 DEF IsNumber
  <2>4. PICK t : t = <<y>> \o [k \in 1 .. n |-> x]
    OBVIOUS
  <2>5. t \in Seq(Nat) /\ Len(t) = n + 1 /\ t # <<>>
    <3>1. [k \in 1 .. n |-> x] \in Seq(Nat) /\ Len([k \in 1 .. n |-> x]) = n /\ <<y>> \in Seq(Nat)
      OBVIOUS
    <3> QED
      BY <2>4, <3>1
  <2>6. Bytes(arg) = t /\ arg.chars # <<>>
    BY <2>1, <2>2, <2>3, <2>4 DEF Bytes
  <2> QED
    BY <2>1, <2>3, <2>5, <2>6
<1> QED
  BY <1>1, <1>2, <1>3

\* An argument is put behind what is there, in a buffer that has the room.
LEMMA EncodeIs ==
  ASSUME NEW l \in LogLineType, Len(l.bytes) <= l.size, NEW arg, IsText(arg) \/ IsNumber(arg)
  PROVE  /\ Encode(l, arg) \in LogLineType
         /\ Encode(l, arg).bytes = l.bytes \o Bytes(arg)
         /\ Len(Encode(l, arg).bytes) <= Encode(l, arg).size
<1>1. HeapSize \in Nat
  BY LogAssumption
<1>2. l.size \in Nat /\ l.bytes \in Seq(Nat) /\ l.heap \in BOOLEAN /\ Len(l.bytes) \in Nat
  BY DEF LogLineType
<1>3. ASSUME NEW n \in Nat
      PROVE  /\ ResizeBuffer(l, n) \in LogLineType /\ ResizeBuffer(l, n).bytes = l.bytes
             /\ Len(l.bytes) + n <= ResizeBuffer(l, n).size
  <2>1. PICK req \in Nat : req = Len(l.bytes) + n
    BY <1>2
  <2>2. PICK larger \in Nat : larger = IF l.heap THEN 2 * l.size ELSE HeapSize
    BY <1>1, <1>2
  <2>3. PICK size \in Nat : size = (IF larger > req THEN larger ELSE req) /\ req <= size
    OBVIOUS
  <2>4. ResizeBuffer(l, n) = IF req <= l.size THEN l ELSE [l EXCEPT !.heap = TRUE, !.size = size]
    BY <2>1, <2>2, <2>3 DEF ResizeBuffer
  <2>5. PICK r : r = ResizeBuffer(l, n)
    OBVIOUS
  <2>6. CASE req <= l.size
    BY <1>2, <2>1, <2>4, <2>6
  <2>7. CASE ~(req <= l.size)
    <3>1. r = [l EXCEPT !.heap = TRUE, !.size = size]
      BY <2>4, <2>5, <2>7
    <3>2. r \in LogLineType /\ r.bytes = l.bytes /\ r.size = size
      BY <1>2, <3>1 DEF LogLineType
    <3> QED
      BY <2>1, <2>3, <2>5, <3>2
  <2> QED
    BY <2>6, <2>7
<1>4. PICK b : b = Bytes(arg)
  OBVIOUS
<1>5. b \in Seq(Nat)
  BY <1>4, BytesType
<1>6. CASE b = <<>>
  <2>1. arg.type = Str /\ arg.chars = <<>>
    <3>1. arg.chars = <<>>
      BY <1>4, <1>6, BytesType
    <3>2. \A x : <<x>> # <<>>
      OBVIOUS
    <3>3. IsText(arg)
      BY <3>1, <3>2 DEF IsNumber
    <3> QED
      BY <3>1, <3>3 DEF IsText
  <2>2. Encode(l, arg) = l
    BY <2>1 DEF Encode
  <2>3. l.bytes \o b = l.bytes
    BY <1>2, <1>6
  <2> QED
    BY <1>4, <2>2, <2>3
<1>7. CASE b # <<>>
  <2>0. PICK n \in Nat : n = Len(b)
    BY <1>5
  <2>1. PICK r : n = Len(b) /\ r = ResizeBuffer(l, n)
    BY <2>0
  <2>2. Encode(l, arg) = [r EXCEPT !.bytes = r.bytes \o b]
    <3>1. CASE arg.type = Str
      <4>1. n = Len(arg.chars) + 2 /\ arg.chars # <<>> /\ arg.chars \in Seq(Nat)
        <5>1. IsText(arg)
          BY <3>1 DEF IsNumber
        <5>2. arg.chars # <<>> /\ Len(b) = Len(arg.chars) + 2
          BY <1>4, <1>7, <3>1, BytesType
        <5> QED
          BY <2>1, <5>1, <5>2, SeqMonotonic DEF IsText
      <4>2. PICK c : c = arg.chars
        OBVIOUS
      <4>3. b = <<Str>> \o c \o <<0>>
        BY <1>4, <3>1, <4>1, <4>2 DEF Bytes
      <4>4. Encode(l, arg) = [r EXCEPT !.bytes = @ \o <<Str>> \o c \o <<0>>]
        BY <2>1, <3>1, <4>1, <4>2 DEF Encode
      <4>5. r.bytes \in Seq(Nat)
        BY <1>3, <2>1 DEF LogLineType
      <4>6. PICK o : o = r.bytes
        OBVIOUS
      <4>7. o \o <<Str>> \o c \o <<0>> = o \o b
        <5>1. PICK x \in Seq(Nat), z \in Seq(Nat) : x = <<Str>> /\ z = <<0>>
          <6>1. <<Str>> \in Seq(Nat) /\ <<0>> \in Seq(Nat)
            BY DEF Str
          <6> QED
            BY <6>1
        <5>2. c \in Seq(Nat) /\ o \in Seq(Nat) /\ x \o c \in Seq(Nat)
          BY <4>1, <4>2, <4>5, <4>6, <5>1, ConcatProperties
        <5>3. (o \o x) \o c = o \o (x \o c)
          BY <5>1, <5>2, ConcatAssociative
        <5>4. (o \o (x \o c)) \o z = o \o ((x \o c) \o z)
          BY <5>1, <5>2, ConcatAssociative
        <5> QED
          BY <4>3, <5>1, <5>3, <5>4
      <4> QED
        BY <4>4, <4>6, <4>7
    <3>2. CASE arg.type # Str
      <4>1. n = SizeOf[arg.type] + 1
        BY <1>4, <2>1, <3>2, BytesType
      <4>2. PICK c : c = [k \in 1 .. SizeOf[arg.type] |-> arg.chars[1]]
        OBVIOUS
      <4>3. b = <<arg.type>> \o c
        BY <1>4, <3>2, <4>2 DEF Bytes
      <4>4. Encode(l, arg) = [r EXCEPT !.bytes = @ \o <<arg.type>> \o c]
        BY <2>1, <3>2, <4>1, <4>2 DEF Encode
      <4>5. r.bytes \in Seq(Nat)
        BY <1>3, <2>1 DEF LogLineType
      <4>6. PICK o : o = r.bytes
        OBVIOUS
      <4>7. o \o <<arg.type>> \o c = o \o b
        <5>1. arg.type \in Nat /\ c \in Seq(Nat)
          <6>1. IsNumber(arg)
            BY <3>2 DEF IsText
          <6>2. arg.type \in Nat /\ SizeOf[arg.type] \in Nat /\ arg.chars[1] \in Nat
            BY <6>1 DEF IsNumber
          <6> QED
            BY <4>2, <6>2
        <5>2. <<arg.type>> \in Seq(Nat) /\ o \in Seq(Nat)
          BY <4>5, <4>6, <5>1
        <5>3. (o \o <<arg.type>>) \o c = o \o (<<arg.type>> \o c)
          BY <5>1, <5>2, ConcatAssociative
        <5> QED
          BY <4>3, <5>3
      <4> QED
        BY <4>4, <4>6, <4>7
    <3> QED
      BY <3>1, <3>2
  <2>3. r \in LogLineType /\ r.bytes = l.bytes /\ Len(l.bytes) + n <= r.size
    BY <1>3, <2>1
  <2>4. PICK o : o = r.bytes \o b
    OBVIOUS
  <2>5. o \in Seq(Nat) /\ Len(o) = Len(l.bytes) + n
    BY <1>2, <1>5, <2>1, <2>3, <2>4
  <2>6. PICK e : e = Encode(l, arg)
    OBVIOUS
  <2>7. e = [r EXCEPT !.bytes = o]
    BY <2>2, <2>4, <2>6
  <2>8. e \in LogLineType /\ e.bytes = o /\ e.size = r.size
    BY <2>3, <2>5, <2>7 DEF LogLineType
  <2> QED
    BY <1>4, <2>3, <2>4, <2>5, <2>6, <2>8
<1> QED
  BY <1>6, <1>7

\* The line after every argument.
LEMMA EncodeRun ==
  ASSUME NEW n \in Nat, NEW args \in [1..n -> AnyArg]
  PROVE  \E l : /\ l[0] = NewLine /\ l[n] = FoldLeft(Encode, NewLine, args)
                /\ \A k \in 0..n : l[k] \in LogLineType /\ Len(l[k].bytes) <= l[k].size
                /\ \A k \in 1..n : l[k].bytes = l[k - 1].bytes \o Bytes(args[k])
<1> DEFINE A == {l \in LogLineType : Len(l.bytes) <= l.size}
           step == [p \in A \X (1..n) |-> Encode(p[1], args[p[2]])]
           Rule(f) == [T \in SUBSET (1..n) |-> IF T = {} THEN NewLine ELSE Encode(f[T \ {Max(T)}], args[Max(T)])]
<1>1. ASSUME NEW l \in A, NEW k \in 1..n
      PROVE  Encode(l, args[k]) \in A /\ Encode(l, args[k]).bytes = l.bytes \o Bytes(args[k])
  <2>1. l \in LogLineType /\ Len(l.bytes) <= l.size
    OBVIOUS
  <2>2. PICK arg : arg = args[k] /\ (IsText(arg) \/ IsNumber(arg))
    BY ArgIs
  <2>3. /\ Encode(l, arg) \in LogLineType
        /\ Encode(l, arg).bytes = l.bytes \o Bytes(arg)
        /\ Len(Encode(l, arg).bytes) <= Encode(l, arg).size
    BY <2>1, <2>2, EncodeIs
  <2> QED
    BY <2>2, <2>3
<1>2. NewLine \in A /\ NewLine.bytes = <<>>
  <2>1. NewLine.size = StackSize /\ NewLine.bytes = <<>> /\ NewLine \in LogLineType
    <3>1. <<>> \in Seq(Nat)
      OBVIOUS
    <3> QED
      BY <3>1, LogAssumption DEF NewLine, LogLineType
  <2>2. Len(<<>>) = 0
    OBVIOUS
  <2> QED
    BY <2>1, <2>2, LogAssumption
<1>3. step \in [A \X (1..n) -> A]
  <2>1. ASSUME NEW p \in A \X (1..n) PROVE Encode(p[1], args[p[2]]) \in A
    <3>1. p[1] \in A /\ p[2] \in 1..n
      OBVIOUS
    <3> HIDE DEF A
    <3> QED
      BY <1>1, <3>1
  <2> HIDE DEF A
  <2> QED
    BY <2>1
<1> HIDE DEF A
<1>4. PICK f \in [SUBSET (1..n) -> A] : Folds(f, NewLine, n, step)
  <2> HIDE DEF step
  <2> QED
    BY <1>2, <1>3, FoldThere
<1>5. f = Rule(f)
  <2>1. ASSUME NEW T \in SUBSET (1..n), T # {}
        PROVE  f[T] = Encode(f[T \ {Max(T)}], args[Max(T)])
    <3>1. Max(T) \in 1..n /\ f[T \ {Max(T)}] \in A
      BY <2>1, LargestIs
    <3>2. <<f[T \ {Max(T)}], Max(T)>> \in A \X (1..n)
      BY <3>1
    <3>3. f[T] = step[<<f[T \ {Max(T)}], Max(T)>>]
      <4> HIDE DEF step
      <4> QED
        BY <1>4, <2>1 DEF Folds
    <3> QED
      BY <3>2, <3>3
  <2>2. f[{}] = NewLine
    <3> HIDE DEF step
    <3> QED
      BY <1>4 DEF Folds
  <2> QED
    BY <1>4, <2>1, <2>2
<1>6. DOMAIN args = 1..n /\ Len(args) = n
  OBVIOUS
<1> DEFINE fold == CHOOSE g : g = Rule(g)
<1>7. fold = Rule(fold)
  <2> HIDE DEF Rule
  <2> QED
    BY <1>5
<1>8. FoldLeft(Encode, NewLine, args) = fold[1..n]
  BY <1>6, Zenon DEF FoldLeft, MapThenFoldSet
<1> HIDE DEF fold
<1>9. \A T \in SUBSET (1..n) : fold[T] = IF T = {} THEN NewLine ELSE Encode(fold[T \ {Max(T)}], args[Max(T)])
  BY <1>7
<1>10. PICK l : l = [k \in 0..n |-> fold[1..k]]
  OBVIOUS
<1>11. l[0] = NewLine
  <2>1. 1..0 = {} /\ {} \in SUBSET (1..n) /\ 0 \in 0..n
    OBVIOUS
  <2>2. l[0] = fold[{}]
    BY <1>10, <2>1
  <2> QED
    BY <1>9, <2>1, <2>2
<1>12. ASSUME NEW k \in 1..n
       PROVE  l[k] = Encode(l[k - 1], args[k])
  <2>1. Max(1..k) = k /\ (1..k) \ {k} = 1..k - 1 /\ 1..k # {}
    <3>1. k \in Nat /\ k > 0
      OBVIOUS
    <3> QED
      BY <3>1, LargestOfInterval
  <2>2. 1..k \in SUBSET (1..n) /\ k \in 0..n /\ k - 1 \in 0..n
    OBVIOUS
  <2>3. l[k] = fold[1..k] /\ l[k - 1] = fold[1..k - 1]
    BY <1>10, <2>2
  <2>4. fold[1..k] = IF 1..k = {} THEN NewLine ELSE Encode(fold[(1..k) \ {Max(1..k)}], args[Max(1..k)])
    BY <1>9, <2>2, Zenon
  <2> QED
    BY <2>1, <2>3, <2>4
<1> DEFINE G == {k \in 0..n : l[k] \in A}
<1>13. \A k \in 0..n : k \in G
  <2>1. 0 \in G
    BY <1>2, <1>11
  <2>2. ASSUME NEW k \in 1..n, k - 1 \in G PROVE k \in G
    BY <1>1, <1>12, <2>2
  <2> HIDE DEF G
  <2> QED
    BY <2>1, <2>2, UpTo
<1>14. l[n] = FoldLeft(Encode, NewLine, args)
  BY <1>8, <1>10
<1>15. ASSUME NEW k \in 0..n PROVE l[k] \in LogLineType /\ Len(l[k].bytes) <= l[k].size
  <2>1. l[k] \in A
    BY <1>13
  <2> QED
    BY <2>1 DEF A
<1>16. ASSUME NEW k \in 1..n PROVE l[k].bytes = l[k - 1].bytes \o Bytes(args[k])
  <2>1. k - 1 \in 0..n
    OBVIOUS
  <2>2. l[k - 1] \in A
    BY <1>13, <2>1
  <2> QED
    BY <1>1, <1>12, <2>2
<1> QED
  BY <1>11, <1>14, <1>15, <1>16

\* An argument stands at a place of a line.
BeginsAt(b, N, arg, e, m, at) ==
  /\ b \in Seq(Nat) /\ N \in Nat /\ N = Len(b)
  /\ (IsText(arg) \/ IsNumber(arg)) /\ arg.chars # <<>> /\ e = Bytes(arg)
  /\ m \in Nat /\ m = Len(e) /\ at \in 1..N /\ at + m - 1 <= N
  /\ \A i \in 1..m : b[at + i - 1] = e[i]

\* An argument reads as it was written, wherever in a line it stands.
LEMMA ReadsBack ==
  ASSUME NEW b, NEW N, NEW arg, NEW e, NEW m, NEW at, BeginsAt(b, N, arg, e, m, at)
  PROVE  LastOf(b, at) = at + m - 1 /\ LastOf(b, at) \in at..N /\ Read(b, at) = arg.chars
<1> SUFFICES ASSUME b \in Seq(Nat), N \in Nat, N = Len(b), IsText(arg) \/ IsNumber(arg), arg.chars # <<>>,
                    at \in 1..N, e = Bytes(arg), m \in Nat, m = Len(e), at + m - 1 <= N,
                    \A i \in 1..m : b[at + i - 1] = e[i]
             PROVE  LastOf(b, at) = at + m - 1 /\ LastOf(b, at) \in at..N /\ Read(b, at) = arg.chars
  BY DEF BeginsAt
<1>1. CASE IsText(arg)
  <2>1. PICK c \in Seq(Nat \ {0}), n \in Nat : c = arg.chars /\ n = Len(c)
    BY <1>1 DEF IsText
  <2>2. PICK z : z = <<Str>> \o c \o <<0>>
    OBVIOUS
  <2>3. /\ Len(z) = n + 2 /\ z[1] = Str /\ z[n + 2] = 0 /\ \A i \in 1..n : z[i + 1] = c[i]
    <3>1. c \in Seq(Nat)
      BY SeqMonotonic
    <3>2. PICK x \in Seq(Nat), y \in Seq(Nat) : x = <<Str>> /\ y = <<0>>
      <4>1. <<Str>> \in Seq(Nat) /\ <<0>> \in Seq(Nat)
        BY DEF Str
      <4> QED
        BY <4>1
    <3>3. Len(x) = 1 /\ Len(y) = 1 /\ x[1] = Str /\ y[1] = 0
      BY <3>2
    <3>4. PICK xc : xc = x \o c
      OBVIOUS
    <3>5. PICK l \in Nat : l = 1 + n
      OBVIOUS
    <3>6. xc \in Seq(Nat) /\ Len(xc) = l /\ (\A i \in 1..1 : xc[i] = x[i]) /\ \A i \in 1..n : xc[1 + i] = c[i]
      <4>1. PICK o : o = 1
        OBVIOUS
      <4>2. x \in Seq(Nat) /\ c \in Seq(Nat) /\ o = Len(x) /\ n = Len(c)
        BY <2>1, <3>1, <3>3, <4>1
      <4>3. /\ x \o c \in Seq(Nat) /\ Len(x \o c) = o + n
            /\ (\A i \in 1..o : (x \o c)[i] = x[i]) /\ \A i \in 1..n : (x \o c)[o + i] = c[i]
        BY <4>2, Behind
      <4> QED
        BY <3>4, <3>5, <4>1, <4>3
    <3>7. PICK w : w = xc \o y
      OBVIOUS
    <3>8. w \in Seq(Nat) /\ Len(w) = l + 1 /\ (\A i \in 1..l : w[i] = xc[i]) /\ \A i \in 1..1 : w[l + i] = y[i]
      <4>1. PICK o : o = 1
        OBVIOUS
      <4>2. xc \in Seq(Nat) /\ l = Len(xc) /\ o = Len(y)
        BY <3>3, <3>6, <4>1
      <4>3. /\ xc \o y \in Seq(Nat) /\ Len(xc \o y) = l + o
            /\ (\A i \in 1..l : (xc \o y)[i] = xc[i]) /\ \A i \in 1..o : (xc \o y)[l + i] = y[i]
        BY <4>2, Behind
      <4> QED
        BY <3>7, <4>1, <4>3
    <3>9. w = z
      BY <2>2, <3>2, <3>4, <3>7
    <3>10. w[1] = Str /\ w[n + 2] = 0 /\ l + 1 = n + 2
      <4>1. 1 \in 1..l /\ 1 \in 1..1 /\ l + 1 = n + 2
        BY <3>5
      <4> QED
        BY <3>3, <3>6, <3>8, <4>1
    <3>11. ASSUME NEW i \in 1..n PROVE w[i + 1] = c[i]
      <4>1. 1 + i \in 1..l /\ 1 + i = i + 1
        BY <3>5
      <4> QED
        BY <3>6, <3>8, <4>1
    <3> QED
      BY <3>8, <3>9, <3>10, <3>11
  <2>4. m = n + 2 /\ \A i \in 1..n + 2 : b[at + i - 1] = z[i]
    BY <1>1, <2>1, <2>2, <2>3 DEF Bytes, IsText
  <2>5. b[at] = Str
    <3>1. 1 \in 1..n + 2 /\ at + 1 - 1 = at
      OBVIOUS
    <3> QED
      BY <2>3, <2>4, <3>1
  <2>6. PICK k \in at + 1..N : k = at + n + 1 /\ b[k] = 0
    <3>1. n + 2 \in 1..n + 2 /\ at + (n + 2) - 1 = at + n + 1 /\ at + n + 1 \in at + 1..N
      BY <2>4
    <3> QED
      BY <2>3, <2>4, <3>1
  <2>7. ASSUME NEW i \in at + 1..k - 1 PROVE b[i] # 0 /\ i - at \in 1..n /\ b[i] = c[i - at]
    <3>1. PICK j \in 1..n : j = i - at /\ at + (j + 1) - 1 = i /\ j + 1 \in 1..n + 2
      <4>1. i \in Int /\ at + 1 <= i /\ i <= at + n /\ n \in Nat /\ at \in Nat
        BY <2>6
      <4>2. i - at \in 1..n /\ at + ((i - at) + 1) - 1 = i /\ (i - at) + 1 \in 1..n + 2
        BY <4>1
      <4> QED
        BY <4>2
    <3>2. b[i] = c[j]
      BY <2>3, <2>4, <3>1
    <3>3. c[j] # 0
      BY <2>1
    <3> QED
      BY <3>1, <3>2, <3>3
  <2>8. \A j \in at + 1..N : b[j] = 0 /\ (\A i \in at + 1..j - 1 : b[i] # 0) => j = k
    <3> SUFFICES ASSUME NEW j \in at + 1..N, b[j] = 0, \A i \in at + 1..j - 1 : b[i] # 0 PROVE j = k
      OBVIOUS
    <3>1. ~(j < k)
      <4>1. j < k => j \in at + 1..k - 1
        OBVIOUS
      <4> QED
        BY <2>7, <4>1
    <3>2. ~(k < j)
      <4>1. k < j => k \in at + 1..j - 1
        OBVIOUS
      <4> QED
        BY <2>6, <4>1
    <3> QED
      BY <3>1, <3>2
  <2>9. LastOf(b, at) = CHOOSE j \in at + 1..N : b[j] = 0 /\ \A i \in at + 1..j - 1 : b[i] # 0
    BY <2>5 DEF LastOf
  <2>10. LastOf(b, at) = k
    BY <2>6, <2>7, <2>8, <2>9
  <2>11. Read(b, at) = SubSeq(b, at + 1, k - 1)
    BY <2>5, <2>10 DEF Read
  <2>12. PICK s : s = SubSeq(b, at + 1, k - 1)
    OBVIOUS
  <2>13. s \in Seq(Nat) /\ Len(s) = n /\ \A i \in 1..n : s[i] = b[at + i]
    <3>1. at + 1 \in 1..N + 1 /\ k - 1 \in at..N /\ (k - 1) - (at + 1) + 1 = n
      BY <2>6
    <3>2. s = [i \in 1..n |-> b[at + i]]
      BY <2>12, <3>1
    <3>3. \A i \in 1..n : b[at + i] \in Nat
      BY <3>1
    <3> QED
      BY <3>2, <3>3
  <2>14. \A i \in 1..n : s[i] = c[i]
    <3> SUFFICES ASSUME NEW i \in 1..n PROVE s[i] = c[i]
      OBVIOUS
    <3>1. at + i \in at + 1..k - 1 /\ (at + i) - at = i
      BY <2>6
    <3>2. b[at + i] = c[i]
      BY <2>7, <3>1
    <3> QED
      BY <2>13, <3>2
  <2>15. s = c
    <3>1. c \in Seq(Nat)
      BY SeqMonotonic
    <3>2. Len(c) = n /\ Len(s) = n /\ s \in Seq(Nat)
      BY <2>1, <2>13
    <3> QED
      BY <2>14, <3>1, <3>2, SameSeq
  <2>16. k = at + m - 1 /\ k \in at..N
    BY <2>4, <2>6
  <2> QED
    BY <2>1, <2>10, <2>11, <2>12, <2>15, <2>16
<1>2. CASE IsNumber(arg)
  <2>1. PICK n \in Nat \ {0}, y \in Nat, x \in Nat : n = SizeOf[arg.type] /\ y = arg.type /\ y # Str /\ arg.chars = <<x>>
    BY <1>2 DEF IsNumber
  <2>2. e = <<y>> \o [k \in 1 .. n |-> x]
    <3>1. Bytes(arg) = <<arg.type>> \o [k \in 1 .. SizeOf[arg.type] |-> arg.chars[1]]
      BY <2>1 DEF Bytes
    <3>2. arg.chars[1] = x
      BY <2>1
    <3> QED
      BY <2>1, <3>1, <3>2
  <2>3. m = n + 1 /\ e[1] = y /\ e[2] = x
    <3>1. PICK c : c = [k \in 1 .. n |-> x]
      OBVIOUS
    <3>2. c \in Seq(Nat) /\ Len(c) = n /\ c[1] = x
      BY <3>1
    <3> QED
      BY <2>2, <3>1, <3>2
  <2>4. b[at] = y /\ b[at + 1] = x
    <3>1. 1 \in 1..m /\ 2 \in 1..m /\ at + 1 - 1 = at /\ at + 2 - 1 = at + 1
      BY <2>3
    <3> QED
      BY <2>3, <3>1
  <2>5. LastOf(b, at) = at + n
    BY <2>1, <2>4 DEF LastOf
  <2>6. Read(b, at) = <<x>>
    BY <2>1, <2>4 DEF Read
  <2>7. at + n = at + m - 1 /\ at + n \in at..N
    BY <2>3
  <2> QED
    BY <2>1, <2>5, <2>6, <2>7
<1> QED
  BY <1>1, <1>2

\* What can be said.
Sayings(b) == {Read(b, at) : at \in 1..Len(b)} \cup Seq(Nat)

\* Decode, with what it says from every place.
Decodes(from, b, N, A) ==
  /\ Decode(b) = from[1]
  /\ \A at \in 1..N + 1 :
       from[at] = IF at <= N /\ LastOf(b, at) \in at..N THEN <<Read(b, at)>> \o from[LastOf(b, at) + 1] ELSE <<>>
  /\ \A at \in 1..N + 1 : from[at] \in Seq(A)

LEMMA DecodeRun ==
  ASSUME NEW b \in Seq(Nat), NEW N \in Nat, N = Len(b)
  PROVE  \E from : Decodes(from, b, N, Sayings(b))
<1> DEFINE V == Sayings(b)
           Stop == {at \in 1..N + 1 : ~(at <= N /\ LastOf(b, at) \in at..N)}
           B == [at \in 1..N + 1 |-> <<>>]
           next == [at \in 1..N + 1 |-> LastOf(b, at) + 1]
           F == [p \in (1..N + 1) \X Seq(V) |-> IF p[1] \in Stop THEN <<>> ELSE <<Read(b, p[1])>> \o p[2]]
           Rule(from) ==
             [at \in 1..N + 1 |-> IF at <= N /\ LastOf(b, at) \in at..N
                                  THEN <<Read(b, at)>> \o from[LastOf(b, at) + 1] ELSE <<>>]
           decode == CHOOSE from : from = Rule(from)
<1>1. \A at \in 1..N : Read(b, at) \in V
  BY DEF Sayings
<1> HIDE DEF V
<1>2. B \in [1..N + 1 -> Seq(V)]
  <2>1. <<>> \in Seq(V)
    OBVIOUS
  <2> QED
    BY <2>1
<1>3. ASSUME NEW at \in 1..N + 1, at \notin Stop
      PROVE  next[at] \in at + 1..N + 1 /\ next[at] = LastOf(b, at) + 1 /\ at \in 1..N /\ LastOf(b, at) \in at..N
  <2>1. PICK k \in at..N : k = LastOf(b, at)
    BY <1>3
  <2> QED
    BY <1>3, <2>1
<1>4. F \in [(1..N + 1) \X Seq(V) -> Seq(V)]
  <2>1. ASSUME NEW p \in (1..N + 1) \X Seq(V)
        PROVE  (IF p[1] \in Stop THEN <<>> ELSE <<Read(b, p[1])>> \o p[2]) \in Seq(V)
    <3>1. PICK at \in 1..N + 1, s \in Seq(V) : at = p[1] /\ s = p[2]
      OBVIOUS
    <3>2. CASE at \in Stop
      BY <3>1, <3>2
    <3>3. CASE at \notin Stop
      <4>1. Read(b, at) \in V
        BY <1>1, <1>3, <3>3
      <4>2. <<Read(b, at)>> \o s \in Seq(V)
        <5>1. PICK m \in Nat : m = Len(s)
          OBVIOUS
        <5> QED
          BY <4>1, <5>1, InFront
      <4> QED
        BY <3>1, <3>3, <4>2
    <3> QED
      BY <3>2, <3>3
  <2> QED
    BY <2>1
<1>5. PICK g \in [1..N + 1 -> Seq(V)] : Climbs(g, 1, N + 1, Stop, B, next, F)
  <2>1. 1 \in Nat /\ N + 1 \in Nat /\ 1 <= N + 1
    OBVIOUS
  <2>2. PICK M, C, stops, then, H : M = N + 1 /\ C = B /\ stops = Stop /\ then = next /\ H = F
    OBVIOUS
  <2>3. \A at \in 1..N + 1 : at \notin Stop => next[at] \in at + 1..N + 1
    BY <1>3
  <2> HIDE DEF Stop, B, next, F
  <2>4. /\ C \in [1..M -> Seq(V)] /\ M \in Nat /\ 1 <= M
        /\ \A at \in 1..M : at \notin stops => then[at] \in at + 1..M
        /\ H \in [(1..M) \X Seq(V) -> Seq(V)]
    BY <1>2, <1>4, <2>1, <2>2, <2>3
  <2>5. \E g \in [1..M -> Seq(V)] : Climbs(g, 1, M, stops, C, then, H)
    BY <2>1, <2>4, UpwardThere, Zenon
  <2> QED
    BY <2>2, <2>5
<1>6. g = Rule(g)
  <2> SUFFICES ASSUME NEW at \in 1..N + 1 PROVE g[at] = Rule(g)[at]
    OBVIOUS
  <2>0. g[at] = IF at \in Stop THEN B[at] ELSE F[<<at, g[next[at]]>>]
    <3> HIDE DEF Stop, B, next, F
    <3> QED
      BY <1>5 DEF Climbs
  <2>1. CASE at \in Stop
    BY <2>0, <2>1
  <2>2. CASE at \notin Stop
    <3>1. next[at] \in 1..N + 1 /\ next[at] = LastOf(b, at) + 1 /\ at <= N /\ LastOf(b, at) \in at..N
      BY <1>3, <2>2
    <3>2. g[next[at]] \in Seq(V)
      BY <3>1
    <3>3. <<at, g[next[at]]>> \in (1..N + 1) \X Seq(V)
      BY <3>2
    <3>4. g[at] = <<Read(b, at)>> \o g[next[at]]
      BY <2>0, <2>2, <3>3
    <3> QED
      BY <3>1, <3>4
  <2> QED
    BY <2>1, <2>2
<1>7. decode = Rule(decode)
  <2> HIDE DEF Rule
  <2> QED
    BY <1>6
<1>8. Decode(b) = decode[1]
  BY Zenon DEF Decode
<1> HIDE DEF decode
<1>9. ASSUME NEW at \in 1..N + 1
      PROVE  decode[at] = IF at <= N /\ LastOf(b, at) \in at..N
                          THEN <<Read(b, at)>> \o decode[LastOf(b, at) + 1] ELSE <<>>
  BY <1>7
<1> DEFINE G == {at \in 1..N + 1 : decode[at] \in Seq(V)}
<1>10. ASSUME NEW at \in 1..N + 1, \A j \in at + 1..N + 1 : j \in G
       PROVE  at \in G
  <2>1. CASE at <= N /\ LastOf(b, at) \in at..N
    <3>1. PICK k \in at + 1..N + 1 : k = LastOf(b, at) + 1
      BY <2>1
    <3>2. PICK s \in Seq(V), m \in Nat : s = decode[k] /\ m = Len(s)
      BY <1>10
    <3>3. PICK x \in V : x = Read(b, at)
      BY <1>1, <2>1
    <3>4. decode[at] = <<x>> \o s
      BY <1>9, <2>1, <3>1, <3>2, <3>3
    <3>5. <<x>> \o s \in Seq(V)
      BY <3>2, InFront
    <3> QED
      BY <3>4, <3>5
  <2>2. CASE ~(at <= N /\ LastOf(b, at) \in at..N)
    <3>1. decode[at] = <<>>
      BY <1>9, <2>2
    <3>2. \A S : <<>> \in Seq(S)
      OBVIOUS
    <3>3. <<>> \in Seq(V)
      BY <3>2
    <3> QED
      BY <3>1, <3>3
  <2> QED
    BY <2>1, <2>2
<1>11. \A at \in 1..N + 1 : at \in G
  <2>1. PICK M \in Nat : M = N + 1
    OBVIOUS
  <2> HIDE DEF G
  <2>2. \A at \in 1..M : (\A j \in at + 1..M : j \in G) => at \in G
    BY <1>10, <2>1
  <2>3. \A at \in 1..M : at \in G
    BY <2>2, DownFrom
  <2> QED
    BY <2>1, <2>3
<1>12. \A at \in 1..N + 1 : decode[at] \in Seq(Sayings(b))
  BY <1>11 DEF V
<1> HIDE DEF G
<1>13. Decodes(decode, b, N, Sayings(b))
  BY <1>8, <1>9, <1>12 DEF Decodes
<1> QED
  BY <1>13

\* Where a sequence to which one after another is appended has each of them.
Appended(n, line, e) ==
  /\ \A k \in 0..n : line[k] \in Seq(Nat)
  /\ \A k \in 1..n : e[k] \in Seq(Nat) /\ line[k] = line[k - 1] \o e[k]

LEMMA StillThere ==
  ASSUME NEW n \in Nat, NEW line, NEW e, Appended(n, line, e)
  PROVE  \A k \in 0..n : Len(line[k]) <= Len(line[n]) /\ \A i \in 1..Len(line[k]) : line[n][i] = line[k][i]
<1> DEFINE G == {k \in 0..n : Len(line[k]) <= Len(line[n]) /\ \A i \in 1..Len(line[k]) : line[n][i] = line[k][i]}
<1>1. ASSUME NEW k \in 0..n, \A j \in k + 1..n : j \in G PROVE k \in G
  <2>1. CASE k = n
    <3>1. Len(line[n]) \in Nat
      BY DEF Appended
    <3> QED
      BY <2>1, <3>1
  <2>2. CASE k # n
    <3>1. PICK j \in 1..n : j = k + 1 /\ j - 1 = k /\ j \in G
      <4>1. k + 1 \in k + 1..n /\ k + 1 \in 1..n /\ (k + 1) - 1 = k
        BY <2>2
      <4> HIDE DEF G
      <4> QED
        BY <1>1, <4>1
    <3>7. PICK s \in Seq(Nat), t \in Seq(Nat) : s = line[k] /\ t = e[j] /\ line[j] = s \o t
      BY <3>1 DEF Appended
    <3>2. PICK p \in Nat, q \in Nat : p = Len(s) /\ q = Len(t)
      OBVIOUS
    <3>3. Len(line[j]) = p + q /\ \A i \in 1..p : line[j][i] = s[i]
      <4>1. /\ s \o t \in Seq(Nat) /\ Len(s \o t) = p + q
            /\ (\A i \in 1..p : (s \o t)[i] = s[i]) /\ \A i \in 1..q : (s \o t)[p + i] = t[i]
        BY <3>2, Behind
      <4> QED
        BY <3>7, <4>1
    <3>4. PICK N \in Nat : N = Len(line[n])
      BY DEF Appended
    <3>5. p + q <= N /\ \A i \in 1..p + q : line[n][i] = line[j][i]
      BY <3>1, <3>3, <3>4
    <3>6. p <= N /\ \A i \in 1..p : line[n][i] = s[i]
      <4>1. \A i \in 1..p : i \in 1..p + q
        OBVIOUS
      <4> QED
        BY <3>3, <3>5, <4>1
    <3> QED
      BY <3>2, <3>4, <3>6, <3>7
  <2> QED
    BY <2>1, <2>2
<1>2. \A k \in 0..n : k \in G
  <2> HIDE DEF G
  <2>1. 0 \in Nat /\ \A k \in 0..n : (\A j \in k + 1..n : j \in G) => k \in G
    BY <1>1
  <2> QED
    BY <2>1, DownFrom
<1> QED
  BY <1>2

Lengths(N, p, q, s, t, u) == N = Len(s) /\ p = Len(t) /\ q = Len(u)

\* The bytes of a part stand in the whole behind the p before it.
StandsBehind(whole, N, p, part, q) ==
  N \in Nat /\ p \in Nat /\ q \in Nat /\ p + q <= N /\ \A i \in 1..q : whole[p + i] = part[i]

LEMMA StandsAt ==
  ASSUME NEW n \in Nat, NEW line, NEW e, Appended(n, line, e), NEW k \in 1..n,
         NEW N, NEW p, NEW q, Lengths(N, p, q, line[n], line[k - 1], e[k])
  PROVE  StandsBehind(line[n], N, p, e[k], q) /\ Len(line[k]) = p + q
<1>1. PICK s \in Seq(Nat), t \in Seq(Nat) : s = line[k - 1] /\ t = e[k] /\ line[k] = s \o t
  <2>1. k - 1 \in 0..n
    OBVIOUS
  <2> QED
    BY <2>1 DEF Appended
<1>5. N = Len(line[n])
  BY DEF Lengths
<1>2. N \in Nat /\ p \in Nat /\ q \in Nat /\ p = Len(s) /\ q = Len(t)
  <2>1. line[n] \in Seq(Nat)
    BY DEF Appended
  <2> QED
    BY <1>1, <2>1 DEF Lengths
<1>3. Len(line[k]) = p + q /\ \A i \in 1..q : line[k][p + i] = t[i]
  <2>1. /\ s \o t \in Seq(Nat) /\ Len(s \o t) = p + q
        /\ (\A i \in 1..p : (s \o t)[i] = s[i]) /\ \A i \in 1..q : (s \o t)[p + i] = t[i]
    BY <1>2, Behind
  <2> QED
    BY <1>1, <2>1
<1>4. Len(line[k]) <= Len(line[n]) /\ \A i \in 1..Len(line[k]) : line[n][i] = line[k][i]
  <2>1. k \in 0..n
    OBVIOUS
  <2> QED
    BY <2>1, StillThere
<1>6. \A i \in 1..q : p + i \in 1..p + q
  BY <1>2
<1>7. p + q <= N /\ \A i \in 1..q : line[n][p + i] = e[k][i]
  BY <1>1, <1>2, <1>3, <1>4, <1>5, <1>6
<1> QED
  BY <1>2, <1>3, <1>7 DEF StandsBehind

\* What an argument says.
Said(arg) == IF arg.chars = <<>> THEN <<>> ELSE <<arg.chars>>

\* The bytes of the k-th argument stand behind those of the arguments before it.
LEMMA ArgStands ==
  ASSUME NEW n \in Nat, NEW args \in [1..n -> AnyArg], NEW line,
         Appended(n, line, Encoded(n, args)), NEW k \in 1..n
  PROVE  /\ StandsBehind(line[n], Len(line[n]), Len(line[k - 1]), Bytes(args[k]), Len(Bytes(args[k])))
         /\ Len(line[k]) = Len(line[k - 1]) + Len(Bytes(args[k]))
         /\ line[n] \in Seq(Nat)
<1>1. PICK es : es = Encoded(n, args)
  OBVIOUS
<1>2. Appended(n, line, es) /\ es[k] = Bytes(args[k])
  BY <1>1 DEF Encoded
<1>3. PICK N, p, q : Lengths(N, p, q, line[n], line[k - 1], es[k])
  BY DEF Lengths
<1>4. StandsBehind(line[n], N, p, es[k], q) /\ Len(line[k]) = p + q
  BY <1>2, <1>3, StandsAt
<1>5. N = Len(line[n]) /\ p = Len(line[k - 1]) /\ q = Len(es[k])
  BY <1>3 DEF Lengths
<1>6. line[n] \in Seq(Nat)
  BY <1>2 DEF Appended
<1> QED
  BY <1>2, <1>4, <1>5, <1>6

\* What is read from where an argument begins is what it said and what is read from its end.
SaysOn(from, line, args, k) == from[Len(line[k - 1]) + 1] = Said(args[k]) \o from[Len(line[k]) + 1]

\* It is so from every place at which one begins.
LEMMA SaysFrom ==
  ASSUME NEW n \in Nat, NEW args \in [1..n -> AnyArg], NEW line,
         Appended(n, line, Encoded(n, args)), NEW b, b = line[n], NEW N \in Nat, N = Len(b),
         NEW from, NEW A, Decodes(from, b, N, A), NEW k \in 1..n
  PROVE  SaysOn(from, line, args, k)
<1> SUFFICES from[Len(line[k - 1]) + 1] = Said(args[k]) \o from[Len(line[k]) + 1]
  BY DEF SaysOn
<1>1. PICK arg : arg = args[k] /\ (IsText(arg) \/ IsNumber(arg))
  BY ArgIs
<1>2. PICK e, q, p : e = Bytes(arg) /\ q = Len(e) /\ p = Len(line[k - 1])
  OBVIOUS
<1>7. /\ StandsBehind(line[n], Len(line[n]), Len(line[k - 1]), Bytes(args[k]), Len(Bytes(args[k])))
      /\ Len(line[k]) = Len(line[k - 1]) + Len(Bytes(args[k]))
      /\ line[n] \in Seq(Nat)
  BY ArgStands
<1>3. N \in Nat /\ p \in Nat /\ q \in Nat /\ p + q <= N /\ Len(line[k]) = p + q /\ \A i \in 1..q : b[p + i] = e[i]
  BY <1>1, <1>2, <1>7 DEF StandsBehind
<1>4. e \in Seq(Nat) /\ b \in Seq(Nat)
  BY <1>1, <1>2, <1>7, BytesType
<1>5. CASE arg.chars = <<>>
  <2>1. Said(arg) = <<>> /\ e = <<>>
    BY <1>1, <1>2, <1>5, BytesType DEF Said
  <2>2. q = 0
    BY <1>2, <2>1
  <2>3. PICK f : f = from[p + 1]
    OBVIOUS
  <2>4. from[Len(line[k]) + 1] = f /\ from[Len(line[k - 1]) + 1] = f
    BY <1>2, <1>3, <2>2, <2>3
  <2>5. f = <<>> \o f
    <3>1. p + 1 \in 1..N + 1
      BY <1>3
    <3>2. f \in Seq(A)
      BY <2>3, <3>1 DEF Decodes
    <3> QED
      BY <3>2, ConcatEmptySeq
  <2> QED
    BY <1>1, <2>1, <2>4, <2>5
<1>6. CASE arg.chars # <<>>
  <2>1. q # 0
    BY <1>1, <1>2, <1>4, <1>6, BytesType, EmptySeq
  <2>2. PICK at \in 1..N : at = p + 1 /\ at + q - 1 = p + q
    <3>1. p + 1 \in 1..N /\ (p + 1) + q - 1 = p + q
      BY <1>3, <2>1
    <3> QED
      BY <3>1
  <2>3. \A i \in 1..q : b[at + i - 1] = e[i]
    <3> SUFFICES ASSUME NEW i \in 1..q PROVE b[at + i - 1] = e[i]
      OBVIOUS
    <3>1. at + i - 1 = p + i
      BY <1>3, <2>2
    <3> QED
      BY <1>3, <3>1
  <2>4. LastOf(b, at) = at + q - 1 /\ LastOf(b, at) \in at..N /\ Read(b, at) = arg.chars
    <3>1. /\ b \in Seq(Nat) /\ N \in Nat /\ N = Len(b) /\ (IsText(arg) \/ IsNumber(arg)) /\ arg.chars # <<>>
          /\ at \in 1..N /\ e = Bytes(arg) /\ q \in Nat /\ q = Len(e) /\ at + q - 1 <= N
      BY <1>1, <1>2, <1>3, <1>4, <1>6, <2>2
    <3>2. BeginsAt(b, N, arg, e, q, at)
      BY <2>3, <3>1 DEF BeginsAt
    <3> QED
      BY <3>2, ReadsBack
  <2>5. from[at] = <<Read(b, at)>> \o from[LastOf(b, at) + 1]
    <3>1. at \in 1..N + 1 /\ at <= N
      OBVIOUS
    <3> QED
      BY <2>4, <3>1 DEF Decodes
  <2>6. LastOf(b, at) + 1 = Len(line[k]) + 1
    BY <1>3, <2>2, <2>4
  <2>7. from[at] = Said(arg) \o from[Len(line[k]) + 1]
    BY <1>6, <2>4, <2>5, <2>6 DEF Said
  <2> QED
    BY <1>1, <1>2, <2>2, <2>7
<1> QED
  BY <1>5, <1>6

LEMMA LineSays ==
  ASSUME NEW n \in Nat, NEW args \in [1..n -> AnyArg]
  PROVE  /\ Decode(FoldLeft(Encode, NewLine, args).bytes) = FlattenSeq([k \in DOMAIN args |-> Said(args[k])])
         /\ Len(FoldLeft(Encode, NewLine, args).bytes) <= FoldLeft(Encode, NewLine, args).size
<1>1. PICK l : /\ l[0] = NewLine /\ l[n] = FoldLeft(Encode, NewLine, args)
               /\ \A k \in 0..n : l[k] \in LogLineType /\ Len(l[k].bytes) <= l[k].size
               /\ \A k \in 1..n : l[k].bytes = l[k - 1].bytes \o Bytes(args[k])
  BY EncodeRun
<1>2. PICK line : line = [k \in 0..n |-> l[k].bytes]
  OBVIOUS
<1>3. Appended(n, line, Encoded(n, args))
  <2>1. \A k \in 0..n : line[k] \in Seq(Nat)
    BY <1>1, <1>2 DEF LogLineType
  <2>2. \A k \in 1..n : Bytes(args[k]) \in Seq(Nat)
    BY ArgIs, BytesType
  <2>3. \A k \in 1..n : line[k] = line[k - 1] \o Bytes(args[k])
    <3>1. \A k \in 1..n : k \in 0..n /\ k - 1 \in 0..n
      OBVIOUS
    <3> QED
      BY <1>1, <1>2, <3>1
  <2>4. \A k \in 1..n : Encoded(n, args)[k] = Bytes(args[k])
    BY DEF Encoded
  <2> QED
    BY <2>1, <2>2, <2>3, <2>4 DEF Appended
<1>19. PICK b : b = line[n] /\ b \in Seq(Nat)
  BY <1>3 DEF Appended
<1>4. PICK N \in Nat : b = line[n] /\ N = Len(b) /\ b \in Seq(Nat)
  BY <1>19
<1>5. b = FoldLeft(Encode, NewLine, args).bytes /\ Len(b) <= FoldLeft(Encode, NewLine, args).size
  BY <1>1, <1>2, <1>4
<1>6. Len(line[0]) = 0
  <2>1. line[0] = <<>>
    BY <1>1, <1>2 DEF NewLine
  <2> QED
    BY <2>1
<1>8. PICK A : A = Sayings(b)
  OBVIOUS
<1>7. PICK from : Decodes(from, b, N, A)
  BY <1>4, <1>8, DecodeRun
<1>9. PICK ss : ss = [k \in 1..n |-> Said(args[k])]
  OBVIOUS
<1>10. DOMAIN args = 1..n /\ Len(ss) = n /\ ss = [k \in DOMAIN args |-> Said(args[k])]
  BY <1>9
<1>11. ss \in Seq(Seq(A))
  <2>1. ASSUME NEW k \in 1..n PROVE Said(args[k]) \in Seq(A)
    <3>1. PICK arg : arg = args[k] /\ (IsText(arg) \/ IsNumber(arg))
      BY ArgIs
    <3>2. arg.chars \in Seq(Nat)
      <4>1. CASE IsText(arg)
        BY <4>1, SeqMonotonic DEF IsText
      <4>2. CASE IsNumber(arg)
        BY <4>2 DEF IsNumber
      <4> QED
        BY <3>1, <4>1, <4>2
    <3>3. arg.chars \in A
      BY <1>8, <3>2 DEF Sayings
    <3>4. PICK c : c = arg.chars
      OBVIOUS
    <3>5. <<c>> \in Seq(A) /\ <<>> \in Seq(A)
      BY <3>3, <3>4
    <3> QED
      BY <3>1, <3>4, <3>5 DEF Said
  <2> QED
    BY <1>9, <2>1
<1>12. PICK run : /\ run[0] = <<>> /\ run[n] = FlattenSeq(ss)
                  /\ \A i \in 0..n : run[i] \in Seq(A)
                  /\ \A i \in 1..n : run[i] = run[i - 1] \o Said(args[i])
  <2>1. PICK run : /\ run[0] = <<>> /\ run[Len(ss)] = FlattenSeq(ss)
                   /\ \A i \in 0..Len(ss) : run[i] \in Seq(A)
                   /\ \A i \in 1..Len(ss) : run[i] = run[i - 1] \o ss[i]
    BY <1>11, FlattenRun
  <2>2. \A i \in 1..n : ss[i] = Said(args[i])
    BY <1>9
  <2> QED
    BY <1>10, <2>1, <2>2
<1>13. ASSUME NEW k \in 1..n
       PROVE  from[Len(line[k - 1]) + 1] = Said(args[k]) \o from[Len(line[k]) + 1]
  <2>1. /\ n \in Nat /\ args \in [1..n -> AnyArg] /\ Appended(n, line, Encoded(n, args)) /\ b = line[n] /\ N \in Nat
        /\ N = Len(b) /\ Decodes(from, b, N, A) /\ k \in 1..n
    BY <1>3, <1>4, <1>7
  <2>2. SaysOn(from, line, args, k)
    BY <2>1, SaysFrom
  <2> QED
    BY <2>2 DEF SaysOn
<1>14. ASSUME NEW k \in 0..n
       PROVE  from[Len(line[k]) + 1] \in Seq(A)
  <2>1. Len(line[k]) + 1 \in 1..N + 1
    <3>1. line[k] \in Seq(Nat)
      BY <1>3 DEF Appended
    <3>2. Len(line[k]) \in Nat
      BY <3>1
    <3>3. Len(line[k]) <= Len(line[n])
      BY <1>3, StillThere
    <3> QED
      BY <1>4, <3>2, <3>3
  <2> QED
    BY <1>7, <2>1 DEF Decodes
<1>20. PICK whole : \A k \in 0..n : whole[k] = run[k] \o from[Len(line[k]) + 1]
  <2>1. PICK whole : whole = [k \in 0..n |-> run[k] \o from[Len(line[k]) + 1]]
    OBVIOUS
  <2> QED
    BY <2>1
<1> DEFINE G == {k \in 0..n : whole[k] = from[1]}
<1>15. \A k \in 0..n : k \in G
  <2>1. 0 \in G
    <3>1. PICK f : f = from[1]
      OBVIOUS
    <3>2. f \in Seq(A)
      BY <1>6, <1>14, <3>1
    <3>3. <<>> \o f = f
      BY <3>2, ConcatEmptySeq
    <3>4. 0 \in 0..n /\ 0 + 1 = 1
      OBVIOUS
    <3>5. whole[0] = run[0] \o from[Len(line[0]) + 1]
      BY <1>20, <3>4
    <3>6. whole[0] = f
      BY <1>6, <1>12, <3>1, <3>3, <3>4, <3>5
    <3> QED
      BY <3>1, <3>4, <3>6
  <2>2. ASSUME NEW k \in 1..n, k - 1 \in G PROVE k \in G
    <3>1. PICK r \in Seq(A), s \in Seq(A), t \in Seq(A) :
             r = run[k - 1] /\ s = Said(args[k]) /\ t = from[Len(line[k]) + 1]
      <4>1. k - 1 \in 0..n /\ k \in 0..n
        OBVIOUS
      <4>2. run[k - 1] \in Seq(A)
        BY <1>12, <4>1
      <4>3. Said(args[k]) \in Seq(A)
        BY <1>9, <1>11
      <4>4. from[Len(line[k]) + 1] \in Seq(A)
        BY <1>14, <4>1
      <4> QED
        BY <4>2, <4>3, <4>4
    <3>2. run[k] = r \o s
      BY <1>12, <3>1
    <3>3. from[Len(line[k - 1]) + 1] = s \o t
      BY <1>13, <3>1
    <3>4. r \o (s \o t) = from[1]
      <4>1. k - 1 \in 0..n /\ whole[k - 1] = from[1]
        BY <2>2
      <4>2. whole[k - 1] = run[k - 1] \o from[Len(line[k - 1]) + 1]
        BY <1>20, <4>1
      <4> QED
        BY <3>1, <3>3, <4>1, <4>2
    <3>5. (r \o s) \o t = r \o (s \o t)
      BY ConcatAssociative
    <3>6. k \in 0..n
      OBVIOUS
    <3>7. whole[k] = run[k] \o from[Len(line[k]) + 1]
      BY <1>20, <3>6
    <3>8. whole[k] = from[1]
      BY <3>1, <3>2, <3>4, <3>5, <3>7
    <3> QED
      BY <3>6, <3>8
  <2> HIDE DEF G
  <2> QED
    BY <2>1, <2>2, UpTo
<1>16. from[N + 1] = <<>>
  <2>1. N + 1 \in 1..N + 1 /\ ~(N + 1 <= N)
    OBVIOUS
  <2> QED
    BY <1>7, <2>1 DEF Decodes
<1>17. run[n] \o <<>> = from[1]
  <2>1. n \in 0..n /\ n \in G
    BY <1>15
  <2>2. Len(line[n]) + 1 = N + 1
    BY <1>4
  <2>3. whole[n] = from[1]
    BY <2>1
  <2>4. whole[n] = run[n] \o from[Len(line[n]) + 1]
    BY <1>20, <2>1
  <2> QED
    BY <1>16, <2>2, <2>3, <2>4
<1>18. run[n] \o <<>> = run[n]
  BY <1>12, ConcatEmptySeq
<1> QED
  BY <1>5, <1>7, <1>10, <1>12, <1>17, <1>18 DEF Decodes

LEMMA LinesThere == LinesSay
<1> SUFFICES ASSUME NEW n \in 0 .. 3, NEW args \in [1 .. n -> Args]
             PROVE  /\ Decode(FoldLeft(Encode, NewLine, args).bytes)
                         = FlattenSeq([k \in DOMAIN args |-> IF args[k].chars = <<>> THEN <<>> ELSE <<args[k].chars>>])
                    /\ Len(FoldLeft(Encode, NewLine, args).bytes) <= FoldLeft(Encode, NewLine, args).size
  BY Zenon DEF LinesSay
<1>1. n \in Nat /\ args \in [1..n -> AnyArg]
  BY SomeArgs
<1>2. /\ Decode(FoldLeft(Encode, NewLine, args).bytes) = FlattenSeq([k \in DOMAIN args |-> Said(args[k])])
      /\ Len(FoldLeft(Encode, NewLine, args).bytes) <= FoldLeft(Encode, NewLine, args).size
  BY <1>1, LineSays
<1> QED
  BY <1>2 DEF Said

-----------------------------------------------------------------------------
(* The programs together *)

\* The same of the three programs together, with the two invariants it rests on: a step of
\* fileCrop or of the log's writers is none of oiwst.
THEOREM TablesAgreeAlways == Spec => []TablesAgree
<1>1. Init => OrderInit
  BY DEF Init
<1>2. [Next]_jobsVars => [OrderNext]_orderVars
  BY DEF Next, jobsVars
<1>3. Spec => OrderSpec
  BY <1>1, <1>2, PTL DEF Spec, OrderSpec
<1>4. OrderInit => OrderIInv /\ DealtWithin /\ VolumesLeft
  BY InitIInv, VolumesInit
<1>5. OrderIInv /\ DealtWithin /\ VolumesLeft /\ [OrderNext]_orderVars => (DealtWithin /\ VolumesLeft)'
  BY VolumesStep
<1>6. OrderIInv /\ DealtWithin /\ VolumesLeft => TablesAgree
  BY DEF OrderIInv, TablesAgree, NeverTwice
<1> QED
  BY <1>3, <1>4, <1>5, <1>6, Inductive, PTL DEF OrderSpec

\* Whatever is put into a line, in however many arguments, is what it says, and the buffer
\* has room for it each time: operator<<, ResizeBuffer and the reading of the thread.
THEOREM EveryLineSays ==
  \A n \in Nat : \A args \in [1..n -> AnyArg] :
    /\ Decode(FoldLeft(Encode, NewLine, args).bytes) = FlattenSeq([k \in DOMAIN args |-> Said(args[k])])
    /\ Len(FoldLeft(Encode, NewLine, args).bytes) <= FoldLeft(Encode, NewLine, args).size
BY LineSays, Zenon

\* What goes in comes out, once: every line of a file that fileCrop has written, in the
\* buffers of its tasks, and every argument and every line of a log, in the files of its
\* writers.
THEOREM NothingMislaidAlways == Spec => []NothingMislaid
<1>1. Init => CropIInv /\ LogIInv
  BY CropInitIInv, LogInitIInv DEF Init
<1>2. [Next]_jobsVars => [CropNext]_cropVars /\ [LogNext]_logVars
  BY DEF Next, jobsVars
<1>3. CropIInv /\ LogIInv /\ [Next]_jobsVars => (CropIInv /\ LogIInv)'
  BY <1>2, CropStep, LogStep
<1>4. CropIInv /\ LogIInv => NothingMislaid
  BY BuffersThere, TasksThere, LinesThere DEF NothingMislaid, CropIInv, LogIInv
<1> QED
  BY <1>1, <1>3, <1>4, PTL DEF Spec
=============================================================================
