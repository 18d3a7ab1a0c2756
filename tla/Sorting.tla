------------------------------ MODULE Sorting -------------------------------
(***************************************************************************)
(* The sorting functions of algorithm_about/sort_about, as operators on    *)
(* sequences.  Arrays are indexed from 1 here and from 0 in the code,      *)
(* except in MaxHeapSort, whose heap begins at index 1 there too.          *)
(***************************************************************************)
EXTENDS Integers, Sequences, SequencesExt

Exchange(s, i, j) == [s EXCEPT ![i] = s[j], ![j] = s[i]]

-----------------------------------------------------------------------------
(* merge_sort.cpp                                                          *)

\* Mutant: what is left of the second half is not copied.
Merged_Short(a, b) ==
    LET take[i \in 1..Len(a) + 1, j \in 1..Len(b) + 1] ==
            IF i > Len(a) THEN <<>>
            ELSE IF j > Len(b) \/ a[i] < b[j]
                 THEN <<a[i]>> \o take[i + 1, j]
            ELSE <<b[j]>> \o take[i, j + 1]
    IN  take[1, 1]

\* The two halves are walked together: on equal elements the second half is first.
Merged(a, b) ==
    LET take[i \in 1..Len(a) + 1, j \in 1..Len(b) + 1] ==
            IF i > Len(a) THEN SubSeq(b, j, Len(b))
            ELSE IF j > Len(b) \/ a[i] < b[j]
                 THEN <<a[i]>> \o take[i + 1, j]
            ELSE <<b[j]>> \o take[i, j + 1]
    IN  take[1, 1]

RECURSIVE MergeSort(_)
MergeSort(s) ==
    LET m == (Len(s) + 1) \div 2
    IN  IF Len(s) <= 1 THEN s
        ELSE Merged(MergeSort(SubSeq(s, 1, m)), MergeSort(SubSeq(s, m + 1, Len(s))))

-----------------------------------------------------------------------------
(* quick_sort.cpp                                                          *)

Media(s, first, mid, last) ==
    IF s[first] < s[mid]
    THEN IF s[mid] < s[last] THEN mid
         ELSE IF s[first] < s[last] THEN last ELSE first
    ELSE IF s[first] < s[last] THEN first
    ELSE IF s[mid] < s[last] THEN last ELSE mid

\* The scans of lines 35 and 37: the first place from j down, from i up, that
\* stops them.
ScanDown(s, i, j, x) ==
    LET scan[k \in i..j] == IF s[k] >= x /\ i < k THEN scan[k - 1] ELSE k
    IN  scan[j]
ScanUp(s, i, j, x) ==
    LET scan[k \in i..j] == IF s[k] <= x /\ k < j THEN scan[k + 1] ELSE k
    IN  scan[i]

\* The loop of lines 33-40.  The place of the first element is taken for the hole,
\* also when Media chose another pivot: then the first element is lost and the
\* pivot, written where the scans meet, is there twice.
RECURSIVE Partition(_, _, _, _), QuickSort(_, _, _)
Partition(s, i, j, x) ==
    IF i = j THEN [s |-> [s EXCEPT ![i] = x], at |-> i]
    ELSE LET d == ScanDown(s, i, j, x)
             t == [s EXCEPT ![i] = s[d]]
             u == ScanUp(t, i, d, x)
         IN  Partition([t EXCEPT ![d] = t[u]], u, d, x)

QuickSort(s, first, last) ==
    IF first > last THEN s
    ELSE LET x == s[Media(s, first, (first - 1 + last - 1) \div 2 + 1, last)]
             p == Partition(s, first, last, x)
         IN  QuickSort(QuickSort(p.s, first, p.at - 1), p.at + 1, last)

-----------------------------------------------------------------------------
(* max_heap_sort.cpp: the element at index 0 stays out of it, the others   *)
(* come out in descending order.                                           *)

RECURSIVE MaxHeapFix(_, _), Drain(_)
MaxHeapFix(s, i) ==
    LET largest == CHOOSE k \in {i, 2 * i, 2 * i + 1} \cap 1..Len(s) :
                      /\ \A m \in {i, 2 * i, 2 * i + 1} \cap 1..Len(s) : s[k] >= s[m]
                      /\ \A m \in {i, 2 * i, 2 * i + 1} \cap 1..k - 1 : s[k] > s[m]
    IN  IF i > (Len(s) + 1) \div 2 \/ largest = i THEN s
        ELSE MaxHeapFix(Exchange(s, i, largest), largest)

MaxHeapBuild(s) ==
    IF s = <<>> THEN s
    ELSE FoldRight(LAMBDA i, t : MaxHeapFix(t, i),
                   [i \in 1..(Len(s) + 1) \div 2 |-> i], s)

Drain(s) ==
    IF s = <<>> THEN <<>>
    ELSE LET t == Exchange(s, 1, Len(s))
         IN  <<Last(t)>> \o (IF Len(t) = 1 THEN <<>> ELSE Drain(MaxHeapFix(Front(t), 1)))

MaxHeapSort(s) == Drain(MaxHeapBuild(s))

-----------------------------------------------------------------------------
(* radix_sort.cpp and counting_sort.cpp                                    *)

\* A digit is counted once per element that reaches the next power of ten, so one
\* large element among small ones counts as one digit more and no further.
MaxBit(s) == FoldLeft(LAMBDA m, x : IF x >= 10 ^ m THEN m + 1 ELSE m, 1, s)

Digit(x, i) == (x \div 10 ^ i) % 10

\* The place a stable counting sort by keys writes the element at j to: the count
\* of those that come before it, the prefix sums of countingArray.
Rank(keys, j) ==
    Len(SelectSeq(keys, LAMBDA k : k < keys[j]))
      + Len(SelectSeq(SubSeq(keys, 1, j), LAMBDA k : k = keys[j]))

\* One pass of RadixSort.
ByDigit(s, i) ==
    LET place(j) == Rank([k \in 1..Len(s) |-> Digit(s[k], i)], j)
    IN  [k \in 1..Len(s) |-> s[CHOOSE j \in 1..Len(s) : place(j) = k]]

RadixSort(s) ==
    IF Len(s) < 2 THEN s
    ELSE FoldLeft(LAMBDA t, i : ByDigit(t, i - 1), s, [i \in 1..MaxBit(s) |-> i])

\* CountingSort as called for the first time, with countingArray all zero.  It
\* writes an element of rank k to tmpVec[k], where RadixSort takes k - 1: the last
\* one is written past the end of the vector, and index 0 keeps its zero.
CountingSort(s) ==
    IF Len(s) < 2 THEN s
    ELSE LET place(j) == Rank(s, j)
         IN  [k \in 1..Len(s) |->
                IF k = 1 THEN 0 ELSE s[CHOOSE j \in 1..Len(s) : place(j) = k - 1]]

-----------------------------------------------------------------------------
Ordered(s) == \A i, j \in DOMAIN s : i <= j => s[i] <= s[j]
SameElements(s, t) ==
    /\ Len(s) = Len(t)
    /\ \A i \in DOMAIN s : Len(SelectSeq(s, LAMBDA x : x = s[i]))
                             = Len(SelectSeq(t, LAMBDA x : x = s[i]))
Sorts(s, t) == SameElements(s, t) /\ Ordered(t)
=============================================================================
