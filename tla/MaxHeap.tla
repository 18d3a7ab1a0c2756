------------------------------ MODULE MaxHeap -------------------------------
(***************************************************************************)
(* The class MaxHeap of algorithm_about/binary_tree/max_heap.cpp.  The     *)
(* heap begins at index 1 of the vector m_vec; the sequence here is that   *)
(* part of it, without the -1 at index 0.                                  *)
(***************************************************************************)
EXTENDS Integers, Sequences, SequencesExt

CONSTANTS
    HeapVals,   \* the values that are inserted: a set of integers
    HeapSize    \* bound: how many elements the heap holds

VARIABLES
    heap,       \* m_vec
    heapBag,    \* history: how often each value is in the heap
    heapCut     \* history: whether Delete was called

heapVars == <<heap, heapBag, heapCut>>

HeapInit == heap = <<>> /\ heapBag = [x \in HeapVals |-> 0] /\ heapCut = FALSE

SwapAt(s, i, j) == [s EXCEPT ![i] = s[j], ![j] = s[i]]

-----------------------------------------------------------------------------
\* Mutant: the parent of i is taken to be i / 2 + 1.
InsertFix_Uncle(s) ==
    LET climb[i \in 1..Len(s)] ==
            IF i > 1 /\ Last(s) > s[i \div 2] THEN climb[(i \div 2) + 1] ELSE i
    IN  IF Len(s) < 3 THEN s ELSE SwapAt(s, Len(s), climb[Len(s)])

\* The new element climbs past the smaller ones on its way.  Those are not moved
\* down: it is exchanged with the one at the place where it stops.
InsertFix(s) ==
    LET climb[i \in 1..Len(s)] ==
            IF i > 1 /\ Last(s) > s[i \div 2] THEN climb[i \div 2] ELSE i
    IN  IF Len(s) < 2 THEN s ELSE SwapAt(s, Len(s), climb[Len(s)])

\* The element at i sinks while both children are there and one is larger: a
\* child that is alone is not compared.
RECURSIVE DeleteFix(_, _)
DeleteFix(s, i) ==
    LET larger == IF s[2 * i] < s[2 * i + 1] THEN 2 * i + 1 ELSE 2 * i
    IN  IF 2 * i + 1 <= Len(s) /\ (s[i] < s[2 * i] \/ s[i] < s[2 * i + 1])
        THEN DeleteFix(SwapAt(s, i, larger), larger)
        ELSE s

Insert(x) ==
    /\ Len(heap) < HeapSize
    /\ heap' = InsertFix(Append(heap, x))
    /\ heapBag' = [heapBag EXCEPT ![x] = @ + 1]
    /\ UNCHANGED heapCut

\* Delete is for a heap that has elements: the test of line 20 lets an empty one
\* through, whose -1 is then removed.
Delete ==
    /\ heap # <<>>
    /\ heap' = DeleteFix(Front([heap EXCEPT ![1] = Last(heap)]), 1)
    /\ heapBag' = [heapBag EXCEPT ![heap[1]] = @ - 1]
    /\ heapCut' = TRUE

Top == heap[1]

HeapNext == (\E x \in HeapVals : Insert(x)) \/ Delete

-----------------------------------------------------------------------------
\* The heap has the values that were inserted and not deleted, each as often; and
\* until the first Delete the greatest of them is at the top, although InsertFix
\* breaks the order of the heap below it.
HeapHolds ==
    /\ \A x \in HeapVals : heapBag[x] = Len(SelectSeq(heap, LAMBDA y : y = x))
    /\ ~ heapCut /\ heap # <<>> => \A i \in DOMAIN heap : heap[i] <= Top

HeapSpec == HeapInit /\ [][HeapNext]_heapVars
=============================================================================
