----------------------------- MODULE Algorithms -----------------------------
(***************************************************************************)
(* The programs of algorithm_about together.  They share nothing, so one   *)
(* of them runs at a time: two trees, a heap, or the functions, which are  *)
(* called with every small input and compared with what they should        *)
(* return.                                                                 *)
(***************************************************************************)
EXTENDS RBTree, AVLTree, MaxHeap, Sorting, Classic

CONSTANTS
    Numbers,        \* the elements of the arrays that are sorted
    Terms,          \* the elements of the arrays whose subarrays are summed
    Letters,        \* the letters of the strings
    MaxInput        \* bound: how long an input is

VARIABLES
    program,        \* which program runs
    input           \* the argument of the functions

algVars == <<rbVars, avlVars, heapVars, program, input>>

Inputs(S) == UNION {[1..n -> S] : n \in 0..MaxInput}

Init ==
    /\ RBInit /\ AVLInit /\ HeapInit
    /\ input = <<>>
    /\ program \in {"RB_tree", "AVL_tree", "max_heap", "sort", "subarray", "palindrome"}

\* A function is called with an argument that is one element longer.
Call(S) == /\ Len(input) < MaxInput
           /\ \E x \in S : input' = Append(input, x)

Functions ==
    /\ \/ program = "sort" /\ Call(Numbers)
       \/ program = "subarray" /\ Call(Terms)
       \/ program = "palindrome" /\ Call(Letters)
    /\ UNCHANGED <<rbVars, avlVars, heapVars>>

Next ==
    /\ UNCHANGED program
    /\ \/ /\ program = "RB_tree" /\ RBNext
          /\ UNCHANGED <<avlVars, heapVars, input>>
       \/ /\ program = "AVL_tree" /\ AVLNext
          /\ UNCHANGED <<rbVars, heapVars, input>>
       \/ /\ program = "max_heap" /\ HeapNext
          /\ UNCHANGED <<rbVars, avlVars, input>>
       \/ Functions

Spec == Init /\ [][Next]_algVars

-----------------------------------------------------------------------------
\* MergeSort and MaxHeapSort return the elements of their input in order, also when
\* some are equal: the one ascending, the other descending.  QuickSort leaves an
\* ordered array too, but not of the same elements.  RadixSort orders by as many
\* digits as MaxBit counts, and CountingSort returns all but the greatest element,
\* one place too far.
SortsHold ==
    program = "sort" =>
        /\ Sorts(input, MergeSort(input))
        /\ Ordered(QuickSort(input, 1, Len(input)))
        /\ Sorts(input, Reverse(MaxHeapSort(input)))
        /\ LET low(x) == x % 10 ^ MaxBit(input)
               radix == RadixSort(input)
           IN  /\ SameElements(input, radix)
               /\ Len(input) > 1 => Ordered([i \in DOMAIN radix |-> low(radix[i])])
        /\ Len(input) > 1 =>
               Tail(CountingSort(input)) = Front(MergeSort(input))

\* The divide and conquer and the Kadane solution return the greatest sum of a
\* nonempty subarray, whatever the signs; the one that tries all returns 0 where
\* every sum is negative.  Manacher's algorithm returns a palindrome of the string
\* than which none is longer; so does the plain search, which finds nothing in a
\* single letter.
SolutionsHold ==
    /\ program = "subarray" /\ input # <<>> =>
           /\ DivideSolution(input) = MaxSum(input)
           /\ KadaneSolution(input) = MaxSum(input)
           /\ ViolentSolution(input) = Greater(0, MaxSum(input))
    /\ program = "palindrome" =>
           /\ LongestIn(input, longestPalindrome2(input))
           /\ Len(input) # 1 => LongestIn(input, longestPalindrome1(input))
=============================================================================
