------------------------------ MODULE Classic -------------------------------
(***************************************************************************)
(* algorithm_about/classic_problem: the sum of a maximum subarray, found   *)
(* in three ways (maximum_subarray.cpp), and a longest palindrome in a     *)
(* string, found in two (longest_palindrome.cpp).  Sequences are indexed   *)
(* from 1 here, from 0 in the code.                                        *)
(***************************************************************************)
EXTENDS Integers, Sequences, SequencesExt, FiniteSetsExt

Greater(a, b) == IF a > b THEN a ELSE b

\* The sums of the subarrays that begin at i, from the shortest.
RunningSums(s, i) ==
    LET sum[j \in i..Len(s)] == IF j = i THEN s[i] ELSE sum[j - 1] + s[j]
    IN  {sum[j] : j \in i..Len(s)}

-----------------------------------------------------------------------------
\* Every sum is compared with the best one so far, which starts as 0.
ViolentSolution(s) == Max({0} \cup UNION {RunningSums(s, i) : i \in DOMAIN s})

\* getMaxCrossArrayRes: the best sum from mid to the left and the best one to the
\* right; mid is in both.
CrossRes(s, low, mid, high) ==
    LET left[i \in low..mid] ==
            IF i = mid THEN s[mid] ELSE left[i + 1] + s[i]
        right[i \in mid..high] ==
            IF i = mid THEN s[mid] ELSE right[i - 1] + s[i]
    IN  Max({left[i] : i \in low..mid}) + Max({right[i] : i \in mid..high}) - s[mid]

\* getMaxSubArrayRes
RECURSIVE SubArrayRes(_, _, _)
SubArrayRes(s, low, high) ==
    LET mid == (low - 1 + high - 1) \div 2 + 1
    IN  IF low = high THEN s[low]
        ELSE Max({SubArrayRes(s, low, mid), SubArrayRes(s, mid + 1, high),
                  CrossRes(s, low, mid, high)})

DivideSolution(s) == IF s = <<>> THEN 0 ELSE SubArrayRes(s, 1, Len(s))

\* Mutant: a sum below zero is carried on.
KadaneSolution_Carry(s) ==
    IF s = <<>> THEN 0
    ELSE FoldLeft(LAMBDA a, x : LET here == a.here + x
                                IN  [here |-> here, best |-> Greater(a.best, here)],
                  [here |-> Head(s), best |-> Head(s)], Tail(s)).best

\* The best subarray that ends here is the element alone or after the best one
\* that ends before it.
KadaneSolution(s) ==
    IF s = <<>> THEN 0
    ELSE FoldLeft(LAMBDA a, x : LET here == Greater(a.here + x, x)
                                IN  [here |-> here, best |-> Greater(a.best, here)],
                  [here |-> Head(s), best |-> Head(s)], Tail(s)).best

-----------------------------------------------------------------------------
\* CompareLR: how many pairs of equal letters there are outwards from f and b.
CompareLR(s, f, b) ==
    Max({n \in 0..Len(s) : /\ f - n >= 0 /\ b + n <= Len(s) + 1
                           /\ \A k \in 0..n - 1 : s[f - k] = s[b + k]})

\* For every position but the first: the even one between i - 1 and i, then the
\* odd one around i; the last of the longest is kept.
longestPalindrome1(s) ==
    LET Keep(a, start, size) == IF size >= a.size THEN [start |-> start, size |-> size]
                                ELSE a
        Try(a, i) ==
            LET even == CompareLR(s, i - 1, i)
                odd  == CompareLR(s, i - 1, i + 1)
            IN  Keep(Keep(a, i - even, 2 * even), i - odd, 2 * odd + 1)
        best == FoldLeft(LAMBDA a, i : Try(a, i + 1), [start |-> 1, size |-> 0],
                         [i \in 1..Len(s) - 1 |-> i])
    IN  SubSeq(s, best.start, best.start + best.size - 1)

\* Manacher: with a letter between every two and at the ends, the radius at i is
\* at least that of its mirror image in the palindrome that reaches furthest, as
\* far as that one reaches.  Indices are those of the code, from 0.
Padded(s) == [i \in 0..2 * Len(s) |-> IF i % 2 = 0 THEN "#" ELSE s[(i + 1) \div 2]]

Widen(ss, i, r) ==
    LET wide[n \in r..i + 1] ==
            IF i - n >= 0 /\ i + n \in DOMAIN ss /\ ss[i - n] = ss[i + n]
            THEN wide[n + 1] ELSE n
    IN  wide[r]

\* Mutant: the mirror image is trusted beyond the end of that palindrome.
Known_Mirror(a, i) == IF a.mx > i THEN a.r[2 * a.pos - i] ELSE 1

Known(a, i) ==
    IF a.mx > i THEN Min({a.r[2 * a.pos - i], a.mx - i}) ELSE 1

longestPalindrome2(s) ==
    LET ss == Padded(s)
        Visit(a, i) ==
            LET r == Widen(ss, i, Known(a, i))
            IN  [r   |-> [a.r EXCEPT ![i] = r],
                 mx  |-> Greater(a.mx, i + r),
                 pos |-> IF i + r > a.mx THEN i ELSE a.pos,
                 maxVal |-> Greater(a.maxVal, r),
                 maxPos |-> IF r > a.maxVal THEN i ELSE a.maxPos]
        end == FoldLeft(LAMBDA a, i : Visit(a, i - 1),
                        [r |-> [i \in DOMAIN ss |-> 0], mx |-> 0, pos |-> 0,
                         maxVal |-> 0, maxPos |-> 0],
                        [i \in 1..2 * Len(s) + 1 |-> i])
        start == (end.maxPos + 1 - end.maxVal) \div 2
    IN  SubSeq(s, start + 1, start + end.maxVal - 1)

-----------------------------------------------------------------------------
IsPalindrome(s) == s = Reverse(s)
SubStrings(s) == {SubSeq(s, i, j) : i \in 1..Len(s), j \in 0..Len(s)}
LongestIn(s, p) ==
    /\ p \in SubStrings(s) \cup {<<>>} /\ IsPalindrome(p)
    /\ \A q \in SubStrings(s) : IsPalindrome(q) => Len(q) <= Len(p)
MaxSum(s) == Max(UNION {RunningSums(s, i) : i \in DOMAIN s})
=============================================================================
