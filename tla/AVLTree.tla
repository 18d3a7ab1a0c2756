------------------------------ MODULE AVLTree -------------------------------
(***************************************************************************)
(* The AVL tree of algorithm_about/binary_tree/AVL_tree.cpp, with its two  *)
(* ways to add (AddNode, AddNode_re) and to delete (DelNode, DelNode_re).  *)
(* A tree is the record of its root or Nil: the program keeps no pointer   *)
(* to an inner node from one call to the next.  The stack of positions the *)
(* two loops pop is the recursion of the operators here.                   *)
(***************************************************************************)
EXTENDS Integers

CONSTANT Vals       \* the values that are added: a set of integers

VARIABLES
    avl,        \* root
    avlVals,    \* history: what was added and not deleted
    avlCut      \* history: whether a value was ever deleted

avlVars == <<avl, avlVals, avlCut>>

Nil == [v |-> "nil"]
Crash == [v |-> "crash"]        \* a rotation has followed a null pointer
IsNode(t) == t \notin {Nil, Crash}
Leaf(x) == [v |-> x, l |-> Nil, r |-> Nil]

AVLInit == avl = Nil /\ avlVals = {} /\ avlCut = FALSE

RECURSIVE GetHeight(_), Crashed(_), Holds(_), InOrder(_), Balanced(_)
GetHeight(t) ==
    IF ~ IsNode(t) THEN 0
    ELSE LET h == GetHeight(t.l)  k == GetHeight(t.r)
         IN  IF h > k THEN h + 1 ELSE k + 1

\* How much higher the left subtree is.
Lean(t) == GetHeight(t.l) - GetHeight(t.r)

-----------------------------------------------------------------------------
LL(t) == IF IsNode(t.l) THEN [t.l EXCEPT !.r = [t EXCEPT !.l = t.l.r]] ELSE Crash
RR(t) == IF IsNode(t.r) THEN [t.r EXCEPT !.l = [t EXCEPT !.r = t.r.l]] ELSE Crash
LR(t) == LL([t EXCEPT !.l = RR(t.l)])
RL(t) == RR([t EXCEPT !.r = LL(t.r)])
Crashed(t) == \/ t = Crash
              \/ IsNode(t) /\ (Crashed(t.l) \/ Crashed(t.r))

\* Mutant: the double rotation is forgotten.
FitAdd_Single(t, x) ==
    IF Lean(t) > 1 THEN LL(t)
    ELSE IF Lean(t) < -1 THEN RR(t)
    ELSE t

\* Lines 75-94: a node on the way to the new value.
FitAdd(t, x) ==
    IF Lean(t) > 1 THEN IF x < t.l.v THEN LL(t) ELSE LR(t)
    ELSE IF Lean(t) < -1 THEN IF x > t.r.v THEN RR(t) ELSE RL(t)
    ELSE t

\* Lines 185-206: the rotation is chosen by which grandchild is there.
FitDel(t) ==
    IF Lean(t) > 1 THEN IF t.l.l # Nil THEN LL(t) ELSE LR(t)
    ELSE IF Lean(t) < -1 THEN IF t.r.r # Nil THEN RR(t) ELSE RL(t)
    ELSE t

\* AddNode: the parent of the new node is popped before the loop.  It is called
\* for values that are not in the tree; a second node of the same value may be
\* put in the place of a subtree (line 69).
RECURSIVE AddNode(_, _), AddNode_re(_, _)
AddNode(t, x) ==
    IF t = Nil THEN Leaf(x)
    ELSE IF x < t.v
         THEN IF t.l = Nil THEN [t EXCEPT !.l = Leaf(x)]
              ELSE FitAdd([t EXCEPT !.l = AddNode(t.l, x)], x)
         ELSE IF t.r = Nil THEN [t EXCEPT !.r = Leaf(x)]
              ELSE FitAdd([t EXCEPT !.r = AddNode(t.r, x)], x)

\* AddNode_re looks only at the side it has added to, and leaves a value that is
\* there alone.
AddNode_re(t, x) ==
    IF t = Nil THEN Leaf(x)
    ELSE IF x > t.v
         THEN LET s == [t EXCEPT !.r = AddNode_re(t.r, x)]
              IN  IF Lean(s) < -1 THEN FitAdd(s, x) ELSE s
    ELSE IF x < t.v
         THEN LET s == [t EXCEPT !.l = AddNode_re(t.l, x)]
              IN  IF Lean(s) > 1 THEN FitAdd(s, x) ELSE s
    ELSE t

-----------------------------------------------------------------------------
RECURSIVE Rightmost(_), DropRightmost(_), DelNode(_, _), DelNode_re(_, _)
Rightmost(t) == IF t.r = Nil THEN t.v ELSE Rightmost(t.r)
DropRightmost(t) ==
    IF t.r = Nil THEN t.l ELSE [t EXCEPT !.r = DropRightmost(t.r)]

\* Mutant: the left subtree of the node that moves up is lost.
Replaced_Drop(t) ==
    IF t.l = Nil THEN t.r
    ELSE IF t.r = Nil THEN t.l
    ELSE [v |-> Rightmost(t.l), r |-> t.r,
          l |-> IF t.l.r = Nil THEN Nil ELSE DropRightmost(t.l)]

\* What takes the place of a deleted node: its only subtree, or the rightmost
\* node of the left one.  The path down to that one is not rebalanced.
Replaced(t) ==
    IF t.l = Nil THEN t.r
    ELSE IF t.r = Nil THEN t.l
    ELSE [v |-> Rightmost(t.l), l |-> DropRightmost(t.l), r |-> t.r]

\* DelNode keeps the position of a node with two subtrees on its stack.
DelNode(t, x) ==
    IF t = Nil THEN Nil
    ELSE IF x < t.v THEN FitDel([t EXCEPT !.l = DelNode(t.l, x)])
    ELSE IF x > t.v THEN FitDel([t EXCEPT !.r = DelNode(t.r, x)])
    ELSE IF t.l = Nil \/ t.r = Nil THEN Replaced(t)
    ELSE FitDel(Replaced(t))

DelNode_re(t, x) ==
    IF t = Nil THEN Nil
    ELSE IF x > t.v
         THEN LET s == [t EXCEPT !.r = DelNode_re(t.r, x)]
              IN  IF Lean(s) > 1 THEN FitDel(s) ELSE s
    ELSE IF x < t.v
         THEN LET s == [t EXCEPT !.l = DelNode_re(t.l, x)]
              IN  IF Lean(s) < -1 THEN FitDel(s) ELSE s
    ELSE Replaced(t)

AVLAdd(x) ==
    /\ \/ x \notin avlVals /\ avl' = AddNode(avl, x)
       \/ avl' = AddNode_re(avl, x)
    /\ avlVals' = avlVals \cup {x}
    /\ UNCHANGED avlCut

\* A value that is not there: DelNode returns at line 145, before the loop.
AVLDel(x) ==
    /\ \/ avl' = IF x \in avlVals THEN DelNode(avl, x) ELSE avl
       \/ avl' = DelNode_re(avl, x)
    /\ avlVals' = avlVals \ {x}
    /\ avlCut' = (avlCut \/ x \in avlVals)

AVLNext == ~ Crashed(avl) /\ \E x \in Vals : AVLAdd(x) \/ AVLDel(x)

-----------------------------------------------------------------------------
Holds(t) == IF t = Nil THEN {} ELSE {t.v} \cup Holds(t.l) \cup Holds(t.r)
InOrder(t) ==
    t # Nil => /\ \A x \in Holds(t.l) : x < t.v
               /\ \A x \in Holds(t.r) : x > t.v
               /\ InOrder(t.l) /\ InOrder(t.r)
Balanced(t) ==
    t # Nil => Lean(t) \in -1..1 /\ Balanced(t.l) /\ Balanced(t.r)

\* However the two ways to add and the two to delete are mixed, also on trees
\* the deletions have left unbalanced, no rotation loses or misplaces a value;
\* and only on such a tree can a rotation find no child to lift.
\* Both ways to add keep the heights of two subtrees within one of each other, as
\* long as nothing was deleted: DelNode rotates by which grandchild is there,
\* not by which is higher, and does not look at the path to the predecessor.
AVLHolds ==
    /\ IF Crashed(avl) THEN avlCut ELSE Holds(avl) = avlVals /\ InOrder(avl)
    /\ ~ avlCut => Balanced(avl)

AVLSpec == AVLInit /\ [][AVLNext]_avlVars
=============================================================================
