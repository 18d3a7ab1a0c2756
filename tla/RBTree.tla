------------------------------- MODULE RBTree -------------------------------
(***************************************************************************)
(* The red-black tree of algorithm_about/binary_tree/RB_tree.cpp.          *)
(*                                                                         *)
(* A node is named by its value: no value is stored twice, and DelNode,    *)
(* which copies a value from one node to another, becomes the renaming of  *)
(* a node.  The two loops that repair the colours are taken one iteration  *)
(* per step, because the one of DelFixUp need not end.                     *)
(***************************************************************************)
EXTENDS Naturals, FiniteSets

CONSTANT Keys       \* the values: bound, 1..Keys

ASSUME RBAssumption == Keys \in Nat \ {0}

RBNode == 1..Keys
NULL == 0

VARIABLES
    rb,         \* the nodes and the root
    fixing,     \* the loop of AddFixUp or DelFixUp that is under way
    rbKeys      \* history: the values that were added and not deleted

rbVars == <<rb, fixing, rbKeys>>

Tree == [root : RBNode \cup {NULL},
         kid  : [{"l", "r"} -> [RBNode -> RBNode \cup {NULL}]],
         par  : [RBNode -> RBNode \cup {NULL}],
         red  : SUBSET RBNode]

\* The loop, its node (newNode or replace) and, in DelFixUp, the parent.
AtRest == [op |-> "none", node |-> NULL, parent |-> NULL]

RBInit ==
    /\ rb = [root |-> NULL,
             kid  |-> [s \in {"l", "r"} |-> [n \in RBNode |-> NULL]],
             par  |-> [n \in RBNode |-> NULL],
             red  |-> {}]
    /\ fixing = AtRest
    /\ rbKeys = {}

Other(s) == IF s = "l" THEN "r" ELSE "l"
SideOf(t, n) == IF t.kid["l"][t.par[n]] = n THEN "l" ELSE "r"
IsRed(t, n) == n \in t.red
Paint(t, n, colour) ==
    [t EXCEPT !.red = IF colour = "red" THEN @ \cup {n} ELSE @ \ {n}]
ColourOf(t, n) == IF IsRed(t, n) THEN "red" ELSE "black"
Point(f, n, v) == IF n = NULL THEN f ELSE [f EXCEPT ![n] = v]

-----------------------------------------------------------------------------
(* Rotations.  Rotate(t, "l", x) is LL(x), Rotate(t, "r", x) is RR(x);     *)
(* the child of x on that side comes to the top.                           *)

Rotate(t, s, x) ==
    LET y == t.kid[s][x]
        z == t.kid[Other(s)][y]
    IN  [t EXCEPT !.kid[s][x] = z,
                  !.kid[Other(s)][y] = x,
                  !.par = Point(Point(Point(@, z, x), y, t.par[x]), x, y)]

\* LR for "l", RL for "r": the inner grandchild comes to the top.
RotateTwice(t, s, x) ==
    LET child == t.kid[s][x]
        inner == t.kid[Other(s)][child]
        once  == Rotate(t, Other(s), child)
    IN  Rotate([once EXCEPT !.kid[s][x] = inner], s, x)

\* What was x's place gets its new occupant, found by comparing the values.
RebuildCon(t, son) ==
    LET parent == t.par[son]
    IN  IF parent = NULL
        THEN [t EXCEPT !.root = son]
        ELSE [t EXCEPT !.kid[IF parent > son THEN "l" ELSE "r"][parent] = son]

\* The rotations with the repair of the link above, as the two loops use them.
Lift(t, s, x) == RebuildCon(Rotate(t, s, x), t.kid[s][x])
LiftInner(t, s, x) ==
    RebuildCon(RotateTwice(t, s, x), t.kid[Other(s)][t.kid[s][x]])

-----------------------------------------------------------------------------
(* AddNode                                                                 *)

\* The last node on the way to v: v itself when it is there.
Descend(t, v) ==
    LET down[x \in RBNode] ==
            LET next == IF v > x THEN t.kid["r"][x]
                        ELSE IF v < x THEN t.kid["l"][x] ELSE NULL
            IN  IF next = NULL THEN x ELSE down[next]
    IN  IF t.root = NULL THEN NULL ELSE down[t.root]

Present(t, v) == t.root # NULL /\ Descend(t, v) = v

\* Mutant: the child goes to the side of the root, not of its parent.
Attach_Root(t, v) ==
    LET pre == Descend(t, v)
    IN  IF t.root = NULL
        THEN [t EXCEPT !.root = v, !.red = @ \cup {v}]
        ELSE [t EXCEPT !.par[v] = pre, !.red = @ \cup {v},
                       !.kid[IF v > t.root THEN "r" ELSE "l"][pre] = v]

Attach(t, v) ==
    LET pre == Descend(t, v)
    IN  IF t.root = NULL
        THEN [t EXCEPT !.root = v, !.red = @ \cup {v}]
        ELSE [t EXCEPT !.par[v] = pre, !.red = @ \cup {v},
                       !.kid[IF v > pre THEN "r" ELSE "l"][pre] = v]

RBAdd(v) ==
    /\ fixing = AtRest /\ ~ Present(rb, v)
    /\ rb' = Attach(rb, v)
    /\ rbKeys' = rbKeys \cup {v}
    /\ fixing' = [op |-> "add", node |-> v, parent |-> NULL]

\* One iteration of AddFixUp.  A double rotation leaves newNode, black now, at
\* the top, and the loop goes on as if it were red.
AddFixUp ==
    LET n  == fixing.node
        p  == rb.par[n]
        gp == rb.par[p]
        s  == SideOf(rb, p)
        u  == rb.kid[Other(s)][gp]
        gpRed == Paint(rb, gp, "red")
    IN  /\ fixing.op = "add"
        /\ UNCHANGED rbKeys
        /\ \/ /\ p = NULL \/ ~ IsRed(rb, p)
              /\ rb' = Paint(rb, rb.root, "black")
              /\ fixing' = AtRest
           \/ /\ p # NULL /\ IsRed(rb, p)
              /\ u # NULL /\ IsRed(rb, u)
              /\ rb' = Paint(Paint(gpRed, p, "black"), u, "black")
              /\ fixing' = [fixing EXCEPT !.node = gp]
           \/ /\ p # NULL /\ IsRed(rb, p)
              /\ u = NULL \/ ~ IsRed(rb, u)
              /\ rb' = IF n = rb.kid[s][p]
                       THEN Lift(Paint(gpRed, p, "black"), s, gp)
                       ELSE LiftInner(Paint(gpRed, n, "black"), s, gp)
              /\ UNCHANGED fixing

-----------------------------------------------------------------------------
(* DelNode                                                                 *)

\* The node that is freed: the predecessor of v when v has two children.
Predecessor(t, v) ==
    LET down[x \in RBNode] ==
            IF t.kid["r"][x] = NULL THEN x ELSE down[t.kid["r"][x]]
    IN  down[t.kid["l"][v]]

TwoKids(t, v) == t.kid["l"][v] # NULL /\ t.kid["r"][v] # NULL
Freed(t, v) == IF TwoKids(t, v) THEN Predecessor(t, v) ELSE v

\* The child of a node with at most one, which takes its place.
OnlyKid(t, d) == IF t.kid["l"][d] # NULL THEN t.kid["l"][d] ELSE t.kid["r"][d]

Unlink(t, d) ==
    LET child == OnlyKid(t, d)
        above == t.par[d]
        out   == [t EXCEPT !.par = Point(Point(@, child, above), d, NULL)]
    IN  IF above = NULL
        THEN [out EXCEPT !.root = child, !.red = @ \ {child, d}]
        ELSE [out EXCEPT !.kid[SideOf(t, d)][above] = child, !.red = @ \ {d}]

\* delNode->val = hj->val: the node v is called h from here on.
Rename(t, v, h) ==
    LET new(x) == IF x = v THEN h ELSE x
        old(x) == IF x = h THEN v ELSE x
    IN  IF v = h
        THEN [t EXCEPT !.kid = [s \in {"l", "r"} |-> [@[s] EXCEPT ![v] = NULL]]]
        ELSE [root |-> new(t.root),
              kid  |-> [s \in {"l", "r"} |-> [x \in RBNode |->
                           IF x = v THEN NULL ELSE new(t.kid[s][old(x)])]],
              par  |-> [x \in RBNode |->
                           IF x = v THEN NULL ELSE new(t.par[old(x)])],
              red  |-> {x \in RBNode \ {v} : old(x) \in t.red}]

\* DelFixUp is called for a black node that was not the root; a child that takes
\* its place is painted black and that is all.
RBDel(v) ==
    LET d     == Freed(rb, v)
        child == OnlyKid(rb, d)
        above == IF rb.par[d] = v THEN d ELSE rb.par[d]
        out   == Rename(Unlink(rb, d), v, d)
        fixUp == rb.par[d] # NULL /\ ~ IsRed(rb, d)
    IN  /\ fixing = AtRest /\ Present(rb, v)
        /\ rbKeys' = rbKeys \ {v}
        /\ rb' = IF fixUp /\ child # NULL THEN Paint(out, child, "black") ELSE out
        /\ fixing' = IF fixUp /\ child = NULL
                     THEN [op |-> "del", node |-> NULL, parent |-> above]
                     ELSE AtRest

\* brother has no children.
Childless(t, b) == t.kid["l"][b] = NULL /\ t.kid["r"][b] = NULL

\* One iteration of DelFixUp.  The comment of line 197 says that brother is
\* there; line 271 follows brother->l though the test was of brother->r.  A
\* rotation moves the variable parent to the node that came to the top.
DelFixUp ==
    LET r  == fixing.node
        p  == fixing.parent
        s  == IF rb.kid["l"][p] = r THEN "l" ELSE "r"
        b  == rb.kid[Other(s)][p]
        inner == rb.kid[s][b]
        outer == rb.kid[Other(s)][b]
        pBlack == Paint(rb, p, "black")
    IN  /\ fixing.op = "del"
        /\ UNCHANGED rbKeys
        /\ \/ r = rb.root /\ fixing' = AtRest /\ UNCHANGED rb
           \/ /\ r # rb.root
              /\ b # NULL => /\ ~ Childless(rb, b) /\ ~ IsRed(rb, b)
                             /\ s = "r" /\ inner # NULL /\ outer = NULL
              /\ fixing' = [fixing EXCEPT !.op = "crashed"]
              /\ UNCHANGED rb
           \/ /\ r # rb.root /\ b # NULL /\ Childless(rb, b)
              /\ rb' = Paint(pBlack, b, "red")
              /\ fixing' = IF IsRed(rb, p) THEN AtRest
                           ELSE [fixing EXCEPT !.node = p, !.parent = rb.par[p]]
           \/ /\ r # rb.root /\ b # NULL /\ ~ Childless(rb, b) /\ IsRed(rb, b)
              /\ rb' = Lift(Paint(Paint(rb, b, "black"), p, "red"), Other(s), p)
              /\ fixing' = [fixing EXCEPT !.parent = b]
           \/ /\ r # rb.root /\ b # NULL /\ ~ Childless(rb, b) /\ ~ IsRed(rb, b)
              /\ inner # NULL
              /\ s = "r" => outer # NULL
              /\ LET painted == IF s = "r" THEN Paint(pBlack, outer, ColourOf(rb, p))
                                ELSE pBlack
                 IN  rb' = LiftInner(Paint(painted, inner, "black"), Other(s), p)
              /\ fixing' = AtRest
           \/ /\ r # rb.root /\ b # NULL /\ ~ Childless(rb, b) /\ ~ IsRed(rb, b)
              /\ inner = NULL
              /\ rb' = Lift(Paint(Paint(pBlack, b, ColourOf(rb, p)), outer, "black"),
                            Other(s), p)
              /\ fixing' = AtRest

RBNext == (\E v \in RBNode : RBAdd(v) \/ RBDel(v)) \/ AddFixUp \/ DelFixUp

-----------------------------------------------------------------------------
\* The nodes of the subtree at x.
Below(t, x) ==
    LET sub[S \in SUBSET RBNode] ==
            LET more == S \cup ({t.kid[s][y] : s \in {"l", "r"}, y \in S} \ {NULL})
            IN  IF more = S THEN S ELSE sub[more]
    IN  IF x = NULL THEN {} ELSE sub[{x}]

\* Whatever the colours have become, in every step of every repair the tree
\* holds the values that were added, in the order of a search tree, and the
\* links to the parents are the inverse of the links to the children.
SearchTree ==
    /\ Below(rb, rb.root) = rbKeys
    /\ rb.root # NULL => rb.par[rb.root] = NULL
    /\ \A n \in rbKeys, s \in {"l", "r"} :
          LET k == rb.kid[s][n]
          IN  /\ k # NULL => rb.par[k] = n
              /\ \A m \in Below(rb, k) : IF s = "l" THEN m < n ELSE m > n

\* The comment of line 197: the node that was deleted was black, so the place that
\* lost a black node has a brother, in every iteration of DelFixUp.
BrotherExists ==
    fixing.op = "del" /\ fixing.node # rb.root =>
        \E s \in {"l", "r"} : /\ rb.kid[s][fixing.parent] = fixing.node
                             /\ rb.kid[Other(s)][fixing.parent] # NULL

RBTypeOK == rb \in Tree /\ rbKeys \subseteq RBNode
RBSpec == RBInit /\ [][RBNext]_rbVars
=============================================================================
