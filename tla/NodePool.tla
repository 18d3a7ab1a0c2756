------------------------------ MODULE NodePool ------------------------------
(***************************************************************************)
(* What lock_free_queue/lock_free_stack.hpp promises its callers: a pool   *)
(* of nodes.  add hands a node over at once, but the node may reach the    *)
(* list later ("inserted out of order under contention"); try_get removes  *)
(* the node that reached the list last, in one step.                       *)
(***************************************************************************)
EXTENDS Sequences

CONSTANTS Thread, Node

VARIABLES held,     \* the nodes each caller owns
          pending,  \* handed over by add, not on the list yet
          list      \* the list, its head first

vars == <<held, pending, list>>

Init ==
    /\ held \in [Thread -> SUBSET Node]
    /\ \A n \in Node : \E t \in Thread :
          n \in held[t] /\ \A u \in Thread \ {t} : n \notin held[u]
    /\ pending = {}
    /\ list = <<>>

HandOver(t, n) ==
    /\ n \in held[t]
    /\ held' = [held EXCEPT ![t] = @ \ {n}]
    /\ pending' = pending \cup {n}
    /\ UNCHANGED list

Insert(n) ==
    /\ n \in pending
    /\ pending' = pending \ {n}
    /\ list' = <<n>> \o list
    /\ UNCHANGED held

Obtain(t) ==
    /\ list # <<>>
    /\ held' = [held EXCEPT ![t] = @ \cup {Head(list)}]
    /\ list' = Tail(list)
    /\ UNCHANGED pending

Next == \/ \E t \in Thread : Obtain(t) \/ \E n \in held[t] : HandOver(t, n)
        \/ \E n \in pending : Insert(n)

Spec == Init /\ [][Next]_vars
=============================================================================
