------------------------------ MODULE FreeList ------------------------------
(***************************************************************************)
(* The lock-free free list of lock_free_queue/lock_free_stack.hpp: a stack *)
(* of nodes linked through freeListNext, made safe against ABA by a        *)
(* reference count per node whose top bit, SHOULD_BE_ON_FREELIST, says     *)
(* that the node is to be put back by the last thread that references it.  *)
(*                                                                         *)
(* Every atomic access of the code is one action.  The atomics are taken   *)
(* to be sequentially consistent: the memory orders are not modelled.      *)
(***************************************************************************)
EXTENDS Integers, Sequences, FiniteSets

CONSTANTS
    Thread,                \* the threads that call add and try_get
    Node,                  \* the nodes; they are never freed (lines 22-23)
    NULL,                  \* nullptr
    SHOULD_BE_ON_FREELIST  \* 2^31 in the code, the top bit of the counter

ASSUME ThreadAssumption == IsFiniteSet(Thread) /\ Thread # {}
ASSUME NodeAssumption == NULL \notin Node
\* There are fewer threads than the counter below the flag can count.
ASSUME FlagAssumption == /\ SHOULD_BE_ON_FREELIST \in Nat
                         /\ SHOULD_BE_ON_FREELIST > Cardinality(Thread) + 1

VARIABLES
    freeListHead, freeListRefs, freeListNext,   \* the shared atomics
    pc,          \* the atomic access each thread is about to make
    head,        \* try_get: its copy of the list head
    prevHead,    \* try_get: the node this iteration works on
    refs,        \* try_get: the count it read and will compare with
    next,        \* try_get: the successor it will install as head
    node,        \* add_knowing_refcount_is_zero: its argument
    addHead,     \* add_knowing_refcount_is_zero: its copy of the head
    held,        \* the nodes each caller got (or created) and has not added
    list         \* history: the nodes on the list, in order

shared == <<freeListHead, freeListRefs, freeListNext>>
getLocals == <<head, prevHead, refs, next>>
addLocals == <<node, addHead>>
vars == <<shared, pc, getLocals, addLocals, held, list>>

-----------------------------------------------------------------------------
(* The counter: 32 bits wide in the code, the flag being the top one.      *)

RefsRange == 0 .. 2 * SHOULD_BE_ON_FREELIST - 1
\* refs & REFS_MASK
Masked(r) == IF r >= SHOULD_BE_ON_FREELIST THEN r - SHOULD_BE_ON_FREELIST ELSE r
\* unsigned arithmetic wraps around
Wrap(r) == IF r < 0 THEN r + 2 * SHOULD_BE_ON_FREELIST
           ELSE IF r >= 2 * SHOULD_BE_ON_FREELIST THEN r - 2 * SHOULD_BE_ON_FREELIST
           ELSE r
\* Mutant: the counter is signed and fetch_sub stands where fetch_add does.
FetchAdd_Signed(n, d) == freeListRefs' = [freeListRefs EXCEPT ![n] = @ - d]
FetchAdd(n, d) == freeListRefs' = [freeListRefs EXCEPT ![n] = Wrap(@ + d)]

\* Mutants: the count after the decrement is tested; the flag is not tested.
LastReference_After(old) == old = SHOULD_BE_ON_FREELIST
LastReference_NoFlag(old) == Masked(old) = 1

\* The last reference to a node that is waiting to be put back is given up.
LastReference(old) == old = SHOULD_BE_ON_FREELIST + 1

-----------------------------------------------------------------------------
(* Initially the list is empty and every node is new and in some caller's  *)
(* hands.                                                                  *)

Init ==
    /\ freeListHead = NULL
    /\ freeListRefs = [n \in Node |-> 0]
    /\ freeListNext = [n \in Node |-> NULL]
    /\ pc = [t \in Thread |-> "idle"]
    /\ head = [t \in Thread |-> NULL]
    /\ prevHead = [t \in Thread |-> NULL]
    /\ refs = [t \in Thread |-> 0]
    /\ next = [t \in Thread |-> NULL]
    /\ node = [t \in Thread |-> NULL]
    /\ addHead = [t \in Thread |-> NULL]
    /\ \E creator \in [Node -> Thread] :
          held = [t \in Thread |-> {n \in Node : creator[n] = t}]
    /\ list = <<>>

Goto(t, label) == pc' = [pc EXCEPT ![t] = label]

-----------------------------------------------------------------------------
(* try_get                                                                 *)

\* The test of the while loop, with h the thread's copy of the head: nullptr
\* is returned, or an iteration on h starts.
Iterate(t, h) ==
    /\ head' = [head EXCEPT ![t] = h]
    /\ prevHead' = [prevHead EXCEPT ![t] = h]
    /\ Goto(t, IF h = NULL THEN "idle" ELSE "loadRefs")

\* try_get is called and loads the head.
TryGet(t) ==
    /\ pc[t] = "idle"
    /\ Iterate(t, freeListHead)
    /\ UNCHANGED <<shared, refs, next, addLocals, held, list>>

LoadRefs(t) ==
    /\ pc[t] = "loadRefs"
    /\ refs' = [refs EXCEPT ![t] = freeListRefs[prevHead[t]]]
    /\ Goto(t, "incRefs")
    /\ UNCHANGED <<shared, head, prevHead, next, addLocals, held, list>>

\* Mutants: a count of zero is no obstacle; the count is a plain increment.
MayReference_Zero(t) == freeListRefs[prevHead[t]] = refs[t]
MayReference_NoCas(t) == Masked(refs[t]) # 0

\* A node may be referenced only while its count is not zero.
MayReference(t) == /\ Masked(refs[t]) # 0
                   /\ freeListRefs[prevHead[t]] = refs[t]

\* Mutant: after a failure the same node is tried again.
IncRefs_NoReload(t) ==
    /\ pc[t] = "incRefs"
    /\ IF MayReference(t)
       THEN FetchAdd(prevHead[t], 1) /\ Goto(t, "loadNext")
       ELSE Goto(t, "loadRefs") /\ UNCHANGED freeListRefs
    /\ refs' = [refs EXCEPT ![t] = 0]
    /\ UNCHANGED <<freeListHead, freeListNext, head, prevHead, next, addLocals,
                   held, list>>

IncRefs(t) ==
    /\ pc[t] = "incRefs"
    /\ IF MayReference(t)
       THEN /\ FetchAdd(prevHead[t], 1)
            /\ Goto(t, "loadNext")
       ELSE /\ Goto(t, "reload")
            /\ UNCHANGED freeListRefs
    /\ refs' = [refs EXCEPT ![t] = 0]
    /\ UNCHANGED <<freeListHead, freeListNext, head, prevHead, next, addLocals,
                   held, list>>

Reload(t) ==
    /\ pc[t] = "reload"
    /\ Iterate(t, freeListHead)
    /\ UNCHANGED <<shared, refs, next, addLocals, held, list>>

LoadNext(t) ==
    /\ pc[t] = "loadNext"
    /\ next' = [next EXCEPT ![t] = freeListNext[prevHead[t]]]
    /\ Goto(t, "casHead")
    /\ UNCHANGED <<shared, head, prevHead, refs, addLocals, held, list>>

CasHead(t) ==
    /\ pc[t] = "casHead"
    /\ IF freeListHead = head[t]
       THEN /\ freeListHead' = next[t]
            /\ list' = Tail(list)
            /\ Goto(t, "take")
            /\ UNCHANGED head
       ELSE /\ head' = [head EXCEPT ![t] = freeListHead]
            /\ Goto(t, "decRefs")
            /\ UNCHANGED <<freeListHead, list>>
    /\ next' = [next EXCEPT ![t] = NULL]
    /\ UNCHANGED <<freeListRefs, freeListNext, prevHead, refs, addLocals, held>>

\* The assertion of line 62 is evaluated at label "take"; then the thread's
\* reference and the list's are given up and the node is returned.
Take(t) ==
    /\ pc[t] = "take"
    /\ FetchAdd(head[t], -2)
    /\ held' = [held EXCEPT ![t] = @ \cup {head[t]}]
    /\ head' = [head EXCEPT ![t] = NULL]
    /\ prevHead' = [prevHead EXCEPT ![t] = NULL]
    /\ Goto(t, "idle")
    /\ UNCHANGED <<freeListHead, freeListNext, refs, next, addLocals, list>>

\* Another thread changed the head.  The reference is given up; if it was the
\* last one to a node that should be on the list, this thread puts it there.
DecRefs(t) ==
    /\ pc[t] = "decRefs"
    /\ FetchAdd(prevHead[t], -1)
    /\ IF LastReference(freeListRefs[prevHead[t]])
       THEN /\ node' = [node EXCEPT ![t] = prevHead[t]]
            /\ Goto(t, "loadHead")
            /\ UNCHANGED <<head, prevHead>>
       ELSE /\ Iterate(t, head[t])
            /\ UNCHANGED node
    /\ UNCHANGED <<freeListHead, freeListNext, refs, next, addHead, held, list>>

-----------------------------------------------------------------------------
(* add and add_knowing_refcount_is_zero                                    *)

Add(t, n) ==
    /\ pc[t] = "idle"
    /\ n \in held[t]
    /\ held' = [held EXCEPT ![t] = @ \ {n}]
    /\ FetchAdd(n, SHOULD_BE_ON_FREELIST)
    /\ IF freeListRefs[n] = 0
       THEN /\ node' = [node EXCEPT ![t] = n]
            /\ Goto(t, "loadHead")
       ELSE UNCHANGED <<node, pc>>
    /\ UNCHANGED <<freeListHead, freeListNext, getLocals, addHead, list>>

LoadHead(t) ==
    /\ pc[t] = "loadHead"
    /\ addHead' = [addHead EXCEPT ![t] = freeListHead]
    /\ Goto(t, "storeNext")
    /\ UNCHANGED <<shared, getLocals, node, held, list>>

StoreNext(t) ==
    /\ pc[t] = "storeNext"
    /\ freeListNext' = [freeListNext EXCEPT ![node[t]] = addHead[t]]
    /\ Goto(t, "storeRefs")
    /\ UNCHANGED <<freeListHead, freeListRefs, getLocals, addLocals, held, list>>

StoreRefs(t) ==
    /\ pc[t] = "storeRefs"
    /\ freeListRefs' = [freeListRefs EXCEPT ![node[t]] = 1]
    /\ Goto(t, "casAdd")
    /\ UNCHANGED <<freeListHead, freeListNext, getLocals, addLocals, held, list>>

\* add_knowing_refcount_is_zero returns: to the caller of add, or into the
\* loop of try_get, which goes on with its copy of the head.  In add, head[t]
\* is NULL and the thread becomes idle.
ReturnFromAdd(t) ==
    /\ node' = [node EXCEPT ![t] = NULL]
    /\ addHead' = [addHead EXCEPT ![t] = NULL]
    /\ Iterate(t, head[t])

CasAdd(t) ==
    /\ pc[t] = "casAdd"
    /\ IF freeListHead = addHead[t]
       THEN /\ freeListHead' = node[t]
            /\ list' = <<node[t]>> \o list
            /\ ReturnFromAdd(t)
       ELSE /\ addHead' = [addHead EXCEPT ![t] = freeListHead]
            /\ Goto(t, "undo")
            /\ UNCHANGED <<freeListHead, list, head, prevHead, node>>
    /\ UNCHANGED <<freeListRefs, freeListNext, refs, next, held>>

\* Mutant: there is no retry.
Undo_NoRetry(t) ==
    /\ pc[t] = "undo"
    /\ FetchAdd(node[t], SHOULD_BE_ON_FREELIST - 1)
    /\ ReturnFromAdd(t)
    /\ UNCHANGED <<freeListHead, freeListNext, refs, next, held, list>>

\* The add failed: the list's reference is taken back and the flag set again,
\* and only the thread that brings the count to zero tries once more.
Undo(t) ==
    /\ pc[t] = "undo"
    /\ FetchAdd(node[t], SHOULD_BE_ON_FREELIST - 1)
    /\ IF freeListRefs[node[t]] = 1
       THEN Goto(t, "storeNext") /\ UNCHANGED <<head, prevHead, addLocals>>
       ELSE ReturnFromAdd(t)
    /\ UNCHANGED <<freeListHead, freeListNext, refs, next, held, list>>

-----------------------------------------------------------------------------
\* What a thread inside try_get or add does next.
Step(t) ==
    \/ LoadRefs(t) \/ IncRefs(t) \/ Reload(t) \/ LoadNext(t)
    \/ CasHead(t) \/ Take(t) \/ DecRefs(t)
    \/ LoadHead(t) \/ StoreNext(t) \/ StoreRefs(t) \/ CasAdd(t) \/ Undo(t)

\* What an idle thread may call.  add requires a node that is the caller's.
Call(t) == TryGet(t) \/ \E n \in held[t] : Add(t, n)

Next == \E t \in Thread : Call(t) \/ Step(t)

Spec == Init /\ [][Next]_vars

\* The scheduler runs every thread that is inside a call.
FairSpec == Spec /\ \A t \in Thread : WF_vars(Step(t))

-----------------------------------------------------------------------------
(* Where a node is.                                                        *)

OnList(n) == \E i \in 1 .. Len(list) : list[i] = n

\* Thread t got n off the list and has not returned yet.
Taking(t, n) == pc[t] = "take" /\ prevHead[t] = n
\* Thread t runs add_knowing_refcount_is_zero for n, whose count is zero ...
Preparing(t, n) == pc[t] \in {"loadHead", "storeNext", "storeRefs"} /\ node[t] = n
\* ... and whose count includes the reference of the list.
Publishing(t, n) == pc[t] \in {"casAdd", "undo"} /\ node[t] = n

Adding(t, n) == Preparing(t, n) \/ Publishing(t, n)
Owns(t, n) == n \in held[t] \/ Taking(t, n)
\* Thread t alone may touch the link and the flag of n.
Controls(t, n) == Owns(t, n) \/ Adding(t, n)

\* The count of n includes one for thread t, which is inside an iteration.
References(t, n) ==
    /\ pc[t] \in {"loadNext", "casHead", "take", "decRefs"}
    /\ prevHead[t] = n
RefSet(n) == {t \in Thread : References(t, n)}

\* The count of n includes the one the list has.
ListReference(n) == \/ OnList(n)
                    \/ \E t \in Thread : Taking(t, n) \/ Publishing(t, n)

\* add was called for n, but n is not on the list yet.
Waiting(n) == /\ ~ ListReference(n)
              /\ \A t \in Thread : n \notin held[t]

-----------------------------------------------------------------------------
(* Properties.                                                             *)

\* The type invariant: the values the code's atomics and locals range over.
TypeOK ==
    /\ freeListHead \in Node \cup {NULL}
    /\ freeListRefs \in [Node -> RefsRange]
    /\ freeListNext \in [Node -> Node \cup {NULL}]
    /\ pc \in [Thread -> {"idle", "loadRefs", "incRefs", "reload", "loadNext",
                          "casHead", "take", "decRefs", "loadHead", "storeNext",
                          "storeRefs", "casAdd", "undo"}]
    /\ head \in [Thread -> Node \cup {NULL}]
    /\ prevHead \in [Thread -> Node \cup {NULL}]
    /\ refs \in [Thread -> RefsRange]
    /\ next \in [Thread -> Node \cup {NULL}]
    /\ node \in [Thread -> Node \cup {NULL}]
    /\ addHead \in [Thread -> Node \cup {NULL}]
    /\ held \in [Thread -> SUBSET Node]
    /\ list \in Seq(Node)

\* The assertion of line 62: a thread that has just taken a node off the list
\* finds the flag SHOULD_BE_ON_FREELIST clear, whatever the count is.
AssertionHolds ==
    \A t \in Thread :
        pc[t] = "take" => freeListRefs[head[t]] < SHOULD_BE_ON_FREELIST

\* What the list is for: no node is given to two callers, and add_knowing_...
\* runs once per node at a time (lines 86-87).  A node a thread controls is
\* not on the list either, so nobody can take it.
Exclusive ==
    \A n \in Node :
        /\ \A t, u \in Thread : Controls(t, n) /\ Controls(u, n) => t = u
        /\ \A t \in Thread : Controls(t, n) => ~ OnList(n)

\* The accounting that makes the ABA argument of lines 4-10 work: a count is
\* the references of the threads, plus the one of the list, plus the flag.
RefsExact ==
    \A n \in Node :
        freeListRefs[n] =
            Cardinality(RefSet(n))
            + (IF ListReference(n) THEN 1 ELSE 0)
            + (IF Waiting(n) THEN SHOULD_BE_ON_FREELIST ELSE 0)

\* No node is lost: one that waits to be put on the list is either being put
\* there or still referenced by a thread that will do it ("leave the add
\* operation to the next thread who puts the refcount back at zero").
NotStranded ==
    \A n \in Node :
        Waiting(n) => \E t \in Thread : Adding(t, n) \/ References(t, n)

\* When no call is running, every node is with a caller or on the list.
Quiescent ==
    (\A t \in Thread : pc[t] = "idle")
        => \A n \in Node : OnList(n) \/ \E t \in Thread : n \in held[t]

\* The pointers spell the list out, without repetition, and end in nullptr.
PointersSpellList ==
    /\ freeListHead = IF list = <<>> THEN NULL ELSE list[1]
    /\ \A i \in 1 .. Len(list) :
          freeListNext[list[i]] = IF i = Len(list) THEN NULL ELSE list[i + 1]
    /\ \A i, j \in 1 .. Len(list) : list[i] = list[j] => i = j

\* What the locals of a thread stand for at each access.
LocalsFresh ==
    \A t \in Thread :
        /\ pc[t] \in {"loadRefs", "incRefs", "loadNext", "casHead", "take"}
              => prevHead[t] = head[t] /\ head[t] \in Node
        /\ pc[t] = "decRefs" => prevHead[t] \in Node
        /\ pc[t] \in {"loadHead", "storeNext", "storeRefs", "casAdd", "undo"}
              => node[t] \in Node /\ node[t] \notin held[t]
        /\ pc[t] = "casHead" => next[t] = freeListNext[prevHead[t]]
        /\ pc[t] \in {"storeRefs", "casAdd"} => freeListNext[node[t]] = addHead[t]

\* A node waits without a reference exactly while some thread is preparing to
\* put it on the list.
ZeroMeansPreparing ==
    \A n \in Node : (\E t \in Thread : Preparing(t, n))
                        <=> Waiting(n) /\ RefSet(n) = {}

\* The inductive invariant: no step of add or try_get breaks any part of it.
IInv == /\ TypeOK
        /\ LocalsFresh
        /\ PointersSpellList
        /\ Exclusive
        /\ RefsExact
        /\ ZeroMeansPreparing

\* Lock freedom: the threads inside a call cannot all stay there forever
\* while nobody completes or starts a call: some call always gets through.
LockFree ==
    \A busy \in (SUBSET Thread) \ {{}} :
        []<>({t \in Thread : pc[t] # "idle"} # busy)

-----------------------------------------------------------------------------
(* The refinement of NodePool: a node taken off the list is its taker's at *)
(* the exchange of the head, and a node is pending from add's increment to *)
(* the exchange that puts it on the list.                                  *)

Pending(n) == \/ freeListRefs[n] >= SHOULD_BE_ON_FREELIST
              \/ \E t \in Thread : Publishing(t, n)

poolHeld == [t \in Thread |-> {n \in Node : Owns(t, n)}]
poolPending == {n \in Node : Pending(n)}

Pool == INSTANCE NodePool WITH held <- poolHeld, pending <- poolPending

\* Every step of the code is a step of the pool or leaves it unchanged: adding
\* and getting look atomic to the callers whatever the threads interleave.
ImplementsPool == Pool!Spec

=============================================================================
