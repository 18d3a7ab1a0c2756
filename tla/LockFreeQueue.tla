--------------------------- MODULE LockFreeQueue ---------------------------
(***************************************************************************)
(* RoughLockFreeQueue of lock_free_queue/lock_free_queue.hpp, used as      *)
(* lock_free_queue/test/main.cpp uses it: producers call EnQueue, a        *)
(* consumer calls DeQueue after empty() said no.                           *)
(*                                                                         *)
(* Every atomic access is one action (sequentially consistent).  The nodes *)
(* are heap cells: new takes any cell that is not allocated, so the cell   *)
(* of a deleted node may come back, and a pointer may dangle.              *)
(***************************************************************************)
EXTENDS Integers, Sequences, FiniteSets

CONSTANTS
    Producer, Consumer,
    Cells,         \* bound: the heap cells queue nodes may live in
    NULL,          \* nullptr
    MaxItems,      \* bound: the most items one producer enqueues
    Plans,         \* the workloads: who enqueues how much, and who dequeues
    SizeModulus,   \* m_size is unsigned: 2^32 in the code
    Spurious       \* whether compare_exchange_weak may fail spuriously

Node == 1 .. Cells

ASSUME ThreadAssumption ==
    Producer \cap Consumer = {} /\ IsFiniteSet(Producer) /\ IsFiniteSet(Consumer)
ASSUME CellAssumption == Cells \in Nat \ {0} /\ NULL \notin Node
ASSUME PlanAssumption ==
    Plans \subseteq [items : [Producer -> 0 .. MaxItems], consumers : SUBSET Consumer]
ASSUME SizeAssumption == MaxItems \in Nat /\ SizeModulus \in Nat /\ Spurious \in BOOLEAN

Thread == Producer \cup Consumer
Item == Producer \X (1 .. MaxItems)

VARIABLES
    m_head, m_tail, m_size,     \* the members of the queue
    allocated, data, nextOf,    \* the heap: live cells and their fields
    pc,                         \* the access each thread is about to make
    ptr,       \* the local tail of EnQueue, the local head of DeQueue
    other,     \* the local newNode of EnQueue, the value of head->next
    toSend,    \* how many items each producer has yet to enqueue
    linked,    \* history: the items in the order they were linked
    results    \* history: what each consumer got from removed nodes

members == <<m_head, m_tail, m_size>>
heap == <<allocated, data, nextOf>>
locals == <<pc, ptr, other>>
vars == <<members, heap, locals, toSend, linked, results>>

Init ==
    \E plan \in Plans :
        /\ m_head = 1 /\ m_tail = 1 /\ m_size = 0
        /\ allocated = {1}
        /\ data = [n \in Node |-> NULL]
        /\ nextOf = [n \in Node |-> NULL]
        /\ pc = [t \in Thread |-> IF t \in Producer \cup plan.consumers
                                  THEN "idle" ELSE "absent"]
        /\ ptr = [t \in Thread |-> NULL]
        /\ other = [t \in Thread |-> NULL]
        /\ toSend = plan.items
        /\ linked = <<>>
        /\ results = [c \in Consumer |-> <<>>]

Goto(t, label) == pc' = [pc EXCEPT ![t] = label]
Return(t) == /\ Goto(t, "idle")
             /\ ptr' = [ptr EXCEPT ![t] = NULL]
             /\ other' = [other EXCEPT ![t] = NULL]

\* The outcomes of a weak compare-and-exchange whose comparison gave eq.
WeakCas(eq) == {eq} \cup (IF Spurious THEN {FALSE} ELSE {})

-----------------------------------------------------------------------------
(* EnQueue                                                                 *)

\* new may return any cell that was deleted, or one never used so far; which
\* of those makes no difference, so they are taken in order.
New == {n \in Node \ allocated : \A m \in 2 .. (n - 1) : data[m] # NULL}

EnQueue(p) ==
    /\ pc[p] = "idle"
    /\ toSend[p] > 0
    /\ toSend' = [toSend EXCEPT ![p] = @ - 1]
    /\ \E n \in New :
          /\ allocated' = allocated \cup {n}
          /\ data' = [data EXCEPT ![n] = <<p, toSend[p]>>]
          /\ nextOf' = [nextOf EXCEPT ![n] = NULL]
          /\ other' = [other EXCEPT ![p] = n]
    /\ Goto(p, "loadTail")
    /\ UNCHANGED <<members, ptr, linked, results>>

LoadTail(p) ==
    /\ pc[p] = "loadTail"
    /\ ptr' = [ptr EXCEPT ![p] = m_tail]
    /\ Goto(p, "link")
    /\ UNCHANGED <<members, heap, other, toSend, linked, results>>

\* Mutant: the new node replaces whatever follows the tail.
Link_NoExpect(p) ==
    /\ pc[p] = "link"
    /\ nextOf' = [nextOf EXCEPT ![ptr[p]] = other[p]]
    /\ linked' = Append(linked, data[other[p]])
    /\ Goto(p, "swing")
    /\ UNCHANGED <<members, allocated, data, ptr, other, toSend, results>>

\* Only the exchange that finds nullptr behind the tail links the new node.
Link(p) ==
    /\ pc[p] = "link"
    /\ \E ok \in WeakCas(nextOf[ptr[p]] = NULL) :
          IF ok
          THEN /\ nextOf' = [nextOf EXCEPT ![ptr[p]] = other[p]]
               /\ linked' = Append(linked, data[other[p]])
               /\ Goto(p, "swing")
          ELSE Goto(p, "loadTail") /\ UNCHANGED <<nextOf, linked>>
    /\ UNCHANGED <<members, allocated, data, ptr, other, toSend, results>>

\* Mutant: the tail is left where it is.
Swing_Forgotten(p) ==
    /\ pc[p] = "swing"
    /\ Goto(p, "count")
    /\ UNCHANGED <<members, heap, ptr, other, toSend, linked, results>>

\* Mutant: the tail is moved to what follows the new node.
Swing_Next(p) ==
    /\ pc[p] = "swing"
    /\ m_tail' = nextOf[other[p]]
    /\ Goto(p, "count")
    /\ UNCHANGED <<m_head, m_size, heap, ptr, other, toSend, linked, results>>

\* The tail is moved on by one attempt, outside the loop.
Swing(p) ==
    /\ pc[p] = "swing"
    /\ \E ok \in WeakCas(m_tail = ptr[p]) :
          m_tail' = IF ok THEN other[p] ELSE m_tail
    /\ Goto(p, "count")
    /\ UNCHANGED <<m_head, m_size, heap, ptr, other, toSend, linked, results>>

\* Mutant: the new item is not counted.
Count_Forgotten(p) ==
    /\ pc[p] = "count"
    /\ Return(p)
    /\ UNCHANGED <<members, heap, toSend, linked, results>>

Count(p) ==
    /\ pc[p] = "count"
    /\ m_size' = (m_size + 1) % SizeModulus
    /\ Return(p)
    /\ UNCHANGED <<m_head, m_tail, heap, toSend, linked, results>>

-----------------------------------------------------------------------------
(* empty and DeQueue                                                       *)

\* Mutant: DeQueue is called whatever empty() says.
NotEmpty_Always == TRUE

\* The consumer's guard: ! empty().
NotEmpty == m_size # 0

DeQueue(c) ==
    /\ pc[c] = "idle"
    /\ IF NotEmpty THEN Goto(c, "loadHead") ELSE UNCHANGED pc
    /\ UNCHANGED <<members, heap, ptr, other, toSend, linked, results>>

LoadHead(c) ==
    /\ pc[c] = "loadHead"
    /\ ptr' = [ptr EXCEPT ![c] = m_head]
    /\ Goto(c, "testNext")
    /\ UNCHANGED <<members, heap, other, toSend, linked, results>>

\* With nothing behind the head, DeQueue returns nullptr.
TestNext(c) ==
    /\ pc[c] = "testNext"
    /\ IF nextOf[ptr[c]] = NULL
       THEN Return(c)
       ELSE Goto(c, "loadNext") /\ UNCHANGED <<ptr, other>>
    /\ UNCHANGED <<members, heap, toSend, linked, results>>

LoadNext(c) ==
    /\ pc[c] = "loadNext"
    /\ other' = [other EXCEPT ![c] = nextOf[ptr[c]]]
    /\ Goto(c, "casHead")
    /\ UNCHANGED <<members, heap, ptr, toSend, linked, results>>

CasHead(c) ==
    /\ pc[c] = "casHead"
    /\ \E ok \in WeakCas(m_head = ptr[c]) :
          IF ok THEN m_head' = other[c] /\ Goto(c, "uncount")
                ELSE UNCHANGED m_head /\ Goto(c, "loadHead")
    /\ UNCHANGED <<m_tail, m_size, heap, ptr, other, toSend, linked, results>>

Uncount(c) ==
    /\ pc[c] = "uncount"
    /\ m_size' = (m_size - 1) % SizeModulus
    /\ Goto(c, "deliver")
    /\ UNCHANGED <<m_head, m_tail, heap, ptr, other, toSend, linked, results>>

\* Mutant: the item of the new head is returned.
Result_New(c) == data[other[c]]

\* The item returned is the one in the node that was the head.
Result(c) == data[ptr[c]]

Deliver(c) ==
    /\ pc[c] = "deliver"
    /\ results' = [results EXCEPT ![c] = Append(@, Result(c))]
    /\ allocated' = allocated \ {ptr[c]}
    /\ Return(c)
    /\ UNCHANGED <<members, data, nextOf, toSend, linked>>

-----------------------------------------------------------------------------
EnQueueStep(p) == LoadTail(p) \/ Link(p) \/ Swing(p) \/ Count(p)
DeQueueStep(c) == \/ LoadHead(c) \/ TestNext(c) \/ LoadNext(c)
                  \/ CasHead(c) \/ Uncount(c) \/ Deliver(c)

Next == \/ \E p \in Producer : EnQueue(p) \/ EnQueueStep(p)
        \/ \E c \in Consumer : DeQueue(c) \/ DeQueueStep(c)

Spec == Init /\ [][Next]_vars

\* The scheduler runs every thread; the consumer polls forever; a weak
\* exchange that could succeed does not fail spuriously forever.
FairSpec ==
    /\ Spec
    /\ \A p \in Producer : /\ WF_vars(EnQueueStep(p))
                           /\ SF_vars(Link(p) /\ pc'[p] = "swing")
    /\ \A c \in Consumer : /\ WF_vars(DeQueue(c) \/ DeQueueStep(c))
                           /\ SF_vars(CasHead(c) /\ pc'[c] = "uncount")

-----------------------------------------------------------------------------
(* The queue as its pointers spell it.                                     *)

\* The cells reached from m_head, with NULL from the end on.
Cell[i \in 1 .. Cardinality(Node) + 1] ==
    IF i = 1 THEN m_head
    ELSE IF Cell[i - 1] = NULL THEN NULL
    ELSE nextOf[Cell[i - 1]]

Length == Cardinality({i \in DOMAIN Cell : Cell[i] # NULL})
Contents == [i \in 1 .. Length |-> data[Cell[i]]]

-----------------------------------------------------------------------------
(* Properties.                                                             *)

\* The type invariant of the members, the heap and the threads' locals.
TypeOK ==
    /\ m_head \in Node /\ m_tail \in Node
    /\ m_size \in 0 .. SizeModulus - 1
    /\ allocated \subseteq Node
    /\ data \in [Node -> Item \cup {NULL}]
    /\ nextOf \in [Node -> Node \cup {NULL}]
    /\ pc \in [Thread -> {"absent", "idle", "loadTail", "link", "swing", "count", "loadHead",
                          "testNext", "loadNext", "casHead", "uncount", "deliver"}]
    /\ ptr \in [Thread -> Node \cup {NULL}]
    /\ other \in [Thread -> Node \cup {NULL}]
    /\ toSend \in [Producer -> 0 .. MaxItems]
    /\ linked \in Seq(Item)
    /\ results \in [Consumer -> Seq(Item \cup {NULL})]

\* No thread is about to read or write a field of a deleted node: the tail an
\* EnQueue is linking behind, the head a DeQueue looks into.
NoUseAfterFree ==
    /\ m_head \in allocated /\ m_tail \in allocated
    /\ \A t \in Thread :
          pc[t] \in {"link", "testNext", "loadNext", "deliver"}
              => ptr[t] \in allocated

\* m_size is the number of items behind the head, but for the calls between
\* their exchange and their counting; in particular it never wraps below zero,
\* which would make empty() say no forever.
SizeExact ==
    /\ TypeOK
    /\ m_size = Length - 1
                - Cardinality({p \in Producer : pc[p] \in {"swing", "count"}})
                + Cardinality({c \in Consumer : pc[c] = "uncount"})

\* Every EnQueue returns (line 45: moving the tail needs no loop).
EnqueueReturns == \A p \in Producer : pc[p] # "idle" ~> pc[p] = "idle"

\* The consumer gets one result per item: k items linked yield k results, the
\* first of which is nullptr and the k-th the item k - 1.
Delivered ==
    \A c \in Consumer, k \in 1 .. MaxItems :
        (Len(linked) >= k /\ pc[c] # "absent") ~> Len(results[c]) >= k

\* The results a consumer has or is about to return.
resultsDue ==
    [c \in Consumer |->
        IF pc[c] \in {"uncount", "deliver"} THEN Append(results[c], Result(c))
                                            ELSE results[c]]

Queue == INSTANCE LaggingQueue WITH queue <- Contents, results <- resultsDue

\* The queue is a FIFO queue that is one item behind, whatever interleaves.
ImplementsLaggingQueue == Queue!Spec
=============================================================================
