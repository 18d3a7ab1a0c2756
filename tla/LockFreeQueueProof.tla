------------------------- MODULE LockFreeQueueProof -------------------------
(***************************************************************************)
(* What the lock-free queue promises when it is used as it can bear: by    *)
(* any number of producers while nobody dequeues, or by one producer and   *)
(* one consumer on a machine whose weak exchange does not fail spuriously. *)
(* For more, the run LockFreeQueue_dangling shows that it breaks.          *)
(***************************************************************************)
EXTENDS LockFreeQueue, FiniteSetTheorems, SequenceTheorems, NaturalsInduction, TLAPS

\* The workloads the queue can bear, and fewer nodes than m_size counts.
SafePlans ==
    /\ Cells < SizeModulus
    /\ \A plan \in Plans :
          \/ plan.consumers = {}
          \/ /\ ~Spurious
             /\ \A c, d \in plan.consumers : c = d
             /\ \A p, r \in Producer : plan.items[p] > 0 /\ plan.items[r] > 0 => p = r

-----------------------------------------------------------------------------
(* The inductive invariant, in parts                                       *)

Enqueuing == {"loadTail", "link", "swing", "count"}
Dequeuing == {"loadHead", "testNext", "loadNext", "casHead", "uncount"}

NoConsumer == \A c \in Consumer : pc[c] = "absent"
Busy(p) == pc[p] # "idle" \/ toSend[p] > 0

\* Who takes part.
Roles ==
    /\ \A p \in Producer : pc[p] \in Enqueuing \cup {"idle"}
    /\ \A c \in Consumer : pc[c] \in Dequeuing \cup {"absent", "idle", "deliver"}
    /\ \/ NoConsumer
       \/ /\ ~Spurious
          /\ \A c, d \in Consumer : pc[c] # "absent" /\ pc[d] # "absent" => c = d
          /\ \A p, r \in Producer : Busy(p) /\ Busy(r) => p = r

\* The nodes from m_head on are q.
Links(q) ==
    /\ q \in Seq(Node) /\ Len(q) >= 1 /\ q[1] = m_head
    /\ \A i, j \in 1 .. Len(q) : q[i] = q[j] => i = j
    /\ \A i \in 1 .. Len(q) : q[i] \in allocated
    /\ \A i \in 1 .. Len(q) - 1 : nextOf[q[i]] = q[i + 1]
    /\ nextOf[q[Len(q)]] = NULL

\* And m_tail is the last of them or the last but one.
Chain(q, k) ==
    /\ Links(q)
    /\ k \in 1 .. Len(q) /\ k >= Len(q) - 1 /\ m_tail = q[k]

\* A producer that has a new node and has not linked it.
Unlinked(p) == pc[p] \in {"loadTail", "link"}

\* The new nodes are nobody else's; a producer links behind a node that was the tail,
\* and the one that has linked moves a tail that nobody else moves.
Producers(q, k) ==
    /\ \A p \in Producer :
          /\ Unlinked(p) => /\ other[p] \in allocated /\ nextOf[other[p]] = NULL
                            /\ data[other[p]] \in Item
                            /\ \A i \in 1 .. Len(q) : q[i] # other[p]
          /\ pc[p] = "link" => /\ \E j \in 1 .. k : ptr[p] = q[j]
                               /\ NoConsumer \/ ptr[p] = m_tail
          /\ pc[p] = "swing" => k = Len(q) - 1 /\ ptr[p] = m_tail /\ other[p] = q[Len(q)]
    /\ \A p, r \in Producer : Unlinked(p) /\ Unlinked(r) /\ other[p] = other[r] => p = r
    /\ \A p, r \in Producer : pc[p] = "swing" /\ pc[r] = "swing" => p = r
    /\ k = Len(q) - 1 => Spurious \/ \E p \in Producer : pc[p] = "swing"

\* The consumer works on the head, and a node it has removed is its own.
Consumers(q) ==
    \A c \in Consumer :
        /\ pc[c] \in Dequeuing => m_size >= 1
        /\ pc[c] \in {"testNext", "loadNext", "casHead"} => ptr[c] = m_head
        /\ pc[c] = "casHead" => other[c] = nextOf[m_head]
        /\ pc[c] \in {"uncount", "deliver"} =>
              /\ ptr[c] \in allocated
              /\ \A i \in 1 .. Len(q) : q[i] # ptr[c]
              /\ \A p \in Producer : Unlinked(p) => other[p] # ptr[c]

Uncounted == {p \in Producer : pc[p] \in {"swing", "count"}}
Removed == {c \in Consumer : pc[c] = "uncount"}

Counted(q) == m_size = Len(q) - 1 - Cardinality(Uncounted) + Cardinality(Removed)

QueueInvOf(q, k) == Chain(q, k) /\ Producers(q, k) /\ Consumers(q) /\ Counted(q)
QueueInv == TypeOK /\ Roles /\ \E q \in Seq(Node), k \in Nat : QueueInvOf(q, k)

-----------------------------------------------------------------------------

(* Facts the steps share                                                   *)

LEMMA ThreadTypes ==
  /\ \A p \in Producer : p \in Thread /\ p \notin Consumer
  /\ \A c \in Consumer : c \in Thread /\ c \notin Producer
  BY ThreadAssumption DEF Thread

LEMMA CountTypes ==
  /\ IsFiniteSet(Uncounted) /\ Cardinality(Uncounted) \in Nat
  /\ IsFiniteSet(Removed) /\ Cardinality(Removed) \in Nat
  /\ IsFiniteSet(Uncounted') /\ IsFiniteSet(Removed')
  <1>1. Uncounted \in SUBSET Producer /\ Uncounted' \in SUBSET Producer
    BY DEF Uncounted
  <1>2. Removed \in SUBSET Consumer /\ Removed' \in SUBSET Consumer
    BY DEF Removed
  <1>3. IsFiniteSet(Uncounted) /\ IsFiniteSet(Removed)
        /\ IsFiniteSet(Uncounted') /\ IsFiniteSet(Removed')
    BY <1>1, <1>2, ThreadAssumption, FS_Subset
  <1> QED  BY <1>3, FS_CardinalityType

\* While a consumer is between empty() and its exchange there is a node behind the head,
\* and the tail is not the head.
LEMMA BehindHead ==
  ASSUME TypeOK, Roles, NEW q \in Seq(Node), NEW k \in Nat, QueueInvOf(q, k),
         NEW c \in Consumer, pc[c] \in Dequeuing \ {"uncount"}
  PROVE  Len(q) >= 2 /\ k >= 2 /\ ~Spurious /\ Removed = {}
  <1>1. ~Spurious /\ \A d \in Consumer : pc[d] # "absent" => d = c
    BY DEF Roles, NoConsumer, Dequeuing
  <1>2. Removed = {}  BY <1>1 DEF Removed
  <1>3. m_size >= 1 /\ m_size = Len(q) - 1 - Cardinality(Uncounted)
    BY <1>2, CountTypes, FS_EmptySet DEF QueueInvOf, Consumers, Counted, Dequeuing
  <1>4. /\ Len(q) \in Nat /\ k \in 1 .. Len(q) /\ k >= Len(q) - 1
        /\ m_size \in Int /\ Cardinality(Uncounted) \in Nat
    BY CountTypes, SizeAssumption DEF QueueInvOf, Chain, Links, TypeOK
  <1>5. Len(q) >= 2  BY <1>3, <1>4
  <1>6. ASSUME k < 2 PROVE FALSE
    <2> PICK n \in Nat : n = Len(q)  BY <1>4
    <2>1. k \in 1 .. n /\ k >= n - 1 /\ n >= 2  BY <1>4, <1>5
    <2>2. k = n - 1 /\ n = 2  BY <2>1, <1>6
    <2>3. k = Len(q) - 1 /\ Len(q) = 2  BY <2>2
    <2>4. PICK p \in Producer : pc[p] = "swing"
      BY <1>1, <2>3 DEF QueueInvOf, Producers
    <2>5. p \in Uncounted  BY <2>4 DEF Uncounted
    <2>6. Cardinality(Uncounted) # 0  BY <2>5, CountTypes, FS_EmptySet
    <2> QED  BY <1>3, <1>4, <2>3, <2>6
  <1>7. k >= 2  BY <1>4, <1>6
  <1> QED  BY <1>1, <1>2, <1>5, <1>7

\* The chain has no more nodes than there are cells.
LEMMA ChainFits ==
  ASSUME NEW q \in Seq(Node), \A i, j \in 1 .. Len(q) : q[i] = q[j] => i = j
  PROVE  Len(q) <= Cells
  <1>1. Len(q) \in Nat /\ q \in [1 .. Len(q) -> Node]  OBVIOUS
  <1>2. q \in Injection(1 .. Len(q), Node)
    BY <1>1 DEF Injection, IsInjective
  <1>3. /\ IsFiniteSet(Node) /\ Cardinality(Node) = Cells
        /\ Cardinality(1 .. Len(q)) = Len(q)
    <2>1. Cells \in Nat /\ Cells >= 1  BY CellAssumption
    <2>2. IsFiniteSet(1 .. Cells) /\ Cardinality(1 .. Cells) = IF 1 > Cells THEN 0 ELSE Cells - 1 + 1
      BY <2>1, FS_Interval
    <2>3. Cardinality(1 .. Len(q)) = IF 1 > Len(q) THEN 0 ELSE Len(q) - 1 + 1
      BY <1>1, FS_Interval
    <2> QED  BY <1>1, <2>1, <2>2, <2>3 DEF Node
  <1> QED  BY <1>2, <1>3, FS_Injection

-----------------------------------------------------------------------------

(* The steps of a producer                                                 *)

LEMMA QueueInit == ASSUME SafePlans, Init PROVE QueueInv
  <1> PICK plan \in Plans :
        /\ pc = [t \in Thread |-> IF t \in Producer \cup plan.consumers
                                  THEN "idle" ELSE "absent"]
        /\ toSend = plan.items
    BY DEF Init
  <1>1. plan.items \in [Producer -> 0 .. MaxItems] /\ plan.consumers \subseteq Consumer
    BY PlanAssumption
  <1>2. /\ m_head = 1 /\ m_tail = 1 /\ m_size = 0 /\ allocated = {1}
        /\ data = [n \in Node |-> NULL] /\ nextOf = [n \in Node |-> NULL]
        /\ ptr = [t \in Thread |-> NULL] /\ other = [t \in Thread |-> NULL]
        /\ linked = <<>> /\ results = [c \in Consumer |-> <<>>]
    BY DEF Init
  <1>3. 1 \in Node /\ SizeModulus \in Nat /\ SizeModulus >= 1
    BY CellAssumption, SizeAssumption DEF Node, SafePlans
  <1>4. TypeOK
    <2>1. pc \in [Thread -> {"absent", "idle", "loadTail", "link", "swing", "count",
                    "loadHead", "testNext", "loadNext", "casHead", "uncount", "deliver"}]
      OBVIOUS
    <2>2. linked \in Seq(Item) /\ results \in [Consumer -> Seq(Item \cup {NULL})]
      BY <1>2
    <2> QED  BY <1>1, <1>2, <1>3, <2>1, <2>2 DEF TypeOK
  <1>5. /\ \A p \in Producer : pc[p] = "idle" /\ toSend[p] \in Nat
        /\ \A c \in Consumer : pc[c] = IF c \in plan.consumers THEN "idle" ELSE "absent"
    BY <1>1, ThreadTypes
  <1>6. Roles
    <2>1. \/ NoConsumer
          \/ /\ ~Spurious
             /\ \A c, d \in Consumer : pc[c] # "absent" /\ pc[d] # "absent" => c = d
             /\ \A p, r \in Producer : Busy(p) /\ Busy(r) => p = r
      <3>1. CASE plan.consumers = {}  BY <1>5, <3>1 DEF NoConsumer
      <3>2. CASE /\ ~Spurious
                 /\ \A c, d \in plan.consumers : c = d
                 /\ \A p, r \in Producer :
                       plan.items[p] > 0 /\ plan.items[r] > 0 => p = r
        BY <1>5, <3>2 DEF Busy
      <3> QED  BY <3>1, <3>2 DEF SafePlans
    <2> QED  BY <1>5, <2>1 DEF Roles
  <1>7. <<1>> \in Seq(Node)  BY <1>3
  <1> PICK q \in Seq(Node) : q = <<1>>  BY <1>7
  <1>8. Len(q) = 1 /\ q[1] = 1  OBVIOUS
  <1>9. Chain(q, 1)  BY <1>2, <1>3, <1>8 DEF Chain, Links
  <1>10. Producers(q, 1) /\ Consumers(q)
    <2>1. \A p \in Producer : ~Unlinked(p) /\ pc[p] # "link" /\ pc[p] # "swing"
      BY <1>5 DEF Unlinked
    <2>2. Producers(q, 1)  BY <1>8, <2>1 DEF Producers
    <2>3. Consumers(q)  BY <1>5 DEF Consumers, Dequeuing
    <2> QED  BY <2>2, <2>3
  <1>11. Counted(q)
    <2>1. Uncounted = {} /\ Removed = {}  BY <1>5 DEF Uncounted, Removed
    <2> QED  BY <1>2, <1>8, <2>1, FS_EmptySet DEF Counted
  <1> QED  BY <1>4, <1>6, <1>9, <1>10, <1>11 DEF QueueInv, QueueInvOf

\* Roles survive a step of one thread that stays in its role.
LEMMA RolesStep ==
  ASSUME TypeOK, Roles, NEW t \in Thread, pc[t] # "absent", NEW l, Goto(t, l),
         \/ t \in Consumer /\ l \in Dequeuing \cup {"idle", "deliver"} /\ toSend' = toSend
         \/ /\ t \in Producer /\ l \in Enqueuing \cup {"idle"} /\ Busy(t)
            /\ \A p \in Producer : p # t => toSend'[p] = toSend[p]
  PROVE  /\ Roles' /\ NoConsumer' = NoConsumer
         /\ pc'[t] = l /\ \A s \in Thread \ {t} : pc'[s] = pc[s]
  <1>1. pc'[t] = l /\ \A s \in Thread \ {t} : pc'[s] = pc[s]
    BY DEF Goto, TypeOK
  <1>2. CASE t \in Consumer /\ l \in Dequeuing \cup {"idle", "deliver"} /\ toSend' = toSend
    <2>1. /\ \A p \in Producer : pc'[p] = pc[p] /\ Busy(p)' = Busy(p)
          /\ \A c \in Consumer : pc'[c] = "absent" <=> pc[c] = "absent"
      BY <1>1, <1>2, ThreadTypes DEF Busy, Dequeuing
    <2>2. NoConsumer' = NoConsumer  BY <2>1 DEF NoConsumer
    <2>3. \A c \in Consumer : pc'[c] \in Dequeuing \cup {"absent", "idle", "deliver"}
      BY <1>1, <1>2, ThreadTypes DEF Roles
    <2> QED  BY <1>1, <2>1, <2>2, <2>3 DEF Roles
  <1>3. CASE /\ t \in Producer /\ l \in Enqueuing \cup {"idle"} /\ Busy(t)
             /\ \A p \in Producer : p # t => toSend'[p] = toSend[p]
    <2>1. /\ \A c \in Consumer : pc'[c] = pc[c]
          /\ \A p \in Producer : Busy(p)' => Busy(p)
          /\ \A p \in Producer : pc'[p] \in Enqueuing \cup {"idle"}
      BY <1>1, <1>3, ThreadTypes DEF Busy, Roles
    <2>2. NoConsumer' = NoConsumer  BY <2>1 DEF NoConsumer
    <2> QED  BY <1>1, <2>1, <2>2 DEF Roles
  <1> QED  BY <1>2, <1>3

LEMMA StepEnQueue ==
  ASSUME QueueInv, NEW p \in Producer, EnQueue(p)
  PROVE  QueueInv'
  <1> USE ThreadTypes
  <1> PICK q \in Seq(Node), k \in Nat : QueueInvOf(q, k)  BY DEF QueueInv
  <1> PICK n \in New :
        /\ allocated' = allocated \cup {n}
        /\ data' = [data EXCEPT ![n] = <<p, toSend[p]>>]
        /\ nextOf' = [nextOf EXCEPT ![n] = NULL]
        /\ other' = [other EXCEPT ![p] = n]
    BY DEF EnQueue
  <1>1. /\ n \in Node /\ n \notin allocated
        /\ toSend[p] \in 1 .. MaxItems /\ <<p, toSend[p]>> \in Item
        /\ pc[p] = "idle" /\ toSend' = [toSend EXCEPT ![p] = @ - 1]
        /\ UNCHANGED <<m_head, m_tail, m_size, ptr, linked, results>>
        /\ Goto(p, "loadTail")
    BY SizeAssumption DEF EnQueue, New, QueueInv, TypeOK, Item, members
  <1>2. TypeOK'
    BY <1>1, SizeAssumption DEF QueueInv, TypeOK, Goto
  <1>3. /\ Roles' /\ NoConsumer' = NoConsumer
        /\ pc'[p] = "loadTail" /\ \A s \in Thread \ {p} : pc'[s] = pc[s]
    <2>1. Busy(p) /\ \A r \in Producer : r # p => toSend'[r] = toSend[r]
      BY <1>1 DEF Busy, QueueInv, TypeOK
    <2> QED  BY <1>1, <2>1, RolesStep DEF QueueInv, Enqueuing
  <1>4. /\ \A m \in allocated : data'[m] = data[m] /\ nextOf'[m] = nextOf[m] /\ m # n
        /\ data'[n] \in Item /\ nextOf'[n] = NULL /\ other'[p] = n
        /\ \A t \in Thread \ {p} : other'[t] = other[t]
    BY <1>1 DEF QueueInv, TypeOK
  <1>5. Chain(q, k)'
    BY <1>1, <1>4 DEF QueueInvOf, Chain, Links
  <1>6. Producers(q, k)'
    <2>1. ASSUME NEW r \in Producer, r # p
          PROVE  /\ Unlinked(r)' = Unlinked(r) /\ pc'[r] = pc[r]
                 /\ other'[r] = other[r] /\ ptr'[r] = ptr[r]
      BY <1>1, <1>3, <1>4, <2>1 DEF Unlinked
    <2>2. ~Unlinked(p) /\ pc[p] # "swing" /\ pc'[p] \notin {"link", "swing"}
      BY <1>1, <1>3 DEF Unlinked
    <2>3. ASSUME NEW r \in Producer, Unlinked(r)'
          PROVE  /\ other'[r] \in allocated' /\ nextOf'[other'[r]] = NULL
                 /\ data'[other'[r]] \in Item
                 /\ \A i \in 1 .. Len(q) : q[i] # other'[r]
      <3>1. CASE r = p  BY <1>4, <3>1 DEF QueueInvOf, Chain, Links
      <3>2. CASE r # p  BY <1>4, <2>1, <2>3, <3>2 DEF QueueInvOf, Producers
      <3> QED  BY <3>1, <3>2
    <2>4. \A r \in Producer : pc'[r] = "link" =>
             (\E j \in 1 .. k : ptr'[r] = q[j]) /\ (NoConsumer' \/ ptr'[r] = m_tail')
      BY <1>1, <1>3, <2>1, <2>2 DEF QueueInvOf, Producers
    <2>5. \A r \in Producer : pc'[r] = "swing" =>
             k = Len(q) - 1 /\ ptr'[r] = m_tail' /\ other'[r] = q[Len(q)]
      BY <1>1, <2>1, <2>2 DEF QueueInvOf, Producers
    <2>6. \A r, s \in Producer : Unlinked(r)' /\ Unlinked(s)' /\ other'[r] = other'[s] => r = s
      BY <1>4, <2>1 DEF QueueInvOf, Producers
    <2>7. \A r \in Producer : pc'[r] = "swing" <=> pc[r] = "swing"
      BY <2>1, <2>2
    <2> QED  BY <2>3, <2>4, <2>5, <2>6, <2>7 DEF QueueInvOf, Producers
  <1>7. Consumers(q)'
    <2>1. ASSUME NEW c \in Consumer PROVE pc'[c] = pc[c] /\ ptr'[c] = ptr[c] /\ other'[c] = other[c]
      BY <1>1, <1>3, <1>4
    <2>2. nextOf'[m_head'] = nextOf[m_head]
      BY <1>1, <1>4 DEF QueueInvOf, Chain, Links
    <2>3. ASSUME NEW c \in Consumer, pc[c] \in {"uncount", "deliver"},
                 NEW r \in Producer, Unlinked(r)'
          PROVE  other'[r] # ptr[c]
      <3>1. CASE r = p  BY <1>4, <2>3, <3>1 DEF QueueInvOf, Consumers
      <3>2. CASE r # p  BY <1>3, <1>4, <2>3, <3>2 DEF QueueInvOf, Consumers, Unlinked
      <3> QED  BY <3>1, <3>2
    <2> QED  BY <1>1, <2>1, <2>2, <2>3 DEF QueueInvOf, Consumers
  <1>8. Counted(q)'
    <2>1. Uncounted' = Uncounted /\ Removed' = Removed
      BY <1>1, <1>3 DEF Uncounted, Removed
    <2> QED  BY <1>1, <2>1 DEF QueueInvOf, Counted
  <1> QED  BY <1>2, <1>3, <1>5, <1>6, <1>7, <1>8 DEF QueueInv, QueueInvOf

LEMMA StepLoadTail ==
  ASSUME QueueInv, NEW p \in Producer, LoadTail(p)
  PROVE  QueueInv'
  <1> USE ThreadTypes
  <1> PICK q \in Seq(Node), k \in Nat : QueueInvOf(q, k)  BY DEF QueueInv
  <1>1. /\ pc[p] = "loadTail" /\ Goto(p, "link") /\ ptr' = [ptr EXCEPT ![p] = m_tail]
        /\ UNCHANGED <<m_head, m_tail, m_size, allocated, data, nextOf, other, toSend,
                       linked, results>>
    BY DEF LoadTail, members, heap
  <1>2. TypeOK'  BY <1>1 DEF QueueInv, TypeOK, Goto
  <1>3. /\ Roles' /\ NoConsumer' = NoConsumer
        /\ pc'[p] = "link" /\ \A s \in Thread \ {p} : pc'[s] = pc[s]
    BY <1>1, RolesStep DEF QueueInv, Enqueuing, Busy
  <1>4. ptr'[p] = m_tail /\ \A s \in Thread \ {p} : ptr'[s] = ptr[s]
    BY <1>1 DEF QueueInv, TypeOK
  <1>5. Chain(q, k)'  BY <1>1 DEF QueueInvOf, Chain, Links
  <1>6. Producers(q, k)'
    <2>1. \A r \in Producer : /\ Unlinked(r)' = Unlinked(r)
                              /\ pc'[r] = "swing" <=> pc[r] = "swing"
      BY <1>1, <1>3 DEF Unlinked
    <2>2. ASSUME NEW r \in Producer, pc'[r] = "link"
          PROVE  (\E j \in 1 .. k : ptr'[r] = q[j]) /\ (NoConsumer' \/ ptr'[r] = m_tail')
      <3>1. CASE r = p  BY <1>1, <1>4, <3>1 DEF QueueInvOf, Chain, Links
      <3>2. CASE r # p  BY <1>1, <1>3, <1>4, <2>2, <3>2 DEF QueueInvOf, Producers
      <3> QED  BY <3>1, <3>2
    <2>3. ASSUME NEW r \in Producer, pc'[r] = "swing"
          PROVE  k = Len(q) - 1 /\ ptr'[r] = m_tail' /\ other'[r] = q[Len(q)]
      BY <1>1, <1>3, <1>4, <2>3 DEF QueueInvOf, Producers
    <2> QED  BY <1>1, <2>1, <2>2, <2>3 DEF QueueInvOf, Producers
  <1>7. Consumers(q)'
    <2>1. \A c \in Consumer : pc'[c] = pc[c] /\ ptr'[c] = ptr[c]  BY <1>3, <1>4
    <2>2. \A r \in Producer : Unlinked(r)' = Unlinked(r)  BY <1>1, <1>3 DEF Unlinked
    <2> QED  BY <1>1, <2>1, <2>2 DEF QueueInvOf, Consumers
  <1>8. Counted(q)'
    <2>1. Uncounted' = Uncounted /\ Removed' = Removed
      BY <1>1, <1>3 DEF Uncounted, Removed
    <2> QED  BY <1>1, <2>1 DEF QueueInvOf, Counted
  <1> QED  BY <1>2, <1>3, <1>5, <1>6, <1>7, <1>8 DEF QueueInv, QueueInvOf

\* The exchange fails: another node follows, or it failed spuriously.
LEMMA StepLinkFails ==
  ASSUME QueueInv, NEW p \in Producer, pc[p] = "link", Goto(p, "loadTail"),
         UNCHANGED <<members, heap, ptr, other, toSend, linked, results>>
  PROVE  QueueInv'
  <1> USE ThreadTypes
  <1> PICK q \in Seq(Node), k \in Nat : QueueInvOf(q, k)  BY DEF QueueInv
  <1>1. UNCHANGED <<m_head, m_tail, m_size, allocated, data, nextOf, ptr, other, toSend,
                    linked, results>>
    BY DEF members, heap
  <1>2. TypeOK'  BY <1>1 DEF QueueInv, TypeOK, Goto
  <1>3. /\ Roles' /\ NoConsumer' = NoConsumer
        /\ pc'[p] = "loadTail" /\ \A s \in Thread \ {p} : pc'[s] = pc[s]
    BY <1>1, RolesStep DEF QueueInv, Enqueuing, Busy
  <1>4. Chain(q, k)'  BY <1>1 DEF QueueInvOf, Chain, Links
  <1>5. \A r \in Producer : /\ Unlinked(r)' = Unlinked(r)
                            /\ pc'[r] = "link" => pc[r] = "link"
                            /\ pc'[r] = "swing" <=> pc[r] = "swing"
    BY <1>3 DEF Unlinked
  <1>6. Producers(q, k)'  BY <1>1, <1>3, <1>5 DEF QueueInvOf, Producers
  <1>7. Consumers(q)'  BY <1>1, <1>3, <1>5 DEF QueueInvOf, Consumers
  <1>8. Counted(q)'
    <2>1. Uncounted' = Uncounted /\ Removed' = Removed
      BY <1>1, <1>3 DEF Uncounted, Removed
    <2> QED  BY <1>1, <2>1 DEF QueueInvOf, Counted
  <1> QED  BY <1>2, <1>3, <1>4, <1>6, <1>7, <1>8 DEF QueueInv, QueueInvOf

\* The exchange succeeds: what it found is the last node, and so the tail.
LEMMA LinkFinds ==
  ASSUME TypeOK, NEW q \in Seq(Node), NEW k \in Nat, QueueInvOf(q, k),
         NEW p \in Producer, pc[p] = "link", nextOf[ptr[p]] = NULL
  PROVE  ptr[p] = q[Len(q)] /\ k = Len(q)
  <1> PICK n \in Nat : n = Len(q)  OBVIOUS
  <1>1. k \in 1 .. n /\ q \in [1 .. n -> Node]
    BY DEF QueueInvOf, Chain, Links
  <1> PICK j \in 1 .. k : ptr[p] = q[j]  BY DEF QueueInvOf, Producers
  <1>2. ASSUME j # n PROVE FALSE
    <2>1. j \in 1 .. n - 1 /\ j + 1 \in 1 .. n  BY <1>1, <1>2
    <2>2. nextOf[q[j]] = q[j + 1]  BY <2>1 DEF QueueInvOf, Chain, Links
    <2>3. nextOf[q[j]] \in Node  BY <1>1, <2>1, <2>2
    <2> QED  BY <2>3, CellAssumption
  <1>3. j = n /\ k = n  BY <1>1, <1>2
  <1> QED  BY <1>3

LEMMA StepLinks ==
  ASSUME QueueInv, NEW p \in Producer, pc[p] = "link", Goto(p, "swing"),
         nextOf[ptr[p]] = NULL,
         nextOf' = [nextOf EXCEPT ![ptr[p]] = other[p]],
         linked' = Append(linked, data[other[p]]),
         UNCHANGED <<members, allocated, data, ptr, other, toSend, results>>
  PROVE  /\ QueueInv'
         /\ \A q \in Seq(Node), k \in Nat : QueueInvOf(q, k) =>
               \E s \in Seq(Node) : s = Append(q, other[p]) /\ Links(s)'
  <1> USE ThreadTypes
  <1> SUFFICES ASSUME NEW q \in Seq(Node), NEW k \in Nat, QueueInvOf(q, k)
               PROVE  QueueInv' /\ \E s \in Seq(Node) : s = Append(q, other[p]) /\ Links(s)'
    BY DEF QueueInv
  <1> PICK n \in Nat : n = Len(q)  OBVIOUS
  <1> PICK e : e = other[p]  OBVIOUS
  <1>1. UNCHANGED <<m_head, m_tail, m_size, allocated, data, ptr, other, toSend, results>>
    BY DEF members
  <1>2. /\ ptr[p] = q[n] /\ k = n /\ n >= 1 /\ m_tail = q[n] /\ q[n] \in Node
        /\ \A i \in 1 .. n : q[i] \in Node
    <2>1. ptr[p] = q[n] /\ k = n  BY LinkFinds DEF QueueInv
    <2>2. n >= 1 /\ m_tail = q[k]  BY DEF QueueInvOf, Chain, Links
    <2>3. \A i \in 1 .. n : q[i] \in Node  OBVIOUS
    <2> QED  BY <2>1, <2>2, <2>3
  <1>3. /\ e \in allocated /\ e \in Node /\ nextOf[e] = NULL /\ data[e] \in Item
        /\ \A i \in 1 .. n : q[i] # e
    BY DEF QueueInv, QueueInvOf, Producers, Unlinked, TypeOK
  <1> DEFINE s == Append(q, e)
  <1>4. /\ s \in Seq(Node) /\ Len(s) = n + 1 /\ s[n + 1] = e
        /\ \A i \in 1 .. n : s[i] = q[i]
    BY <1>3, AppendProperties
  <1> HIDE DEF s
  <1>5. TypeOK'
    <2>1. linked' \in Seq(Item)  BY <1>3 DEF QueueInv, TypeOK
    <2> QED  BY <1>1, <1>3, <2>1 DEF QueueInv, TypeOK, Goto
  <1>6. /\ Roles' /\ NoConsumer' = NoConsumer
        /\ pc'[p] = "swing" /\ \A t \in Thread \ {p} : pc'[t] = pc[t]
    BY <1>1, RolesStep DEF QueueInv, Enqueuing, Busy
  <1>7. nextOf'[q[n]] = e /\ \A m \in Node : m # q[n] => nextOf'[m] = nextOf[m]
    BY <1>2 DEF QueueInv, TypeOK
  <1>8. Chain(s, n)'
    <2>1. \A i, j \in 1 .. n + 1 : s[i] = s[j] => i = j
      <3> SUFFICES ASSUME NEW i \in 1 .. n + 1, NEW j \in 1 .. n + 1, s[i] = s[j], i # j
                   PROVE  FALSE
        OBVIOUS
      <3>1. CASE i = n + 1  BY <1>3, <1>4, <3>1
      <3>2. CASE j = n + 1  BY <1>3, <1>4, <3>2
      <3>3. CASE i \in 1 .. n /\ j \in 1 .. n  BY <1>4, <3>3 DEF QueueInvOf, Chain, Links
      <3> QED  BY <3>1, <3>2, <3>3
    <2>2. ASSUME NEW i \in 1 .. n + 1 PROVE s[i] \in allocated
      <3>1. CASE i = n + 1  BY <1>3, <1>4, <3>1
      <3>2. CASE i \in 1 .. n  BY <1>4, <3>2 DEF QueueInvOf, Chain, Links
      <3> QED  BY <3>1, <3>2
    <2>3. ASSUME NEW i \in 1 .. n PROVE nextOf'[s[i]] = s[i + 1]
      <3>1. CASE i = n  BY <1>4, <1>7, <3>1
      <3>2. CASE i \in 1 .. n - 1
        <4>1. i + 1 \in 1 .. n /\ i # n  BY <3>2
        <4>2. q[i] # q[n] /\ nextOf[q[i]] = q[i + 1]
          BY <1>2, <3>2, <4>1 DEF QueueInvOf, Chain, Links
        <4> QED  BY <1>2, <1>4, <1>7, <4>1, <4>2
      <3> QED  BY <3>1, <3>2
    <2>4. nextOf'[s[n + 1]] = NULL  BY <1>2, <1>3, <1>4, <1>7
    <2>5. s[1] = m_head /\ m_tail = s[n]  BY <1>2, <1>4 DEF QueueInvOf, Chain, Links
    <2> QED  BY <1>1, <1>2, <1>4, <2>1, <2>2, <2>3, <2>4, <2>5 DEF Chain, Links
  <1>9. Producers(s, n)'
    <2>1. /\ \A r \in Producer : Unlinked(r)' => Unlinked(r) /\ r # p
          /\ \A r \in Producer : pc[r] # "swing"
          /\ \A r \in Producer : pc'[r] = "swing" <=> r = p
          /\ \A r \in Producer : pc'[r] = "link" => pc[r] = "link"
      <3>1. \A r \in Producer : pc[r] # "swing"
        BY <1>2, <1>6 DEF QueueInvOf, Producers
      <3>2. \A r \in Producer : pc'[r] = "swing" <=> r = p
        BY <1>2, <1>6, <3>1
      <3>3. \A r \in Producer : pc'[r] = "link" => pc[r] = "link"
        BY <1>2, <1>6
      <3>4. \A r \in Producer : Unlinked(r)' => Unlinked(r) /\ r # p
        BY <1>2, <1>6 DEF Unlinked
      <3> QED
        BY <3>1, <3>2, <3>3, <3>4
    <2>2. ASSUME NEW r \in Producer, Unlinked(r)'
          PROVE  /\ other[r] \in allocated /\ nextOf'[other[r]] = NULL
                 /\ data[other[r]] \in Item
                 /\ \A i \in 1 .. n + 1 : s[i] # other[r]
      <3>1. /\ other[r] \in allocated /\ nextOf[other[r]] = NULL /\ data[other[r]] \in Item
            /\ \A i \in 1 .. n : q[i] # other[r]
            /\ other[r] # e
        BY <2>1, <2>2 DEF Unlinked, QueueInvOf, Producers
      <3>2. other[r] \in Node /\ other[r] # q[n]  BY <1>2, <3>1 DEF QueueInv, TypeOK
      <3>3. \A i \in 1 .. n + 1 : s[i] # other[r]
        <4> TAKE i \in 1 .. n + 1
        <4>1. CASE i = n + 1  BY <1>4, <3>1, <4>1
        <4>2. CASE i \in 1 .. n  BY <1>4, <3>1, <4>2
        <4> QED  BY <4>1, <4>2
      <3> QED  BY <1>7, <3>1, <3>2, <3>3
    <2>3. ASSUME NEW r \in Producer, pc'[r] = "link"
          PROVE  (\E j \in 1 .. n : ptr[r] = s[j]) /\ (NoConsumer \/ ptr[r] = m_tail)
      BY <1>2, <1>4, <2>1, <2>3 DEF QueueInvOf, Producers
    <2>4. n = Len(s) - 1 /\ ptr[p] = m_tail /\ other[p] = s[Len(s)]
      BY <1>2, <1>4
    <2>5. \A r, t \in Producer : Unlinked(r)' /\ Unlinked(t)' /\ other[r] = other[t] => r = t
      BY <2>1 DEF QueueInvOf, Producers
    <2>6. other' = other /\ ptr' = ptr /\ allocated' = allocated /\ data' = data
          /\ m_tail' = m_tail /\ NoConsumer' = NoConsumer /\ Len(s) = n + 1
      BY <1>1, <1>4, <1>6
    <2>7. \A r \in Producer : pc'[r] = "swing" =>
             n = Len(s) - 1 /\ ptr'[r] = m_tail' /\ other'[r] = s[Len(s)]
      BY <2>1, <2>4, <2>6
    <2>8. \A r \in Producer :
             Unlinked(r)' => /\ other'[r] \in allocated' /\ nextOf'[other'[r]] = NULL
                             /\ data'[other'[r]] \in Item
                             /\ \A i \in 1 .. Len(s) : s[i] # other'[r]
      BY <2>2, <2>6
    <2>9. \A r \in Producer : pc'[r] = "link" =>
             (\E j \in 1 .. n : ptr'[r] = s[j]) /\ (NoConsumer' \/ ptr'[r] = m_tail')
      BY <2>3, <2>6
    <2> QED  BY <2>1, <2>5, <2>6, <2>7, <2>8, <2>9 DEF Producers
  <1>10. Consumers(s)'
    <2>1. \A c \in Consumer : pc'[c] = pc[c]  BY <1>6
    <2>2. ASSUME NEW c \in Consumer, pc[c] = "casHead"
          PROVE  other[c] = nextOf'[m_head]
      <3>1. Len(q) >= 2  BY <2>2, BehindHead DEF QueueInv, Dequeuing
      <3>2. m_head = q[1] /\ q[1] # q[n] /\ m_head \in Node
        BY <1>2, <3>1 DEF QueueInvOf, Chain, Links
      <3> QED  BY <1>7, <2>2, <3>2 DEF QueueInvOf, Consumers
    <2>3. ASSUME NEW c \in Consumer, pc[c] \in {"uncount", "deliver"}
          PROVE  /\ ptr[c] \in allocated
                 /\ \A i \in 1 .. n + 1 : s[i] # ptr[c]
                 /\ \A r \in Producer : Unlinked(r)' => other[r] # ptr[c]
      <3>1. e # ptr[c]  BY <2>3 DEF QueueInvOf, Consumers, Unlinked
      <3>2. \A i \in 1 .. n + 1 : s[i] # ptr[c]
        <4> TAKE i \in 1 .. n + 1
        <4>1. CASE i = n + 1  BY <1>4, <3>1, <4>1
        <4>2. CASE i \in 1 .. n  BY <1>4, <2>3, <4>2 DEF QueueInvOf, Consumers
        <4> QED  BY <4>1, <4>2
      <3>3. \A r \in Producer : Unlinked(r)' => Unlinked(r)  BY <1>6 DEF Unlinked
      <3> QED  BY <2>3, <3>2, <3>3 DEF QueueInvOf, Consumers
    <2> QED  BY <1>1, <1>4, <2>1, <2>2, <2>3 DEF QueueInvOf, Consumers
  <1>11. Counted(s)'
    <2>1. Uncounted' = Uncounted \cup {p} /\ p \notin Uncounted /\ Removed' = Removed
      BY <1>6 DEF Uncounted, Removed
    <2>2. Cardinality(Uncounted') = Cardinality(Uncounted) + 1
      BY <2>1, CountTypes, FS_AddElement
    <2>3. m_size = n - 1 - Cardinality(Uncounted) + Cardinality(Removed)
      BY DEF QueueInvOf, Counted
    <2>4. m_size = (n + 1) - 1 - Cardinality(Uncounted') + Cardinality(Removed)
      BY <2>2, <2>3, CountTypes
    <2>5. Cardinality(Removed') = Cardinality(Removed)  BY <2>1
    <2> QED  BY <1>1, <1>4, <2>4, <2>5 DEF Counted
  <1>12. s \in Seq(Node) /\ n \in Nat /\ QueueInvOf(s, n)'
    BY <1>4, <1>8, <1>9, <1>10, <1>11 DEF QueueInvOf
  <1>13. s = Append(q, other[p]) /\ Links(s)'  BY <1>8 DEF s, Chain
  <1> QED  BY <1>5, <1>6, <1>12, <1>13 DEF QueueInv

LEMMA StepLink ==
  ASSUME QueueInv, NEW p \in Producer, Link(p)
  PROVE  QueueInv'
  <1> PICK ok \in WeakCas(nextOf[ptr[p]] = NULL) :
        IF ok
        THEN /\ nextOf' = [nextOf EXCEPT ![ptr[p]] = other[p]]
             /\ linked' = Append(linked, data[other[p]])
             /\ Goto(p, "swing")
        ELSE Goto(p, "loadTail") /\ UNCHANGED <<nextOf, linked>>
    BY DEF Link
  <1>1. /\ pc[p] = "link"
        /\ UNCHANGED <<members, allocated, data, ptr, other, toSend, results>>
    BY DEF Link
  <1>2. CASE ok
    <2>1. nextOf[ptr[p]] = NULL  BY <1>2 DEF WeakCas
    <2> QED  BY <1>1, <1>2, <2>1, StepLinks
  <1>3. CASE ~ok
    <2>1. UNCHANGED heap  BY <1>1, <1>3 DEF heap
    <2> QED  BY <1>1, <1>3, <2>1, StepLinkFails
  <1> QED  BY <1>2, <1>3

LEMMA StepSwing ==
  ASSUME QueueInv, NEW p \in Producer, Swing(p)
  PROVE  QueueInv'
  <1> USE ThreadTypes
  <1> PICK q \in Seq(Node), k \in Nat : QueueInvOf(q, k)  BY DEF QueueInv
  <1> PICK n \in Nat : n = Len(q)  OBVIOUS
  <1>1. /\ pc[p] = "swing" /\ Goto(p, "count")
        /\ UNCHANGED <<m_head, m_size, allocated, data, nextOf, ptr, other, toSend,
                       linked, results>>
    BY DEF Swing, heap
  <1>2. k = n - 1 /\ ptr[p] = m_tail /\ other[p] = q[n] /\ k \in 1 .. n
    BY <1>1 DEF QueueInvOf, Producers, Chain, Links
  <1>3. /\ Roles' /\ NoConsumer' = NoConsumer
        /\ pc'[p] = "count" /\ \A t \in Thread \ {p} : pc'[t] = pc[t]
    BY <1>1, RolesStep DEF QueueInv, Enqueuing, Busy
  <1> PICK j \in {k, n} : /\ m_tail' = q[j]
                          /\ j = k => Spurious
    <2>1. PICK ok \in WeakCas(m_tail = ptr[p]) : m_tail' = IF ok THEN other[p] ELSE m_tail
      BY DEF Swing
    <2>2. CASE ok  BY <1>2, <2>1, <2>2
    <2>3. CASE ~ok
      <3>1. Spurious  BY <1>2, <2>1, <2>3 DEF WeakCas
      <3>2. m_tail' = q[k]  BY <2>1, <2>3 DEF QueueInvOf, Chain, Links
      <3> QED  BY <3>1, <3>2
    <2> QED  BY <2>2, <2>3
  <1>4. j \in Nat /\ j \in 1 .. n /\ j >= n - 1 /\ (j = n - 1 => Spurious) /\ j >= k
    BY <1>2
  <1>5. TypeOK'
    <2>1. m_tail' \in Node  BY <1>4
    <2> QED  BY <1>1, <2>1 DEF QueueInv, TypeOK, Goto
  <1>6. Chain(q, j)'  BY <1>1, <1>4 DEF QueueInvOf, Chain, Links
  <1>7. \A r \in Producer : /\ Unlinked(r)' = Unlinked(r)
                            /\ pc'[r] = "link" <=> pc[r] = "link"
                            /\ pc'[r] # "swing"
    BY <1>1, <1>3 DEF Unlinked, QueueInvOf, Producers
  <1>8. Producers(q, j)'
    <2>1. ASSUME NEW r \in Producer, pc'[r] = "link"
          PROVE  (\E i \in 1 .. j : ptr[r] = q[i]) /\ (NoConsumer' \/ ptr[r] = m_tail')
      <3>1. pc[r] = "link" /\ r # p  BY <1>1, <1>7, <2>1
      <3>2. PICK i \in 1 .. k : ptr[r] = q[i]  BY <3>1 DEF QueueInvOf, Producers
      <3>3. i \in 1 .. j  BY <1>2, <1>4, <3>2
      <3>4. NoConsumer  BY <1>1, <3>1 DEF QueueInv, Roles, Busy
      <3> QED  BY <1>3, <3>2, <3>3, <3>4
    <2> QED  BY <1>1, <1>4, <1>7, <2>1 DEF QueueInvOf, Producers
  <1>9. Consumers(q)'  BY <1>1, <1>3, <1>7 DEF QueueInvOf, Consumers
  <1>10. Counted(q)'
    <2>1. Uncounted' = Uncounted /\ Removed' = Removed
      BY <1>1, <1>3 DEF Uncounted, Removed
    <2> QED  BY <1>1, <2>1 DEF QueueInvOf, Counted
  <1>11. QueueInvOf(q, j)'  BY <1>6, <1>8, <1>9, <1>10 DEF QueueInvOf
  <1> QED  BY <1>3, <1>4, <1>5, <1>11 DEF QueueInv

\* At most one removed node is still counted.
LEMMA OneRemoved ==
  ASSUME Roles PROVE Cardinality(Removed) \in 0 .. 1
  <1>1. CASE Removed = {}  BY <1>1, FS_EmptySet
  <1>2. CASE Removed # {}
    <2>1. PICK c \in Consumer : c \in Removed  BY <1>2 DEF Removed
    <2>2. Removed = {c}  BY <2>1 DEF Removed, Roles, NoConsumer
    <2> QED  BY <2>2, FS_Singleton
  <1> QED  BY <1>1, <1>2

\* Return forgets the locals of the thread.
LEMMA Returns ==
  ASSUME TypeOK, NEW t \in Thread, Return(t)
  PROVE  /\ Goto(t, "idle")
         /\ pc'[t] = "idle" /\ \A s \in Thread \ {t} : pc'[s] = pc[s]
         /\ \A s \in Thread \ {t} : ptr'[s] = ptr[s] /\ other'[s] = other[s]
         /\ pc' \in [Thread -> {"absent", "idle", "loadTail", "link", "swing", "count",
                         "loadHead", "testNext", "loadNext", "casHead", "uncount", "deliver"}]
         /\ ptr' \in [Thread -> Node \cup {NULL}]
         /\ other' \in [Thread -> Node \cup {NULL}]
  BY DEF Return, Goto, TypeOK

LEMMA StepCount ==
  ASSUME SafePlans, QueueInv, NEW p \in Producer, Count(p)
  PROVE  QueueInv'
  <1> USE ThreadTypes
  <1> PICK q \in Seq(Node), k \in Nat : QueueInvOf(q, k)  BY DEF QueueInv
  <1> PICK n \in Nat : n = Len(q)  OBVIOUS
  <1>1. /\ pc[p] = "count" /\ Return(p) /\ m_size' = (m_size + 1) % SizeModulus
        /\ UNCHANGED <<m_head, m_tail, allocated, data, nextOf, toSend, linked, results>>
    BY DEF Count, heap
  <1>2. /\ Goto(p, "idle")
        /\ pc'[p] = "idle" /\ \A s \in Thread \ {p} : pc'[s] = pc[s]
        /\ \A s \in Thread \ {p} : ptr'[s] = ptr[s] /\ other'[s] = other[s]
    BY <1>1, Returns DEF QueueInv
  <1>3. Roles' /\ NoConsumer' = NoConsumer
    BY <1>1, <1>2, RolesStep DEF QueueInv, Busy
  <1>4. /\ Uncounted' = Uncounted \ {p} /\ p \in Uncounted /\ Removed' = Removed
        /\ Cardinality(Uncounted') = Cardinality(Uncounted) - 1
    <2>1. Uncounted' = Uncounted \ {p} /\ p \in Uncounted /\ Removed' = Removed
      BY <1>1, <1>2 DEF Uncounted, Removed
    <2> QED  BY <2>1, CountTypes, FS_RemoveElement
  <1> PICK u \in Nat : u = Cardinality(Uncounted)  BY CountTypes
  <1> PICK v \in 0 .. 1 : v = Cardinality(Removed)  BY OneRemoved DEF QueueInv
  <1>5. m_size = n - 1 - u + v  BY DEF QueueInvOf, Counted
  <1>6. u >= 1
    <2>1. u # 0  BY <1>4, CountTypes, FS_EmptySet
    <2> QED  BY <2>1
  <1>7. n <= Cells /\ Cells \in Nat /\ SizeModulus \in Nat /\ Cells < SizeModulus
    BY ChainFits, CellAssumption, SizeAssumption DEF QueueInvOf, Chain, Links, SafePlans
  <1>8. m_size' = m_size + 1 /\ m_size' \in 0 .. SizeModulus - 1 /\ m_size \in Int
    <2>1. m_size \in 0 .. SizeModulus - 1  BY DEF QueueInv, TypeOK
    <2>2. m_size + 1 < SizeModulus  BY <1>5, <1>6, <1>7
    <2>3. (m_size + 1) % SizeModulus = m_size + 1  BY <1>7, <2>1, <2>2
    <2> QED  BY <1>1, <1>7, <2>1, <2>2, <2>3
  <1>9. TypeOK'
    <2>1. /\ pc' \in [Thread -> {"absent", "idle", "loadTail", "link", "swing", "count",
                          "loadHead", "testNext", "loadNext", "casHead", "uncount", "deliver"}]
          /\ ptr' \in [Thread -> Node \cup {NULL}]
          /\ other' \in [Thread -> Node \cup {NULL}]
      BY <1>1, Returns DEF QueueInv
    <2> QED  BY <1>1, <1>8, <2>1 DEF QueueInv, TypeOK
  <1>10. Chain(q, k)'  BY <1>1 DEF QueueInvOf, Chain, Links
  <1>11. /\ ~Unlinked(p)'
         /\ \A r \in Producer : r # p => /\ Unlinked(r)' = Unlinked(r)
                                         /\ ptr'[r] = ptr[r] /\ other'[r] = other[r]
                                         /\ pc'[r] = pc[r]
    BY <1>2 DEF Unlinked
  <1>12. Producers(q, k)'  BY <1>1, <1>2, <1>3, <1>11 DEF QueueInvOf, Producers
  <1>13. Consumers(q)'
    <2>1. \A c \in Consumer : pc'[c] = pc[c] /\ ptr'[c] = ptr[c] /\ other'[c] = other[c]
      BY <1>2
    <2>2. m_size >= 1 => m_size' >= 1  BY <1>8
    <2>3. \A r \in Producer : Unlinked(r)' => Unlinked(r) /\ other'[r] = other[r]
      BY <1>11
    <2> QED  BY <1>1, <2>1, <2>2, <2>3 DEF QueueInvOf, Consumers
  <1>14. Counted(q)'
    <2>1. Cardinality(Uncounted') = u - 1 /\ Cardinality(Removed') = v
      BY <1>4
    <2>2. m_size' = n - 1 - (u - 1) + v  BY <1>5, <1>8
    <2> QED  BY <2>1, <2>2 DEF Counted
  <1> QED  BY <1>3, <1>9, <1>10, <1>12, <1>13, <1>14 DEF QueueInv, QueueInvOf

-----------------------------------------------------------------------------

(* The steps of the consumer                                               *)

Looking == {"idle", "loadHead", "testNext", "loadNext", "casHead"}

\* A step of the consumer that only reads.
LEMMA ConsumerReads ==
  ASSUME QueueInv, NEW c \in Consumer, pc[c] \in Looking, NEW l \in Looking, Goto(c, l),
         ptr' \in [Thread -> Node \cup {NULL}], other' \in [Thread -> Node \cup {NULL}],
         \A t \in Thread \ {c} : ptr'[t] = ptr[t] /\ other'[t] = other[t],
         UNCHANGED <<members, heap, toSend, linked, results>>,
         l # "idle" => m_size >= 1,
         l \in {"testNext", "loadNext", "casHead"} => ptr'[c] = m_head,
         l = "casHead" => other'[c] = nextOf[m_head]
  PROVE  QueueInv'
  <1> USE ThreadTypes
  <1> PICK q \in Seq(Node), k \in Nat : QueueInvOf(q, k)  BY DEF QueueInv
  <1>1. UNCHANGED <<m_head, m_tail, m_size, allocated, data, nextOf, toSend, linked, results>>
    BY DEF members, heap
  <1>2. TypeOK'  BY <1>1 DEF QueueInv, TypeOK, Goto, Looking
  <1>3. /\ Roles' /\ NoConsumer' = NoConsumer
        /\ pc'[c] = l /\ \A t \in Thread \ {c} : pc'[t] = pc[t]
    BY <1>1, RolesStep DEF QueueInv, Dequeuing, Looking
  <1>4. Chain(q, k)'  BY <1>1 DEF QueueInvOf, Chain, Links
  <1>5. \A p \in Producer : /\ Unlinked(p)' = Unlinked(p) /\ pc'[p] = pc[p]
                            /\ ptr'[p] = ptr[p] /\ other'[p] = other[p]
    BY <1>3 DEF Unlinked
  <1>6. Producers(q, k)'  BY <1>1, <1>3, <1>5 DEF QueueInvOf, Producers
  <1>7. Consumers(q)'
    <2>1. ASSUME NEW d \in Consumer, d # c
          PROVE  pc'[d] = pc[d] /\ ptr'[d] = ptr[d] /\ other'[d] = other[d]
      BY <1>3, <2>1
    <2>2. pc'[c] \notin {"uncount", "deliver"} /\ (pc'[c] \in Dequeuing => m_size >= 1)
      BY <1>3 DEF Looking, Dequeuing
    <2> QED  BY <1>1, <1>3, <1>5, <2>1, <2>2 DEF QueueInvOf, Consumers
  <1>8. Counted(q)'
    <2>1. Uncounted' = Uncounted /\ Removed' = Removed
      BY <1>3 DEF Uncounted, Removed, Looking
    <2> QED  BY <1>1, <2>1 DEF QueueInvOf, Counted
  <1> QED  BY <1>2, <1>3, <1>4, <1>6, <1>7, <1>8 DEF QueueInv, QueueInvOf

LEMMA StepLooks ==
  ASSUME QueueInv, NEW c \in Consumer,
         DeQueue(c) \/ LoadHead(c) \/ TestNext(c) \/ LoadNext(c)
  PROVE  QueueInv'
  <1> USE ThreadTypes
  <1> USE DEF Looking
  <1>1. /\ m_size \in Int /\ m_head \in Node /\ nextOf[m_head] \in Node \cup {NULL}
        /\ pc[c] \in Dequeuing => m_size >= 1
        /\ pc[c] \in {"testNext", "loadNext", "casHead"} => ptr[c] = m_head
        /\ ptr \in [Thread -> Node \cup {NULL}] /\ other \in [Thread -> Node \cup {NULL}]
        /\ pc \in [Thread -> {"absent", "idle", "loadTail", "link", "swing", "count",
                       "loadHead", "testNext", "loadNext", "casHead", "uncount", "deliver"}]
    BY DEF QueueInv, QueueInvOf, Consumers, TypeOK
  <1>2. CASE DeQueue(c) /\ NotEmpty
    <2>1. m_size >= 1  BY <1>2, SizeAssumption DEF NotEmpty, QueueInv, TypeOK
    <2>2. UNCHANGED <<ptr, other, members, heap, toSend, linked, results>>
          /\ pc[c] = "idle" /\ Goto(c, "loadHead")
      BY <1>2 DEF DeQueue
    <2> QED  BY <1>1, <2>1, <2>2, ConsumerReads
  <1>3. CASE DeQueue(c) /\ ~NotEmpty
    <2>1. UNCHANGED <<ptr, other, members, heap, toSend, linked, results>>
          /\ pc[c] = "idle" /\ Goto(c, "idle")
      BY <1>1, <1>3 DEF DeQueue, Goto
    <2> QED  BY <1>1, <2>1, ConsumerReads
  <1>4. CASE LoadHead(c)
    <2>1. UNCHANGED <<other, members, heap, toSend, linked, results>>
          /\ pc[c] = "loadHead" /\ Goto(c, "testNext") /\ ptr' = [ptr EXCEPT ![c] = m_head]
      BY <1>4 DEF LoadHead
    <2>2. /\ ptr' \in [Thread -> Node \cup {NULL}] /\ ptr'[c] = m_head
          /\ \A t \in Thread \ {c} : ptr'[t] = ptr[t]
      BY <1>1, <2>1
    <2>3. m_size >= 1  BY <1>1, <2>1 DEF Dequeuing
    <2> QED  BY <1>1, <2>1, <2>2, <2>3, ConsumerReads
  <1>5. CASE TestNext(c)
    <2>1. /\ UNCHANGED <<members, heap, toSend, linked, results>> /\ pc[c] = "testNext"
          /\ IF nextOf[ptr[c]] = NULL
             THEN Return(c)
             ELSE Goto(c, "loadNext") /\ UNCHANGED <<ptr, other>>
      BY <1>5 DEF TestNext
    <2>2. m_size >= 1 /\ ptr[c] = m_head  BY <1>1, <2>1 DEF Dequeuing
    <2>3. CASE nextOf[ptr[c]] = NULL
      <3>1. /\ Goto(c, "idle")
            /\ \A t \in Thread \ {c} : ptr'[t] = ptr[t] /\ other'[t] = other[t]
            /\ ptr' \in [Thread -> Node \cup {NULL}] /\ other' \in [Thread -> Node \cup {NULL}]
        BY <2>1, <2>3, Returns DEF QueueInv
      <3> QED  BY <2>1, <3>1, ConsumerReads
    <2>4. CASE nextOf[ptr[c]] # NULL
      <3>1. Goto(c, "loadNext") /\ UNCHANGED <<ptr, other>>  BY <2>1, <2>4
      <3> QED  BY <1>1, <2>1, <2>2, <3>1, ConsumerReads
    <2> QED  BY <2>3, <2>4
  <1>6. CASE LoadNext(c)
    <2>1. UNCHANGED <<ptr, members, heap, toSend, linked, results>>
          /\ pc[c] = "loadNext" /\ Goto(c, "casHead")
          /\ other' = [other EXCEPT ![c] = nextOf[ptr[c]]]
      BY <1>6 DEF LoadNext
    <2>2. ptr[c] = m_head /\ m_size >= 1  BY <1>1, <2>1 DEF Dequeuing
    <2>3. /\ other' \in [Thread -> Node \cup {NULL}] /\ other'[c] = nextOf[m_head]
          /\ \A t \in Thread \ {c} : other'[t] = other[t]
      BY <1>1, <2>1, <2>2
    <2> QED  BY <1>1, <2>1, <2>2, <2>3, ConsumerReads
  <1> QED  BY <1>2, <1>3, <1>4, <1>5, <1>6

\* The exchange of DeQueue succeeds: the first node is the consumer's.
LEMMA StepRemoves ==
  ASSUME QueueInv, NEW c \in Consumer, pc[c] = "casHead", Goto(c, "uncount"),
         m_head' = other[c],
         UNCHANGED <<m_tail, m_size, heap, ptr, other, toSend, linked, results>>
  PROVE  /\ QueueInv'
         /\ \A q \in Seq(Node), k \in Nat : QueueInvOf(q, k) =>
               \E s \in Seq(Node) : s = Tail(q) /\ Len(q) >= 2 /\ ptr[c] = q[1] /\ Links(s)'
  <1> USE ThreadTypes
  <1> SUFFICES ASSUME NEW q \in Seq(Node), NEW k \in Nat, QueueInvOf(q, k)
               PROVE  /\ QueueInv'
                      /\ \E s \in Seq(Node) : s = Tail(q) /\ Len(q) >= 2 /\ ptr[c] = q[1]
                                              /\ Links(s)'
    BY DEF QueueInv
  <1> PICK n \in Nat : n = Len(q)  OBVIOUS
  <1> PICK j \in Int : j = k - 1  OBVIOUS
  <1>1. UNCHANGED <<m_tail, m_size, allocated, data, nextOf, ptr, other, toSend, linked, results>>
    BY DEF heap
  <1>2. n >= 2 /\ k >= 2 /\ ~Spurious /\ Removed = {}
    BY BehindHead DEF QueueInv, Dequeuing
  <1>3. j \in Nat /\ k \in 1 .. n /\ j \in 1 .. n - 1 /\ k >= n - 1 /\ j >= n - 2
    <2>1. k \in 1 .. n /\ k >= n - 1  BY DEF QueueInvOf, Chain, Links
    <2> QED  BY <1>2, <2>1
  <1> DEFINE s == Tail(q)
  <1>4. /\ s \in Seq(Node) /\ Len(s) = n - 1
        /\ \A i \in 1 .. n - 1 : i + 1 \in 1 .. n /\ s[i] = q[i + 1]
    BY <1>2
  <1> HIDE DEF s
  <1>5. /\ ptr[c] = m_head /\ m_head = q[1] /\ m_size >= 1
        /\ m_head' = q[2] /\ q[2] \in Node
    <2>1. ptr[c] = m_head /\ other[c] = nextOf[m_head] /\ m_size >= 1
      BY DEF QueueInvOf, Consumers, Dequeuing
    <2>2. m_head = q[1] /\ nextOf[q[1]] = q[1 + 1]
      BY <1>2 DEF QueueInvOf, Chain, Links
    <2>3. q[2] \in Node  BY <1>2
    <2> QED  BY <2>1, <2>2, <2>3
  <1>6. TypeOK'  BY <1>1, <1>5 DEF QueueInv, TypeOK, Goto
  <1>7. /\ Roles' /\ NoConsumer' = NoConsumer /\ ~NoConsumer
        /\ pc'[c] = "uncount" /\ \A t \in Thread \ {c} : pc'[t] = pc[t]
    <2>1. ~NoConsumer  BY DEF NoConsumer
    <2> QED  BY <1>1, <2>1, RolesStep DEF QueueInv, Dequeuing
  <1>8. Chain(s, j)'
    <2>1. ASSUME NEW i \in 1 .. n - 1, NEW m \in 1 .. n - 1, s[i] = s[m] PROVE i = m
      <3>1. i + 1 \in 1 .. n /\ m + 1 \in 1 .. n /\ q[i + 1] = q[m + 1]  BY <1>4, <2>1
      <3>2. i + 1 = m + 1  BY <3>1 DEF QueueInvOf, Chain, Links
      <3> QED  BY <3>2
    <2>2. \A i \in 1 .. n - 1 : s[i] \in allocated
      BY <1>4 DEF QueueInvOf, Chain, Links
    <2>3. ASSUME NEW i \in 1 .. n - 2 PROVE nextOf[s[i]] = s[i + 1]
      <3>1. i \in 1 .. n - 1 /\ i + 1 \in 1 .. n - 1  BY <2>3
      <3>2. nextOf[q[i + 1]] = q[(i + 1) + 1]  BY <3>1 DEF QueueInvOf, Chain, Links
      <3> QED  BY <1>4, <3>1, <3>2
    <2>4. nextOf[s[n - 1]] = NULL
      <3>1. n - 1 \in 1 .. n - 1 /\ (n - 1) + 1 = n  BY <1>2
      <3> QED  BY <1>4, <3>1 DEF QueueInvOf, Chain, Links
    <2>5. s[1] = q[2]
      <3>1. 1 \in 1 .. n - 1 /\ 1 + 1 = 2  BY <1>2
      <3> QED  BY <1>4, <3>1
    <2>6. m_tail = s[j]
      <3>1. m_tail = q[k] /\ j + 1 = k  BY DEF QueueInvOf, Chain, Links
      <3> QED  BY <1>3, <1>4, <3>1
    <2>7. (n - 1) - 1 = n - 2 /\ n - 1 >= 1 /\ n - 1 \in Nat  BY <1>2
    <2> QED  BY <1>1, <1>3, <1>4, <1>5, <2>1, <2>2, <2>3, <2>4, <2>5, <2>6, <2>7 DEF Chain, Links
  <1>9. \A p \in Producer : Unlinked(p)' = Unlinked(p) /\ pc'[p] = pc[p]
    BY <1>7 DEF Unlinked
  <1>10. Producers(s, j)'
    <2>1. ASSUME NEW p \in Producer, Unlinked(p)
          PROVE  /\ other[p] \in allocated /\ nextOf[other[p]] = NULL /\ data[other[p]] \in Item
                 /\ \A i \in 1 .. n - 1 : s[i] # other[p]
      BY <1>4, <2>1 DEF QueueInvOf, Producers
    <2>2. ASSUME NEW p \in Producer, pc[p] = "link"
          PROVE  (\E i \in 1 .. j : ptr[p] = s[i]) /\ ptr[p] = m_tail
      <3>1. ptr[p] = m_tail  BY <1>7, <2>2 DEF QueueInvOf, Producers
      <3>2. m_tail = s[j] /\ j \in 1 .. j  BY <1>1, <1>3, <1>8 DEF Chain, Links
      <3> QED  BY <3>1, <3>2
    <2>3. ASSUME NEW p \in Producer, pc[p] = "swing"
          PROVE  j = Len(s) - 1 /\ ptr[p] = m_tail /\ other[p] = s[Len(s)]
      <3>1. k = n - 1 /\ ptr[p] = m_tail /\ other[p] = q[n]
        BY <2>3 DEF QueueInvOf, Producers
      <3>2. n - 1 \in 1 .. n - 1 /\ (n - 1) + 1 = n  BY <1>2
      <3>3. s[n - 1] = q[n]  BY <1>4, <3>2
      <3> QED  BY <1>4, <3>1, <3>3
    <2>4. j = Len(s) - 1 => \E p \in Producer : pc[p] = "swing"
      <3> SUFFICES ASSUME j = Len(s) - 1 PROVE k = Len(q) - 1
        BY <1>2 DEF QueueInvOf, Producers
      <3> QED  BY <1>4
    <2>5. \A p, r \in Producer : /\ Unlinked(p) /\ Unlinked(r) /\ other[p] = other[r] => p = r
                                 /\ pc[p] = "swing" /\ pc[r] = "swing" => p = r
      BY DEF QueueInvOf, Producers
    <2>6. UNCHANGED <<other, ptr, allocated, nextOf, data, m_tail>>  BY <1>1
    <2> QED  BY <1>4, <1>9, <2>1, <2>2, <2>3, <2>4, <2>5, <2>6 DEF Producers
  <1>11. Consumers(s)'
    <2>1. ASSUME NEW d \in Consumer, d # c PROVE pc'[d] = "absent"
      BY <1>7, <2>1 DEF QueueInv, Roles
    <2>2. /\ ptr[c] \in allocated
          /\ \A i \in 1 .. n - 1 : s[i] # ptr[c]
          /\ \A p \in Producer : Unlinked(p) => other[p] # ptr[c]
      <3>1. 1 \in 1 .. n  BY <1>2
      <3>2. ptr[c] = q[1] /\ q[1] \in allocated  BY <1>5, <3>1 DEF QueueInvOf, Chain, Links
      <3>3. ASSUME NEW i \in 1 .. n - 1 PROVE s[i] # q[1]
        <4>1. i + 1 \in 1 .. n /\ i + 1 # 1  OBVIOUS
        <4> QED  BY <1>4, <3>1, <4>1 DEF QueueInvOf, Chain, Links
      <3>4. \A p \in Producer : Unlinked(p) => other[p] # q[1]
        BY <3>1 DEF QueueInvOf, Producers
      <3> QED  BY <3>2, <3>3, <3>4
    <2> QED  BY <1>1, <1>4, <1>5, <1>7, <1>9, <2>1, <2>2 DEF Consumers, Dequeuing
  <1>12. Counted(s)'
    <2>1. Uncounted' = Uncounted  BY <1>9 DEF Uncounted
    <2>2. Removed' = {c}  BY <1>2, <1>7 DEF Removed
    <2>3. Cardinality(Removed') = 1 /\ Cardinality(Removed) = 0
      BY <1>2, <2>2, FS_Singleton, FS_EmptySet
    <2>4. m_size = n - 1 - Cardinality(Uncounted)
      BY <2>3, CountTypes DEF QueueInvOf, Counted
    <2>5. Cardinality(Uncounted') = Cardinality(Uncounted)  BY <2>1
    <2> QED  BY <1>1, <1>4, <2>3, <2>4, <2>5, CountTypes DEF Counted
  <1>13. s \in Seq(Node) /\ QueueInvOf(s, j)'
    BY <1>4, <1>8, <1>10, <1>11, <1>12 DEF QueueInvOf
  <1>14. s = Tail(q) /\ Len(q) >= 2 /\ ptr[c] = q[1] /\ Links(s)'
    BY <1>2, <1>5, <1>8 DEF s, Chain
  <1> QED  BY <1>3, <1>6, <1>7, <1>13, <1>14 DEF QueueInv

LEMMA StepCasHead ==
  ASSUME QueueInv, NEW c \in Consumer, CasHead(c)
  PROVE  QueueInv'
  <1> USE ThreadTypes
  <1> PICK ok \in WeakCas(m_head = ptr[c]) :
        IF ok THEN m_head' = other[c] /\ Goto(c, "uncount")
              ELSE UNCHANGED m_head /\ Goto(c, "loadHead")
    BY DEF CasHead
  <1>1. /\ pc[c] = "casHead"
        /\ UNCHANGED <<m_tail, m_size, heap, ptr, other, toSend, linked, results>>
    BY DEF CasHead
  <1>2. CASE ok  BY <1>1, <1>2, StepRemoves
  <1>3. CASE ~ok
    <2>1. UNCHANGED <<members, ptr, other>> /\ Goto(c, "loadHead")
      BY <1>1, <1>3 DEF members
    <2>2. /\ m_size >= 1
          /\ ptr \in [Thread -> Node \cup {NULL}] /\ other \in [Thread -> Node \cup {NULL}]
      BY <1>1 DEF QueueInv, QueueInvOf, Consumers, Dequeuing, TypeOK
    <2> QED  BY <1>1, <2>1, <2>2, ConsumerReads DEF Looking
  <1> QED  BY <1>2, <1>3

LEMMA StepUncount ==
  ASSUME QueueInv, NEW c \in Consumer, Uncount(c)
  PROVE  QueueInv'
  <1> USE ThreadTypes
  <1> PICK q \in Seq(Node), k \in Nat : QueueInvOf(q, k)  BY DEF QueueInv
  <1>1. /\ pc[c] = "uncount" /\ Goto(c, "deliver") /\ m_size' = (m_size - 1) % SizeModulus
        /\ UNCHANGED <<m_head, m_tail, allocated, data, nextOf, ptr, other, toSend,
                       linked, results>>
    BY DEF Uncount, heap
  <1>2. /\ Roles' /\ NoConsumer' = NoConsumer
        /\ pc'[c] = "deliver" /\ \A t \in Thread \ {c} : pc'[t] = pc[t]
    BY <1>1, RolesStep DEF QueueInv
  <1>3. m_size \in 1 .. SizeModulus - 1 /\ SizeModulus \in Nat
    BY <1>1, SizeAssumption DEF QueueInv, TypeOK, QueueInvOf, Consumers, Dequeuing
  <1>4. m_size' = m_size - 1 /\ m_size' \in 0 .. SizeModulus - 1
    <2>1. (m_size - 1) % SizeModulus = m_size - 1  BY <1>3
    <2> QED  BY <1>1, <1>3, <2>1
  <1>5. TypeOK'  BY <1>1, <1>4 DEF QueueInv, TypeOK, Goto
  <1>6. Chain(q, k)'  BY <1>1 DEF QueueInvOf, Chain, Links
  <1>7. \A p \in Producer : Unlinked(p)' = Unlinked(p) /\ pc'[p] = pc[p]
    BY <1>2 DEF Unlinked
  <1>8. Producers(q, k)'  BY <1>1, <1>2, <1>7 DEF QueueInvOf, Producers
  <1>9. Consumers(q)'
    <2>1. ASSUME NEW d \in Consumer, d # c PROVE pc'[d] = "absent"
      BY <1>1, <1>2, <2>1 DEF QueueInv, Roles, NoConsumer
    <2> QED  BY <1>1, <1>2, <1>7, <2>1 DEF QueueInvOf, Consumers, Dequeuing
  <1>10. Counted(q)'
    <2>1. Uncounted' = Uncounted  BY <1>7 DEF Uncounted
    <2>2. Removed' = Removed \ {c} /\ c \in Removed  BY <1>1, <1>2 DEF Removed
    <2>3. Cardinality(Removed') = Cardinality(Removed) - 1
      BY <2>2, CountTypes, FS_RemoveElement
    <2>4. Cardinality(Uncounted') = Cardinality(Uncounted)  BY <2>1
    <2>5. m_size = Len(q) - 1 - Cardinality(Uncounted) + Cardinality(Removed)
      BY DEF QueueInvOf, Counted
    <2> QED  BY <1>4, <2>3, <2>4, <2>5, CountTypes DEF Counted
  <1> QED  BY <1>2, <1>5, <1>6, <1>8, <1>9, <1>10 DEF QueueInv, QueueInvOf

LEMMA StepDeliver ==
  ASSUME QueueInv, NEW c \in Consumer, Deliver(c)
  PROVE  QueueInv'
  <1> USE ThreadTypes
  <1> PICK q \in Seq(Node), k \in Nat : QueueInvOf(q, k)  BY DEF QueueInv
  <1>1. /\ pc[c] = "deliver" /\ Return(c)
        /\ results' = [results EXCEPT ![c] = Append(@, data[ptr[c]])]
        /\ allocated' = allocated \ {ptr[c]}
        /\ UNCHANGED <<m_head, m_tail, m_size, data, nextOf, toSend, linked>>
    BY DEF Deliver, members, Result
  <1>2. /\ Goto(c, "idle")
        /\ pc'[c] = "idle" /\ \A s \in Thread \ {c} : pc'[s] = pc[s]
        /\ \A s \in Thread \ {c} : ptr'[s] = ptr[s] /\ other'[s] = other[s]
    BY <1>1, Returns DEF QueueInv
  <1>3. Roles' /\ NoConsumer' = NoConsumer
    BY <1>1, <1>2, RolesStep DEF QueueInv
  <1>4. /\ ptr[c] \in allocated /\ ptr[c] \in Node
        /\ \A i \in 1 .. Len(q) : q[i] # ptr[c]
        /\ \A p \in Producer : Unlinked(p) => other[p] # ptr[c]
    BY <1>1 DEF QueueInv, TypeOK, QueueInvOf, Consumers
  <1>5. TypeOK'
    <2>1. /\ pc' \in [Thread -> {"absent", "idle", "loadTail", "link", "swing", "count",
                          "loadHead", "testNext", "loadNext", "casHead", "uncount", "deliver"}]
          /\ ptr' \in [Thread -> Node \cup {NULL}]
          /\ other' \in [Thread -> Node \cup {NULL}]
      BY <1>1, Returns DEF QueueInv
    <2>2. data[ptr[c]] \in Item \cup {NULL}  BY <1>4 DEF QueueInv, TypeOK
    <2>3. results' \in [Consumer -> Seq(Item \cup {NULL})]
      BY <1>1, <2>2 DEF QueueInv, TypeOK
    <2> QED  BY <1>1, <2>1, <2>3 DEF QueueInv, TypeOK
  <1>6. Chain(q, k)'  BY <1>1, <1>4 DEF QueueInvOf, Chain, Links
  <1>7. \A p \in Producer : /\ Unlinked(p)' = Unlinked(p) /\ pc'[p] = pc[p]
                            /\ ptr'[p] = ptr[p] /\ other'[p] = other[p]
    BY <1>2 DEF Unlinked
  <1>8. Producers(q, k)'
    <2>1. ASSUME NEW p \in Producer, Unlinked(p) PROVE other[p] \in allocated'
      BY <1>1, <1>4, <2>1 DEF QueueInvOf, Producers
    <2> QED  BY <1>1, <1>3, <1>7, <2>1 DEF QueueInvOf, Producers
  <1>9. Consumers(q)'
    <2>1. ASSUME NEW d \in Consumer, d # c PROVE pc'[d] = "absent"
      BY <1>1, <1>2, <2>1 DEF QueueInv, Roles, NoConsumer
    <2> QED  BY <1>2, <2>1 DEF Consumers, Dequeuing
  <1>10. Counted(q)'
    <2>1. Uncounted' = Uncounted /\ Removed' = Removed
      BY <1>1, <1>2 DEF Uncounted, Removed
    <2> QED  BY <1>1, <2>1 DEF QueueInvOf, Counted
  <1> QED  BY <1>3, <1>5, <1>6, <1>8, <1>9, <1>10 DEF QueueInv, QueueInvOf

-----------------------------------------------------------------------------
(* The theorems                                                            *)

LEMMA QueueStep == ASSUME SafePlans, QueueInv, [Next]_vars PROVE QueueInv'
  <1>1. ASSUME NEW p \in Producer, EnQueue(p) \/ EnQueueStep(p) PROVE QueueInv'
    BY <1>1, StepEnQueue, StepLoadTail, StepLink, StepSwing, StepCount DEF EnQueueStep
  <1>2. ASSUME NEW c \in Consumer, DeQueue(c) \/ DeQueueStep(c) PROVE QueueInv'
    BY <1>2, StepLooks, StepCasHead, StepUncount, StepDeliver DEF DeQueueStep
  <1>3. CASE UNCHANGED vars
    <2> PICK q \in Seq(Node), k \in Nat : QueueInvOf(q, k)  BY DEF QueueInv
    <2>1. UNCHANGED <<m_head, m_tail, m_size, allocated, data, nextOf, pc, ptr, other,
                      toSend, linked, results>>
      BY <1>3 DEF vars, members, heap, locals
    <2>2. TypeOK'  BY <2>1 DEF QueueInv, TypeOK
    <2>3. Roles' /\ NoConsumer' = NoConsumer  BY <2>1 DEF QueueInv, Roles, NoConsumer, Busy
    <2>4. Chain(q, k)'  BY <2>1 DEF QueueInvOf, Chain, Links
    <2>5. Producers(q, k)'  BY <2>1, <2>3 DEF QueueInvOf, Producers, Unlinked
    <2>6. Consumers(q)'  BY <2>1 DEF QueueInvOf, Consumers, Unlinked
    <2>7. Uncounted' = Uncounted /\ Removed' = Removed  BY <2>1 DEF Uncounted, Removed
    <2>8. Counted(q)'  BY <2>1, <2>7 DEF QueueInvOf, Counted
    <2> QED  BY <2>2, <2>3, <2>4, <2>5, <2>6, <2>8 DEF QueueInv, QueueInvOf
  <1> QED  BY <1>1, <1>2, <1>3 DEF Next

LEMMA QueueAlways == ASSUME SafePlans PROVE Spec => []QueueInv
  <1>1. Init => QueueInv  BY QueueInit
  <1>2. QueueInv /\ [Next]_vars => QueueInv'  BY QueueStep
  <1> QED  BY <1>1, <1>2, PTL DEF Spec

\* No EnQueue links behind a deleted node and no DeQueue looks into one, although cells of
\* deleted nodes come back: the tail is never the node that is removed, because empty()
\* counts only nodes whose EnQueue has moved the tail past them.
THEOREM NoUseAfterFreeAlways == ASSUME SafePlans PROVE Spec => []NoUseAfterFree
  <1>1. QueueInv => NoUseAfterFree
    <2> SUFFICES ASSUME QueueInv PROVE NoUseAfterFree  OBVIOUS
    <2> USE ThreadTypes
    <2> PICK q \in Seq(Node), k \in Nat : QueueInvOf(q, k)  BY DEF QueueInv
    <2>1. m_head \in allocated /\ m_tail \in allocated
      <3>1. 1 \in 1 .. Len(q) /\ k \in 1 .. Len(q)  BY DEF QueueInvOf, Chain, Links
      <3> QED  BY <3>1 DEF QueueInvOf, Chain, Links
    <2>2. ASSUME NEW t \in Thread, pc[t] \in {"link", "testNext", "loadNext", "deliver"}
          PROVE  ptr[t] \in allocated
      <3>1. CASE t \in Producer
        <4>1. pc[t] = "link"  BY <2>2, <3>1 DEF QueueInv, Roles, Enqueuing
        <4>2. PICK j \in 1 .. k : ptr[t] = q[j]
          BY <3>1, <4>1 DEF QueueInvOf, Producers
        <4>3. j \in 1 .. Len(q)  BY DEF QueueInvOf, Chain, Links
        <4> QED  BY <4>2, <4>3 DEF QueueInvOf, Chain, Links
      <3>2. CASE t \in Consumer
        <4>1. pc[t] \in {"testNext", "loadNext", "deliver"}
          BY <2>2, <3>2 DEF QueueInv, Roles, Dequeuing
        <4> QED  BY <2>1, <3>2, <4>1 DEF QueueInvOf, Consumers
      <3> QED  BY <3>1, <3>2 DEF Thread
    <2> QED  BY <2>1, <2>2 DEF NoUseAfterFree
  <1> QED  BY <1>1, QueueAlways, PTL

(* The queue as its pointers spell it                                      *)

LEMMA LeastNumber ==
  ASSUME NEW T \in SUBSET Nat, T # {}
  PROVE  \E x \in T : \A y \in T : x <= y
  <1>1. PICK x \in T : \A y \in T : ~(<<y, x>> \in OpToRel(<, Nat))
    BY NatLessThanWellFounded, WFMin
  <1>2. \A y \in T : ~(y < x)  BY <1>1 DEF OpToRel
  <1> QED  BY <1>2

\* The cells reached from m_head are those of the chain.
LEMMA CellIsChain ==
  ASSUME NEW q \in Seq(Node), Links(q)
  PROVE  Cell = [i \in 1 .. Cells + 1 |-> IF i <= Len(q) THEN q[i] ELSE NULL]
  <1> PICK n \in Nat : n = Len(q)  OBVIOUS
  <1>1. /\ n >= 1 /\ q[1] = m_head /\ nextOf[q[n]] = NULL
        /\ \A i \in 1 .. n - 1 : nextOf[q[i]] = q[i + 1]
        /\ \A i \in 1 .. n : q[i] \in Node /\ q[i] # NULL
    BY CellAssumption DEF Links
  <1>2. Cells \in Nat /\ n <= Cells  BY ChainFits, CellAssumption DEF Links
  <1>3. Cardinality(Node) = Cells
    <2>1. 1 \in Int /\ Cells \in Int /\ ~(1 > Cells)  BY <1>1, <1>2
    <2>2. Cardinality(1 .. Cells) = Cells - 1 + 1  BY <2>1, FS_Interval
    <2> QED  BY <1>2, <2>2 DEF Node
  <1> DEFINE F(f) == [i \in 1 .. Cells + 1 |->
                        IF i = 1 THEN m_head
                        ELSE IF f[i - 1] = NULL THEN NULL
                        ELSE nextOf[f[i - 1]]]
             g == [i \in 1 .. Cells + 1 |-> IF i <= n THEN q[i] ELSE NULL]
  <1>4. g = F(g)
    <2> SUFFICES ASSUME NEW i \in 1 .. Cells + 1
                 PROVE  g[i] = IF i = 1 THEN m_head
                               ELSE IF g[i - 1] = NULL THEN NULL
                               ELSE nextOf[g[i - 1]]
      OBVIOUS
    <2>1. CASE i = 1  BY <1>1, <1>2, <2>1
    <2>2. CASE i # 1 /\ i <= n
      <3>1. i - 1 \in 1 .. n - 1 /\ i - 1 \in 1 .. Cells + 1 /\ (i - 1) + 1 = i
        BY <1>2, <2>2
      <3>2. g[i - 1] = q[i - 1] /\ q[i - 1] # NULL /\ nextOf[q[i - 1]] = q[i] /\ g[i] = q[i]
        <4>1. nextOf[q[i - 1]] = q[(i - 1) + 1]  BY <1>1, <3>1
        <4> QED  BY <1>1, <2>2, <3>1, <4>1
      <3> QED  BY <2>2, <3>2
    <2>3. CASE i = n + 1
      <3>1. i - 1 = n /\ i # 1 /\ n \in 1 .. Cells + 1  BY <1>1, <1>2, <2>3
      <3>2. g[n] = q[n] /\ q[n] # NULL /\ g[i] = NULL  BY <1>1, <2>3, <3>1
      <3> QED  BY <1>1, <3>1, <3>2
    <2>4. CASE i > n + 1
      <3>1. i - 1 \in 1 .. Cells + 1 /\ ~(i - 1 <= n) /\ ~(i <= n) /\ i # 1
        BY <1>1, <1>2, <2>4
      <3>2. g[i - 1] = NULL /\ g[i] = NULL  BY <3>1
      <3> QED  BY <3>1, <3>2
    <2> QED  BY <2>1, <2>2, <2>3, <2>4
  <1>5. Cell = CHOOSE f : f = F(f)  BY <1>3, Zenon DEF Cell
  <1>6. Cell = F(Cell)
    <2> HIDE DEF g, F
    <2> QED  BY <1>4, <1>5, Zenon
  <1>7. /\ DOMAIN Cell = 1 .. Cells + 1 /\ Cell = [i \in 1 .. Cells + 1 |-> Cell[i]]
        /\ \A i \in 1 .. Cells + 1 :
              Cell[i] = IF i = 1 THEN m_head
                        ELSE IF Cell[i - 1] = NULL THEN NULL ELSE nextOf[Cell[i - 1]]
    BY <1>6
  <1>8. /\ DOMAIN g = 1 .. Cells + 1 /\ g = [i \in 1 .. Cells + 1 |-> g[i]]
        /\ \A i \in 1 .. Cells + 1 :
              g[i] = IF i = 1 THEN m_head
                     ELSE IF g[i - 1] = NULL THEN NULL ELSE nextOf[g[i - 1]]
    BY <1>4
  <1> DEFINE T == {i \in 1 .. Cells + 1 : Cell[i] # g[i]}
  <1>9. T = {}
    <2> HIDE DEF g, F
    <2> SUFFICES ASSUME T # {} PROVE FALSE  OBVIOUS
    <2>1. T \in SUBSET Nat  OBVIOUS
    <2>2. PICK x \in T : \A y \in T : x <= y
      <3> HIDE DEF T
      <3> QED  BY <2>1, LeastNumber
    <2>3. x \in 1 .. Cells + 1 /\ Cell[x] # g[x]  BY <2>2
    <2>4. x # 1  BY <1>7, <1>8, <2>3
    <2>5. x - 1 \in 1 .. Cells + 1 /\ ~(x <= x - 1)  BY <1>2, <2>3, <2>4
    <2>6. Cell[x - 1] = g[x - 1]  BY <2>2, <2>5
    <2> QED  BY <1>7, <1>8, <2>3, <2>4, <2>6
  <1>10. \A i \in 1 .. Cells + 1 : Cell[i] = g[i]  BY <1>9
  <1>11. Cell = g
    <2> HIDE DEF g
    <2> QED  BY <1>7, <1>8, <1>10
  <1> QED  BY <1>11

LEMMA ContentsOfChain ==
  ASSUME NEW q \in Seq(Node), Links(q)
  PROVE  Length = Len(q) /\ Contents = [i \in 1 .. Len(q) |-> data[q[i]]]
  <1> PICK n \in Nat : n = Len(q)  OBVIOUS
  <1>1. Cells \in Nat /\ n <= Cells  BY ChainFits, CellAssumption DEF Links
  <1>2. /\ DOMAIN Cell = 1 .. Cells + 1
        /\ \A i \in 1 .. Cells + 1 : Cell[i] = IF i <= n THEN q[i] ELSE NULL
    BY CellIsChain
  <1>3. \A i \in 1 .. n : q[i] # NULL  BY CellAssumption
  <1>4. {i \in DOMAIN Cell : Cell[i] # NULL} = 1 .. n
    <2>1. ASSUME NEW i \in 1 .. Cells + 1 PROVE Cell[i] # NULL <=> i \in 1 .. n
      BY <1>1, <1>2, <1>3
    <2>2. \A i \in 1 .. n : i \in 1 .. Cells + 1  BY <1>1
    <2> QED  BY <1>2, <2>1, <2>2
  <1>5. Length = n
    <2>1. Length = Cardinality(1 .. n)  BY <1>4 DEF Length
    <2>2. 1 \in Int /\ n \in Int  OBVIOUS
    <2>3. Cardinality(1 .. n) = IF 1 > n THEN 0 ELSE n - 1 + 1  BY <2>2, FS_Interval
    <2> QED  BY <2>1, <2>3
  <1>6. \A i \in 1 .. n : i \in 1 .. Cells + 1 /\ Cell[i] = q[i]  BY <1>1, <1>2
  <1>7. Contents = [i \in 1 .. n |-> data[q[i]]]  BY <1>5, <1>6 DEF Contents
  <1> QED  BY <1>5, <1>7

\* m_size counts the items behind the head, but for the calls between their exchange and
\* their counting, and never wraps, under every interleaving of EnQueue and DeQueue.
THEOREM SizeExactAlways == ASSUME SafePlans PROVE Spec => []SizeExact
  <1>1. QueueInv => SizeExact
    <2> SUFFICES ASSUME QueueInv PROVE SizeExact  OBVIOUS
    <2> PICK q \in Seq(Node), k \in Nat : QueueInvOf(q, k)  BY DEF QueueInv
    <2>1. Length = Len(q)  BY ContentsOfChain DEF QueueInvOf, Chain
    <2> QED  BY <2>1 DEF QueueInv, QueueInvOf, Counted, SizeExact, Uncounted, Removed
  <1> QED  BY <1>1, QueueAlways, PTL

-----------------------------------------------------------------------------
(* The refinement                                                          *)

\* ContentsOfChain as one formula, so that it can be used of the next state.
Spelled == \A q \in Seq(Node) : Links(q) => Contents = [i \in 1 .. Len(q) |-> data[q[i]]]

LEMMA SpelledNext == Spelled /\ Spelled'
  <1>1. Spelled  BY ContentsOfChain DEF Spelled
  <1>2. Spelled'  BY <1>1, PTL
  <1> QED  BY <1>1, <1>2

\* The chain of a state in which the invariant holds: its nodes are allocated, and what a
\* consumer has removed is allocated still.
LEMMA HasChain ==
  ASSUME QueueInv
  PROVE  \E q \in Seq(Node), k \in Nat :
            /\ QueueInvOf(q, k) /\ Links(q)
            /\ \A i \in 1 .. Len(q) : q[i] \in allocated
            /\ \A c \in Consumer : pc[c] \in {"uncount", "deliver"} => ptr[c] \in allocated
  BY DEF QueueInv, QueueInvOf, Chain, Links, Consumers

LEMMA ContentsKept ==
  ASSUME NEW q \in Seq(Node), Links(q), Links(q)',
         \A i \in 1 .. Len(q) : data'[q[i]] = data[q[i]]
  PROVE  Contents' = Contents
  <1>1. Contents = [i \in 1 .. Len(q) |-> data[q[i]]]  BY SpelledNext DEF Spelled
  <1>2. Contents' = [i \in 1 .. Len(q) |-> data'[q[i]]]  BY SpelledNext DEF Spelled
  <1> QED  BY <1>1, <1>2

LEMMA ResultsKept ==
  ASSUME results' = results,
         \A c \in Consumer :
            /\ pc'[c] \in {"uncount", "deliver"} <=> pc[c] \in {"uncount", "deliver"}
            /\ pc[c] \in {"uncount", "deliver"} => ptr'[c] = ptr[c] /\ data'[ptr[c]] = data[ptr[c]]
  PROVE  resultsDue' = resultsDue
  <1>1. \A c \in Consumer : pc[c] \in {"uncount", "deliver"} => Result(c)' = Result(c)
    BY DEF Result
  <1> QED  BY <1>1 DEF resultsDue

\* A step that links and removes nothing stutters in the abstract queue.
LEMMA StepsThatStutter ==
  ASSUME QueueInv,
         \/ \E p \in Producer : LoadTail(p) \/ Swing(p) \/ Count(p)
         \/ \E p \in Producer : Goto(p, "loadTail") /\ UNCHANGED <<members, heap, ptr, results>>
         \/ \E c \in Consumer : DeQueue(c) \/ LoadHead(c) \/ TestNext(c) \/ LoadNext(c)
                                \/ Uncount(c)
         \/ \E c \in Consumer : /\ pc[c] = "casHead" /\ Goto(c, "loadHead")
                                /\ UNCHANGED <<members, heap, ptr, results>>
         \/ UNCHANGED vars
  PROVE  Contents' = Contents /\ resultsDue' = resultsDue
  <1> USE ThreadTypes
  <1> PICK q \in Seq(Node), k \in Nat : QueueInvOf(q, k) /\ Links(q)  BY HasChain
  <1>1. UNCHANGED <<m_head, allocated, data, nextOf, results>>
    BY DEF LoadTail, Swing, Count, DeQueue, LoadHead, TestNext, LoadNext, Uncount, vars,
           members, heap
  <1>2. Contents' = Contents
    <2>1. Links(q)'  BY <1>1 DEF Links
    <2> QED  BY <1>1, <2>1, ContentsKept
  <1>3. \A c \in Consumer :
            /\ pc'[c] \in {"uncount", "deliver"} <=> pc[c] \in {"uncount", "deliver"}
            /\ pc[c] \in {"uncount", "deliver"} => ptr'[c] = ptr[c]
    <2>1. pc \in [Thread -> {"absent", "idle", "loadTail", "link", "swing", "count",
                   "loadHead", "testNext", "loadNext", "casHead", "uncount", "deliver"}]
          /\ ptr \in [Thread -> Node \cup {NULL}]
      BY DEF QueueInv, TypeOK
    <2>2. CASE \E p \in Producer : LoadTail(p) \/ Swing(p) \/ Count(p)
      BY <2>1, <2>2 DEF LoadTail, Swing, Count, Return, Goto
    <2>3. CASE \E p \in Producer :
                  Goto(p, "loadTail") /\ UNCHANGED <<members, heap, ptr, results>>
      BY <2>1, <2>3 DEF Goto
    <2>4. CASE \E c \in Consumer : DeQueue(c) \/ LoadHead(c) \/ TestNext(c) \/ LoadNext(c)
      BY <2>1, <2>4 DEF DeQueue, LoadHead, TestNext, LoadNext, Return, Goto
    <2>5. CASE \E c \in Consumer : Uncount(c)
      BY <2>1, <2>5 DEF Uncount, Goto
    <2>6. CASE \E c \in Consumer : /\ pc[c] = "casHead" /\ Goto(c, "loadHead")
                                   /\ UNCHANGED <<members, heap, ptr, results>>
      BY <2>1, <2>6 DEF Goto
    <2>7. CASE UNCHANGED vars  BY <2>7 DEF vars, locals
    <2> QED  BY <2>2, <2>3, <2>4, <2>5, <2>6, <2>7
  <1>4. resultsDue' = resultsDue  BY <1>1, <1>3, ResultsKept
  <1> QED  BY <1>2, <1>4

\* A new node changes fields of a cell that the queue does not hold.
LEMMA EnQueueStutters ==
  ASSUME QueueInv, NEW p \in Producer, EnQueue(p)
  PROVE  Contents' = Contents /\ resultsDue' = resultsDue
  <1> USE ThreadTypes
  <1> PICK q \in Seq(Node), k \in Nat :
        /\ QueueInvOf(q, k) /\ Links(q)
        /\ \A i \in 1 .. Len(q) : q[i] \in allocated
        /\ \A c \in Consumer : pc[c] \in {"uncount", "deliver"} => ptr[c] \in allocated
    BY HasChain
  <1> PICK n \in New :
        /\ allocated' = allocated \cup {n}
        /\ data' = [data EXCEPT ![n] = <<p, toSend[p]>>]
        /\ nextOf' = [nextOf EXCEPT ![n] = NULL]
    BY DEF EnQueue
  <1>1. /\ \A m \in allocated : data'[m] = data[m] /\ nextOf'[m] = nextOf[m]
        /\ m_head' = m_head /\ results' = results /\ ptr' = ptr
    BY DEF EnQueue, New, QueueInv, TypeOK, members
  <1>2. Links(q)'  BY <1>1 DEF Links
  <1>3. \A c \in Consumer : pc'[c] = pc[c]
    BY DEF EnQueue, Goto, QueueInv, TypeOK
  <1> QED  BY <1>1, <1>2, <1>3, ContentsKept, ResultsKept

\* The exchange that links the node is the Enqueue of its item.
LEMMA LinkEnqueues ==
  ASSUME QueueInv, NEW p \in Producer, pc[p] = "link", Goto(p, "swing"),
         nextOf[ptr[p]] = NULL,
         nextOf' = [nextOf EXCEPT ![ptr[p]] = other[p]],
         linked' = Append(linked, data[other[p]]),
         UNCHANGED <<members, allocated, data, ptr, other, toSend, results>>
  PROVE  Queue!Next
  <1> USE ThreadTypes
  <1> PICK q \in Seq(Node), k \in Nat : QueueInvOf(q, k) /\ Links(q)  BY HasChain
  <1> PICK n \in Nat : n = Len(q)  OBVIOUS
  <1> PICK e : e = other[p]  OBVIOUS
  <1>1. e \in Node /\ data[e] \in Item
    BY DEF QueueInv, TypeOK, QueueInvOf, Producers, Unlinked
  <1> PICK s \in Seq(Node) : s = Append(q, e) /\ Links(s)'  BY StepLinks
  <1>2. Len(s) = n + 1 /\ s[n + 1] = e /\ \A i \in 1 .. n : s[i] = q[i]
    BY <1>1, AppendProperties
  <1>3. Contents = [i \in 1 .. n |-> data[q[i]]]  BY SpelledNext DEF Spelled
  <1>4. Contents' = [i \in 1 .. n + 1 |-> data[s[i]]]
    <2>1. Contents' = [i \in 1 .. Len(s) |-> data'[s[i]]]  BY SpelledNext DEF Spelled
    <2> QED  BY <1>2, <2>1
  <1>5. Contents' = Append(Contents, data[e])
    <2>1. \A i \in 1 .. n : data[q[i]] \in Item \cup {NULL}  BY DEF QueueInv, TypeOK
    <2>2. Contents \in Seq(Item \cup {NULL}) /\ Len(Contents) = n  BY <1>3, <2>1
    <2>3. Append(Contents, data[e]) = [i \in 1 .. n + 1 |-> IF i <= n THEN Contents[i] ELSE data[e]]
      BY <1>1, <2>2
    <2>4. \A i \in 1 .. n + 1 : data[s[i]] = IF i <= n THEN Contents[i] ELSE data[e]
      BY <1>2, <1>3
    <2> QED  BY <1>4, <2>3, <2>4
  <1>6. resultsDue' = resultsDue
    <2>1. \A c \in Consumer : pc'[c] = pc[c]  BY DEF Goto, QueueInv, TypeOK
    <2> QED  BY <2>1, ResultsKept
  <1> QED  BY <1>1, <1>5, <1>6 DEF Queue!Next, Queue!Enqueue

\* The exchange that moves the head is the Dequeue of the item in the old one.
LEMMA CasHeadDequeues ==
  ASSUME QueueInv, NEW c \in Consumer, pc[c] = "casHead", Goto(c, "uncount"),
         m_head' = other[c],
         UNCHANGED <<m_tail, m_size, heap, ptr, other, toSend, linked, results>>
  PROVE  Queue!Next
  <1> USE ThreadTypes
  <1> PICK q \in Seq(Node), k \in Nat : QueueInvOf(q, k) /\ Links(q)  BY HasChain
  <1> PICK n \in Nat : n = Len(q)  OBVIOUS
  <1> PICK s \in Seq(Node) : s = Tail(q) /\ n >= 2 /\ ptr[c] = q[1] /\ Links(s)'
    BY StepRemoves
  <1>1. UNCHANGED <<data, ptr, results>>  BY DEF heap
  <1>2. Len(s) = n - 1 /\ \A i \in 1 .. n - 1 : s[i] = q[i + 1]
    OBVIOUS
  <1>3. Contents = [i \in 1 .. n |-> data[q[i]]]  BY SpelledNext DEF Spelled
  <1>4. Contents' = [i \in 1 .. n - 1 |-> data[s[i]]]  BY <1>1, <1>2, SpelledNext DEF Spelled
  <1>5. /\ Len(Contents) = n /\ Head(Contents) = data[ptr[c]]
        /\ Contents' = Tail(Contents)
    <2>1. \A i \in 1 .. n : data[q[i]] \in Item \cup {NULL}  BY DEF QueueInv, TypeOK
    <2>2. Contents \in Seq(Item \cup {NULL}) /\ Len(Contents) = n  BY <1>3, <2>1
    <2>3. Head(Contents) = data[q[1]]  BY <1>3, <2>2
    <2>4. /\ Tail(Contents) \in Seq(Item \cup {NULL}) /\ Len(Tail(Contents)) = n - 1
          /\ \A i \in 1 .. n - 1 : Tail(Contents)[i] = Contents[i + 1]
      BY <2>2, HeadTailProperties
    <2>5. \A i \in 1 .. n - 1 : data[s[i]] = Contents[i + 1] /\ data[s[i]] \in Item \cup {NULL}
      BY <1>2, <1>3, <2>1
    <2>6. /\ Contents' \in Seq(Item \cup {NULL}) /\ Len(Contents') = n - 1
          /\ \A i \in 1 .. n - 1 : Contents'[i] = Tail(Contents)[i]
      BY <1>4, <2>4, <2>5
    <2>7. Contents' = Tail(Contents)  BY <2>4, <2>6, SeqEqual
    <2> QED  BY <2>2, <2>3, <2>7
  <1>6. resultsDue' = [resultsDue EXCEPT ![c] = Append(@, Head(Contents))]
    <2>1. /\ pc'[c] = "uncount" /\ \A d \in Consumer \ {c} : pc'[d] = pc[d]
      BY DEF Goto, QueueInv, TypeOK
    <2>2. /\ resultsDue[c] = results[c]
          /\ resultsDue'[c] = Append(results[c], data[ptr[c]])
      BY <1>1, <2>1 DEF resultsDue, Result
    <2>3. \A d \in Consumer \ {c} : resultsDue'[d] = resultsDue[d]
      BY <1>1, <2>1 DEF resultsDue, Result
    <2>4. /\ resultsDue = [d \in Consumer |-> resultsDue[d]]
          /\ resultsDue' = [d \in Consumer |-> resultsDue'[d]]
      BY DEF resultsDue
    <2> QED  BY <1>5, <2>2, <2>3, <2>4
  <1> QED  BY <1>5, <1>6 DEF Queue!Next, Queue!Dequeue

LEMMA DeliverStutters ==
  ASSUME QueueInv, NEW c \in Consumer, Deliver(c)
  PROVE  Contents' = Contents /\ resultsDue' = resultsDue
  <1> USE ThreadTypes
  <1> PICK q \in Seq(Node), k \in Nat : QueueInvOf(q, k) /\ Links(q)  BY HasChain
  <1>1. /\ pc[c] = "deliver" /\ Return(c)
        /\ results' = [results EXCEPT ![c] = Append(@, data[ptr[c]])]
        /\ allocated' = allocated \ {ptr[c]}
        /\ UNCHANGED <<m_head, data, nextOf>>
    BY DEF Deliver, members, Result
  <1>2. Contents' = Contents
    <2>1. Links(q)'
      BY <1>1 DEF QueueInvOf, Consumers, Links
    <2> QED  BY <1>1, <2>1, ContentsKept
  <1>3. resultsDue' = resultsDue
    <2>1. /\ pc'[c] = "idle"
          /\ \A d \in Consumer \ {c} : pc'[d] = pc[d] /\ ptr'[d] = ptr[d]
      BY <1>1, Returns DEF QueueInv
    <2>2. /\ results'[c] = Append(results[c], data[ptr[c]])
          /\ \A d \in Consumer \ {c} : results'[d] = results[d]
      BY <1>1 DEF QueueInv, TypeOK
    <2>3. resultsDue'[c] = resultsDue[c]
      BY <1>1, <2>1, <2>2 DEF resultsDue, Result
    <2>4. \A d \in Consumer \ {c} : resultsDue'[d] = resultsDue[d]
      BY <1>1, <2>1, <2>2 DEF resultsDue, Result
    <2>5. /\ resultsDue = [d \in Consumer |-> resultsDue[d]]
          /\ resultsDue' = [d \in Consumer |-> resultsDue'[d]]
      BY DEF resultsDue
    <2> QED  BY <2>3, <2>4, <2>5
  <1> QED  BY <1>2, <1>3

LEMMA RefinesInit == ASSUME SafePlans, Init PROVE Queue!Init
  <1>1. 1 \in Node  BY CellAssumption DEF Node
  <1>2. <<1>> \in Seq(Node)  BY <1>1
  <1> PICK q \in Seq(Node) : q = <<1>>  BY <1>2
  <1>3. Len(q) = 1 /\ q[1] = 1  OBVIOUS
  <1>4. Links(q)  BY <1>1, <1>3 DEF Init, Links
  <1>5. Contents = [i \in 1 .. 1 |-> NULL]
    <2>1. Contents = [i \in 1 .. 1 |-> data[q[i]]]  BY <1>3, <1>4, SpelledNext DEF Spelled
    <2>2. data[1] = NULL  BY <1>1 DEF Init
    <2> QED  BY <1>3, <2>1, <2>2
  <1>6. Contents = <<NULL>>  BY <1>5
  <1>7. resultsDue = [c \in Consumer |-> <<>>]
    BY ThreadTypes DEF Init, resultsDue
  <1> QED  BY <1>6, <1>7 DEF Queue!Init

LEMMA RefinesNext ==
  ASSUME QueueInv, [Next]_vars
  PROVE  [Queue!Next]_(Queue!vars)
  <1>1. ASSUME Contents' = Contents /\ resultsDue' = resultsDue PROVE UNCHANGED Queue!vars
    BY <1>1 DEF Queue!vars
  <1>2. ASSUME NEW p \in Producer, EnQueue(p) \/ EnQueueStep(p)
        PROVE  [Queue!Next]_(Queue!vars)
    <2>1. CASE EnQueue(p)  BY <1>1, <2>1, EnQueueStutters
    <2>2. CASE LoadTail(p) \/ Swing(p) \/ Count(p)  BY <1>1, <2>2, StepsThatStutter
    <2>3. CASE Link(p)
      <3> PICK ok \in WeakCas(nextOf[ptr[p]] = NULL) :
            IF ok
            THEN /\ nextOf' = [nextOf EXCEPT ![ptr[p]] = other[p]]
                 /\ linked' = Append(linked, data[other[p]])
                 /\ Goto(p, "swing")
            ELSE Goto(p, "loadTail") /\ UNCHANGED <<nextOf, linked>>
        BY <2>3 DEF Link
      <3>1. /\ pc[p] = "link"
            /\ UNCHANGED <<members, allocated, data, ptr, other, toSend, results>>
        BY <2>3 DEF Link
      <3>2. CASE ok
        <4>1. nextOf[ptr[p]] = NULL  BY <3>2 DEF WeakCas
        <4> QED  BY <3>1, <3>2, <4>1, LinkEnqueues
      <3>3. CASE ~ok
        <4>1. Goto(p, "loadTail") /\ UNCHANGED <<members, heap, ptr, results>>
          BY <3>1, <3>3 DEF heap
        <4> QED  BY <1>1, <4>1, StepsThatStutter
      <3> QED  BY <3>2, <3>3
    <2> QED  BY <1>2, <2>1, <2>2, <2>3 DEF EnQueueStep
  <1>3. ASSUME NEW c \in Consumer, DeQueue(c) \/ DeQueueStep(c)
        PROVE  [Queue!Next]_(Queue!vars)
    <2>1. CASE DeQueue(c) \/ LoadHead(c) \/ TestNext(c) \/ LoadNext(c) \/ Uncount(c)
      BY <1>1, <2>1, StepsThatStutter
    <2>2. CASE Deliver(c)  BY <1>1, <2>2, DeliverStutters
    <2>3. CASE CasHead(c)
      <3> PICK ok \in WeakCas(m_head = ptr[c]) :
            IF ok THEN m_head' = other[c] /\ Goto(c, "uncount")
                  ELSE UNCHANGED m_head /\ Goto(c, "loadHead")
        BY <2>3 DEF CasHead
      <3>1. /\ pc[c] = "casHead"
            /\ UNCHANGED <<m_tail, m_size, heap, ptr, other, toSend, linked, results>>
        BY <2>3 DEF CasHead
      <3>2. CASE ok  BY <3>1, <3>2, CasHeadDequeues
      <3>3. CASE ~ok
        <4>1. Goto(c, "loadHead") /\ UNCHANGED <<members, heap, ptr, results>>
          BY <3>1, <3>3 DEF members
        <4> QED  BY <1>1, <3>1, <4>1, StepsThatStutter
      <3> QED  BY <3>2, <3>3
    <2> QED  BY <1>3, <2>1, <2>2, <2>3 DEF DeQueueStep
  <1>4. CASE UNCHANGED vars  BY <1>1, <1>4, StepsThatStutter
  <1> QED  BY <1>2, <1>3, <1>4 DEF Next

\* However the exchanges of the threads interleave, the queue is the FIFO queue of
\* LaggingQueue: Link is its Enqueue, the exchange of DeQueue its Dequeue.
THEOREM ImplementsLaggingQueueAlways ==
  ASSUME SafePlans PROVE Spec => ImplementsLaggingQueue
  <1>1. Init => Queue!Init  BY RefinesInit
  <1>2. QueueInv /\ [Next]_vars => [Queue!Next]_(Queue!vars)  BY RefinesNext
  <1> QED  BY <1>1, <1>2, QueueAlways, PTL DEF Spec, Queue!Spec, ImplementsLaggingQueue
=============================================================================
