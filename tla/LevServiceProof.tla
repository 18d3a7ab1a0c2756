-------------------------- MODULE LevServiceProof --------------------------
(***************************************************************************)
(* What the TCP server promises about its contexts, for any clients, any   *)
(* size of the pool and any number of loops.                               *)
(***************************************************************************)
EXTENDS LevService, FiniteSetTheorems, SequenceTheorems, NaturalsInduction, TLAPS

-----------------------------------------------------------------------------
(* The inductive invariant, in parts                                       *)

Closing == {"close", "recycle", "putFree", "disconnect", "markExit"}
Accepting == {"pop", "attach", "giveBack", "count", "emplace", "monitor"}
Stopping == {"stopping", "stopNext", "clear", "stopped", "crashed"}

\* The places of a loop, and where the Close it is in returns to; the loops that the
\* service did not make are idle.
LoopPlaces ==
    \A l \in Loop :
        /\ pc[l] \in Closing \cup {"idle", "recycleAgain", "putFreeAgain"}
                     \cup (IF l = Listener THEN Accepting \cup {"evict"} ELSE {})
        /\ pc[l] \in Closing =>
              ret[l] \in {"recycleAgain"} \cup (IF l = Listener THEN {"giveBack", "evict"} ELSE {})
        /\ l > setup.workThreads => pc[l] = "idle"

\* The places of the main thread, which only stops a service that is to be stopped.
MainPlaces ==
    /\ pc[Main] \in Closing \cup Stopping \cup {"idle"}
    /\ pc[Main] \in Closing => ret[Main] = "stopNext"
    /\ ~setup.stops => pc[Main] = "idle" /\ gone = {}

\* Events are delivered on the loops of the service, and a socket is being accepted
\* until its context is set up.
Events ==
    /\ DOMAIN todo = Thread /\ todo = [t \in Thread |-> todo[t]]
    /\ \A c \in Context : base[c] \in 1..setup.workThreads
    /\ pc[Listener] \in Accepting \/ ret[Listener] = "giveBack" => hand \in Client

Threads == LoopPlaces /\ MainPlaces /\ Events

InFree(c) == \E i \in DOMAIN free : free[i] = c
Held(c) == \E t \in Thread : InHand(t, c)

\* A context of the pool is in one place and no other context is in any.
PlaceOf(c) ==
    /\ c \in Pool(setup) <=> InFree(c) \/ Held(c) \/ c \in conns \/ c \in gone
    /\ c \in conns => ~InFree(c) /\ ~Held(c) /\ c \notin gone
    /\ c \in gone => ~InFree(c) /\ ~Held(c)
    /\ InFree(c) => ~Held(c)
    /\ \A s, t \in Thread : InHand(s, c) /\ InHand(t, c) => s = t

\* It stands in the free list once.  One that AttachFails closes is not in the map, so
\* that closing does not give it back.
OnePlace ==
    /\ \A c \in Context : PlaceOf(c)
    /\ \A i, j \in DOMAIN free : free[i] = free[j] => i = j
    /\ ret[Listener] = "giveBack" => pc[Listener] # "putFree"

\* current_conn_ counts the map, and the connection about to be put there.
Counted ==
    /\ current = Cardinality(conns) + (IF pc[Listener] = "emplace" THEN 1 ELSE 0)
    /\ pc[Listener] \in {"pop", "attach", "count"} => current < setup.maxConn

PoolInv == TypeOK /\ Threads /\ OnePlace /\ Counted


-----------------------------------------------------------------------------
(* Facts about the constants and the operators                             *)

\* The pool and the loops of a setup.
LEMMA Setting ==
    ASSUME setup \in Setups
    PROVE  /\ setup.workThreads \in Nat \ {0} /\ setup.maxConn \in Nat \ {0}
           /\ setup.autoMonitor \in BOOLEAN /\ setup.stops \in BOOLEAN
           /\ Pool(setup) = 1..(setup.maxConn + Above) /\ Pool(setup) \subseteq Context
           /\ 1..setup.workThreads \subseteq Loop
           /\ Listener \in Loop /\ 1 \in Context /\ 1 \in Pool(setup)
<1>1. setup \in Setup
  BY ServiceAssumption
<1>2. setup.workThreads \in Nat \ {0} /\ setup.maxConn \in Nat \ {0} /\ Above \in Nat
      /\ setup.autoMonitor \in BOOLEAN /\ setup.stops \in BOOLEAN
  BY <1>1, ServiceAssumption DEF Setup
<1>3. Pool(setup) \subseteq Context /\ 1..setup.workThreads \subseteq Loop
  BY DEF Context, Loop
<1> QED
  BY <1>2, <1>3 DEF Pool, Listener

\* Loops are numbered from one; the main thread is none of them.
LEMMA LoopsAndMain == /\ Loop \subseteq Nat \ {0} /\ Main \notin Loop /\ Main \in Thread
                      /\ \A t \in Thread : t \in Loop \/ t = Main
                      /\ Main # Listener /\ \A l \in Loop : l \in Thread
<1>1. \A s \in Setups : s.workThreads \in Nat
  BY ServiceAssumption DEF Setup
<1>2. \A s \in Setups : 1..s.workThreads \subseteq Nat \ {0}
  BY <1>1
<1>3. Loop \subseteq Nat \ {0}
  BY <1>2 DEF Loop
<1> QED
  BY <1>3 DEF Main, Thread, Listener

\* A set of numbers that is not empty has a least element.
LEMMA LeastNumber ==
    ASSUME NEW T \in SUBSET Nat, T # {}
    PROVE  \E x \in T : \A y \in T : x <= y
<1>1. PICK x \in T : \A y \in T : ~(<<y, x>> \in OpToRel(<, Nat))
  BY NatLessThanWellFounded, WFMin
<1>2. \A y \in T : ~(y < x)
  BY <1>1 DEF OpToRel
<1> QED
  BY <1>2

\* The first loop with the smallest counter is one of the service.
LEMMA WorkLoop ==
    ASSUME TypeOK
    PROVE  GetWorkLoop \in 1..setup.workThreads
<1> DEFINE W == 1..setup.workThreads
           C == {count[l] : l \in W}
<1>1. setup.workThreads \in Nat \ {0} /\ W \subseteq Loop /\ count \in [Loop -> 0..(CountMod - 1)]
      /\ CountMod \in Nat
  BY Setting, ServiceAssumption DEF TypeOK
<1>2. \A l \in W : count[l] \in Nat
  BY <1>1
<1>3. PICK m \in W : \A l \in W : count[m] <= count[l]
  <2>1. C \in SUBSET Nat /\ C # {}
    BY <1>1, <1>2
  <2>2. PICK x \in C : \A y \in C : x <= y
    BY <2>1, LeastNumber
  <2> QED
    BY <2>2
<1> DEFINE F == {l \in W : count[l] = count[m]}
<1>4. PICK l \in F : \A n \in F : l <= n
  <2>1. F \in SUBSET Nat /\ F # {}
    BY <1>3
  <2> QED
    BY <2>1, LeastNumber
<1>5. l \in W /\ count[l] = count[m]
  BY <1>4
<1>6. \A n \in 1..(l - 1) : count[n] > count[l]
  <2> TAKE n \in 1..(l - 1)
  <2>1. n \in W /\ n < l
    BY <1>1, <1>5
  <2>2. count[n] # count[m]
    BY <1>4, <2>1
  <2> QED
    BY <1>2, <1>3, <1>5, <2>1, <2>2
<1> QED
  BY <1>3, <1>5, <1>6 DEF GetWorkLoop

-----------------------------------------------------------------------------
(* Types                                                                   *)

\* A counter that is taken down by one wraps.
LEMMA CountDown ==
    ASSUME NEW a \in 0..(CountMod - 1)
    PROVE  (a + CountMod - 1) % CountMod \in 0..(CountMod - 1)
<1>1. CountMod \in Nat \ {0}
  BY ServiceAssumption
<1> QED
  BY <1>1

\* The map of connections is finite and counts its contexts one by one.
LEMMA ConnsCount ==
    ASSUME PoolInv
    PROVE  /\ IsFiniteSet(conns) /\ Cardinality(conns) \in Nat /\ current \in Nat
           /\ \A c \in conns : /\ Cardinality(conns \ {c}) = Cardinality(conns) - 1
                              /\ Cardinality(conns \ {c}) \in Nat
           /\ \A c \in conns : current >= 1
           /\ \A c : c \notin conns => Cardinality(conns \cup {c}) = Cardinality(conns) + 1
<1>1. conns \subseteq Pool(setup)
  BY DEF PoolInv, OnePlace, PlaceOf, TypeOK
<1>2. IsFiniteSet(Pool(setup))
  <2>1. Pool(setup) = 1..(setup.maxConn + Above) /\ setup.maxConn + Above \in Int
    BY Setting, ServiceAssumption DEF PoolInv, TypeOK
  <2> QED
    BY <2>1, FS_Interval
<1>3. IsFiniteSet(conns)
  BY <1>1, <1>2, FS_Subset
<1>4. Cardinality(conns) \in Nat
  BY <1>3, FS_CardinalityType
<1>5. \A c : IsFiniteSet(conns \ {c}) /\ Cardinality(conns \ {c}) \in Nat
  BY <1>3, FS_RemoveElement, FS_CardinalityType
<1>6. \A c \in conns : Cardinality(conns \ {c}) = Cardinality(conns) - 1
  BY <1>3, FS_RemoveElement
<1>7. \A c : c \notin conns => Cardinality(conns \cup {c}) = Cardinality(conns) + 1
  BY <1>3, FS_AddElement
<1>8. current \in Nat
  BY Setting DEF PoolInv, TypeOK
<1>9. \A c \in conns : current >= 1
  <2>1. current >= Cardinality(conns)
    BY <1>4 DEF PoolInv, Counted
  <2> TAKE c \in conns
  <2>2. Cardinality(conns) - 1 \in Nat
    BY <1>5, <1>6
  <2> QED
    BY <1>4, <1>8, <2>1, <2>2
<1> QED
  BY <1>3, <1>4, <1>5, <1>6, <1>7, <1>8, <1>9

\* The steps of Close and of RecycleClientConn keep the types.
LEMMA CloseTypes ==
    ASSUME PoolInv, UNCHANGED setup,
           NEW t \in Thread, Close(t) \/ (t \in Loop /\ ErrorEnd(t))
    PROVE  TypeOK'
<1>1. TypeOK /\ Threads /\ cur[t] \in Context /\ ret[t] \in Place /\ base[cur[t]] \in Loop
  BY DEF PoolInv, TypeOK
<1>2. CASE CloseBegin(t)
  <2>1. (count[base[cur[t]]] + CountMod - 1) % CountMod \in 0..(CountMod - 1)
    BY <1>1, CountDown DEF TypeOK
  <2>2. count' \in [Loop -> 0..(CountMod - 1)]
    BY <1>1, <1>2, <2>1 DEF CloseBegin, TypeOK
  <2>3. /\ sock' \in [Client -> {"new", "waiting", "open", "closed"}]
        /\ client' \in [Context -> Client \cup {None}]
        /\ isExit' \in [Context -> BOOLEAN]
        /\ pc' \in [Thread -> Place]
    <3>1. sock' \in [Client -> {"new", "waiting", "open", "closed"}]
      BY <1>1, <1>2 DEF CloseBegin, TypeOK
    <3>2. client' \in [Context -> Client \cup {None}]
      BY <1>1, <1>2 DEF CloseBegin, TypeOK
    <3>3. isExit' \in [Context -> BOOLEAN]
      BY <1>1, <1>2 DEF CloseBegin, TypeOK
    <3>4. pc' \in [Thread -> Place]
      BY <1>1, <1>2 DEF CloseBegin, TypeOK, Goto, Place
    <3> QED
      BY <3>1, <3>2, <3>3, <3>4
  <2> QED
    BY <1>1, <1>2, <2>2, <2>3 DEF CloseBegin, TypeOK, poolVars, idleVars
<1>3. ASSUME NEW here, NEW put \in Place, NEW skip \in Place, Recycle(t, here, put, skip)
      PROVE  TypeOK'
  <2>1. /\ pc' \in [Thread -> Place] /\ conns' \in SUBSET Context
    BY <1>1, <1>3 DEF Recycle, TypeOK, Goto
  <2>2. current' \in 0..setup.maxConn
    <3>1. current \in 0..setup.maxConn /\ setup' = setup /\ setup.maxConn \in Nat
      BY <1>1, Setting DEF TypeOK
    <3>2. cur[t] \in conns => current >= 1
      BY ConnsCount
    <3>3. current' = current \/ (cur[t] \in conns /\ current' = current - 1)
      BY <1>3 DEF Recycle
    <3> QED
      BY <3>1, <3>2, <3>3
  <2> QED
    BY <1>1, <1>3, <2>1, <2>2 DEF Recycle, TypeOK, ctxVars, idleVars
<1>4. ASSUME NEW here, NEW next \in Place, PutFree(t, here, next)
      PROVE  TypeOK'
  <2>1. /\ pc' \in [Thread -> Place] /\ free' \in Seq(Context)
    BY <1>1, <1>4 DEF PutFree, TypeOK, Goto
  <2> QED
    BY <1>1, <1>4, <2>1 DEF PutFree, TypeOK, ctxVars, idleVars
<1>5. CASE Disconnect(t) \/ MarkExit(t)
  BY <1>1, <1>5 DEF Disconnect, MarkExit, TypeOK, Goto, Place, poolVars, idleVars
<1> QED
  BY <1>2, <1>3, <1>4, <1>5 DEF Close, ErrorEnd, Place

\* An entry in the newest bucket keeps the type of the wheel.
LEMMA InsertTypes ==
    ASSUME TypeOK, NEW e \in Entry, InsertEntry(e)
    PROVE  buckets' \in Seq(SUBSET Entry) /\ Len(buckets') <= BufferSize
<1>1. buckets \in Seq(SUBSET Entry) /\ Len(buckets) <= BufferSize /\ 1 <= BufferSize
  BY ServiceAssumption DEF TypeOK
<1>2. CASE buckets = <<>>
  BY <1>1, <1>2 DEF InsertEntry
<1>3. CASE buckets # <<>>
  <2>1. Len(buckets) \in 1..Len(buckets)
    BY <1>1, <1>3, EmptySeq
  <2>2. buckets[Len(buckets)] \cup {e} \in SUBSET Entry
    BY <1>1, <2>1, ElementOfSeq
  <2> QED
    BY <1>1, <1>3, <2>1, <2>2, ExceptSeq DEF InsertEntry
<1> QED
  BY <1>2, <1>3

\* The steps of AcceptHelper keep the types.
LEMMA AcceptTypes ==
    ASSUME PoolInv, UNCHANGED setup, AcceptHelper
    PROVE  TypeOK'
<1>1. /\ TypeOK /\ Listener \in Thread /\ cur[Listener] \in Context /\ setup' = setup
      /\ pc[Listener] \in Accepting => hand \in Client
  BY Setting, LoopsAndMain DEF PoolInv, TypeOK, Threads, LoopPlaces, MainPlaces, Events
<1>2. CASE Accept
  BY <1>1, <1>2 DEF Accept, TypeOK, Goto, Place, poolVars, ctxVars, idleVars
<1>3. CASE Pop
  <2>1. Head(free) \in Context /\ Tail(free) \in Seq(Context)
    BY <1>1, <1>3, HeadTailProperties DEF Pop, TypeOK
  <2> QED
    BY <1>1, <1>3, <2>1 DEF Pop, TypeOK, Goto, Place, idleVars
<1>4. CASE Attach
  <2>1. GetWorkLoop \in Loop
    BY <1>1, WorkLoop, Setting DEF TypeOK
  <2> QED
    BY <1>1, <1>4, <2>1 DEF Attach, TypeOK, Goto, Place, Accepting, poolVars, idleVars
<1>5. CASE AttachFails
  BY <1>1, <1>5 DEF AttachFails, CallClose, TypeOK, Goto, Place, Accepting, poolVars, ctxVars, idleVars
<1>6. CASE GiveBack
  <2>1. PutFree(Listener, "giveBack", "idle") /\ "idle" \in Place
    BY <1>6 DEF GiveBack, Place
  <2>2. pc' \in [Thread -> Place] /\ free' \in Seq(Context)
    BY <1>1, <2>1 DEF PutFree, TypeOK, Goto
  <2> QED
    BY <1>1, <2>1, <2>2 DEF PutFree, TypeOK, ctxVars, idleVars
<1>7. CASE CountConn
  <2>1. current' \in 0..setup.maxConn
    BY <1>1, <1>7, Setting DEF CountConn, PoolInv, Counted, TypeOK
  <2> QED
    BY <1>1, <1>7, <2>1 DEF CountConn, TypeOK, Goto, Place, ctxVars, idleVars
<1>8. CASE Emplace
  BY <1>1, <1>8 DEF Emplace, TypeOK, Goto, Place, ctxVars, idleVars
<1>9. CASE Monitor
  <2>1. hand \in Client /\ [ctx |-> cur[Listener], sock |-> hand] \in Entry
    BY <1>1, <1>9 DEF Monitor, Accepting, Entry
  <2>2. buckets' \in Seq(SUBSET Entry) /\ Len(buckets') <= BufferSize
    BY <1>1, <1>9, <2>1, InsertTypes DEF Monitor
  <2> QED
    BY <1>1, <1>9, <2>1, <2>2 DEF Monitor, TypeOK, Goto, Place, poolVars, ctxVars
<1> QED
  BY <1>2, <1>3, <1>4, <1>5, <1>6, <1>7, <1>8, <1>9 DEF AcceptHelper

\* The steps of the wheel keep the types.
LEMMA WheelTypes ==
    ASSUME PoolInv, UNCHANGED setup,
           ProcessIdlConn \/ Evict \/ \E l \in Loop : AddConnToMonitor(l)
    PROVE  TypeOK'
<1>1. /\ TypeOK /\ Listener \in Loop /\ Listener \in Thread /\ Main # Listener /\ setup' = setup
      /\ DOMAIN todo = Thread /\ \A l \in Loop : l \in Thread
  BY Setting, LoopsAndMain DEF PoolInv, TypeOK, Threads, LoopPlaces, MainPlaces, Events
<1>2. CASE ProcessIdlConn
  <2> DEFINE longer == Append(buckets, {})
  <2>1. /\ longer \in Seq(SUBSET Entry) /\ longer # <<>> /\ Len(longer) = Len(buckets) + 1
        /\ Head(longer) \in SUBSET Entry
        /\ Tail(longer) \in Seq(SUBSET Entry) /\ Len(Tail(longer)) = Len(buckets)
    <3>1. longer \in Seq(SUBSET Entry) /\ longer # <<>> /\ Len(longer) = Len(buckets) + 1
      <4>1. buckets \in Seq(SUBSET Entry) /\ {} \in SUBSET Entry
        BY <1>1 DEF TypeOK
      <4>2. longer \in Seq(SUBSET Entry)
        BY <4>1
      <4> QED
        BY <4>1, <4>2
    <3>2. Len(Tail(longer)) = Len(longer) - 1 /\ Len(buckets) \in Nat
      BY <1>1, <3>1, HeadTailProperties DEF TypeOK
    <3> QED
      BY <3>1, <3>2, HeadTailProperties
  <2>2. buckets' \in Seq(SUBSET Entry) /\ Len(buckets') <= BufferSize
    <3>1. Len(buckets) \in Nat /\ BufferSize \in Nat /\ Len(buckets) <= BufferSize
      BY <1>1, ServiceAssumption DEF TypeOK
    <3> QED
      BY <1>2, <2>1, <3>1 DEF ProcessIdlConn
  <2>3. todo'[Listener] \subseteq Entry /\ \A t \in Thread : t # Listener => todo'[t] = todo[t]
    BY <1>1, <1>2, <2>1 DEF ProcessIdlConn
  <2>4. todo'[Main] \subseteq Context /\ \A l \in Loop : todo'[l] \subseteq Entry
    BY <1>1, <2>3, LoopsAndMain DEF TypeOK
  <2> QED
    BY <1>1, <1>2, <2>2, <2>4 DEF ProcessIdlConn, TypeOK, Goto, Place, poolVars, ctxVars
<1>3. CASE Evict
  <2>1. /\ \A t \in Thread : todo'[t] = todo[t] \/ todo'[t] \subseteq todo[t]
    BY <1>1, <1>3 DEF Evict
  <2>2. todo'[Main] \subseteq Context /\ \A l \in Loop : todo'[l] \subseteq Entry
    BY <1>1, <2>1, LoopsAndMain DEF TypeOK
  <2>3. \A e \in todo[Listener] : e.ctx \in Context
    BY <1>1 DEF TypeOK, Entry
  <2>4. pc' \in [Thread -> Place] /\ ret' \in [Thread -> Place] /\ cur' \in [Thread -> Context]
    <3>1. pc' \in [Thread -> Place]
      <4>1. pc' = [pc EXCEPT ![Listener] = "idle"] \/ pc' = [pc EXCEPT ![Listener] = "close"]
        BY <1>3 DEF Evict, CallClose, Goto
      <4> QED
        BY <1>1, <4>1 DEF TypeOK, Place
    <3>2. ret' \in [Thread -> Place]
      BY <1>1, <1>3 DEF Evict, CallClose, TypeOK, Place
    <3>3. cur' \in [Thread -> Context]
      BY <1>1, <1>3, <2>3 DEF Evict, CallClose, TypeOK
    <3> QED
      BY <3>1, <3>2, <3>3
  <2> QED
    BY <1>1, <1>3, <2>2, <2>4 DEF Evict, TypeOK, poolVars, ctxVars, idleVars
<1>4. ASSUME NEW l \in Loop, AddConnToMonitor(l)
      PROVE  TypeOK'
  <2>1. PICK c \in Context : weakEntry[c] # None /\ InsertEntry([ctx |-> c, sock |-> weakEntry[c]])
    BY <1>4 DEF AddConnToMonitor
  <2>2. [ctx |-> c, sock |-> weakEntry[c]] \in Entry
    BY <1>1, <2>1 DEF TypeOK, Entry
  <2>3. buckets' \in Seq(SUBSET Entry) /\ Len(buckets') <= BufferSize
    BY <1>1, <2>1, <2>2, InsertTypes
  <2> QED
    BY <1>1, <1>4, <2>3 DEF AddConnToMonitor, TypeOK, poolVars, ctxVars, threadVars
<1> QED
  BY <1>2, <1>3, <1>4

\* The steps of the clients, of Error and of Stop keep the types.
LEMMA OtherTypes ==
    ASSUME PoolInv, UNCHANGED setup,
           Stop \/ (\E k \in Client : Connect(k) \/ HangUp(k)) \/ (\E l \in Loop : Error(l))
    PROVE  TypeOK'
<1>1. /\ TypeOK /\ Main \in Thread /\ setup' = setup /\ DOMAIN todo = Thread
      /\ Main \notin Loop /\ \A l \in Loop : l \in Thread
  BY LoopsAndMain DEF PoolInv, TypeOK, Threads, LoopPlaces, MainPlaces, Events
<1>2. ASSUME NEW k \in Client, Connect(k) \/ HangUp(k)
      PROVE  TypeOK'
  BY <1>1, <1>2 DEF Connect, HangUp, TypeOK, poolVars, ctxVars, idleVars, threadVars
<1>3. ASSUME NEW l \in Loop, Error(l)
      PROVE  TypeOK'
  BY <1>1, <1>3 DEF Error, CallClose, TypeOK, Goto, Place, poolVars, ctxVars, idleVars
<1>4. CASE StopBegin
  BY <1>1, <1>4 DEF StopBegin, TypeOK, Goto, Place, poolVars, ctxVars, idleVars
<1>5. CASE StopClose
  BY <1>1, <1>5 DEF StopClose, CallClose, TypeOK, Goto, Place, poolVars, ctxVars, idleVars
<1>6. CASE StopNext
  BY <1>1, <1>6 DEF StopNext, TypeOK, Goto, Place, poolVars, ctxVars, idleVars
<1>7. CASE StopClear
  <2>1. \A i \in DOMAIN free : free[i] \in Context
    BY <1>1 DEF TypeOK
  <2> QED
    BY <1>1, <1>7, <2>1 DEF StopClear, TypeOK, Goto, Place, ctxVars, idleVars
<1> QED
  BY <1>2, <1>3, <1>4, <1>5, <1>6, <1>7 DEF Stop

-----------------------------------------------------------------------------
(* Where the threads are                                                   *)

\* Every step keeps the threads to their places.
LEMMA ThreadsStep ==
    ASSUME PoolInv, Next
    PROVE  Threads'
<1>1. /\ TypeOK /\ LoopPlaces /\ MainPlaces /\ Events /\ UNCHANGED setup /\ Main \in Thread
      /\ Listener \in Loop /\ Listener \in Thread /\ Main # Listener /\ Main \notin Loop
      /\ \A l \in Loop : l \in Thread /\ l # Main /\ l \in Nat
      /\ \A t \in Thread : t \in Loop \/ t = Main
      /\ setup.workThreads \in Nat /\ Listener <= setup.workThreads
  BY Setting, LoopsAndMain DEF PoolInv, TypeOK, Next, Threads, Listener
<1> USE DEF Closing, Accepting, Stopping, Goto, poolVars, ctxVars, idleVars, threadVars
<1>2. ASSUME NEW t \in Thread, Close(t) \/ (t \in Loop /\ ErrorEnd(t))
      PROVE  Threads'
  <2>1. /\ UNCHANGED <<todo, ret, base, gone, hand>>
        /\ \A u \in Thread : u # t => pc'[u] = pc[u]
        /\ \/ pc[t] \in Closing /\ pc'[t] \in (Closing \ {"close"}) \cup {ret[t]}
           \/ t \in Loop /\ pc[t] \in {"recycleAgain", "putFreeAgain"} /\ pc'[t] \in {"putFreeAgain", "idle"}
    BY <1>1, <1>2 DEF Close, ErrorEnd, CloseBegin, Recycle, PutFree, Disconnect, MarkExit, TypeOK
  <2>2. ASSUME NEW l \in Loop
        PROVE  /\ pc'[l] \in Closing \cup {"idle", "recycleAgain", "putFreeAgain"}
                     \cup (IF l = Listener THEN Accepting \cup {"evict"} ELSE {})
               /\ pc'[l] \in Closing =>
                     ret'[l] \in {"recycleAgain"} \cup (IF l = Listener THEN {"giveBack", "evict"} ELSE {})
               /\ l > setup.workThreads => pc'[l] = "idle"
    <3>1. CASE l = t
      BY <1>1, <2>1, <3>1 DEF LoopPlaces
    <3>2. CASE l # t
      BY <1>1, <2>1, <3>2 DEF LoopPlaces
    <3> QED
      BY <3>1, <3>2
  <2>3. LoopPlaces'
    BY <1>1, <2>2 DEF LoopPlaces
  <2>4. MainPlaces'
    BY <1>1, <2>1 DEF MainPlaces
  <2>5. Events'
    BY <1>1, <2>1 DEF Events, LoopPlaces
  <2> QED
    BY <2>3, <2>4, <2>5 DEF Threads
<1>3. ASSUME NEW l \in Loop, Error(l)
      PROVE  Threads'
  <2>1. /\ UNCHANGED <<todo, base, gone, hand>> /\ l <= setup.workThreads
        /\ \A u \in Thread : u # l => pc'[u] = pc[u] /\ ret'[u] = ret[u]
        /\ pc'[l] = "close" /\ ret'[l] = "recycleAgain"
    <3>1. PICK c \in Context : CallClose(l, c, "recycleAgain")
      BY <1>3 DEF Error
    <3>2. UNCHANGED <<todo, base, gone, hand>> /\ l <= setup.workThreads
      BY <1>1, <1>3 DEF Error, Events
    <3> QED
      BY <1>1, <3>1, <3>2 DEF CallClose, TypeOK
  <2>2. LoopPlaces'
    BY <1>1, <2>1 DEF LoopPlaces
  <2>3. MainPlaces' /\ Events'
    BY <1>1, <2>1 DEF MainPlaces, Events
  <2> QED
    BY <2>2, <2>3 DEF Threads
<1>4. ASSUME (\E k \in Client : Connect(k) \/ HangUp(k)) \/ \E l \in Loop : AddConnToMonitor(l)
      PROVE  Threads'
  <2>1. UNCHANGED <<pc, ret, todo, base, gone, hand>>
    BY <1>4 DEF Connect, HangUp, AddConnToMonitor
  <2> QED
    BY <1>1, <2>1 DEF Threads, LoopPlaces, MainPlaces, Events
<1>5. CASE AcceptHelper
  <2>1. /\ UNCHANGED <<todo, gone>>
        /\ \A u \in Thread : u # Listener => pc'[u] = pc[u] /\ ret'[u] = ret[u]
        /\ \/ pc'[Listener] \in Accepting \cup {"idle"}
           \/ pc'[Listener] = "close" /\ ret'[Listener] = "giveBack"
    BY <1>1, <1>5 DEF AcceptHelper, Accept, Pop, Attach, AttachFails, GiveBack, PutFree, CountConn,
                      Emplace, Monitor, CallClose, TypeOK
  <2>2. \A c \in Context : base'[c] \in 1..setup.workThreads
    <3>1. GetWorkLoop \in 1..setup.workThreads
      BY <1>1, WorkLoop
    <3> QED
      BY <1>1, <1>5, <3>1 DEF AcceptHelper, Accept, Pop, Attach, AttachFails, GiveBack, PutFree,
                              CountConn, Emplace, Monitor, TypeOK, Events
  <2>3. pc'[Listener] \in Accepting \/ ret'[Listener] = "giveBack" => hand' \in Client
    BY <1>1, <1>5 DEF AcceptHelper, Accept, Pop, Attach, AttachFails, GiveBack, PutFree, CountConn,
                      Emplace, Monitor, CallClose, TypeOK, Events
  <2>4. LoopPlaces'
    BY <1>1, <2>1 DEF LoopPlaces
  <2>5. MainPlaces' /\ Events'
    BY <1>1, <2>1, <2>2, <2>3 DEF MainPlaces, Events
  <2> QED
    BY <2>4, <2>5 DEF Threads
<1>6. CASE ProcessIdlConn \/ Evict
  <2>1. /\ UNCHANGED <<base, gone, hand>>
        /\ DOMAIN todo' = Thread /\ todo' = [t \in Thread |-> todo'[t]]
        /\ \A u \in Thread : u # Listener => pc'[u] = pc[u] /\ ret'[u] = ret[u]
        /\ pc'[Listener] \in {"evict", "idle"} \/ (pc'[Listener] = "close" /\ ret'[Listener] = "evict")
        /\ ret'[Listener] \in {ret[Listener], "evict", "idle"}
    BY <1>1, <1>6 DEF ProcessIdlConn, Evict, CallClose, TypeOK, Events
  <2>2. LoopPlaces'
    BY <1>1, <2>1 DEF LoopPlaces
  <2>3. MainPlaces' /\ Events'
    BY <1>1, <2>1 DEF MainPlaces, Events
  <2> QED
    BY <2>2, <2>3 DEF Threads
<1>7. CASE Stop
  <2>1. /\ UNCHANGED <<base, hand>> /\ setup.stops
        /\ DOMAIN todo' = Thread /\ todo' = [t \in Thread |-> todo'[t]]
        /\ \A u \in Thread : u # Main => pc'[u] = pc[u] /\ ret'[u] = ret[u]
        /\ pc'[Main] \in Stopping \/ (pc'[Main] = "close" /\ ret'[Main] = "stopNext")
    <3>1. setup.stops
      BY <1>1, <1>7 DEF Stop, StopBegin, StopClose, StopNext, StopClear, MainPlaces
    <3>2. CASE StopBegin
      BY <1>1, <3>1, <3>2 DEF StopBegin, TypeOK, Events, Goto, Stopping
    <3>3. CASE StopClose
      <4>1. PICK c \in todo[Main] : /\ todo' = [todo EXCEPT ![Main] = @ \ {c}]
                                    /\ CallClose(Main, c, "stopNext")
        BY <3>3 DEF StopClose
      <4>2. UNCHANGED <<base, hand>>
        BY <3>3 DEF StopClose
      <4>3. /\ \A u \in Thread : u # Main => pc'[u] = pc[u] /\ ret'[u] = ret[u]
            /\ pc'[Main] = "close" /\ ret'[Main] = "stopNext"
        BY <1>1, <4>1 DEF CallClose, Goto, TypeOK, Thread
      <4>4. DOMAIN todo' = Thread /\ todo' = [u \in Thread |-> todo'[u]]
        <5>1. /\ DOMAIN todo = Thread
              /\ todo' = [u \in DOMAIN todo |-> IF u = Main THEN todo[Main] \ {c} ELSE todo[u]]
          BY <1>1, <4>1 DEF Events
        <5> QED
          BY <5>1
      <4> QED
        BY <3>1, <4>2, <4>3, <4>4
    <3>4. CASE StopNext
      BY <1>1, <3>1, <3>4 DEF StopNext, TypeOK, Events, Goto, Stopping
    <3>5. CASE StopClear
      BY <1>1, <3>1, <3>5 DEF StopClear, TypeOK, Events, Goto, Stopping
    <3> QED
      BY <1>7, <3>2, <3>3, <3>4, <3>5 DEF Stop
  <2>2. LoopPlaces'
    BY <1>1, <2>1 DEF LoopPlaces
  <2>3. MainPlaces' /\ Events'
    BY <1>1, <2>1 DEF MainPlaces, Events
  <2> QED
    BY <2>2, <2>3 DEF Threads
<1> QED
  BY <1>1, <1>2, <1>3, <1>4, <1>5, <1>6, <1>7 DEF Next, LoopStep

-----------------------------------------------------------------------------
(* Where the contexts are                                                  *)

\* A context at the end of the free list.
LEMMA FreeAppend ==
    ASSUME TypeOK, OnePlace, NEW d \in Context, ~InFree(d), free' = Append(free, d)
    PROVE  /\ \A c \in Context : InFree(c)' <=> InFree(c) \/ c = d
           /\ \A i, j \in DOMAIN free' : free'[i] = free'[j] => i = j
<1>1. free \in Seq(Context) /\ Len(free) \in Nat /\ DOMAIN free = 1..Len(free)
  BY DEF TypeOK
<1>2. /\ DOMAIN free' = 1..(Len(free) + 1) /\ free'[Len(free) + 1] = d
      /\ \A i \in DOMAIN free : free'[i] = free[i] /\ i \in DOMAIN free'
  BY <1>1
<1>3. \A i \in DOMAIN free' : i \in DOMAIN free \/ i = Len(free) + 1
  BY <1>1, <1>2
<1>4. ASSUME NEW c \in Context
      PROVE  InFree(c)' <=> InFree(c) \/ c = d
  <2>1. Len(free) + 1 \in DOMAIN free'
    BY <1>1, <1>2
  <2>2. InFree(c)' => InFree(c) \/ c = d
    BY <1>2, <1>3 DEF InFree
  <2>3. InFree(c) \/ c = d => InFree(c)'
    BY <1>2, <2>1 DEF InFree
  <2> QED
    BY <2>2, <2>3
<1>5. \A i, j \in DOMAIN free' : free'[i] = free'[j] => i = j
  BY <1>1, <1>2, <1>3 DEF OnePlace, InFree
<1> QED
  BY <1>4, <1>5

\* The front of the free list.
LEMMA FreePop ==
    ASSUME TypeOK, OnePlace, free # <<>>, free' = Tail(free)
    PROVE  /\ Head(free) \in Context /\ InFree(Head(free))
           /\ \A c \in Context : InFree(c)' <=> InFree(c) /\ c # Head(free)
           /\ \A i, j \in DOMAIN free' : free'[i] = free'[j] => i = j
<1>1. /\ free \in Seq(Context) /\ Len(free) \in Nat \ {0} /\ DOMAIN free = 1..Len(free)
      /\ Head(free) = free[1] /\ Head(free) \in Context
  BY DEF TypeOK
<1>2. DOMAIN free' = 1..(Len(free) - 1) /\ \A i \in DOMAIN free' : free'[i] = free[i + 1]
  BY <1>1
<1>3. 1 \in DOMAIN free /\ \A i \in DOMAIN free' : i \in Nat /\ i + 1 \in DOMAIN free /\ i + 1 # 1
  BY <1>1, <1>2
<1>4. \A i \in DOMAIN free : i = 1 \/ (i - 1 \in DOMAIN free' /\ free'[i - 1] = free[i])
  BY <1>1, <1>2
<1>5. InFree(Head(free))
  BY <1>1, <1>3 DEF InFree
<1>6. \A i, j \in DOMAIN free : free[i] = free[j] => i = j
  BY DEF OnePlace
<1>7. ASSUME NEW c \in Context
      PROVE  InFree(c)' <=> InFree(c) /\ c # Head(free)
  <2>1. InFree(c)' => InFree(c) /\ c # Head(free)
    BY <1>1, <1>2, <1>3, <1>6 DEF InFree
  <2>2. InFree(c) /\ c # Head(free) => InFree(c)'
    BY <1>1, <1>4 DEF InFree
  <2> QED
    BY <2>1, <2>2
<1>8. \A i, j \in DOMAIN free' : free'[i] = free'[j] => i = j
  BY <1>1, <1>2, <1>3, <1>6
<1> QED
  BY <1>1, <1>5, <1>7, <1>8

\* A step that moves no context.
LEMMA NoMove ==
    ASSUME OnePlace, UNCHANGED <<setup, free, conns, gone>>,
           \A t \in Thread, c \in Context : InHand(t, c)' <=> InHand(t, c),
           ret'[Listener] = "giveBack" => pc'[Listener] # "putFree"
    PROVE  OnePlace'
<1>1. ASSUME NEW c \in Context
      PROVE  PlaceOf(c)'
  <2>1. (Held(c)' <=> Held(c)) /\ (InFree(c)' <=> InFree(c)) /\ Pool(setup)' = Pool(setup)
    BY DEF Held, InFree
  <2>2. PlaceOf(c)
    BY DEF OnePlace
  <2> QED
    BY <2>1, <2>2 DEF PlaceOf
<1> QED
  BY <1>1 DEF OnePlace

\* A step by which one thread takes a context into its hands or out of them.
LEMMA OneMove ==
    ASSUME OnePlace, UNCHANGED setup, NEW t \in Thread, NEW d \in Context,
           \A s \in Thread, c \in Context : c # d \/ s # t => (InHand(s, c)' <=> InHand(s, c)),
           \A c \in Context : c # d => /\ InFree(c)' <=> InFree(c)
                                       /\ c \in conns' <=> c \in conns
                                       /\ c \in gone' <=> c \in gone,
           d \in gone' <=> d \in gone,
           \/ /\ InHand(t, d) /\ ~InHand(t, d)'
              /\ (InFree(d)' /\ d \notin conns') \/ (~InFree(d)' /\ d \in conns')
           \/ /\ InHand(t, d)' /\ ~InHand(t, d) /\ ~InFree(d)' /\ d \notin conns'
              /\ InFree(d) \/ d \in conns,
           \A i, j \in DOMAIN free' : free'[i] = free'[j] => i = j,
           ret'[Listener] = "giveBack" => pc'[Listener] # "putFree"
    PROVE  OnePlace'
<1>1. ASSUME NEW c \in Context, c # d
      PROVE  PlaceOf(c)'
  <2>1. (Held(c)' <=> Held(c)) /\ Pool(setup)' = Pool(setup)
    BY <1>1 DEF Held
  <2>2. PlaceOf(c)
    BY DEF OnePlace
  <2> QED
    BY <1>1, <2>1, <2>2 DEF PlaceOf
<1>2. PlaceOf(d)'
  <2>1. PlaceOf(d) /\ Pool(setup)' = Pool(setup)
    BY DEF OnePlace
  <2>2. CASE InHand(t, d)
    <3>1. ~Held(d)' /\ d \in Pool(setup) /\ d \notin gone
      BY <2>1, <2>2 DEF PlaceOf, Held
    <3> QED
      BY <2>1, <2>2, <3>1 DEF PlaceOf, Held
  <2>3. CASE ~InHand(t, d)
    <3>1. Held(d)' /\ ~Held(d) /\ d \in Pool(setup) /\ d \notin gone
      BY <2>1, <2>3 DEF PlaceOf, Held
    <3>2. \A s \in Thread : InHand(s, d)' => s = t
      BY <2>3, <3>1 DEF Held
    <3> QED
      BY <2>1, <2>3, <3>1, <3>2 DEF PlaceOf
  <2> QED
    BY <2>2, <2>3
<1> QED
  BY <1>1, <1>2 DEF OnePlace

\* Close and RecycleClientConn: a context goes from the map into the hands of the thread
\* that finds it there, and from its hands to the free list.
LEMMA ClosePlaces ==
    ASSUME PoolInv, UNCHANGED setup,
           NEW t \in Thread, Close(t) \/ (t \in Loop /\ ErrorEnd(t))
    PROVE  OnePlace'
<1>1. /\ TypeOK /\ OnePlace /\ cur[t] \in Context /\ PlaceOf(cur[t]) /\ Listener \in Thread
      /\ pc \in [Thread -> Place]
  BY Setting, LoopsAndMain DEF PoolInv, TypeOK, OnePlace
<1>2. pc[t] \in Closing => ret[t] \in {"recycleAgain", "giveBack", "evict", "stopNext"}
  BY LoopsAndMain DEF PoolInv, Threads, LoopPlaces, MainPlaces
<1>3. ret[t] = "giveBack" /\ pc[t] \in Closing => t = Listener
  BY LoopsAndMain DEF PoolInv, Threads, LoopPlaces, MainPlaces
<1> USE DEF Goto, poolVars, ctxVars, idleVars, Closing
<1>4. CASE CloseBegin(t) \/ Disconnect(t) \/ MarkExit(t)
  <2>1. \A s \in Thread, c \in Context : InHand(s, c)' <=> InHand(s, c)
    BY <1>1, <1>2, <1>4 DEF CloseBegin, Disconnect, MarkExit, InHand
  <2>2. ret'[Listener] = "giveBack" => pc'[Listener] # "putFree"
    BY <1>1, <1>2, <1>4 DEF CloseBegin, Disconnect, MarkExit, OnePlace
  <2>3. UNCHANGED <<setup, free, conns, gone>>
    BY <1>4 DEF CloseBegin, Disconnect, MarkExit
  <2> QED
    BY <1>1, <2>1, <2>2, <2>3, NoMove
<1>5. ASSUME NEW here, NEW put, NEW skip, Recycle(t, here, put, skip),
             \/ here = "recycle" /\ put = "putFree" /\ skip = "disconnect"
             \/ here = "recycleAgain" /\ put = "putFreeAgain" /\ skip = "idle"
      PROVE  OnePlace'
  <2>1. CASE cur[t] \in conns
    <3>1. ~InHand(t, cur[t]) /\ ~InFree(cur[t])
      BY <1>1, <2>1 DEF PlaceOf, Held
    <3>2. here = "recycle" => ret[t] # "giveBack"
      BY <1>5, <3>1 DEF InHand, Recycle
    <3>3. InHand(t, cur[t])' /\ cur' = cur /\ conns' = conns \ {cur[t]}
          /\ UNCHANGED <<free, gone, ret>>
      BY <1>1, <1>5, <2>1 DEF Recycle, InHand
    <3>4. \A s \in Thread, c \in Context : c # cur[t] \/ s # t => (InHand(s, c)' <=> InHand(s, c))
      BY <1>1, <1>5, <3>3 DEF Recycle, InHand
    <3>5. ret'[Listener] = "giveBack" => pc'[Listener] # "putFree"
      BY <1>1, <1>5, <3>2, <3>3 DEF Recycle, OnePlace
    <3>6. \A c \in Context : InFree(c)' <=> InFree(c)
      BY <3>3 DEF InFree
    <3>7. \A i, j \in DOMAIN free' : free'[i] = free'[j] => i = j
      BY <1>1, <3>3 DEF OnePlace
    <3> QED
      BY <1>1, <2>1, <3>1, <3>3, <3>4, <3>5, <3>6, <3>7, OneMove
  <2>2. CASE cur[t] \notin conns
    <3>1. \A s \in Thread, c \in Context : InHand(s, c)' <=> InHand(s, c)
      BY <1>1, <1>5, <2>2 DEF Recycle, InHand
    <3>2. UNCHANGED <<free, conns, gone>>
      BY <1>5, <2>2 DEF Recycle
    <3>3. ret'[Listener] = "giveBack" => pc'[Listener] # "putFree"
      BY <1>1, <1>5, <2>2 DEF Recycle, OnePlace
    <3> QED
      BY <1>1, <3>1, <3>2, <3>3, NoMove
  <2> QED
    BY <2>1, <2>2
<1>6. ASSUME NEW here, NEW next, PutFree(t, here, next),
             (here = "putFree" /\ next = "disconnect") \/ (here = "putFreeAgain" /\ next = "idle")
      PROVE  OnePlace'
  <2>1. InHand(t, cur[t]) /\ ~InFree(cur[t]) /\ cur[t] \notin conns
    BY <1>1, <1>6 DEF InHand, PutFree, PlaceOf, Held
  <2>2. here = "putFree" => ret[t] # "giveBack"
    BY <1>1, <1>3, <1>6 DEF PutFree, OnePlace
  <2>3. /\ ~InHand(t, cur[t])' /\ UNCHANGED <<cur, conns, gone, ret>> /\ free' = Append(free, cur[t])
    BY <1>1, <1>6, <2>2 DEF PutFree, InHand
  <2>4. \A s \in Thread, c \in Context : c # cur[t] \/ s # t => (InHand(s, c)' <=> InHand(s, c))
    BY <1>1, <1>6, <2>3 DEF PutFree, InHand
  <2>5. ret'[Listener] = "giveBack" => pc'[Listener] # "putFree"
    BY <1>1, <1>6, <2>3 DEF PutFree, OnePlace
  <2>6. /\ \A c \in Context : InFree(c)' <=> InFree(c) \/ c = cur[t]
        /\ \A i, j \in DOMAIN free' : free'[i] = free'[j] => i = j
    BY <1>1, <2>1, <2>3, FreeAppend
  <2> QED
    BY <1>1, <2>1, <2>3, <2>4, <2>5, <2>6, OneMove
<1> QED
  BY <1>4, <1>5, <1>6 DEF Close, ErrorEnd

\* AcceptHelper: from the front of the free list into the hands of the listener's loop,
\* and on into the map, or back.
LEMMA AcceptPlaces ==
    ASSUME PoolInv, UNCHANGED setup, AcceptHelper
    PROVE  OnePlace'
<1>1. /\ TypeOK /\ OnePlace /\ cur[Listener] \in Context /\ PlaceOf(cur[Listener])
      /\ Listener \in Thread /\ pc \in [Thread -> Place] /\ cur \in [Thread -> Context]
      /\ ret \in [Thread -> Place]
  BY Setting, LoopsAndMain DEF PoolInv, TypeOK, OnePlace
<1> USE DEF Goto, poolVars, ctxVars, idleVars
<1>2. CASE Accept \/ Attach \/ AttachFails \/ CountConn \/ Monitor
  <2>1. \A s \in Thread, c \in Context : InHand(s, c)' <=> InHand(s, c)
    BY <1>1, <1>2 DEF Accept, Attach, AttachFails, CallClose, CountConn, Monitor, InHand
  <2>2. ret'[Listener] = "giveBack" => pc'[Listener] # "putFree"
    BY <1>1, <1>2 DEF Accept, Attach, AttachFails, CallClose, CountConn, Monitor, OnePlace
  <2>3. UNCHANGED <<free, conns, gone>>
    BY <1>2 DEF Accept, Attach, AttachFails, CountConn, Monitor
  <2> QED
    BY <1>1, <2>1, <2>2, <2>3, NoMove
<1>3. CASE Pop
  <2>1. PICK d \in Context : d = Head(free)
    BY <1>1, <1>3, FreePop DEF Pop
  <2>2. /\ InFree(d) /\ UNCHANGED <<conns, gone, ret>>
        /\ \A c \in Context : InFree(c)' <=> InFree(c) /\ c # d
        /\ \A i, j \in DOMAIN free' : free'[i] = free'[j] => i = j
    BY <1>1, <1>3, <2>1, FreePop DEF Pop
  <2>3. d \notin conns /\ ~InHand(Listener, d)
    BY <1>1, <2>2 DEF OnePlace, PlaceOf, Held
  <2>4. cur' = [cur EXCEPT ![Listener] = d] /\ pc' = [pc EXCEPT ![Listener] = "attach"]
    BY <1>3, <2>1 DEF Pop
  <2>5. InHand(Listener, d)'
    BY <1>1, <2>4 DEF InHand
  <2>6. \A s \in Thread, c \in Context : c # d \/ s # Listener => (InHand(s, c)' <=> InHand(s, c))
    BY <1>1, <1>3, <2>2, <2>4 DEF Pop, InHand
  <2>7. ret'[Listener] = "giveBack" => pc'[Listener] # "putFree"
    BY <1>1, <1>3 DEF Pop
  <2> QED
    BY <1>1, <2>2, <2>3, <2>5, <2>6, <2>7, OneMove
<1>4. CASE GiveBack
  <2>1. /\ InHand(Listener, cur[Listener]) /\ ~InFree(cur[Listener]) /\ cur[Listener] \notin conns
    BY <1>1, <1>4 DEF InHand, GiveBack, PutFree, PlaceOf, Held
  <2>2. /\ ~InHand(Listener, cur[Listener])' /\ UNCHANGED <<cur, conns, gone, ret>>
        /\ free' = Append(free, cur[Listener])
    BY <1>1, <1>4 DEF GiveBack, PutFree, InHand
  <2>3. /\ \A c \in Context : InFree(c)' <=> InFree(c) \/ c = cur[Listener]
        /\ \A i, j \in DOMAIN free' : free'[i] = free'[j] => i = j
    BY <1>1, <2>1, <2>2, FreeAppend
  <2>4. /\ ret'[Listener] = "giveBack" => pc'[Listener] # "putFree"
        /\ \A s \in Thread, c \in Context : c # cur[Listener] \/ s # Listener => (InHand(s, c)' <=> InHand(s, c))
    BY <1>1, <1>4 DEF GiveBack, PutFree, InHand
  <2> QED
    BY <1>1, <2>1, <2>2, <2>3, <2>4, OneMove
<1>5. CASE Emplace
  <2>1. /\ InHand(Listener, cur[Listener]) /\ ~InFree(cur[Listener]) /\ cur[Listener] \notin conns
    BY <1>1, <1>5 DEF InHand, Emplace, PlaceOf, Held
  <2>2. /\ ~InHand(Listener, cur[Listener])' /\ UNCHANGED <<cur, free, gone, ret>>
        /\ conns' = conns \cup {cur[Listener]}
    BY <1>1, <1>5 DEF Emplace, InHand
  <2>3. /\ ret'[Listener] = "giveBack" => pc'[Listener] # "putFree"
        /\ \A s \in Thread, c \in Context : c # cur[Listener] \/ s # Listener => (InHand(s, c)' <=> InHand(s, c))
    BY <1>1, <1>5 DEF Emplace, InHand
  <2>4. /\ \A c \in Context : InFree(c)' <=> InFree(c)
        /\ \A i, j \in DOMAIN free' : free'[i] = free'[j] => i = j
    BY <1>1, <2>2 DEF InFree, OnePlace
  <2> QED
    BY <1>1, <2>1, <2>2, <2>3, <2>4, OneMove
<1> QED
  BY <1>2, <1>3, <1>4, <1>5 DEF AcceptHelper

\* Everything else leaves the contexts where they are, but for the end of Stop, which
\* destroys those in the free list.
LEMMA OtherPlaces ==
    ASSUME PoolInv, UNCHANGED setup,
           \/ Stop \/ ProcessIdlConn \/ Evict
           \/ \E k \in Client : Connect(k) \/ HangUp(k)
           \/ \E l \in Loop : Error(l) \/ AddConnToMonitor(l)
    PROVE  OnePlace'
<1>1. /\ TypeOK /\ OnePlace /\ Listener \in Thread /\ Main \in Thread /\ Main # Listener
      /\ pc \in [Thread -> Place] /\ cur \in [Thread -> Context] /\ ret \in [Thread -> Place]
      /\ \A l \in Loop : l \in Thread
  BY Setting, LoopsAndMain DEF PoolInv, TypeOK
<1> USE DEF Goto, CallClose, poolVars, ctxVars, idleVars, threadVars
<1>2. CASE StopClear
  <2>1. \A s \in Thread, c \in Context : InHand(s, c)' <=> InHand(s, c)
    BY <1>1, <1>2 DEF StopClear, InHand
  <2>2. /\ DOMAIN free' = {} /\ UNCHANGED conns /\ \A c \in Context : c \in gone' <=> c \in gone \/ InFree(c)
    BY <1>1, <1>2 DEF StopClear, InFree, TypeOK
  <2>3. ASSUME NEW c \in Context
        PROVE  PlaceOf(c)'
    <3>1. (Held(c)' <=> Held(c)) /\ ~InFree(c)' /\ Pool(setup)' = Pool(setup)
      BY <2>1, <2>2 DEF Held, InFree
    <3>2. PlaceOf(c)
      BY <1>1 DEF OnePlace
    <3> QED
      BY <2>1, <2>2, <3>1, <3>2 DEF PlaceOf
  <2>4. ret'[Listener] = "giveBack" => pc'[Listener] # "putFree"
    BY <1>1, <1>2 DEF StopClear, OnePlace
  <2> QED
    BY <2>2, <2>3, <2>4 DEF OnePlace
<1>3. ASSUME UNCHANGED <<free, conns, gone>>,
             \A s \in Thread, c \in Context : InHand(s, c)' <=> InHand(s, c),
             ret'[Listener] = "giveBack" => pc'[Listener] # "putFree"
      PROVE  OnePlace'
  BY <1>1, <1>3, NoMove
<1>4. CASE StopBegin \/ StopClose \/ StopNext
  BY <1>1, <1>3, <1>4 DEF StopBegin, StopClose, StopNext, InHand, OnePlace
<1>5. CASE ProcessIdlConn \/ Evict
  BY <1>1, <1>3, <1>5 DEF ProcessIdlConn, Evict, InHand, OnePlace
<1>6. CASE \E k \in Client : Connect(k) \/ HangUp(k)
  BY <1>1, <1>3, <1>6 DEF Connect, HangUp, InHand, OnePlace
<1>7. CASE \E l \in Loop : Error(l) \/ AddConnToMonitor(l)
  BY <1>1, <1>3, <1>7 DEF Error, AddConnToMonitor, InHand, OnePlace
<1> QED
  BY <1>2, <1>4, <1>5, <1>6, <1>7 DEF Stop

-----------------------------------------------------------------------------
(* The number of connections                                               *)

\* A step that leaves the counter, the map, and the connection that is being accepted.
LEMMA SameCount ==
    ASSUME Counted, UNCHANGED <<setup, conns, current>>,
           pc'[Listener] = "emplace" <=> pc[Listener] = "emplace",
           pc'[Listener] \in {"pop", "attach", "count"} =>
               pc[Listener] \in {"pop", "attach", "count"} \/ current < setup.maxConn
    PROVE  Counted'
<1>1. conns' = conns /\ current' = current /\ setup' = setup
  OBVIOUS
<1> QED
  BY <1>1 DEF Counted

\* The counter goes up before the map, and down with it.
LEMMA CountedStep ==
    ASSUME PoolInv, Next
    PROVE  Counted'
<1>1. /\ TypeOK /\ LoopPlaces /\ MainPlaces /\ OnePlace /\ Counted /\ UNCHANGED setup
      /\ Listener \in Loop /\ Listener \in Thread /\ Main # Listener
      /\ \A l \in Loop : l \in Thread /\ l # Main
      /\ \A t \in Thread : t \in Loop \/ t = Main
      /\ setup.maxConn \in Nat /\ current \in Nat /\ pc \in [Thread -> Place]
  BY Setting, LoopsAndMain, ConnsCount DEF PoolInv, TypeOK, Next, Threads, Listener
<1> USE DEF Goto, poolVars, ctxVars, idleVars, threadVars
<1>2. ASSUME NEW t \in Thread, Close(t) \/ (t \in Loop /\ ErrorEnd(t))
      PROVE  Counted'
  <2>1. pc'[Listener] = pc[Listener] \/ t = Listener
    BY <1>1, <1>2 DEF Close, ErrorEnd, CloseBegin, Recycle, PutFree, Disconnect, MarkExit
  <2>2. t = Listener => /\ pc[Listener] \in Closing \cup {"recycleAgain", "putFreeAgain"}
                        /\ pc'[Listener] \in (Closing \cup {"recycleAgain", "putFreeAgain", "idle", "giveBack", "evict"})
    BY <1>1, <1>2 DEF Close, ErrorEnd, CloseBegin, Recycle, PutFree, Disconnect, MarkExit, LoopPlaces, Closing
  <2>3. /\ pc'[Listener] = "emplace" <=> pc[Listener] = "emplace"
        /\ pc'[Listener] \in {"pop", "attach", "count"} => pc[Listener] \in {"pop", "attach", "count"}
    BY <2>1, <2>2 DEF Closing
  <2>4. CASE UNCHANGED <<conns, current>>
    BY <1>1, <2>3, <2>4, SameCount
  <2>5. CASE cur[t] \in conns /\ conns' = conns \ {cur[t]} /\ current' = current - 1
    <3>1. /\ Cardinality(conns') = Cardinality(conns) - 1 /\ Cardinality(conns) \in Nat
      BY <2>5, ConnsCount
    <3>2. current' = Cardinality(conns') + (IF pc'[Listener] = "emplace" THEN 1 ELSE 0)
      BY <1>1, <2>3, <2>5, <3>1 DEF Counted
    <3>3. pc'[Listener] \in {"pop", "attach", "count"} => current' < setup'.maxConn
      BY <1>1, <2>3, <2>5 DEF Counted
    <3> QED
      BY <3>2, <3>3 DEF Counted
  <2> QED
    BY <1>2, <2>4, <2>5 DEF Close, ErrorEnd, CloseBegin, Recycle, PutFree, Disconnect, MarkExit
<1>3. CASE CountConn
  <2>1. /\ pc[Listener] = "count" /\ pc'[Listener] = "emplace" /\ conns' = conns
        /\ current' = current + 1 /\ current = Cardinality(conns) + 0
    BY <1>1, <1>3 DEF CountConn, Counted
  <2> QED
    BY <1>1, <2>1, ConnsCount DEF Counted
<1>4. CASE Emplace
  <2>1. cur[Listener] \notin conns
    BY <1>1, <1>4 DEF Emplace, OnePlace, PlaceOf, Held, InHand, TypeOK
  <2>2. /\ Cardinality(conns') = Cardinality(conns) + 1 /\ Cardinality(conns) \in Nat
    BY <1>4, <2>1, ConnsCount DEF Emplace
  <2>3. pc[Listener] = "emplace" /\ pc'[Listener] \in {"monitor", "idle"} /\ current' = current
    BY <1>1, <1>4 DEF Emplace
  <2> QED
    BY <1>1, <2>2, <2>3 DEF Counted
<1>5. CASE \/ Accept \/ Pop \/ Attach \/ AttachFails \/ GiveBack \/ Monitor \/ ProcessIdlConn \/ Evict
           \/ Stop \/ \E l \in Loop : Error(l) \/ AddConnToMonitor(l)
           \/ \E k \in Client : Connect(k) \/ HangUp(k)
  <2>1. UNCHANGED <<conns, current>>
    BY <1>5 DEF Accept, Pop, Attach, AttachFails, GiveBack, PutFree, Monitor, ProcessIdlConn, Evict,
                Stop, StopBegin, StopClose, StopNext, StopClear, Error, AddConnToMonitor, Connect, HangUp
  <2>2. pc'[Listener] = "emplace" <=> pc[Listener] = "emplace"
    BY <1>1, <1>5 DEF Accept, Pop, Attach, AttachFails, GiveBack, PutFree, Monitor, ProcessIdlConn, Evict,
                CallClose, Stop, StopBegin, StopClose, StopNext, StopClear, Error, AddConnToMonitor,
                Connect, HangUp
  <2>3. pc'[Listener] \in {"pop", "attach", "count"} =>
               pc[Listener] \in {"pop", "attach", "count"} \/ current < setup.maxConn
    BY <1>1, <1>5 DEF Accept, Pop, Attach, AttachFails, GiveBack, PutFree, Monitor, ProcessIdlConn, Evict,
                CallClose, Stop, StopBegin, StopClose, StopNext, StopClear, Error, AddConnToMonitor,
                Connect, HangUp
  <2> QED
    BY <1>1, <2>1, <2>2, <2>3, SameCount
<1> QED
  BY <1>2, <1>3, <1>4, <1>5, LoopsAndMain DEF Next, LoopStep, AcceptHelper

-----------------------------------------------------------------------------
(* The invariant                                                           *)

\* The pool that Initialize has filled.
LEMMA PoolInit == Init => PoolInv
<1> SUFFICES ASSUME Init PROVE PoolInv
  OBVIOUS
<1>1. /\ setup \in Setups /\ setup.maxConn \in Nat \ {0} /\ Above \in Nat
      /\ Pool(setup) = 1..(setup.maxConn + Above)
      /\ Pool(setup) \subseteq Context /\ Listener \in Loop /\ Listener \in Thread /\ 1 \in Context
      /\ Listener \in 1..setup.workThreads
      /\ CountMod \in Nat \ {0, 1} /\ BufferSize \in Nat \ {0} /\ Main \notin Loop /\ Main \in Thread
      /\ Listener # Main
  BY Setting, LoopsAndMain, ServiceAssumption DEF Init, Listener
<1>2. free \in Seq(Context) /\ DOMAIN free = Pool(setup) /\ \A i \in Pool(setup) : free[i] = i
  <2>1. setup.maxConn + Above \in Nat /\ free = [i \in 1..(setup.maxConn + Above) |-> i]
    BY <1>1 DEF Init
  <2>2. \A i \in 1..(setup.maxConn + Above) : i \in Context
    BY <1>1
  <2> QED
    BY <1>1, <2>1, <2>2, IsASeq
<1>3. TypeOK
  <2>1. /\ count \in [Loop -> 0..(CountMod - 1)] /\ current \in 0..setup.maxConn
        /\ buckets \in Seq(SUBSET Entry) /\ Len(buckets) <= BufferSize
    BY <1>1 DEF Init
  <2>2. /\ isExit \in [Context -> BOOLEAN] /\ isConnected \in [Context -> BOOLEAN]
        /\ hasBev \in [Context -> BOOLEAN] /\ base \in [Context -> Loop]
        /\ client \in [Context -> Client \cup {None}] /\ weakEntry \in [Context -> Client \cup {None}]
        /\ sock \in [Client -> {"new", "waiting", "open", "closed"}]
    BY <1>1 DEF Init
  <2>3. /\ pc \in [Thread -> Place] /\ ret \in [Thread -> Place] /\ cur \in [Thread -> Context]
        /\ todo[Main] \subseteq Context /\ \A l \in Loop : todo[l] \subseteq Entry
    BY <1>1 DEF Init, Place, Thread
  <2> QED
    BY <1>1, <1>2, <2>1, <2>2, <2>3 DEF Init, TypeOK
<1>4. Threads
  BY <1>1 DEF Init, Threads, LoopPlaces, MainPlaces, Events, Thread, Closing, Accepting
<1>5. OnePlace
  <2>1. \A t \in Thread, c \in Context : ~InHand(t, c)
    BY DEF Init, InHand
  <2>2. \A c \in Context : InFree(c) <=> c \in Pool(setup)
    BY <1>2 DEF InFree
  <2>3. \A c \in Context : PlaceOf(c)
    BY <2>1, <2>2 DEF PlaceOf, Held, Init
  <2> QED
    BY <1>1, <1>2, <2>3 DEF OnePlace, Init
<1>6. Counted
  BY <1>1, FS_EmptySet DEF Init, Counted
<1> QED
  BY <1>3, <1>4, <1>5, <1>6 DEF PoolInv

\* Every step keeps the invariant.
LEMMA PoolStep == PoolInv /\ [Next]_vars => PoolInv'
<1>1. ASSUME PoolInv, Next
      PROVE  PoolInv'
  <2>1. UNCHANGED setup
    BY <1>1 DEF Next
  <2>2. TypeOK'
    BY <1>1, <2>1, CloseTypes, AcceptTypes, WheelTypes, OtherTypes, LoopsAndMain DEF Next, LoopStep
  <2>3. OnePlace'
    BY <1>1, <2>1, ClosePlaces, AcceptPlaces, OtherPlaces, LoopsAndMain DEF Next, LoopStep
  <2> QED
    BY <1>1, <2>2, <2>3, ThreadsStep, CountedStep DEF PoolInv
<1>2. ASSUME PoolInv, UNCHANGED vars
      PROVE  PoolInv'
  <2>1. TypeOK' /\ Threads'
    BY <1>2 DEF PoolInv, vars, poolVars, ctxVars, idleVars, threadVars, TypeOK, Threads, LoopPlaces,
                MainPlaces, Events
  <2>2. OnePlace'
    BY <1>2, NoMove DEF PoolInv, vars, poolVars, threadVars, InHand, OnePlace
  <2>3. Counted'
    BY <1>2, SameCount DEF PoolInv, vars, poolVars, threadVars
  <2> QED
    BY <2>1, <2>2, <2>3 DEF PoolInv
<1> QED
  BY <1>1, <1>2

\* The invariant holds always.
LEMMA PoolAlways == Spec => []PoolInv
<1> QED
  BY PoolInit, PoolStep, PTL DEF Spec

-----------------------------------------------------------------------------
(* A context is in one place, and there is one for every socket accepted   *)

\* A set with at most one element has at most one element.
LEMMA AtMostOne ==
    ASSUME NEW S, \A x, y \in S : x = y
    PROVE  Cardinality(S) = IF S = {} THEN 0 ELSE 1
<1>1. CASE S = {}
  BY <1>1, FS_EmptySet
<1>2. CASE S # {}
  <2>1. PICK x \in S : S = {x}
    BY <1>2
  <2> QED
    BY <1>2, <2>1, FS_Singleton
<1> QED
  BY <1>1, <1>2

\* The number of places of a context of the pool.
LEMMA PlacesCount ==
    ASSUME PoolInv, NEW c \in Pool(setup)
    PROVE  Places(c) = 1
<1> DEFINE A == {i \in DOMAIN free : free[i] = c}
           B == {t \in Thread : InHand(t, c)}
           C == {c} \cap conns
           D == {c} \cap gone
<1>1. c \in Context /\ PlaceOf(c)
  BY Setting DEF PoolInv, TypeOK, OnePlace
<1>2. (\A x, y \in A : x = y) /\ (A # {} <=> InFree(c))
  BY DEF PoolInv, OnePlace, InFree
<1>3. (\A x, y \in B : x = y) /\ (B # {} <=> Held(c))
  BY <1>1 DEF PlaceOf, Held
<1>4. (\A x, y \in C : x = y) /\ (C # {} <=> c \in conns)
  OBVIOUS
<1>5. (\A x, y \in D : x = y) /\ (D # {} <=> c \in gone)
  OBVIOUS
<1>6. Places(c) = Cardinality(A) + Cardinality(B) + Cardinality(C) + Cardinality(D)
  BY DEF Places
<1> HIDE DEF A, B, C, D
<1>7. /\ Cardinality(A) = IF InFree(c) THEN 1 ELSE 0
      /\ Cardinality(B) = IF Held(c) THEN 1 ELSE 0
      /\ Cardinality(C) = IF c \in conns THEN 1 ELSE 0
      /\ Cardinality(D) = IF c \in gone THEN 1 ELSE 0
  BY <1>2, <1>3, <1>4, <1>5, AtMostOne
<1> QED
  BY <1>1, <1>6, <1>7 DEF PlaceOf

\* The contexts above max_conn_ are enough for the loops that may have one in hand: all
\* of them but the listener's.
EnoughAbove == \A s \in Setups : s.stops \/ s.workThreads <= Above + 1

\* AcceptHelper finds a context: those of the map are fewer than max_conn_, and each of the
\* other loops holds at most one.
LEMMA FreeAtPop ==
    ASSUME PoolInv, EnoughAbove, pc[Listener] = "pop", ~setup.stops
    PROVE  free # <<>>
<1> SUFFICES ASSUME free = <<>> PROVE FALSE
  OBVIOUS
<1> DEFINE Others == 2..setup.workThreads
           S == Pool(setup) \ conns
<1>1. /\ setup.maxConn \in Nat /\ Above \in Nat /\ setup.workThreads \in Nat \ {0}
      /\ Pool(setup) = 1..(setup.maxConn + Above) /\ Pool(setup) \subseteq Context
      /\ setup.workThreads <= Above + 1
  BY Setting, ServiceAssumption DEF PoolInv, TypeOK, EnoughAbove
<1>2. \A c \in S : \E t \in Others : InHand(t, c)
  <2> TAKE c \in S
  <2>1. PICK t \in Thread : InHand(t, c)
    <3>1. ~InFree(c) /\ c \notin gone /\ c \notin conns
      BY DEF InFree, PoolInv, Threads, MainPlaces
    <3> QED
      BY <1>1, <3>1 DEF PoolInv, OnePlace, PlaceOf, Held
  <2>2. t # Main /\ t # Listener /\ pc[t] # "idle"
    BY <2>1 DEF InHand, PoolInv, Threads, MainPlaces
  <2>3. t \in Loop /\ t \in Nat \ {0} /\ t <= setup.workThreads
    <3>1. t \in Loop /\ t \in Nat \ {0}
      BY <2>2, LoopsAndMain
    <3>2. ~(t > setup.workThreads)
      BY <2>2, <3>1 DEF PoolInv, Threads, LoopPlaces
    <3> QED
      BY <1>1, <3>1, <3>2
  <2>4. t \in Others
    BY <1>1, <2>2, <2>3 DEF Listener
  <2> QED
    BY <2>1, <2>4
<1> DEFINE f == [c \in S |-> CHOOSE t \in Others : InHand(t, c)]
<1>3. f \in [S -> Others] /\ \A c \in S : InHand(f[c], c)
  BY <1>2
<1>4. IsFiniteSet(Others) /\ Cardinality(Others) = setup.workThreads - 1
  <2>1. 2 \in Int /\ setup.workThreads \in Int /\ setup.workThreads >= 1
    BY <1>1
  <2>2. IsFiniteSet(Others) /\ Cardinality(Others) = IF 2 > setup.workThreads THEN 0 ELSE setup.workThreads - 2 + 1
    BY <2>1, FS_Interval
  <2> QED
    BY <2>1, <2>2
<1>5. /\ Cardinality(Pool(setup)) = setup.maxConn + Above
      /\ IsFiniteSet(S) /\ Cardinality(S) = Cardinality(Pool(setup)) - Cardinality(conns)
  <2>1. /\ IsFiniteSet(Pool(setup)) /\ Cardinality(Pool(setup)) = setup.maxConn + Above
    <3>1. PICK n \in Nat : n = setup.maxConn + Above
      BY <1>1
    <3>2. IsFiniteSet(1..n) /\ Cardinality(1..n) = IF 1 > n THEN 0 ELSE n - 1 + 1
      BY FS_Interval
    <3>3. Cardinality(1..n) = n
      BY <3>2
    <3> QED
      BY <1>1, <3>1, <3>2, <3>3
  <2>2. Pool(setup) \cap conns = conns
    BY DEF PoolInv, OnePlace, PlaceOf, TypeOK
  <2>3. IsFiniteSet(S) /\ Cardinality(S) = Cardinality(Pool(setup)) - Cardinality(Pool(setup) \cap conns)
    BY <2>1, FS_Difference
  <2>4. Cardinality(S) = Cardinality(Pool(setup)) - Cardinality(conns)
    BY <2>2, <2>3, Zenon
  <2> HIDE DEF S
  <2> QED
    BY <2>1, <2>3, <2>4
<1>6. Cardinality(conns) < setup.maxConn /\ Cardinality(conns) \in Nat
  BY ConnsCount DEF PoolInv, Counted
<1> HIDE DEF Others, S, f
<1>7. Cardinality(Others) < Cardinality(S)
  BY <1>1, <1>4, <1>5, <1>6
<1>8. PICK c, d \in S : c # d /\ f[c] = f[d]
  BY <1>3, <1>4, <1>5, <1>7, FS_PigeonHole
<1> QED
  BY <1>3, <1>8 DEF InHand

\* For any clients, any size of the pool and any number of loops, with a thread that stops
\* the service or without: a context is in one place, in the free list once, in the map, in
\* the hands of one thread, or destroyed; and AcceptHelper, which takes the front of the
\* list without looking, finds one there as long as nobody stops the service and it has no
\* more than DEFAULT_MAX_ABOVE_CONN + 1 loops.
THEOREM PartitionAlways ==
    ASSUME EnoughAbove
    PROVE  Spec => []Partition
<1>1. PoolInv => Partition
  BY PlacesCount, FreeAtPop DEF Partition, PoolInv
<1> QED
  BY <1>1, PoolAlways, PTL

-----------------------------------------------------------------------------
(* One loop: whose the sockets are                                         *)

Owned(k) == \E c \in Context : client[c] = k
Live(c) == isConnected[c] /\ hasBev[c] /\ ~isExit[c]

\* Every connection of the map is live and has its socket, until Close has taken it.
OwnConns ==
    \A c \in conns : Live(c) /\ (client[c] # None \/ (c = cur[Listener] /\ pc[Listener] = "recycle"))

\* A context with a socket is in the map, or about to be put there.
OwnClients ==
    \A c \in Context : client[c] # None =>
        \/ c \in conns
        \/ c = cur[Listener] /\ pc[Listener] \in {"count", "emplace"}

\* The loop accepts a socket that no context has, and sets its context up; once Close has
\* counted the connection off, the context is not in the map any more.
OwnHand ==
    /\ pc[Listener] \in {"pop", "attach"} => sock[hand] = "open" /\ ~Owned(hand)
    /\ pc[Listener] = "attach" => ~isExit[cur[Listener]]
    /\ pc[Listener] \in {"count", "emplace"} => Live(cur[Listener])
    /\ pc[Listener] \in {"count", "emplace", "monitor"} => client[cur[Listener]] = hand
    /\ pc[Listener] = "recycle" => client[cur[Listener]] = None
    /\ pc[Listener] \in {"disconnect", "markExit", "recycleAgain"} => cur[Listener] \notin conns

\* A socket that is open has one context, or is about to get it.
OwnSockets ==
    /\ \A c, d \in Context : client[c] = client[d] /\ client[c] # None => c = d
    /\ \A c \in Context : client[c] # None => sock[client[c]] = "open"
    /\ \A k \in Client : sock[k] = "open" => Owned(k) \/ (k = hand /\ pc[Listener] \in {"pop", "attach"})

OwnInv == OwnConns /\ OwnClients /\ OwnHand /\ OwnSockets

\* A connection has its own entry in the wheel, or the loop is about to put it there or to
\* close the connection.
OwnEntry(c) ==
    \/ Monitored([ctx |-> c, sock |-> client[c]])
    \/ [ctx |-> c, sock |-> client[c]] \in todo[Listener]
    \/ c = cur[Listener] /\ pc[Listener] \in {"monitor", "close", "recycle"}

WheelInv ==
    /\ setup.autoMonitor => \A c \in conns : OwnEntry(c)
    /\ todo[Listener] # {} => pc[Listener] = "evict" \/ (pc[Listener] \in Closing /\ ret[Listener] = "evict")

OneLoopInv == PoolInv /\ (OneLoop => OwnInv /\ WheelInv)

\* With one loop that nobody stops only the listener's loop does anything.
LEMMA OneActs ==
    ASSUME PoolInv, OneLoop, Next
    PROVE  \/ \E k \in Client : Connect(k) \/ HangUp(k)
           \/ AcceptHelper \/ ProcessIdlConn \/ Evict
           \/ Close(Listener) \/ Error(Listener) \/ ErrorEnd(Listener) \/ AddConnToMonitor(Listener)
<1>1. /\ LoopPlaces /\ MainPlaces /\ Events /\ ~setup.stops /\ setup.workThreads = 1
      /\ \A l \in Loop : l \in Nat \ {0} /\ (l = Listener \/ l > setup.workThreads)
  BY LoopsAndMain DEF PoolInv, Threads, OneLoop, Listener
<1>2. ASSUME NEW t \in Thread, Close(t) \/ ErrorEnd(t)
      PROVE  t = Listener
  <2>1. pc[t] # "idle"
    BY <1>2 DEF Close, ErrorEnd, CloseBegin, Recycle, PutFree, Disconnect, MarkExit
  <2> QED
    BY <1>1, <2>1, LoopsAndMain DEF LoopPlaces, MainPlaces
<1>3. ASSUME NEW l \in Loop, Error(l) \/ AddConnToMonitor(l)
      PROVE  l = Listener
  <2>1. PICK c \in Context : base[c] = l
    BY <1>3 DEF Error, AddConnToMonitor
  <2>2. base[c] \in 1..1
    BY <1>1 DEF Events
  <2> QED
    BY <2>1, <2>2 DEF Listener
<1>4. ~Stop
  BY <1>1 DEF Stop, StopBegin, StopClose, StopNext, StopClear, MainPlaces
<1> QED
  BY <1>2, <1>3, <1>4, LoopsAndMain DEF Next, LoopStep

\* The steps of AcceptHelper.
LEMMA OwnAccept ==
    ASSUME PoolInv, OwnInv, AcceptHelper
    PROVE  OwnInv'
<1>1. /\ pc \in [Thread -> Place] /\ cur \in [Thread -> Context] /\ Listener \in Thread
      /\ sock \in [Client -> {"new", "waiting", "open", "closed"}]
      /\ isExit \in [Context -> BOOLEAN] /\ isConnected \in [Context -> BOOLEAN]
      /\ hasBev \in [Context -> BOOLEAN] /\ client \in [Context -> Client \cup {None}]
      /\ pc[Listener] \in Accepting => hand \in Client
      /\ None \notin Client /\ cur[Listener] \in Context
  BY LoopsAndMain, Setting, ServiceAssumption DEF PoolInv, TypeOK, Threads, Events
<1>2. \A t \in Thread : pc[t] \in {"attach", "count", "emplace", "giveBack"} => cur[t] \notin conns
  BY <1>1 DEF PoolInv, OnePlace, PlaceOf, Held, InHand
<1>3. OwnConns /\ OwnClients /\ OwnHand /\ OwnSockets /\ Accepting = {"pop", "attach", "giveBack", "count", "emplace", "monitor"}
  BY DEF OwnInv, Accepting
<1> USE DEF Goto, poolVars, ctxVars, idleVars, Live, Owned
<1>4. CASE Accept
  <2>1. PICK k \in Client : /\ sock[k] = "waiting"
                            /\ \/ sock' = [sock EXCEPT ![k] = "closed"] /\ UNCHANGED <<pc, hand>>
                               \/ sock' = [sock EXCEPT ![k] = "open"] /\ hand' = k /\ pc'[Listener] = "pop"
    BY <1>1, <1>4 DEF Accept
  <2>2. ~Owned(k) /\ pc[Listener] = "idle" /\ UNCHANGED <<conns, client, isExit, isConnected, hasBev, cur>>
    BY <1>1, <1>3, <1>4, <2>1 DEF Accept, OwnSockets
  <2>3. OwnConns' /\ OwnClients'
    BY <1>1, <1>3, <2>1, <2>2 DEF OwnConns, OwnClients
  <2>4. OwnHand'
    BY <1>1, <1>3, <2>1, <2>2 DEF OwnHand
  <2>5. OwnSockets'
    BY <1>1, <1>3, <2>1, <2>2 DEF OwnSockets
  <2> QED
    BY <2>3, <2>4, <2>5 DEF OwnInv
<1>5. CASE Pop
  <2>1. PICK d \in Context : d = Head(free) /\ d \notin conns
    BY <1>5, FreePop DEF Pop, PoolInv, OnePlace, PlaceOf
  <2>2. /\ UNCHANGED <<conns, client, isConnected, hasBev, hand, sock>>
        /\ isExit' = [isExit EXCEPT ![d] = FALSE] /\ cur' = [cur EXCEPT ![Listener] = d]
        /\ pc[Listener] = "pop" /\ pc'[Listener] = "attach"
    BY <1>1, <1>5, <2>1 DEF Pop
  <2>3. OwnConns' /\ OwnClients'
    BY <1>1, <1>3, <2>1, <2>2 DEF OwnConns, OwnClients
  <2>4. OwnHand'
    BY <1>1, <1>3, <2>1, <2>2 DEF OwnHand
  <2>5. OwnSockets'
    BY <1>1, <1>3, <2>2 DEF OwnSockets
  <2> QED
    BY <2>3, <2>4, <2>5 DEF OwnInv
<1>6. CASE Attach
  <2>1. /\ pc[Listener] = "attach" /\ pc'[Listener] = "count" /\ cur[Listener] \notin conns /\ hand \in Client
        /\ hasBev' = [hasBev EXCEPT ![cur[Listener]] = TRUE]
        /\ client' = [client EXCEPT ![cur[Listener]] = hand]
        /\ isConnected' = [isConnected EXCEPT ![cur[Listener]] = TRUE]
        /\ UNCHANGED <<conns, isExit, sock, hand, cur>>
    BY <1>1, <1>2, <1>3, <1>6 DEF Attach
  <2>2. client[cur[Listener]] = None
    BY <1>1, <1>3, <2>1 DEF OwnClients
  <2>3. OwnConns' /\ OwnClients'
    BY <1>1, <1>3, <2>1 DEF OwnConns, OwnClients
  <2>4. OwnHand'
    BY <1>1, <1>3, <2>1 DEF OwnHand
  <2>5. OwnSockets'
    BY <1>1, <1>3, <2>1, <2>2 DEF OwnSockets, OwnHand
  <2> QED
    BY <2>3, <2>4, <2>5 DEF OwnInv
<1>7. CASE AttachFails
  <2>1. /\ pc[Listener] = "attach" /\ pc'[Listener] = "close" /\ cur[Listener] \notin conns /\ hand \in Client
        /\ sock' = [sock EXCEPT ![hand] = "closed"]
        /\ UNCHANGED <<conns, client, isConnected, hasBev, isExit, hand>> /\ cur'[Listener] = cur[Listener]
    BY <1>1, <1>2, <1>3, <1>7 DEF AttachFails, CallClose
  <2>2. OwnConns' /\ OwnClients' /\ OwnHand'
    BY <1>1, <1>3, <2>1 DEF OwnConns, OwnClients, OwnHand
  <2>3. OwnSockets'
    BY <1>1, <1>3, <2>1 DEF OwnSockets, OwnHand
  <2> QED
    BY <2>2, <2>3 DEF OwnInv
<1>8. CASE GiveBack \/ CountConn \/ Monitor
  <2>1. /\ UNCHANGED <<sock, conns, client, isConnected, hasBev, isExit, hand, cur>>
        /\ \/ pc[Listener] \in {"giveBack", "monitor"} /\ pc'[Listener] = "idle"
           \/ pc[Listener] = "count" /\ pc'[Listener] = "emplace"
    BY <1>1, <1>8 DEF GiveBack, PutFree, CountConn, Monitor
  <2>2. OwnConns' /\ OwnClients' /\ OwnHand'
    BY <1>1, <1>3, <2>1 DEF OwnConns, OwnClients, OwnHand
  <2>3. OwnSockets'
    BY <1>1, <1>3, <2>1 DEF OwnSockets
  <2> QED
    BY <2>2, <2>3 DEF OwnInv
<1>9. CASE Emplace
  <2>1. /\ UNCHANGED <<sock, client, isConnected, hasBev, isExit, hand, cur>> /\ hand \in Client
        /\ conns' = conns \cup {cur[Listener]}
        /\ pc[Listener] = "emplace" /\ pc'[Listener] \in {"monitor", "idle"}
    BY <1>1, <1>3, <1>9 DEF Emplace
  <2>2. OwnConns' /\ OwnClients' /\ OwnHand'
    BY <1>1, <1>3, <2>1 DEF OwnConns, OwnClients, OwnHand
  <2>3. OwnSockets'
    BY <1>1, <1>3, <2>1 DEF OwnSockets
  <2> QED
    BY <2>2, <2>3 DEF OwnInv
<1> QED
  BY <1>4, <1>5, <1>6, <1>7, <1>8, <1>9 DEF AcceptHelper

\* The steps of Close: the context leaves the map before its flags change.
LEMMA OwnClose ==
    ASSUME PoolInv, OwnInv, Close(Listener) \/ ErrorEnd(Listener)
    PROVE  OwnInv'
<1>1. /\ pc \in [Thread -> Place] /\ cur \in [Thread -> Context] /\ Listener \in Thread
      /\ sock \in [Client -> {"new", "waiting", "open", "closed"}]
      /\ isExit \in [Context -> BOOLEAN] /\ isConnected \in [Context -> BOOLEAN]
      /\ hasBev \in [Context -> BOOLEAN] /\ client \in [Context -> Client \cup {None}]
      /\ None \notin Client /\ cur[Listener] \in Context
      /\ pc[Listener] \in Closing => ret[Listener] \in {"recycleAgain", "giveBack", "evict"}
  BY LoopsAndMain, Setting, ServiceAssumption DEF PoolInv, TypeOK, Threads, LoopPlaces
<1>2. pc[Listener] \in {"putFree", "putFreeAgain"} => cur[Listener] \notin conns
  BY <1>1 DEF PoolInv, OnePlace, PlaceOf, Held, InHand
<1>3. /\ OwnConns /\ OwnClients /\ OwnHand /\ OwnSockets
      /\ Closing = {"close", "recycle", "putFree", "disconnect", "markExit"}
  BY DEF OwnInv, Closing
<1> USE DEF Goto, poolVars, ctxVars, idleVars, Live, Owned
<1>4. CASE CloseBegin(Listener)
  <2> DEFINE c == cur[Listener]
  <2>1. CASE isExit[c] \/ ~hasBev[c]
    <3>1. /\ UNCHANGED <<sock, conns, client, isConnected, hasBev, hand, cur>>
          /\ isExit' = [isExit EXCEPT ![c] = TRUE] /\ c \notin conns
          /\ pc[Listener] = "close" /\ pc'[Listener] \in {"recycleAgain", "giveBack", "evict"}
      BY <1>1, <1>3, <1>4, <2>1 DEF CloseBegin, OwnConns
    <3>2. OwnConns' /\ OwnClients' /\ OwnHand'
      BY <1>1, <1>3, <3>1 DEF OwnConns, OwnClients, OwnHand
    <3>3. OwnSockets'
      BY <1>1, <1>3, <3>1 DEF OwnSockets
    <3> QED
      BY <3>2, <3>3 DEF OwnInv
  <2>2. CASE ~(isExit[c] \/ ~hasBev[c])
    <3>1. /\ UNCHANGED <<conns, isConnected, hasBev, isExit, hand, cur>>
          /\ sock' = IF client[c] = None THEN sock ELSE [sock EXCEPT ![client[c]] = "closed"]
          /\ client' = [client EXCEPT ![c] = None]
          /\ pc[Listener] = "close" /\ pc'[Listener] = "recycle"
      BY <1>1, <1>4, <2>2 DEF CloseBegin
    <3>2. OwnConns' /\ OwnClients' /\ OwnHand'
      BY <1>1, <1>3, <3>1 DEF OwnConns, OwnClients, OwnHand
    <3>3. CASE client[c] = None
      <4>1. client' = client /\ sock' = sock
        BY <1>1, <3>1, <3>3
      <4> QED
        BY <1>1, <1>3, <3>1, <3>2, <4>1 DEF OwnSockets, OwnInv
    <3>4. CASE client[c] # None
      <4>1. client[c] \in Client /\ sock' = [sock EXCEPT ![client[c]] = "closed"]
        BY <1>1, <3>1, <3>4
      <4>2. \A d \in Context : d # c => client'[d] = client[d] /\ client[d] # client[c]
        BY <1>1, <1>3, <3>1, <3>4 DEF OwnSockets
      <4>3. client'[c] = None
        BY <1>1, <3>1
      <4>4. /\ \A d, e \in Context : client'[d] = client'[e] /\ client'[d] # None => d = e
            /\ \A d \in Context : client'[d] # None => sock'[client'[d]] = "open"
        BY <1>1, <1>3, <4>1, <4>2, <4>3 DEF OwnSockets
      <4>5. \A k \in Client : sock'[k] = "open" => Owned(k)'
        BY <1>1, <1>3, <3>1, <4>1, <4>2 DEF OwnSockets
      <4> QED
        BY <3>2, <4>4, <4>5 DEF OwnSockets, OwnInv
    <3> QED
      BY <3>3, <3>4
  <2> QED
    BY <2>1, <2>2
<1>5. ASSUME NEW here, NEW put, NEW skip, Recycle(Listener, here, put, skip),
             \/ here = "recycle" /\ put = "putFree" /\ skip = "disconnect"
             \/ here = "recycleAgain" /\ put = "putFreeAgain" /\ skip = "idle"
      PROVE  OwnInv'
  <2>1. /\ UNCHANGED <<sock, client, isConnected, hasBev, isExit, hand, cur>>
        /\ conns' = conns \ {cur[Listener]}
        /\ \/ pc[Listener] = "recycle" /\ pc'[Listener] \in {"putFree", "disconnect"}
           \/ pc[Listener] = "recycleAgain" /\ pc'[Listener] \in {"putFreeAgain", "idle"}
    BY <1>1, <1>5 DEF Recycle
  <2>2. OwnConns' /\ OwnHand'
    BY <1>1, <1>3, <2>1 DEF OwnConns, OwnHand
  <2>3. OwnClients'
    BY <1>1, <1>3, <2>1 DEF OwnClients, OwnHand
  <2>4. OwnSockets'
    BY <1>1, <1>3, <2>1 DEF OwnSockets
  <2> QED
    BY <2>2, <2>3, <2>4 DEF OwnInv
<1>6. ASSUME NEW here, NEW next, PutFree(Listener, here, next),
             (here = "putFree" /\ next = "disconnect") \/ (here = "putFreeAgain" /\ next = "idle")
      PROVE  OwnInv'
  <2>1. /\ UNCHANGED <<sock, conns, client, isConnected, hasBev, isExit, hand, cur>>
        /\ pc[Listener] \in {"putFree", "putFreeAgain"} /\ pc'[Listener] \in {"disconnect", "idle"}
    BY <1>1, <1>6 DEF PutFree
  <2>2. OwnConns' /\ OwnClients' /\ OwnHand'
    BY <1>1, <1>2, <1>3, <2>1 DEF OwnConns, OwnClients, OwnHand
  <2>3. OwnSockets'
    BY <1>1, <1>3, <2>1 DEF OwnSockets
  <2> QED
    BY <2>2, <2>3 DEF OwnInv
<1>7. CASE Disconnect(Listener) \/ MarkExit(Listener)
  <2>1. /\ UNCHANGED <<sock, conns, client, hasBev, hand, cur>> /\ cur[Listener] \notin conns
        /\ \A c \in conns : isConnected'[c] = isConnected[c] /\ isExit'[c] = isExit[c]
        /\ pc[Listener] \in {"disconnect", "markExit"}
        /\ pc'[Listener] \in {"markExit", "recycleAgain", "giveBack", "evict"}
    BY <1>1, <1>3, <1>7 DEF Disconnect, MarkExit, OwnHand, PoolInv, TypeOK
  <2>2. OwnConns' /\ OwnClients' /\ OwnHand'
    BY <1>1, <1>3, <2>1 DEF OwnConns, OwnClients, OwnHand
  <2>3. OwnSockets'
    BY <1>1, <1>3, <2>1 DEF OwnSockets
  <2> QED
    BY <2>2, <2>3 DEF OwnInv
<1> QED
  BY <1>4, <1>5, <1>6, <1>7 DEF Close, ErrorEnd

\* The clients, the timer, and an event that is delivered.
LEMMA OwnOther ==
    ASSUME PoolInv, OwnInv,
           \/ \E k \in Client : Connect(k) \/ HangUp(k)
           \/ ProcessIdlConn \/ Evict \/ Error(Listener) \/ AddConnToMonitor(Listener)
    PROVE  OwnInv'
<1>1. /\ pc \in [Thread -> Place] /\ cur \in [Thread -> Context] /\ Listener \in Thread
      /\ sock \in [Client -> {"new", "waiting", "open", "closed"}]
      /\ client \in [Context -> Client \cup {None}]
      /\ pc[Listener] \in Accepting => hand \in Client
      /\ None \notin Client
  BY LoopsAndMain, Setting, ServiceAssumption DEF PoolInv, TypeOK, Threads, Events
<1>2. /\ OwnConns /\ OwnClients /\ OwnHand /\ OwnSockets
      /\ Accepting = {"pop", "attach", "giveBack", "count", "emplace", "monitor"}
  BY DEF OwnInv, Accepting
<1> USE DEF Goto, CallClose, poolVars, ctxVars, idleVars, threadVars, Live, Owned
<1>3. CASE \E k \in Client : Connect(k) \/ HangUp(k)
  <2>1. /\ UNCHANGED <<conns, client, isConnected, hasBev, isExit, hand, cur, pc>>
        /\ \A k \in Client : sock'[k] = "open" <=> sock[k] = "open"
    BY <1>1, <1>3 DEF Connect, HangUp
  <2>2. OwnConns' /\ OwnClients' /\ OwnHand'
    BY <1>1, <1>2, <2>1 DEF OwnConns, OwnClients, OwnHand
  <2>3. OwnSockets'
    BY <1>1, <1>2, <2>1 DEF OwnSockets
  <2> QED
    BY <2>2, <2>3 DEF OwnInv
<1>4. CASE ProcessIdlConn \/ Evict \/ Error(Listener) \/ AddConnToMonitor(Listener)
  <2>1. /\ UNCHANGED <<sock, conns, client, isConnected, hasBev, isExit, hand>>
        /\ pc[Listener] \in {"idle", "evict"} /\ pc'[Listener] \in {"idle", "evict", "close"}
    BY <1>1, <1>4 DEF ProcessIdlConn, Evict, Error, AddConnToMonitor
  <2>2. OwnConns' /\ OwnClients' /\ OwnHand'
    BY <1>1, <1>2, <2>1 DEF OwnConns, OwnClients, OwnHand
  <2>3. OwnSockets'
    BY <1>1, <1>2, <2>1 DEF OwnSockets
  <2> QED
    BY <2>2, <2>3 DEF OwnInv
<1> QED
  BY <1>3, <1>4

-----------------------------------------------------------------------------
(* One loop: the entries of the wheel                                      *)

\* An entry is in the newest bucket and those that were in the wheel still are.
LEMMA InsertMonitors ==
    ASSUME TypeOK, NEW e, InsertEntry(e), NEW x, Monitored(x) \/ x = e
    PROVE  Monitored(x)'
<1>1. Len(buckets) \in Nat /\ DOMAIN buckets = 1..Len(buckets) /\ buckets \in Seq(SUBSET Entry)
  BY DEF TypeOK
<1>2. CASE buckets = <<>>
  <2>1. buckets' = <<{e}>> /\ ~Monitored(x)
    BY <1>2 DEF InsertEntry, Monitored
  <2>2. 1 \in DOMAIN buckets' /\ buckets'[1] = {e}
    BY <2>1
  <2> QED
    BY <2>1, <2>2 DEF Monitored
<1>3. CASE buckets # <<>>
  <2>1. Len(buckets) \in DOMAIN buckets
    BY <1>1, <1>3, EmptySeq
  <2>2. /\ DOMAIN buckets' = DOMAIN buckets /\ buckets'[Len(buckets)] = buckets[Len(buckets)] \cup {e}
        /\ \A i \in DOMAIN buckets : buckets[i] \subseteq buckets'[i]
    BY <1>1, <1>3, <2>1 DEF InsertEntry
  <2> QED
    BY <2>1, <2>2 DEF Monitored
<1> QED
  BY <1>2, <1>3

\* A new bucket is pushed: an entry of the wheel still is, or it was in the oldest only.
LEMMA PushMonitors ==
    ASSUME TypeOK, ProcessIdlConn, DOMAIN todo = Thread, NEW x, Monitored(x)
    PROVE  Monitored(x)' \/ x \in todo'[Listener]
<1> DEFINE n == Len(buckets)
           longer == Append(buckets, {})
<1>1. /\ n \in Nat /\ DOMAIN buckets = 1..n /\ buckets \in Seq(SUBSET Entry) /\ {} \in SUBSET Entry
      /\ Listener \in Thread
  <2>1. Listener \in Thread
    BY LoopsAndMain, Setting DEF TypeOK
  <2>2. buckets \in Seq(SUBSET Entry)
    BY DEF TypeOK
  <2> QED
    BY <2>1, <2>2
<1>2. /\ longer \in Seq(SUBSET Entry) /\ Len(longer) = n + 1 /\ DOMAIN longer = 1..(n + 1)
      /\ longer # <<>> /\ \A i \in 1..n : longer[i] = buckets[i]
  <2>1. longer \in Seq(SUBSET Entry)
    BY <1>1
  <2> QED
    BY <1>1, <2>1
<1>3. PICK i \in 1..n : x \in buckets[i]
  BY <1>1 DEF Monitored
<1>4. CASE n >= BufferSize
  <2>1. /\ buckets' = Tail(longer)
        /\ todo'[Listener] = {e \in Head(longer) : \A j \in 2..Len(longer) : e \notin longer[j]}
    BY <1>1, <1>4 DEF ProcessIdlConn
  <2> HIDE DEF longer
  <2>2. DOMAIN buckets' = 1..n /\ (\A j \in 1..n : buckets'[j] = longer[j + 1]) /\ Head(longer) = longer[1]
    BY <1>1, <1>2, <2>1
  <2>3. CASE \E j \in 2..Len(longer) : x \in longer[j]
    <3>1. PICK j \in 2..(n + 1) : x \in longer[j]
      BY <1>2, <2>3
    <3>2. j - 1 \in 1..n /\ j = (j - 1) + 1
      BY <1>1
    <3> QED
      BY <2>2, <3>1, <3>2 DEF Monitored
  <2>4. CASE ~\E j \in 2..Len(longer) : x \in longer[j]
    <3>1. i \notin 2..Len(longer) /\ x \in longer[i]
      BY <1>2, <1>3, <2>4
    <3>2. i = 1
      BY <1>1, <1>2, <3>1
    <3> QED
      BY <2>1, <2>2, <2>4, <3>1, <3>2
  <2> QED
    BY <2>3, <2>4
<1>5. CASE ~(n >= BufferSize)
  <2>1. buckets' = longer
    BY <1>5 DEF ProcessIdlConn
  <2>2. i \in DOMAIN buckets' /\ x \in buckets'[i]
    BY <1>1, <1>2, <1>3, <2>1
  <2> QED
    BY <2>2 DEF Monitored
<1> QED
  BY <1>4, <1>5

\* A step that leaves the wheel alone and does not lose the context the loop works on.
LEMMA WheelSame ==
    ASSUME WheelInv, UNCHANGED <<setup, client, buckets>>, todo'[Listener] = todo[Listener],
           conns' \subseteq conns,
           \A c \in conns' : c = cur[Listener] /\ pc[Listener] \in {"monitor", "close", "recycle"}
               => c = cur'[Listener] /\ pc'[Listener] \in {"monitor", "close", "recycle"},
           todo[Listener] # {} =>
               pc'[Listener] = "evict" \/ (pc'[Listener] \in Closing /\ ret'[Listener] = "evict")
    PROVE  WheelInv'
<1>1. setup' = setup /\ client' = client /\ buckets' = buckets
  OBVIOUS
<1>2. ASSUME NEW c \in conns, OwnEntry(c), c \in conns'
      PROVE  OwnEntry(c)'
  BY <1>1, <1>2 DEF OwnEntry, Monitored
<1> QED
  BY <1>1, <1>2 DEF WheelInv

\* Every step keeps the wheel.
LEMMA WheelStep ==
    ASSUME PoolInv, OneLoop, OwnInv, WheelInv, Next
    PROVE  WheelInv'
<1>1. /\ pc \in [Thread -> Place] /\ cur \in [Thread -> Context] /\ ret \in [Thread -> Place]
      /\ Listener \in Thread /\ UNCHANGED setup
      /\ client \in [Context -> Client \cup {None}] /\ TypeOK
      /\ setup.autoMonitor \in BOOLEAN /\ cur[Listener] \in Context /\ DOMAIN todo = Thread
      /\ conns \subseteq Context
      /\ pc[Listener] \in Closing => ret[Listener] \in {"recycleAgain", "giveBack", "evict"}
  BY LoopsAndMain, Setting DEF PoolInv, TypeOK, Threads, Events, LoopPlaces, Next
<1>2. /\ WheelInv /\ OwnConns /\ OwnHand
      /\ pc[Listener] \in {"putFree", "putFreeAgain", "attach", "count", "emplace"} => cur[Listener] \notin conns
      /\ Closing = {"close", "recycle", "putFree", "disconnect", "markExit"}
  BY <1>1 DEF OwnInv, PoolInv, OnePlace, PlaceOf, Held, InHand, Closing
<1>3. todo[Listener] # {} => pc[Listener] = "evict" \/ (pc[Listener] \in Closing /\ ret[Listener] = "evict")
  BY DEF WheelInv
<1> USE DEF Goto, poolVars, ctxVars, idleVars, threadVars
<1>4. CASE \/ \E k \in Client : Connect(k) \/ HangUp(k)
           \/ Accept \/ Pop \/ Attach \/ AttachFails \/ GiveBack \/ CountConn \/ Error(Listener)
  <2>1. CASE \E k \in Client : Connect(k) \/ HangUp(k)
    BY <1>1, <1>3, <2>1, WheelSame DEF Connect, HangUp
  <2>2. CASE Accept \/ Pop \/ AttachFails \/ GiveBack \/ CountConn \/ Error(Listener)
    <3>1. /\ UNCHANGED <<client, buckets, todo, conns>>
          /\ pc[Listener] \in {"idle", "pop", "attach", "giveBack", "count"}
      BY <2>2 DEF Accept, Pop, AttachFails, CallClose, GiveBack, PutFree, CountConn, Error
    <3> QED
      BY <1>1, <1>2, <1>3, <3>1, WheelSame
  <2>3. CASE Attach
    <3>1. /\ UNCHANGED <<buckets, todo, conns, setup>> /\ pc[Listener] = "attach"
          /\ \A c \in Context : c # cur[Listener] => client'[c] = client[c]
      BY <1>1, <2>3 DEF Attach
    <3>2. \A c \in conns : OwnEntry(c) => OwnEntry(c)'
      BY <1>1, <1>2, <3>1 DEF OwnEntry, Monitored
    <3> QED
      BY <1>2, <1>3, <3>1, <3>2 DEF WheelInv
  <2> QED
    BY <1>4, <2>1, <2>2, <2>3
<1>5. CASE Emplace
  <2>1. /\ UNCHANGED <<setup, client, buckets, todo, cur>> /\ conns' = conns \cup {cur[Listener]}
        /\ pc[Listener] = "emplace" /\ pc'[Listener] = IF setup.autoMonitor THEN "monitor" ELSE "idle"
    BY <1>1, <1>5 DEF Emplace
  <2>2. \A c \in conns : OwnEntry(c) => OwnEntry(c)'
    BY <2>1 DEF OwnEntry, Monitored
  <2>3. setup.autoMonitor => OwnEntry(cur[Listener])'
    BY <2>1 DEF OwnEntry
  <2> QED
    BY <1>2, <1>3, <2>1, <2>2, <2>3 DEF WheelInv
<1>6. CASE Monitor
  <2>1. /\ UNCHANGED <<setup, client, todo, cur, conns>> /\ pc[Listener] = "monitor"
        /\ InsertEntry([ctx |-> cur[Listener], sock |-> hand]) /\ client[cur[Listener]] = hand
    BY <1>1, <1>2, <1>6 DEF Monitor, OwnHand
  <2>2. \A x : Monitored(x) \/ x = [ctx |-> cur[Listener], sock |-> hand] => Monitored(x)'
    BY <1>1, <2>1, InsertMonitors
  <2>3. \A c \in conns : OwnEntry(c) => OwnEntry(c)'
    BY <2>1, <2>2 DEF OwnEntry
  <2> QED
    BY <1>2, <1>3, <2>1, <2>3 DEF WheelInv
<1>7. CASE AddConnToMonitor(Listener)
  <2>1. UNCHANGED <<setup, client, todo, cur, conns, pc, ret>> /\ \E e : InsertEntry(e)
    BY <1>1, <1>7 DEF AddConnToMonitor
  <2>2. \A x : Monitored(x) => Monitored(x)'
    BY <1>1, <2>1, InsertMonitors
  <2>3. \A c \in conns : OwnEntry(c) => OwnEntry(c)'
    BY <2>1, <2>2 DEF OwnEntry
  <2> QED
    BY <1>2, <2>1, <2>3 DEF WheelInv
<1>8. CASE ProcessIdlConn
  <2>1. UNCHANGED <<setup, client, cur, conns, ret>> /\ pc[Listener] = "idle" /\ pc'[Listener] = "evict"
    BY <1>1, <1>8 DEF ProcessIdlConn
  <2>2. \A x : Monitored(x) => Monitored(x)' \/ x \in todo'[Listener]
    BY <1>1, <1>8, PushMonitors
  <2>3. todo[Listener] = {}
    BY <1>2, <1>3, <2>1
  <2>4. \A c \in conns : OwnEntry(c) => OwnEntry(c)'
    BY <2>1, <2>2, <2>3 DEF OwnEntry
  <2> QED
    BY <1>2, <2>1, <2>4 DEF WheelInv
<1>9. CASE Evict
  <2>1. CASE todo[Listener] = {}
    <3>1. UNCHANGED <<setup, client, buckets, todo, conns, cur>> /\ pc[Listener] = "evict"
      BY <1>1, <1>9, <2>1 DEF Evict
    <3> QED
      BY <1>2, <2>1, <3>1, WheelSame
  <2>2. CASE todo[Listener] # {}
    <3>1. PICK e \in todo[Listener] : /\ todo'[Listener] = todo[Listener] \ {e}
                                      /\ cur'[Listener] = e.ctx /\ ret'[Listener] = "evict"
                                      /\ pc'[Listener] = "close"
      BY <1>1, <1>9, <2>2 DEF Evict, CallClose
    <3>2. UNCHANGED <<setup, client, buckets, conns>> /\ pc[Listener] = "evict"
      BY <1>1, <1>9 DEF Evict
    <3>3. \A c \in conns : OwnEntry(c) => OwnEntry(c)'
      BY <3>1, <3>2 DEF OwnEntry, Monitored
    <3> QED
      BY <1>2, <3>1, <3>2, <3>3 DEF WheelInv
  <2> QED
    BY <2>1, <2>2
<1>10. CASE Close(Listener) \/ ErrorEnd(Listener)
  <2>1. CASE CloseBegin(Listener)
    <3>1. /\ UNCHANGED <<setup, buckets, todo, conns, cur, ret>> /\ pc[Listener] = "close"
          /\ \A c \in Context : c # cur[Listener] => client'[c] = client[c]
      BY <1>1, <2>1 DEF CloseBegin
    <3>2. (pc'[Listener] = ret[Listener] /\ cur[Listener] \notin conns) \/ pc'[Listener] = "recycle"
      BY <1>1, <1>2, <2>1 DEF CloseBegin, OwnConns, Live
    <3>3. \A c \in conns : OwnEntry(c) => OwnEntry(c)'
      BY <1>1, <3>1, <3>2 DEF OwnEntry, Monitored
    <3> QED
      BY <1>1, <1>2, <1>3, <3>1, <3>2, <3>3 DEF WheelInv
  <2>2. CASE \/ Recycle(Listener, "recycle", "putFree", "disconnect")
             \/ Recycle(Listener, "recycleAgain", "putFreeAgain", "idle")
    <3>1. /\ UNCHANGED <<setup, buckets, todo, cur, ret, client>> /\ conns' = conns \ {cur[Listener]}
          /\ \/ pc[Listener] = "recycle" /\ pc'[Listener] \in {"putFree", "disconnect"}
             \/ pc[Listener] = "recycleAgain" /\ pc'[Listener] \in {"putFreeAgain", "idle"}
      BY <1>1, <2>2 DEF Recycle
    <3> QED
      BY <1>1, <1>2, <1>3, <3>1, WheelSame
  <2>3. CASE \/ PutFree(Listener, "putFree", "disconnect") \/ PutFree(Listener, "putFreeAgain", "idle")
             \/ Disconnect(Listener) \/ MarkExit(Listener)
    <3>1. /\ UNCHANGED <<setup, buckets, todo, cur, ret, client, conns>>
          /\ pc[Listener] \in {"putFree", "putFreeAgain", "disconnect", "markExit"}
          /\ \/ pc'[Listener] \in {"disconnect", "markExit"}
             \/ pc[Listener] = "putFreeAgain"
             \/ pc'[Listener] = ret[Listener]
      BY <1>1, <2>3 DEF PutFree, Disconnect, MarkExit
    <3>2. todo[Listener] # {} => pc'[Listener] = "evict" \/ (pc'[Listener] \in Closing /\ ret'[Listener] = "evict")
      BY <1>1, <1>2, <1>3, <3>1
    <3> QED
      BY <1>1, <1>2, <3>1, <3>2, WheelSame
  <2> QED
    BY <1>10, <2>1, <2>2, <2>3 DEF Close, ErrorEnd
<1> QED
  BY <1>4, <1>5, <1>6, <1>7, <1>8, <1>9, <1>10, OneActs DEF AcceptHelper

\* The invariant of one loop.
LEMMA OneLoopAlways == Spec => []OneLoopInv
<1>1. Init => OneLoopInv
  <2> SUFFICES ASSUME Init PROVE OwnInv /\ WheelInv
    BY PoolInit DEF OneLoopInv
  <2>1. Listener \in Thread /\ \A c \in Context : client[c] = None
    BY LoopsAndMain, Setting DEF Init
  <2>2. pc[Listener] = "idle" /\ conns = {} /\ todo[Listener] = {} /\ \A k \in Client : sock[k] = "new"
    BY <2>1 DEF Init
  <2> QED
    BY <2>1, <2>2 DEF OwnInv, OwnConns, OwnClients, OwnHand, OwnSockets, WheelInv
<1>2. OneLoopInv /\ [Next]_vars => OneLoopInv'
  <2>1. ASSUME OneLoopInv, Next
        PROVE  OneLoopInv'
    <3>1. PoolInv' /\ (OneLoop' <=> OneLoop)
      BY <2>1, PoolStep DEF OneLoopInv, OneLoop, Next
    <3>2. OneLoop => OwnInv'
      BY <2>1, OneActs, OwnAccept, OwnClose, OwnOther DEF OneLoopInv
    <3>3. OneLoop => WheelInv'
      BY <2>1, WheelStep DEF OneLoopInv
    <3> QED
      BY <3>1, <3>2, <3>3 DEF OneLoopInv
  <2>2. ASSUME OneLoopInv, UNCHANGED vars
        PROVE  OneLoopInv'
    <3>1. PoolInv'
      BY <2>2, PoolStep DEF OneLoopInv
    <3>2. OneLoop => OwnInv'
      BY <2>2 DEF OneLoopInv, OwnInv, OwnConns, OwnClients, OwnHand, OwnSockets, Live, Owned,
                  vars, poolVars, ctxVars, threadVars
    <3>3. OneLoop => WheelInv'
      BY <2>2, WheelSame DEF OneLoopInv, WheelInv, vars, poolVars, ctxVars, idleVars, threadVars
    <3>4. OneLoop' <=> OneLoop
      BY <2>2 DEF OneLoop, vars
    <3> QED
      BY <3>1, <3>2, <3>3, <3>4 DEF OneLoopInv
  <2> QED
    BY <2>1, <2>2
<1> QED
  BY <1>1, <1>2, PTL DEF Spec

\* In a service with one loop that nobody stops, whenever no callback runs: current_conn_
\* is the number of contexts that have a socket, and every open socket has one context,
\* which is in the map, connected and not marked as closed.
THEOREM SocketsOwnedAlways == Spec => []SocketsOwned
<1>1. ASSUME OneLoopInv, OneLoop, Quiet
      PROVE  /\ current = Cardinality({c \in Context : client[c] # None})
             /\ \A k \in Client : sock[k] = "open" =>
                    /\ Cardinality({c \in Context : client[c] = k}) = 1
                    /\ \A c \in Context : client[c] = k => c \in conns /\ isConnected[c] /\ ~isExit[c]
  <2>1. /\ PoolInv /\ OwnConns /\ OwnClients /\ OwnSockets
        /\ pc[Listener] \in {"idle", "stopped"} /\ conns \subseteq Context /\ None \notin Client
    BY <1>1, LoopsAndMain, Setting, ServiceAssumption DEF OneLoopInv, OwnInv, PoolInv, TypeOK, Quiet
  <2>2. current = Cardinality(conns)
    BY <2>1, ConnsCount DEF PoolInv, Counted
  <2>3. conns = {c \in Context : client[c] # None}
    BY <2>1 DEF OwnConns, OwnClients
  <2>4. ASSUME NEW k \in Client, sock[k] = "open"
        PROVE  Cardinality({c \in Context : client[c] = k}) = 1
    <3> DEFINE S == {c \in Context : client[c] = k}
    <3>1. (\A c, d \in S : c = d) /\ S # {}
      BY <2>1, <2>4 DEF OwnSockets, Owned
    <3> HIDE DEF S
    <3>2. Cardinality(S) = 1
      BY <3>1, AtMostOne
    <3> QED
      BY <3>2 DEF S
  <2>5. ASSUME NEW c \in Context, client[c] \in Client
        PROVE  c \in conns /\ isConnected[c] /\ ~isExit[c]
    BY <2>1, <2>5 DEF OwnConns, OwnClients, Live
  <2> QED
    BY <2>2, <2>3, <2>4, <2>5
<1>2. OneLoopInv => SocketsOwned
  BY <1>1 DEF SocketsOwned
<1> QED
  BY <1>2, OneLoopAlways, PTL

\* In such a service, when the wheel is in use, every connection of the map has the entry
\* of its own socket in the wheel.
THEOREM AllMonitoredAlways == Spec => []AllMonitored
<1>1. ASSUME OneLoopInv, setup.autoMonitor, OneLoop, Quiet, NEW c \in conns
      PROVE  Monitored([ctx |-> c, sock |-> client[c]])
  <2>1. WheelInv /\ pc[Listener] \in {"idle", "stopped"}
    BY <1>1, LoopsAndMain, Setting DEF OneLoopInv, PoolInv, TypeOK, Quiet
  <2>2. todo[Listener] = {}
    BY <2>1 DEF WheelInv, Closing
  <2> QED
    BY <1>1, <2>1, <2>2 DEF WheelInv, OwnEntry
<1>2. OneLoopInv => AllMonitored
  BY <1>1 DEF AllMonitored
<1> QED
  BY <1>2, OneLoopAlways, PTL
=============================================================================
