---------------------------- MODULE NanoLoggerProof ----------------------------
(***************************************************************************)
(* What the asynchronous logger promises, for any producers, any number of *)
(* logs and of rounds of Initialize and Release, and any size of a file.   *)
(***************************************************************************)
EXTENDS NanoLogger, SequenceTheorems, TLAPS

-----------------------------------------------------------------------------
(* The inductive invariant, in parts                                       *)

\* What Initialize has made and Release has not dropped yet: the semaphore, the worker
\* thread and the open file.
Serving == appPc = "idle" /\ isInitialize
Resources ==
    /\ hasSem <=> \/ Serving
                  \/ appPc \in {"startThread", "initWriter", "publish", "loadWaiters",
                                "postAll", "join", "dropSemaphore"}
    /\ workerPc # "none" <=>
           \/ Serving
           \/ appPc \in {"initWriter", "publish", "loadWaiters", "postAll", "join"}
    /\ writerOpen <=>
           \/ Serving
           \/ appPc \in {"publish", "loadWaiters", "postAll", "join", "dropSemaphore", "releaseWriter"}
    /\ appPc \in Releasing => isInitialize /\ isExit
    /\ appPc \in {"startThread", "initWriter", "publish"} => ~isInitialize

\* The worker counts itself as a waiter, and a log it holds has left the queue; it writes
\* to an open file.
Worker ==
    /\ waiters = IF workerPc \in {"semWait", "leaveWait"} THEN 1 ELSE 0
    /\ workerPc \in {"checkExit", "write"} => head > 0
    /\ workerPc = "write" => writerOpen

\* A producer in Push has made a log, and its slot is not beyond the end; when nobody logs
\* during Release, it is in Push only while the logger serves.
Pushing ==
    \A p \in Producers :
        /\ pc[p] \in {"loadTail", "store"} => made[p] > 0
        /\ pc[p] = "store" => myTail[p] <= Len(slots)
        /\ ~overlap /\ pc[p] # "idle" => Serving /\ pc[p] # "crashed"

\* Nothing is logged before the first Initialize is done.
Untouched ==
    ~isExit /\ ~isInitialize => slots = <<>> /\ pushed = <<>> /\ \A p \in Producers : pc[p] = "idle"

LoggerInv == TypeOK /\ Resources /\ Worker /\ Pushing /\ Untouched

\* One producer: the queue is what was pushed, and the files with the log in the worker's
\* hand are what was dequeued, until the worker has seen is_exit_.
InOrder ==
    /\ slots = pushed /\ tail = Len(slots) /\ head <= tail
    /\ \A p \in Producers : pc[p] = "store" => myTail[p] = tail
    /\ inHand # <<>> => inHand[1] = pushed[head]
    /\ ~isExit \/ workerPc = "write" => Len(written) + Len(inHand) = head
    /\ NoGap

OneProducer == \A p, q \in Producers : p = q

-----------------------------------------------------------------------------
(* Every step keeps the invariant                                          *)

\* The steps of Initialize.
LEMMA InitializeStep ==
    ASSUME LoggerInv, UNCHANGED overlap, Initialize
    PROVE  LoggerInv'
<1>1. TypeOK /\ Resources /\ Worker /\ Pushing /\ Untouched
  BY DEF LoggerInv
<1>2. MaxRounds \in Nat /\ MaxFileSize \in Nat
  BY LoggerAssumption
<1> USE DEF queueVars, workerVars, fileVars, pushVars, Serving, Releasing
<1>3. CASE CreateSemaphore
  <2>1. TypeOK'
    BY <1>1, <1>2, <1>3 DEF CreateSemaphore, TypeOK, AppPlace
  <2>2. Resources'
    BY <1>1, <1>3 DEF CreateSemaphore, TypeOK, Resources
  <2>3. Worker'
    BY <1>1, <1>3 DEF CreateSemaphore, TypeOK, Worker, Resources
  <2>4. Pushing' /\ Untouched'
    BY <1>1, <1>3 DEF CreateSemaphore, TypeOK, Pushing, Untouched
  <2> QED
    BY <2>1, <2>2, <2>3, <2>4 DEF LoggerInv
<1>4. CASE StartThread
  <2>1. TypeOK'
    BY <1>1, <1>2, <1>4 DEF StartThread, TypeOK, AppPlace, WorkerPlace
  <2>2. Resources'
    BY <1>1, <1>4 DEF StartThread, TypeOK, Resources
  <2>3. Worker'
    BY <1>1, <1>4 DEF StartThread, TypeOK, Worker, Resources
  <2>4. Pushing' /\ Untouched'
    BY <1>1, <1>4 DEF StartThread, TypeOK, Pushing, Untouched
  <2> QED
    BY <2>1, <2>2, <2>3, <2>4 DEF LoggerInv
<1>5. CASE InitWriter
  <2>1. TypeOK'
    BY <1>1, <1>2, <1>5 DEF InitWriter, RollFile, TypeOK, AppPlace
  <2>2. Resources'
    BY <1>1, <1>5 DEF InitWriter, RollFile, TypeOK, Resources
  <2>3. Worker'
    BY <1>1, <1>5 DEF InitWriter, RollFile, TypeOK, Worker, Resources
  <2>4. Pushing' /\ Untouched'
    BY <1>1, <1>5 DEF InitWriter, TypeOK, Pushing, Untouched
  <2> QED
    BY <2>1, <2>2, <2>3, <2>4 DEF LoggerInv
<1>6. CASE PublishInit
  <2>1. TypeOK'
    BY <1>1, <1>2, <1>6 DEF PublishInit, TypeOK, AppPlace
  <2>2. Resources'
    BY <1>1, <1>6 DEF PublishInit, TypeOK, Resources
  <2>3. Worker'
    BY <1>1, <1>6 DEF PublishInit, TypeOK, Worker, Resources
  <2>4. Pushing' /\ Untouched'
    BY <1>1, <1>6 DEF PublishInit, TypeOK, Pushing, Untouched, Resources
  <2> QED
    BY <2>1, <2>2, <2>3, <2>4 DEF LoggerInv
<1> QED
  BY <1>3, <1>4, <1>5, <1>6 DEF Initialize

\* The steps of Release: the worker is joined before what it uses is dropped.
LEMMA ReleaseStep ==
    ASSUME LoggerInv, UNCHANGED overlap, Release
    PROVE  LoggerInv'
<1>1. TypeOK /\ Resources /\ Worker /\ Pushing /\ Untouched
  BY DEF LoggerInv
<1> USE DEF queueVars, workerVars, fileVars, pushVars, Serving, Releasing
<1>2. CASE RequestExit
  <2>1. TypeOK'
    BY <1>1, <1>2 DEF RequestExit, TypeOK, AppPlace
  <2>2. Resources' /\ Worker'
    BY <1>1, <1>2 DEF RequestExit, TypeOK, Resources, Worker
  <2>3. Pushing' /\ Untouched'
    BY <1>1, <1>2 DEF RequestExit, TypeOK, Pushing, Untouched
  <2> QED
    BY <2>1, <2>2, <2>3 DEF LoggerInv
<1>3. CASE LoadWaiters \/ PostAll
  <2>1. TypeOK'
    <3>1. CASE LoadWaiters
      BY <1>1, <3>1 DEF LoadWaiters, TypeOK, AppPlace
    <3>2. CASE PostAll
      BY <1>1, <3>2 DEF PostAll, TypeOK, AppPlace
    <3> QED
      BY <1>3, <3>1, <3>2
  <2>2. Resources' /\ Worker'
    BY <1>1, <1>3 DEF LoadWaiters, PostAll, TypeOK, Resources, Worker
  <2>3. Pushing' /\ Untouched'
    BY <1>1, <1>3 DEF LoadWaiters, PostAll, TypeOK, Pushing, Untouched
  <2> QED
    BY <2>1, <2>2, <2>3 DEF LoggerInv
<1>4. CASE Join \/ DropSemaphore
  <2>1. TypeOK'
    BY <1>1, <1>4 DEF Join, DropSemaphore, TypeOK, AppPlace, WorkerPlace
  <2>2. Resources' /\ Worker'
    BY <1>1, <1>4 DEF Join, DropSemaphore, TypeOK, Resources, Worker
  <2>3. Pushing' /\ Untouched'
    BY <1>1, <1>4 DEF Join, DropSemaphore, TypeOK, Pushing, Untouched
  <2> QED
    BY <2>1, <2>2, <2>3 DEF LoggerInv
<1>5. CASE ReleaseWriter \/ UnpublishInit
  <2>1. TypeOK'
    BY <1>1, <1>5 DEF ReleaseWriter, UnpublishInit, TypeOK, AppPlace
  <2>2. Resources' /\ Worker'
    BY <1>1, <1>5 DEF ReleaseWriter, UnpublishInit, TypeOK, Resources, Worker
  <2>3. Pushing' /\ Untouched'
    BY <1>1, <1>5 DEF ReleaseWriter, UnpublishInit, TypeOK, Pushing, Untouched, Resources
  <2> QED
    BY <2>1, <2>2, <2>3 DEF LoggerInv
<1> QED
  BY <1>2, <1>3, <1>4, <1>5 DEF Release

\* The steps of Push.
LEMMA PushKeeps ==
    ASSUME LoggerInv, UNCHANGED overlap, NEW p \in Producers, PushStep(p)
    PROVE  LoggerInv'
<1>1. TypeOK /\ Resources /\ Worker /\ Pushing /\ Untouched /\ MaxLogs \in Nat
  BY LoggerAssumption DEF LoggerInv
<1> USE DEF appVars, queueVars, workerVars, fileVars, Goto, Serving
<1>2. CASE Push(p)
  <2>1. TypeOK'
    BY <1>1, <1>2 DEF Push, TypeOK, Place
  <2>2. Resources' /\ Worker'
    BY <1>1, <1>2 DEF Push, Resources, Worker
  <2>3. Serving \/ overlap
    BY <1>1, <1>2 DEF Push, Resources, TypeOK, AppPlace, Releasing
  <2>4. Pushing' /\ Untouched'
    BY <1>1, <1>2, <2>3 DEF Push, TypeOK, Pushing, Untouched
  <2> QED
    BY <2>1, <2>2, <2>4 DEF LoggerInv
<1>3. CASE LoadTail(p)
  <2>1. TypeOK'
    BY <1>1, <1>3 DEF LoadTail, TypeOK, Place
  <2>2. Resources' /\ Worker'
    BY <1>1, <1>3 DEF LoadTail, Resources, Worker
  <2>3. Pushing' /\ Untouched'
    BY <1>1, <1>3 DEF LoadTail, TypeOK, Pushing, Untouched
  <2> QED
    BY <2>1, <2>2, <2>3 DEF LoggerInv
<1>4. CASE Store(p)
  <2>1. <<p, made[p]>> \in Log /\ myTail[p] \in Nat /\ myTail[p] <= Len(slots)
    BY <1>1, <1>4 DEF Store, TypeOK, Pushing, Log
  <2>2. /\ slots' \in Seq(Log) /\ pushed' \in Seq(Log)
        /\ Len(slots') >= Len(slots) /\ tail' \in 0..Len(slots')
    <3>1. slots \in Seq(Log) /\ Len(slots) \in Nat /\ pushed' \in Seq(Log)
      BY <1>1, <1>4, <2>1 DEF Store, TypeOK
    <3>2. CASE myTail[p] < Len(slots)
      <4>1. slots' = [slots EXCEPT ![myTail[p] + 1] = <<p, made[p]>>] /\ tail' = myTail[p] + 1
        BY <1>4, <3>2 DEF Store
      <4>2. myTail[p] + 1 \in 1..Len(slots)
        BY <2>1, <3>1, <3>2
      <4>3. slots' \in Seq(Log) /\ Len(slots') = Len(slots)
        BY <2>1, <3>1, <4>1, <4>2, ExceptSeq
      <4> QED
        BY <2>1, <3>1, <4>1, <4>2, <4>3
    <3>3. CASE ~(myTail[p] < Len(slots))
      <4>1. slots' = Append(slots, <<p, made[p]>>) /\ tail' = myTail[p] + 1
        BY <1>4, <3>3 DEF Store
      <4>2. slots' \in Seq(Log) /\ Len(slots') = Len(slots) + 1
        BY <2>1, <3>1, <4>1
      <4> QED
        BY <2>1, <3>1, <3>3, <4>1, <4>2
    <3> QED
      BY <3>2, <3>3
  <2>3. TypeOK'
    <3>1. head \in 0..Len(slots')
      BY <1>1, <2>2 DEF TypeOK
    <3> QED
      BY <1>1, <1>4, <2>2, <3>1 DEF Store, TypeOK, Place
  <2>4. Resources' /\ Worker'
    BY <1>1, <1>4 DEF Store, Resources, Worker
  <2>5. Pushing'
    BY <1>1, <1>4, <2>2 DEF Store, TypeOK, Pushing
  <2>6. Untouched'
    BY <1>1, <1>4 DEF Store, Untouched
  <2> QED
    BY <2>3, <2>4, <2>5, <2>6 DEF LoggerInv
<1>5. CASE TestWaiters(p) \/ Post(p) \/ Crash(p)
  <2>1. TypeOK'
    <3>1. pc \in [Producers -> Place] /\ posts \in Nat
      BY <1>1 DEF TypeOK
    <3>2. pc' \in [Producers -> Place]
      BY <1>5, <3>1 DEF TestWaiters, Post, Crash, Place
    <3>3. posts' \in Nat
      BY <1>5, <3>1 DEF TestWaiters, Post, Crash
    <3>4. UNCHANGED <<appVars, queueVars, waiters, workerVars, fileVars, myTail, made>>
      BY <1>5 DEF TestWaiters, Post, Crash
    <3> QED
      BY <1>1, <3>1, <3>2, <3>3, <3>4 DEF TypeOK
  <2>2. Resources' /\ Worker'
    BY <1>1, <1>5 DEF TestWaiters, Post, Crash, Resources, Worker
  <2>3. Pushing' /\ Untouched'
    BY <1>1, <1>5 DEF TestWaiters, Post, Crash, TypeOK, Pushing, Untouched, Resources
  <2> QED
    BY <2>1, <2>2, <2>3 DEF LoggerInv
<1> QED
  BY <1>2, <1>3, <1>4, <1>5 DEF PushStep

\* The steps of the worker: what it takes from the queue has been pushed while the logger
\* was initialised, so that its file is open.
LEMMA WorkerKeeps ==
    ASSUME LoggerInv, UNCHANGED overlap, WorkerStep
    PROVE  LoggerInv'
<1>1. TypeOK /\ Resources /\ Worker /\ Pushing /\ Untouched /\ MaxFileSize \in Nat
  BY LoggerAssumption DEF LoggerInv
<1> USE DEF appVars, queueVars, fileVars, pushVars, Serving
<1>2. CASE Dequeue
  <2>1. head < tail => slots[head + 1] \in Log /\ head + 1 \in 0..Len(slots)
    BY <1>1 DEF TypeOK
  <2>2. TypeOK'
    <3>1. /\ inHand' \in Seq(Log) /\ workerPc' \in WorkerPlace
          /\ Len(inHand') = (IF workerPc' \in {"checkExit", "write"} THEN 1 ELSE 0)
      <4>1. inHand \in Seq(Log) /\ Len(inHand) = 0
        BY <1>1, <1>2 DEF Dequeue, TypeOK
      <4>2. CASE head < tail
        <5>1. inHand' = <<slots[head + 1]>> /\ workerPc' = "checkExit" /\ slots[head + 1] \in Log
          BY <1>2, <2>1, <4>2 DEF Dequeue
        <5>2. inHand' \in Seq(Log) /\ Len(inHand') = 1
          BY <5>1
        <5> QED
          BY <5>1, <5>2 DEF WorkerPlace
      <4>3. CASE ~(head < tail)
        BY <1>2, <4>1, <4>3 DEF Dequeue, WorkerPlace
      <4> QED
        BY <4>2, <4>3
    <3>2. head' \in 0..Len(slots)
      BY <1>1, <1>2, <2>1 DEF Dequeue, TypeOK
    <3> QED
      BY <1>1, <1>2, <3>1, <3>2 DEF Dequeue, TypeOK
  <2>3. Resources' /\ Worker'
    BY <1>1, <1>2 DEF Dequeue, TypeOK, Resources, Worker
  <2>4. Pushing' /\ Untouched'
    BY <1>1, <1>2 DEF Dequeue, Pushing, Untouched
  <2> QED
    BY <2>2, <2>3, <2>4 DEF LoggerInv
<1>3. CASE TestExit \/ EnterWait \/ SemWait \/ LeaveWait
  <2>1. TypeOK'
    BY <1>1, <1>3 DEF TestExit, EnterWait, SemWait, LeaveWait, TypeOK, WorkerPlace, Worker
  <2>2. Resources'
    BY <1>1, <1>3 DEF TestExit, EnterWait, SemWait, LeaveWait, Resources
  <2>3. Worker'
    BY <1>1, <1>3 DEF TestExit, EnterWait, SemWait, LeaveWait, Worker
  <2>4. Pushing' /\ Untouched'
    BY <1>1, <1>3 DEF TestExit, EnterWait, SemWait, LeaveWait, Pushing, Untouched
  <2> QED
    BY <2>1, <2>2, <2>3, <2>4 DEF LoggerInv
<1>4. CASE CheckExit
  <2>1. TypeOK'
    <3>1. /\ inHand' \in Seq(Log) /\ workerPc' \in WorkerPlace
          /\ Len(inHand') = (IF workerPc' \in {"checkExit", "write"} THEN 1 ELSE 0)
      <4>1. inHand \in Seq(Log) /\ Len(inHand) = 1
        BY <1>1, <1>4 DEF CheckExit, TypeOK
      <4>2. CASE isExit
        <5>1. inHand' = <<>> /\ workerPc' = "ended"
          BY <1>4, <4>2 DEF CheckExit
        <5> QED
          BY <5>1 DEF WorkerPlace
      <4>3. CASE ~isExit
        <5>1. inHand' = inHand /\ workerPc' = "write"
          BY <1>4, <4>3 DEF CheckExit
        <5> QED
          BY <4>1, <5>1 DEF WorkerPlace
      <4> QED
        BY <4>2, <4>3
    <3> QED
      BY <1>1, <1>4, <3>1 DEF CheckExit, TypeOK
  <2>2. Resources'
    BY <1>1, <1>4 DEF CheckExit, Resources
  <2>3. Worker'
    <3>1. ~isExit => isInitialize
      BY <1>1, <1>4 DEF CheckExit, Worker, Untouched, TypeOK
    <3>2. ~isExit => writerOpen
      BY <1>1, <3>1 DEF Resources, TypeOK, AppPlace, Releasing
    <3> QED
      BY <1>1, <1>4, <3>2 DEF CheckExit, Worker
  <2>4. Pushing' /\ Untouched'
    BY <1>1, <1>4 DEF CheckExit, Pushing, Untouched
  <2> QED
    BY <2>1, <2>2, <2>3, <2>4 DEF LoggerInv
<1>5. CASE Write
  <2>1. writerOpen /\ writerOpen' /\ inHand[1] \in Log
    <3>1. writerOpen /\ writerOpen'
      BY <1>1, <1>5 DEF Write, WriteToFile, RollFile, Worker
    <3>2. inHand \in Seq(Log) /\ Len(inHand) = 1
      BY <1>1, <1>5 DEF Write, TypeOK
    <3> QED
      BY <3>1, <3>2
  <2>2. written' \in Seq([log : Log, file : Nat])
    <3>1. [log |-> inHand[1], file |-> fileNumber] \in [log : Log, file : Nat]
      BY <1>1, <2>1 DEF TypeOK
    <3> QED
      BY <1>1, <1>5, <2>1, <3>1, AppendProperties DEF Write, WriteToFile, TypeOK
  <2>3. bytesWritten' \in 0..MaxFileSize /\ fileNumber' \in Nat
    BY <1>1, <1>5 DEF Write, WriteToFile, RollFile, TypeOK
  <2>4. TypeOK'
    BY <1>1, <1>5, <2>1, <2>2, <2>3 DEF Write, TypeOK, WorkerPlace
  <2>5. Resources' /\ Worker'
    BY <1>1, <1>5, <2>1 DEF Write, Resources, Worker
  <2>6. Pushing' /\ Untouched'
    BY <1>1, <1>5 DEF Write, Pushing, Untouched
  <2> QED
    BY <2>4, <2>5, <2>6 DEF LoggerInv
<1> QED
  BY <1>2, <1>3, <1>4, <1>5 DEF WorkerStep

\* The invariant holds always.
LEMMA LoggerAlways == Spec => []LoggerInv
<1>1. Init => LoggerInv
  <2> SUFFICES ASSUME Init PROVE LoggerInv
    OBVIOUS
  <2>1. TypeOK
    <3>1. /\ overlap \in BOOLEAN /\ rounds \in 0..MaxRounds /\ bytesWritten \in 0..MaxFileSize
          /\ MaxLogs \in Nat
      BY LoggerAssumption DEF Init
    <3>2. pc \in [Producers -> Place] /\ myTail \in [Producers -> Nat] /\ made \in [Producers -> 0..MaxLogs]
      BY <3>1 DEF Init, Place
    <3>3. /\ slots \in Seq(Log) /\ pushed \in Seq(Log) /\ inHand \in Seq(Log) /\ Len(slots) = 0
          /\ written \in Seq([log : Log, file : Nat]) /\ Len(inHand) = 0
      BY DEF Init
    <3>4. /\ tail = 0 /\ head = 0 /\ posts = 0 /\ waiters = 0 /\ fileNumber = 0
          /\ appPc \in AppPlace /\ workerPc \in WorkerPlace /\ workerPc \notin {"checkExit", "write"}
      BY DEF Init, AppPlace, WorkerPlace
    <3>5. isInitialize \in BOOLEAN /\ isExit \in BOOLEAN /\ hasSem \in BOOLEAN /\ writerOpen \in BOOLEAN
      BY DEF Init
    <3>6. /\ tail \in 0..Len(slots) /\ head \in 0..Len(slots) /\ waiters \in 0..1 /\ posts \in Nat
          /\ fileNumber \in Nat
          /\ Len(inHand) = (IF workerPc \in {"checkExit", "write"} THEN 1 ELSE 0)
      BY <3>3, <3>4
    <3> QED
      BY <3>1, <3>2, <3>3, <3>4, <3>5, <3>6, Zenon DEF TypeOK
  <2>2. Resources /\ Worker
    BY DEF Init, Resources, Worker, Serving, Releasing
  <2>3. Pushing /\ Untouched
    BY DEF Init, Pushing, Untouched
  <2> QED
    BY <2>1, <2>2, <2>3 DEF LoggerInv
<1>2. LoggerInv /\ [Next]_vars => LoggerInv'
  <2>1. ASSUME LoggerInv, Next
        PROVE  LoggerInv'
    BY <2>1, InitializeStep, ReleaseStep, PushKeeps, WorkerKeeps DEF Next
  <2>2. ASSUME LoggerInv, UNCHANGED vars
        PROVE  LoggerInv'
    BY <2>2 DEF LoggerInv, TypeOK, Resources, Worker, Pushing, Untouched, Serving,
                vars, appVars, queueVars, workerVars, fileVars, pushVars
  <2> QED
    BY <2>1, <2>2
<1> QED
  BY <1>1, <1>2, PTL DEF Spec

\* For any producers: the worker never writes to a file that is not open, and when nobody
\* logs during Release the semaphore is there for everyone who is about to call it.
THEOREM ResourcesAliveAlways == Spec => []ResourcesAlive
<1>1. LoggerInv => ResourcesAlive
  <2> SUFFICES ASSUME LoggerInv PROVE ResourcesAlive
    OBVIOUS
  <2>1. TypeOK /\ Resources /\ Worker /\ Pushing
    BY DEF LoggerInv
  <2>2. workerPc \in {"enterWait", "semWait", "leaveWait"} => hasSem
    BY <2>1 DEF Resources
  <2>3. ~overlap => \A p \in Producers : pc[p] \in {"testWaiters", "post"} => hasSem
    BY <2>1 DEF Resources, Pushing
  <2> QED
    BY <2>1, <2>2, <2>3 DEF ResourcesAlive, SemaphoreAlive, Worker
<1> QED
  BY <1>1, LoggerAlways, PTL

-----------------------------------------------------------------------------
(* One producer: the files hold what was pushed                            *)

\* A step that touches neither the queue nor what has been taken from it.
LEMMA OrderSame ==
    ASSUME InOrder, UNCHANGED <<slots, tail, head, pushed, inHand, written>>,
           ~isExit' => ~isExit, workerPc' = "write" => workerPc = "write" \/ ~isExit,
           \A p \in Producers : pc'[p] = "store" => myTail'[p] = tail
    PROVE  InOrder'
<1>1. /\ slots' = slots /\ tail' = tail /\ head' = head /\ pushed' = pushed
      /\ inHand' = inHand /\ written' = written
  OBVIOUS
<1> QED
  BY <1>1 DEF InOrder, NoGap

\* Push puts a log behind the others.
LEMMA OrderPush ==
    ASSUME OneProducer, LoggerInv, InOrder, NEW p \in Producers, PushStep(p)
    PROVE  InOrder'
<1>1. /\ slots \in Seq(Log) /\ pushed \in Seq(Log) /\ Len(slots) \in Nat /\ head \in Nat
      /\ pc \in [Producers -> Place] /\ myTail \in [Producers -> Nat] /\ Len(written) \in Nat
      /\ Len(inHand) = (IF workerPc \in {"checkExit", "write"} THEN 1 ELSE 0) /\ inHand \in Seq(Log)
      /\ workerPc \in {"checkExit", "write"} => head > 0
      /\ written \in Seq([log : Log, file : Nat])
  BY DEF LoggerInv, TypeOK, Worker
<1>2. /\ slots = pushed /\ tail = Len(slots) /\ head <= tail /\ NoGap
      /\ pc[p] = "store" => myTail[p] = tail
  BY DEF InOrder
<1> USE DEF appVars, queueVars, workerVars, fileVars, Goto
<1>3. CASE LoadTail(p)
  <2>1. \A q \in Producers : pc'[q] = "store" => myTail'[q] = tail
    BY <1>1, <1>3 DEF LoadTail, OneProducer
  <2> QED
    BY <1>3, <2>1, OrderSame DEF LoadTail
<1>4. CASE Push(p) \/ TestWaiters(p) \/ Post(p) \/ Crash(p)
  <2>1. \A q \in Producers : pc'[q] = "store" => pc[q] = "store"
    BY <1>1, <1>4 DEF Push, TestWaiters, Post, Crash
  <2>2. /\ UNCHANGED <<slots, tail, head, pushed, inHand, written, isExit, workerPc, myTail>>
    BY <1>4 DEF Push, TestWaiters, Post, Crash
  <2> QED
    BY <2>1, <2>2, OrderSame DEF InOrder
<1>5. CASE Store(p)
  <2> DEFINE log == <<p, made[p]>>
  <2>1. /\ slots' = Append(slots, log) /\ pushed' = Append(pushed, log) /\ tail' = tail + 1
        /\ UNCHANGED <<head, inHand, written, isExit, workerPc, myTail>>
        /\ \A q \in Producers : pc'[q] # "store"
    BY <1>1, <1>2, <1>5 DEF Store, OneProducer
  <2> HIDE DEF log
  <2>2. /\ Len(pushed') = Len(pushed) + 1 /\ Len(slots') = Len(slots) + 1
        /\ \A i \in 1..Len(pushed) : pushed'[i] = pushed[i]
    BY <1>1, <2>1
  <2>3. inHand' # <<>> => inHand'[1] = pushed'[head']
    <3>1. inHand # <<>> => head \in 1..Len(pushed)
      BY <1>1, <1>2, EmptySeq
    <3> QED
      BY <2>1, <2>2, <3>1 DEF InOrder
  <2>4. NoGap'
    <3>1. \A i \in DOMAIN written : i \in 1..Len(pushed)
      BY <1>1, <1>2 DEF NoGap
    <3> QED
      BY <1>1, <1>2, <2>1, <2>2, <3>1 DEF NoGap
  <2>5. slots' = pushed' /\ tail' = Len(slots') /\ head' <= tail'
    BY <1>1, <1>2, <2>1, <2>2
  <2> QED
    BY <2>1, <2>3, <2>4, <2>5 DEF InOrder
<1> QED
  BY <1>3, <1>4, <1>5 DEF PushStep

\* The worker takes the oldest log and writes it behind the others.
LEMMA OrderWorker ==
    ASSUME LoggerInv, InOrder, WorkerStep
    PROVE  InOrder'
<1>1. /\ slots \in Seq(Log) /\ pushed \in Seq(Log) /\ Len(slots) \in Nat /\ head \in Nat
      /\ Len(inHand) = (IF workerPc \in {"checkExit", "write"} THEN 1 ELSE 0)
      /\ inHand \in Seq(Log) /\ written \in Seq([log : Log, file : Nat]) /\ fileNumber \in Nat
      /\ workerPc = "write" => writerOpen
      /\ workerPc \in {"checkExit", "write"} => head > 0
  BY DEF LoggerInv, TypeOK, Worker
<1>2. slots = pushed /\ tail = Len(slots) /\ head <= tail /\ NoGap
  BY DEF InOrder
<1> USE DEF appVars, queueVars, fileVars, pushVars
<1>3. CASE TestExit \/ EnterWait \/ SemWait \/ LeaveWait
  BY <1>3, OrderSame DEF TestExit, EnterWait, SemWait, LeaveWait, InOrder
<1>4. CASE Dequeue
  <2>1. CASE head < tail
    <3>1. /\ inHand' = <<pushed[head + 1]>> /\ head' = head + 1 /\ workerPc' = "checkExit" /\ workerPc = "dequeue"
          /\ UNCHANGED <<slots, tail, pushed, pc, myTail, isExit, written>>
      BY <1>2, <1>4, <2>1 DEF Dequeue
    <3>2. Len(inHand') = 1 /\ inHand'[1] = pushed'[head'] /\ head' <= tail' /\ Len(inHand) = 0
      BY <1>1, <1>2, <2>1, <3>1
    <3>3. ~isExit' => Len(written') + Len(inHand') = head'
      BY <1>1, <3>1, <3>2 DEF InOrder
    <3> QED
      BY <3>1, <3>2, <3>3 DEF InOrder, NoGap
  <2>2. CASE ~(head < tail)
    BY <1>4, <2>2, OrderSame DEF Dequeue, InOrder
  <2> QED
    BY <2>1, <2>2
<1>5. CASE CheckExit
  <2>1. CASE isExit
    <3>1. /\ inHand' = <<>> /\ workerPc' = "ended"
          /\ UNCHANGED <<slots, tail, head, pushed, pc, myTail, isExit, written>>
      BY <1>5, <2>1 DEF CheckExit
    <3> QED
      BY <2>1, <3>1 DEF InOrder, NoGap
  <2>2. CASE ~isExit
    BY <1>5, <2>2, OrderSame DEF CheckExit, InOrder
  <2> QED
    BY <2>1, <2>2
<1>6. CASE Write
  <2>1. /\ written' = Append(written, [log |-> inHand[1], file |-> fileNumber]) /\ inHand' = <<>>
        /\ workerPc = "write" /\ workerPc' = "dequeue"
        /\ UNCHANGED <<slots, tail, head, pushed, pc, myTail, isExit>>
    BY <1>1, <1>6 DEF Write, WriteToFile
  <2>2. Len(inHand) = 1 /\ inHand # <<>> /\ inHand[1] = pushed[head] /\ Len(written) + 1 = head
    <3>1. Len(inHand) = 1 /\ inHand # <<>>
      <4>1. Len(inHand) = 1 /\ inHand \in Seq(Log)
        BY <1>1, <2>1
      <4>2. Len(<<>>) = 0
        OBVIOUS
      <4> QED
        BY <4>1, <4>2
    <3>2. inHand[1] = pushed[head] /\ Len(written) + Len(inHand) = head
      BY <2>1, <3>1 DEF InOrder
    <3> QED
      BY <3>1, <3>2
  <2>3. /\ Len(written') = Len(written) + 1 /\ DOMAIN written' = 1..(Len(written) + 1)
        /\ \A i \in DOMAIN written : written'[i] = written[i] /\ DOMAIN written = 1..Len(written)
        /\ written'[Len(written) + 1].log = inHand[1]
    <3> DEFINE r == [log |-> inHand[1], file |-> fileNumber]
    <3>1. r \in [log : Log, file : Nat] /\ r.log = inHand[1]
      <4>1. inHand \in Seq(Log) /\ 1 \in 1..Len(inHand)
        BY <1>1, <2>2
      <4>2. inHand[1] \in Log
        BY <4>1, ElementOfSeq
      <4> QED
        BY <1>1, <4>2
    <3>2. written' = Append(written, r)
      BY <2>1
    <3> HIDE DEF r
    <3> QED
      BY <1>1, <3>1, <3>2, AppendProperties
  <2>4. NoGap'
    <3>1. Len(written') <= Len(pushed')
      BY <1>1, <1>2, <2>1, <2>2, <2>3
    <3>2. ASSUME NEW i \in DOMAIN written'
          PROVE  written'[i].log = pushed'[i]
      <4>1. CASE i = Len(written) + 1
        BY <2>1, <2>2, <2>3, <4>1
      <4>2. CASE i # Len(written) + 1
        <5>1. i \in DOMAIN written
          BY <1>1, <2>3, <4>2
        <5> QED
          BY <1>2, <2>1, <2>3, <5>1 DEF NoGap
      <4> QED
        BY <4>1, <4>2
    <3> QED
      BY <3>1, <3>2 DEF NoGap
  <2>5. Len(inHand') = 0 /\ Len(written') + Len(inHand') = head'
    BY <1>1, <2>1, <2>2, <2>3
  <2> QED
    BY <2>1, <2>4, <2>5 DEF InOrder
<1> QED
  BY <1>3, <1>4, <1>5, <1>6 DEF WorkerStep

\* One producer keeps the order.
LEMMA OrderAlways ==
    ASSUME OneProducer
    PROVE  Spec => [](LoggerInv /\ InOrder)
<1>1. Init => InOrder
  <2> SUFFICES ASSUME Init PROVE InOrder
    OBVIOUS
  <2>1. slots = <<>> /\ pushed = <<>> /\ inHand = <<>> /\ written = <<>> /\ tail = 0 /\ head = 0
    BY DEF Init
  <2>2. \A p \in Producers : pc[p] = "idle"
    BY DEF Init
  <2> QED
    BY <2>1, <2>2 DEF InOrder, NoGap
<1>2. LoggerInv /\ InOrder /\ [Next]_vars => InOrder'
  <2>1. ASSUME LoggerInv, InOrder, Initialize \/ Release
        PROVE  InOrder'
    <3>1. UNCHANGED <<slots, tail, head, pushed, inHand, written, pc, myTail>>
      BY <2>1 DEF Initialize, CreateSemaphore, StartThread, InitWriter, PublishInit, RollFile,
                  Release, RequestExit, LoadWaiters, PostAll, Join, DropSemaphore, ReleaseWriter,
                  UnpublishInit, queueVars, workerVars, fileVars, pushVars
    <3>2. (~isExit' => ~isExit) /\ (workerPc' = "write" => workerPc = "write")
      BY <2>1 DEF Initialize, CreateSemaphore, StartThread, InitWriter, PublishInit,
                  Release, RequestExit, LoadWaiters, PostAll, Join, DropSemaphore, ReleaseWriter,
                  UnpublishInit, workerVars
    <3> QED
      BY <2>1, <3>1, <3>2, OrderSame DEF InOrder
  <2>2. ASSUME LoggerInv, InOrder, UNCHANGED vars
        PROVE  InOrder'
    BY <2>2, OrderSame DEF InOrder, vars, appVars, queueVars, workerVars, fileVars, pushVars
  <2> QED
    BY <2>1, <2>2, OrderPush, OrderWorker DEF Next
<1> QED
  BY <1>1, <1>2, LoggerAlways, PTL DEF Spec

\* With one producer, whatever Release throws away, the files hold the oldest logs without
\* a gap, in the order they were pushed.
THEOREM NoGapAlways ==
    ASSUME OneProducer
    PROVE  Spec => []NoGap
<1>1. InOrder => NoGap
  BY DEF InOrder
<1> QED
  BY <1>1, OrderAlways, PTL

\* With one producer, until Release is called, what is written, in the worker's hand and in
\* the queue is what was pushed, in that order.
THEOREM NothingLostAlways ==
    ASSUME OneProducer
    PROVE  Spec => []NothingLost
<1>1. ASSUME LoggerInv, InOrder, ~isExit
      PROVE  AllLogs = pushed
  <2>1. /\ slots \in Seq(Log) /\ head \in Nat /\ tail = Len(slots) /\ head <= tail /\ slots = pushed
        /\ inHand \in Seq(Log) /\ Len(inHand) \in 0..1 /\ written \in Seq([log : Log, file : Nat])
        /\ Len(written) + Len(inHand) = head /\ (Len(inHand) = 1 => inHand[1] = pushed[head])
        /\ \A i \in DOMAIN written : written[i].log = pushed[i]
    BY <1>1 DEF LoggerInv, TypeOK, InOrder, NoGap
  <2> DEFINE w == WrittenLogs
             wh == WrittenLogs \o inHand
  <2>2. w \in Seq(Log) /\ Len(w) = Len(written) /\ \A i \in 1..Len(written) : w[i] = pushed[i]
    <3>1. DOMAIN written = 1..Len(written) /\ Len(written) \in Nat /\ w = [i \in 1..Len(written) |-> written[i].log]
      BY <2>1 DEF WrittenLogs
    <3>2. \A i \in 1..Len(written) : written[i].log \in Log
      <4> TAKE i \in 1..Len(written)
      <4>1. written[i] \in [log : Log, file : Nat]
        BY <2>1, ElementOfSeq
      <4> QED
        BY <4>1
    <3> QED
      BY <2>1, <3>1, <3>2, IsASeq
  <2>3. Queued \in Seq(Log) /\ Len(Queued) = tail - head /\ \A i \in 1..(tail - head) : Queued[i] = pushed[head + i]
    BY <2>1 DEF Queued
  <2> HIDE DEF w
  <2>4. wh \in Seq(Log) /\ Len(wh) = head /\ \A i \in 1..head : wh[i] = pushed[i]
    <3>1. wh = w \o inHand /\ Len(w) \in Nat
      BY <2>1, <2>2 DEF w
    <3>2. wh \in Seq(Log) /\ Len(wh) = Len(w) + Len(inHand)
      <4>1. w \in Seq(Log) /\ inHand \in Seq(Log)
        BY <2>1, <2>2
      <4> QED
        BY <3>1, <4>1, ConcatProperties
    <3>3. ASSUME NEW i \in 1..head
          PROVE  wh[i] = pushed[i]
      <4>1. wh[i] = IF i <= Len(w) THEN w[i] ELSE inHand[i - Len(w)]
        <5>1. w \in Seq(Log) /\ inHand \in Seq(Log) /\ i \in 1..(Len(w) + Len(inHand))
          BY <2>1, <2>2, <3>2
        <5> QED
          BY <3>1, <5>1, ConcatProperties
      <4>2. CASE i <= Len(w)
        BY <2>2, <4>1, <4>2
      <4>3. CASE ~(i <= Len(w))
        <5>1. PICK n \in Nat, m \in 0..1 : n = Len(w) /\ m = Len(inHand) /\ n + m = head
          BY <2>1, <2>2, <3>1
        <5>2. i \in 1..(n + m) /\ ~(i <= n)
          BY <4>3, <5>1
        <5>3. m = 1 /\ i = n + 1
          BY <5>2
        <5>4. Len(inHand) = 1 /\ i = head /\ i - Len(w) = 1
          BY <5>1, <5>3
        <5> QED
          BY <2>1, <4>1, <4>3, <5>4
      <4> QED
        BY <4>2, <4>3
    <3> QED
      BY <2>1, <2>2, <3>2, <3>3
  <2> HIDE DEF wh
  <2>5. AllLogs = wh \o Queued
    BY DEF AllLogs, wh
  <2>6. AllLogs \in Seq(Log) /\ Len(AllLogs) = Len(pushed)
    <3>1. wh \o Queued \in Seq(Log) /\ Len(wh \o Queued) = Len(wh) + Len(Queued)
      BY <2>3, <2>4, ConcatProperties
    <3>2. Len(wh) + Len(Queued) = Len(pushed)
      BY <2>1, <2>3, <2>4
    <3> QED
      BY <2>5, <3>1, <3>2
  <2>7. ASSUME NEW i \in 1..Len(pushed)
        PROVE  AllLogs[i] = pushed[i]
    <3>1. AllLogs[i] = IF i <= head THEN wh[i] ELSE Queued[i - head]
      <4>1. i \in 1..(Len(wh) + Len(Queued)) /\ Len(wh) = head
        BY <2>1, <2>3, <2>4
      <4> QED
        BY <2>3, <2>4, <2>5, <4>1, ConcatProperties
    <3>2. CASE i <= head
      BY <2>1, <2>4, <3>1, <3>2
    <3>3. CASE ~(i <= head)
      <4>1. i - head \in 1..(tail - head) /\ head + (i - head) = i
        BY <2>1, <3>3
      <4> QED
        BY <2>3, <3>1, <3>3, <4>1
    <3> QED
      BY <3>2, <3>3
  <2> QED
    BY <2>1, <2>6, <2>7, SeqEqual
<1>2. LoggerInv /\ InOrder => NothingLost
  BY <1>1 DEF NothingLost
<1> QED
  BY <1>2, OrderAlways, PTL
=============================================================================
