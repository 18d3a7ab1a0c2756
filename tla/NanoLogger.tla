----------------------------- MODULE NanoLogger -----------------------------
(***************************************************************************)
(* The asynchronous logger of project_about/nano_log: NGNanoLogger of      *)
(* eddid_nano_logger.h with the NgLogFileWriter of eddid_log_writer.h.     *)
(*                                                                         *)
(* Producers push logs into a moodycamel queue through ONE shared producer *)
(* token; a worker thread takes them out and writes them to a file; an     *)
(* application thread initialises and releases the logger.  The worker     *)
(* sleeps on a counting semaphore, and a producer posts it only when it    *)
(* sees a waiter.  An action is one access to what the threads share.      *)
(*                                                                         *)
(* ng_semaphore is not in the repository: it is modelled from its calls    *)
(* here and from CSemaphore of feedproxy/public/eddid_semlock.cpp, which   *)
(* has the same operations.                                                *)
(***************************************************************************)
EXTENDS Naturals, Sequences, FiniteSets

CONSTANTS
    Producers,            \* the threads that log
    MaxLogs,              \* bound: the logs one producer pushes
    MaxRounds,            \* bound: the calls of Initialize that do anything
    MaxFileSize,          \* log_file_max_size_, in logs: every log has size 1
    MaxPosts,             \* bound: posts kept by a semaphore in release_all
    Overlaps              \* the uses: may producers be inside Push during Release?

ASSUME LoggerAssumption ==
    /\ MaxLogs \in Nat /\ MaxRounds \in Nat /\ MaxFileSize \in Nat
    /\ MaxPosts \in Nat \ {0}
    /\ Overlaps \subseteq BOOLEAN

VARIABLES
    overlap,        \* this use: producers may be inside Push while Release runs
    isInitialize,   \* is_initialize_
    isExit,         \* is_exit_
    slots,          \* the elements of log_content_, by index; never shortened
    tail,           \* tailIndex of the shared producer token
    head,           \* headIndex: the elements dequeued so far
    hasSem,         \* log_worker_semaphore_ is not null
    posts,          \* the count of the semaphore
    waiters,        \* waiter_count_
    appPc,          \* the application thread
    rounds,         \* how many times Initialize has run
    workerPc,       \* the worker thread; "none": log_worker_thread_ is null
    inHand,         \* the worker's log_ptr, as a sequence of at most one log
    writerOpen,     \* file_os_ is open
    bytesWritten,   \* bytes_written_
    fileNumber,     \* file_number_
    written,        \* what the files hold, oldest first: records [log, file]
    pc,             \* each producer's place in Push
    myTail,         \* each producer's currentTailIndex
    made,           \* how many logs each producer has made
    pushed          \* history: the logs in the order they became visible

appVars    == <<isInitialize, isExit, hasSem, appPc, rounds>>
queueVars  == <<slots, tail, head, pushed>>
workerVars == <<workerPc, inHand>>
fileVars   == <<writerOpen, bytesWritten, fileNumber, written>>
pushVars   == <<pc, myTail, made>>
vars == <<overlap, appVars, queueVars, posts, waiters, workerVars, fileVars, pushVars>>

Log == Producers \X (1..MaxLogs)

Init ==
    /\ overlap \in Overlaps
    /\ isInitialize = FALSE /\ isExit = FALSE
    /\ slots = <<>> /\ tail = 0 /\ head = 0 /\ pushed = <<>>
    /\ hasSem = FALSE /\ posts = 0 /\ waiters = 0
    /\ appPc = "idle" /\ rounds = 0
    /\ workerPc = "none" /\ inHand = <<>>
    /\ writerOpen = FALSE /\ bytesWritten = 0 /\ fileNumber = 0 /\ written = <<>>
    /\ pc = [p \in Producers |-> "idle"]
    /\ myTail = [p \in Producers |-> 0]
    /\ made = [p \in Producers |-> 0]

-----------------------------------------------------------------------------
(* NgLogFileWriter *)

\* RollFile: close the file, open the next one; the name holds file_number_.
RollFile ==
    /\ writerOpen' = TRUE
    /\ bytesWritten' = 0
    /\ fileNumber' = fileNumber + 1

\* Write: append to the open file (a closed stream takes nothing), roll it
\* when it has grown past the limit.
WriteToFile(log) ==
    /\ written' = IF writerOpen
                  THEN Append(written, [log |-> log, file |-> fileNumber])
                  ELSE written
    /\ IF bytesWritten + 1 > MaxFileSize
       THEN RollFile
       ELSE /\ bytesWritten' = bytesWritten + 1
            /\ UNCHANGED <<writerOpen, fileNumber>>

-----------------------------------------------------------------------------
(* Initialize and Release, called by the application thread *)

CreateSemaphore ==
    /\ appPc = "idle" /\ ~isInitialize /\ rounds < MaxRounds
    /\ rounds' = rounds + 1
    /\ hasSem' = TRUE
    /\ posts' = IF hasSem THEN posts ELSE 0
    /\ waiters' = IF hasSem THEN waiters ELSE 0
    /\ appPc' = "startThread"
    /\ UNCHANGED <<isInitialize, isExit, queueVars, workerVars, fileVars, pushVars>>

\* Initialize accepts logs before the writer has opened its file.
StartThread_PublishEarly ==
    /\ appPc = "startThread"
    /\ workerPc' = IF workerPc = "none" THEN "dequeue" ELSE workerPc
    /\ appPc' = "initWriter"
    /\ isInitialize' = TRUE
    /\ UNCHANGED <<isExit, hasSem, rounds, posts, waiters, inHand,
                   queueVars, fileVars, pushVars>>

StartThread ==
    /\ appPc = "startThread"
    /\ workerPc' = IF workerPc = "none" THEN "dequeue" ELSE workerPc
    /\ appPc' = "initWriter"
    /\ UNCHANGED <<isInitialize, isExit, hasSem, rounds, posts, waiters, inHand,
                   queueVars, fileVars, pushVars>>

InitWriter ==
    /\ appPc = "initWriter"
    /\ RollFile
    /\ appPc' = "publish"
    /\ UNCHANGED <<isInitialize, isExit, hasSem, rounds, posts, waiters, written,
                   queueVars, workerVars, pushVars>>

PublishInit ==
    /\ appPc = "publish"
    /\ isInitialize' = TRUE
    /\ appPc' = "idle"
    /\ UNCHANGED <<isExit, hasSem, rounds, posts, waiters,
                   queueVars, workerVars, fileVars, pushVars>>

\* Release forgets to tell the worker.
RequestExit_NoFlag ==
    /\ appPc = "idle" /\ isInitialize
    /\ overlap \/ \A p \in Producers : pc[p] = "idle"
    /\ isExit' = isExit
    /\ appPc' = "loadWaiters"
    /\ UNCHANGED <<isInitialize, hasSem, rounds, posts, waiters,
                   queueVars, workerVars, fileVars, pushVars>>

\* Release begins: is_exit_ is set, and nothing ever clears it.
RequestExit ==
    /\ appPc = "idle" /\ isInitialize
    /\ overlap \/ \A p \in Producers : pc[p] = "idle"
    /\ isExit' = TRUE
    /\ appPc' = "loadWaiters"
    /\ UNCHANGED <<isInitialize, hasSem, rounds, posts, waiters,
                   queueVars, workerVars, fileVars, pushVars>>

\* Release drops the semaphore without joining the worker.
LoadWaiters_NoJoin ==
    /\ appPc = "loadWaiters"
    /\ appPc' = IF waiters # 0 THEN "postAll" ELSE "dropSemaphore"
    /\ UNCHANGED <<isInitialize, isExit, hasSem, rounds, posts, waiters,
                   queueVars, workerVars, fileVars, pushVars>>

\* release_all: post while waiter_count_ is not zero.
LoadWaiters ==
    /\ appPc = "loadWaiters"
    /\ appPc' = IF waiters # 0 THEN "postAll" ELSE "join"
    /\ UNCHANGED <<isInitialize, isExit, hasSem, rounds, posts, waiters,
                   queueVars, workerVars, fileVars, pushVars>>

PostAll ==
    /\ appPc = "postAll"
    /\ posts' = IF posts < MaxPosts THEN posts + 1 ELSE posts
    /\ appPc' = "loadWaiters"
    /\ UNCHANGED <<isInitialize, isExit, hasSem, rounds, waiters,
                   queueVars, workerVars, fileVars, pushVars>>

Join ==
    /\ appPc = "join" /\ workerPc = "ended"
    /\ workerPc' = "none"
    /\ appPc' = "dropSemaphore"
    /\ UNCHANGED <<isInitialize, isExit, hasSem, rounds, posts, waiters, inHand,
                   queueVars, fileVars, pushVars>>

DropSemaphore ==
    /\ appPc = "dropSemaphore"
    /\ hasSem' = FALSE
    /\ appPc' = "releaseWriter"
    /\ UNCHANGED <<isInitialize, isExit, rounds, posts, waiters,
                   queueVars, workerVars, fileVars, pushVars>>

ReleaseWriter ==
    /\ appPc = "releaseWriter"
    /\ writerOpen' = FALSE
    /\ appPc' = "unpublish"
    /\ UNCHANGED <<isInitialize, isExit, hasSem, rounds, posts, waiters,
                   bytesWritten, fileNumber, written, queueVars, workerVars, pushVars>>

UnpublishInit ==
    /\ appPc = "unpublish"
    /\ isInitialize' = FALSE
    /\ appPc' = "idle"
    /\ UNCHANGED <<isExit, hasSem, rounds, posts, waiters,
                   queueVars, workerVars, fileVars, pushVars>>

Initialize == CreateSemaphore \/ StartThread \/ InitWriter \/ PublishInit
Release == \/ RequestExit \/ LoadWaiters \/ PostAll \/ Join
           \/ DropSemaphore \/ ReleaseWriter \/ UnpublishInit

-----------------------------------------------------------------------------
(* Push, called by the producers *)

Releasing == {"loadWaiters", "postAll", "join", "dropSemaphore", "releaseWriter", "unpublish"}

Goto(p, place) == pc' = [pc EXCEPT ![p] = place]

\* The test of is_initialize_.
Push(p) ==
    /\ pc[p] = "idle" /\ made[p] < MaxLogs /\ isInitialize
    /\ overlap \/ appPc \notin Releasing
    /\ made' = [made EXCEPT ![p] = made[p] + 1]
    /\ Goto(p, "loadTail")
    /\ UNCHANGED <<appVars, queueVars, posts, waiters, workerVars, fileVars, myTail>>

\* ExplicitProducer::enqueue reads tailIndex without any read-modify-write:
\* a token is for one thread at a time.
LoadTail(p) ==
    /\ pc[p] = "loadTail"
    /\ myTail' = [myTail EXCEPT ![p] = tail]
    /\ Goto(p, "store")
    /\ UNCHANGED <<appVars, queueVars, posts, waiters, workerVars, fileVars, made>>

\* A slot is filled without moving the tail.
Store_NoTail(p) ==
    /\ pc[p] = "store"
    /\ LET log == <<p, made[p]>> IN
         /\ slots' = IF myTail[p] < Len(slots)
                     THEN [slots EXCEPT ![myTail[p] + 1] = log]
                     ELSE Append(slots, log)
         /\ pushed' = Append(pushed, log)
    /\ tail' = IF myTail[p] < head THEN myTail[p] + 1 ELSE tail
    /\ Goto(p, "testWaiters")
    /\ UNCHANGED <<appVars, head, posts, waiters, workerVars, fileVars, myTail, made>>

\* It constructs the element in its slot and moves tailIndex behind it.
Store(p) ==
    /\ pc[p] = "store"
    /\ LET log == <<p, made[p]>> IN
         /\ slots' = IF myTail[p] < Len(slots)
                     THEN [slots EXCEPT ![myTail[p] + 1] = log]
                     ELSE Append(slots, log)
         /\ pushed' = Append(pushed, log)
    /\ tail' = myTail[p] + 1
    /\ Goto(p, "testWaiters")
    /\ UNCHANGED <<appVars, head, posts, waiters, workerVars, fileVars, myTail, made>>

\* log_worker_semaphore_->get_waitor_count() > 0
TestWaiters(p) ==
    /\ pc[p] = "testWaiters" /\ hasSem
    /\ Goto(p, IF waiters > 0 THEN "post" ELSE "idle")
    /\ UNCHANGED <<appVars, queueVars, posts, waiters, workerVars, fileVars, myTail, made>>

\* The post is lost.
Post_Lost(p) ==
    /\ pc[p] = "post" /\ hasSem
    /\ posts' = posts
    /\ Goto(p, "idle")
    /\ UNCHANGED <<appVars, queueVars, waiters, workerVars, fileVars, myTail, made>>

\* log_worker_semaphore_->release()
Post(p) ==
    /\ pc[p] = "post" /\ hasSem
    /\ posts' = posts + 1
    /\ Goto(p, "idle")
    /\ UNCHANGED <<appVars, queueVars, waiters, workerVars, fileVars, myTail, made>>

\* A call on the semaphore after Release has reset the pointer: the process is
\* killed by the null pointer, whatever it was doing.
Crash(p) ==
    /\ pc[p] \in {"testWaiters", "post"} /\ ~hasSem
    /\ Goto(p, "crashed")
    /\ UNCHANGED <<appVars, queueVars, posts, waiters, workerVars, fileVars, myTail, made>>

PushStep(p) == \/ Push(p) \/ LoadTail(p) \/ Store(p)
               \/ TestWaiters(p) \/ Post(p) \/ Crash(p)

-----------------------------------------------------------------------------
(* thread_func, the worker *)

\* The newest log is taken first.
Dequeue_Newest ==
    /\ workerPc = "dequeue"
    /\ IF head < tail
       THEN /\ inHand' = <<slots[tail]>>
            /\ head' = head + 1
            /\ workerPc' = "checkExit"
       ELSE /\ workerPc' = "testExit"
            /\ UNCHANGED <<inHand, head>>
    /\ UNCHANGED <<appVars, slots, tail, pushed, posts, waiters, fileVars, pushVars>>

\* try_dequeue, by the one consumer.
Dequeue ==
    /\ workerPc = "dequeue"
    /\ IF head < tail
       THEN /\ inHand' = <<slots[head + 1]>>
            /\ head' = head + 1
            /\ workerPc' = "checkExit"
       ELSE /\ workerPc' = "testExit"
            /\ UNCHANGED <<inHand, head>>
    /\ UNCHANGED <<appVars, slots, tail, pushed, posts, waiters, fileVars, pushVars>>

\* Nothing was dequeued: the inner loop tests is_exit_, and when it is set the
\* test behind the loop finds it set too.
TestExit ==
    /\ workerPc = "testExit"
    /\ workerPc' = IF isExit THEN "ended" ELSE "enterWait"
    /\ UNCHANGED <<appVars, queueVars, posts, waiters, inHand, fileVars, pushVars>>

EnterWait ==
    /\ workerPc = "enterWait"
    /\ waiters' = waiters + 1
    /\ workerPc' = "semWait"
    /\ UNCHANGED <<appVars, queueVars, posts, inHand, fileVars, pushVars>>

SemWait ==
    /\ workerPc = "semWait" /\ posts > 0
    /\ posts' = posts - 1
    /\ workerPc' = "leaveWait"
    /\ UNCHANGED <<appVars, queueVars, waiters, inHand, fileVars, pushVars>>

\* A wait that does not take itself off the count of the waiters.
LeaveWait_Counted ==
    /\ workerPc = "leaveWait"
    /\ waiters' = waiters
    /\ workerPc' = "dequeue"
    /\ UNCHANGED <<appVars, queueVars, posts, inHand, fileVars, pushVars>>

LeaveWait ==
    /\ workerPc = "leaveWait"
    /\ waiters' = waiters - 1
    /\ workerPc' = "dequeue"
    /\ UNCHANGED <<appVars, queueVars, posts, inHand, fileVars, pushVars>>

\* A log was dequeued: once is_exit_ is set it is thrown away.
CheckExit ==
    /\ workerPc = "checkExit"
    /\ IF isExit
       THEN workerPc' = "ended" /\ inHand' = <<>>
       ELSE workerPc' = "write" /\ UNCHANGED inHand
    /\ UNCHANGED <<appVars, queueVars, posts, waiters, fileVars, pushVars>>

Write ==
    /\ workerPc = "write"
    /\ WriteToFile(inHand[1])
    /\ inHand' = <<>>
    /\ workerPc' = "dequeue"
    /\ UNCHANGED <<appVars, queueVars, posts, waiters, pushVars>>

WorkerStep == \/ Dequeue \/ TestExit \/ EnterWait \/ SemWait
              \/ LeaveWait \/ CheckExit \/ Write

\* A null semaphore ends the process.
Alive == \A p \in Producers : pc[p] # "crashed"

Next == /\ Alive
        /\ UNCHANGED overlap
        /\ \/ Initialize
           \/ Release
           \/ WorkerStep
           \/ \E p \in Producers : PushStep(p)

Spec == Init /\ [][Next]_vars

\* A call that has begun goes on, and so does the worker: the threads are
\* never held up for ever.  Nobody has to begin a call.
FairSpec ==
    /\ Spec
    /\ WF_vars(Alive /\ WorkerStep /\ UNCHANGED overlap)
    /\ WF_vars(Alive /\ appPc # "idle" /\ (Initialize \/ Release) /\ UNCHANGED overlap)
    /\ \A p \in Producers : WF_vars(Alive /\ pc[p] # "idle" /\ PushStep(p) /\ UNCHANGED overlap)
-----------------------------------------------------------------------------
(* Properties *)

Place == {"idle", "loadTail", "store", "testWaiters", "post", "crashed"}
AppPlace == {"idle", "startThread", "initWriter", "publish", "loadWaiters", "postAll",
             "join", "dropSemaphore", "releaseWriter", "unpublish"}
WorkerPlace == {"none", "dequeue", "testExit", "enterWait", "semWait", "leaveWait",
                "checkExit", "write", "ended"}

\* Every variable has its type; in particular waiter_count_ never wraps, and a
\* log is in the worker's hand exactly between the dequeue and the write.
TypeOK ==
    /\ overlap \in BOOLEAN
    /\ isInitialize \in BOOLEAN /\ isExit \in BOOLEAN
    /\ hasSem \in BOOLEAN /\ writerOpen \in BOOLEAN
    /\ slots \in Seq(Log) /\ pushed \in Seq(Log)
    /\ tail \in 0..Len(slots) /\ head \in 0..Len(slots)
    /\ posts \in Nat /\ waiters \in 0..1
    /\ appPc \in AppPlace /\ rounds \in 0..MaxRounds
    /\ workerPc \in WorkerPlace
    /\ inHand \in Seq(Log)
    /\ Len(inHand) = (IF workerPc \in {"checkExit", "write"} THEN 1 ELSE 0)
    /\ bytesWritten \in 0..MaxFileSize /\ fileNumber \in Nat
    /\ written \in Seq([log : Log, file : Nat])
    /\ pc \in [Producers -> Place]
    /\ myTail \in [Producers -> Nat]
    /\ made \in [Producers -> 0..MaxLogs]

Queued == SubSeq(slots, head + 1, tail)
WrittenLogs == [i \in DOMAIN written |-> written[i].log]
AllLogs == WrittenLogs \o inHand \o Queued

\* Until Release is called, no log is lost, written twice or reordered on its
\* way from Push to the file: what is written, in the worker's hand and in the
\* queue is what was pushed, in that order.
NothingLost == ~isExit => AllLogs = pushed

\* Whatever Release throws away, the files hold the oldest logs without a gap:
\* after the first log that is dropped nothing is written any more.
NoGap ==
    /\ Len(written) <= Len(pushed)
    /\ \A i \in DOMAIN written : written[i].log = pushed[i]

SemaphoreAlive ==
    /\ workerPc \in {"enterWait", "semWait", "leaveWait"} => hasSem
    /\ \A p \in Producers : pc[p] \in {"testWaiters", "post"} => hasSem

\* The worker never writes to a file that is not open: although Initialize
\* starts it before the writer is initialised, and Release closes the writer.
\* The semaphore is there for everyone who is about to call it, when nobody
\* logs during Release: the worker is joined before the pointer is reset.
ResourcesAlive ==
    /\ TypeOK
    /\ workerPc = "write" => writerOpen
    /\ ~overlap => SemaphoreAlive

\* A Push that saw the worker waiting wakes it: the worker then empties the
\* queue, the logs that were stuck in it included.
PushWakes ==
    \A p \in Producers : pc[p] = "post" ~> (Queued = <<>> \/ isExit)

\* The worker tested is_exit_ before it was set, is on its way into the wait
\* or in it, and nobody posts for it any more.
Missed == workerPc \in {"enterWait", "semWait"} /\ posts = 0

\* Release ends, its loop that posts for every waiter included, but for one
\* window: release_all counted the waiters just before the worker, which did
\* not see is_exit_, became one.  Then the join waits for a worker that sleeps.
ReleaseReturns ==
    appPc = "loadWaiters" ~>
        (appPc = "idle" \/ (appPc = "join" /\ Missed) \/ ~Alive)
=============================================================================
