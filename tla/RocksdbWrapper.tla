--------------------------- MODULE RocksdbWrapper ---------------------------
(* rocksdb_wrapper.hpp: writes go to the database at once; reads are queued *)
(* for a thread of their own, which is woken through a CSemaphore and hands *)
(* its results to the event loop through a second queue and an eventfd.     *)
(* The database is external: a write or a batch is atomic and a MultiGet or *)
(* an iterator sees one state of it.                                        *)
EXTENDS Integers, Sequences, FiniteSets, SequencesExt

CONSTANTS DbKeys,     \* the keys, 1..n in the order of the comparator
          Writes,     \* the sets of keys that are written together
          Commands,   \* the reads; 0 stands for an empty start or end of a SEEK
          MaxPuts,    \* bound on the writes; the n-th writes the value n
          MaxReads,   \* bound on the reads
          Inner       \* values of "the wrapper makes its own event base"

ASSUME DbAssumption == MaxPuts \in Nat /\ MaxReads \in Nat /\ Inner \subseteq BOOLEAN

VARIABLES db,     \* the members of CRocksdbWrapper
          cmd,    \* the thread of DoGet
          store,  \* the states of the database, [DbKeys -> value], 0 for none
          reads,  \* the reads asked for, each with the states there were
          got     \* what the callback was given

dbVars == <<db, cmd, store, reads, got>>

DbInit ==
    /\ \E inner \in Inner :
          db = [st |-> "new", inner |-> inner, isOpen |-> FALSE, posts |-> 0, waiters |-> 0,
                cmds |-> <<>>, results |-> <<>>, ring |-> FALSE, asking |-> FALSE]
    /\ cmd = [pc |-> "none", hand |-> <<>>]
    /\ store = <<[k \in DbKeys |-> 0]>>
    /\ reads = <<>> /\ got = <<>>

-----------------------------------------------------------------------------
(* The callers *)

\* Init opens the database and starts the thread of DoGet.  The thread of DoRun is
\* started for the base of the caller, where the wrapper's own base would need it.
Open ==
    /\ db.st = "new"
    /\ db' = [db EXCEPT !.st = "open", !.isOpen = TRUE]
    /\ cmd' = [cmd EXCEPT !.pc = "dequeue"]
    /\ UNCHANGED <<store, reads, got>>

\* Put and Delete of some keys; a batch is written in one piece.
Write(K, value) ==
    /\ db.st = "open" /\ Len(store) <= MaxPuts
    /\ store' = Append(store, [k \in DbKeys |-> IF k \in K THEN value ELSE Last(store)[k]])
    /\ UNCHANGED <<db, cmd, reads, got>>

Put(K) == Write(K, Len(store))
Delete(K) == Write(K, 0)

\* Get asks for the values of keys, Seek for those of [start, end); either queues the
\* command, then releases the semaphore.
Ask(c) ==
    /\ db.st = "open" /\ ~db.asking /\ Len(reads) < MaxReads
    /\ reads' = Append(reads, [cmd |-> c, states |-> Len(store)])
    /\ db' = [db EXCEPT !.cmds = Append(@, Len(reads) + 1), !.asking = TRUE]
    /\ UNCHANGED <<cmd, store, got>>

Get == \E c \in Commands : c.type = "GET" /\ Ask(c)
Seek == \E c \in Commands : c.type = "SEEK" /\ Ask(c)

AskRelease ==
    /\ db.asking
    /\ db' = [db EXCEPT !.asking = FALSE, !.posts = @ + 1]
    /\ UNCHANGED <<cmd, store, reads, got>>

-----------------------------------------------------------------------------
(* DoGet *)

\* The values of the keys asked for, or of those in the range that are present.
Result(c, s) ==
    IF c.type = "GET" THEN [i \in DOMAIN c.keys |-> s[c.keys[i]]]
    ELSE LET in(k) == s[k] # 0 /\ k >= c.keys[1] /\ (c.keys[2] = 0 \/ k < c.keys[2])
         IN  [i \in 1 .. Cardinality({k \in DbKeys : in(k)}) |->
                s[SelectSeq(SetToSortSeq(DbKeys, <), in)[i]]]

\* try_dequeue, then the test of m_isOpen; a command that was taken when the wrapper
\* is being destroyed is dropped.
TryDequeue ==
    /\ cmd.pc = "dequeue"
    /\ IF db.cmds = <<>>
       THEN cmd' = [cmd EXCEPT !.pc = IF db.isOpen THEN "enterWait" ELSE "ended"]
            /\ UNCHANGED db
       ELSE /\ db' = [db EXCEPT !.cmds = Tail(@)]
            /\ cmd' = IF db.isOpen THEN [pc |-> "read", hand |-> <<Head(db.cmds)>>]
                      ELSE [cmd EXCEPT !.pc = "ended"]
    /\ UNCHANGED <<store, reads, got>>

EnterWait ==
    /\ cmd.pc = "enterWait"
    /\ cmd' = [cmd EXCEPT !.pc = "semWait"] /\ db' = [db EXCEPT !.waiters = @ + 1]
    /\ UNCHANGED <<store, reads, got>>

SemWait ==
    /\ cmd.pc = "semWait" /\ db.posts > 0
    /\ cmd' = [cmd EXCEPT !.pc = "dequeue"]
    /\ db' = [db EXCEPT !.posts = @ - 1, !.waiters = @ - 1]
    /\ UNCHANGED <<store, reads, got>>

\* MultiGet or the loop of the iterator, and the result is queued.
Read ==
    LET i == cmd.hand[1]
    IN  /\ cmd.pc = "read"
        /\ db' = [db EXCEPT !.results = Append(@, [read |-> i,
                                     values |-> Result(reads[i].cmd, Last(store))])]
        /\ cmd' = [cmd EXCEPT !.pc = "notify"]
        /\ UNCHANGED <<store, reads, got>>

NotifyResult ==
    /\ cmd.pc = "notify"
    /\ db' = [db EXCEPT !.ring = TRUE]
    /\ cmd' = [pc |-> "dequeue", hand |-> <<>>]
    /\ UNCHANGED <<store, reads, got>>

\* OnNotify on the loop, which runs only for the base of the caller: the eventfd is
\* read and every result goes to the callback.
OnResult ==
    /\ db.st = "open" /\ ~db.inner /\ db.ring
    /\ got' = got \o db.results
    /\ db' = [db EXCEPT !.ring = FALSE, !.results = <<>>]
    /\ UNCHANGED <<cmd, store, reads>>

-----------------------------------------------------------------------------
(* The destructor *)

CloseDb ==
    /\ db.st = "open" /\ ~db.asking
    /\ db' = [db EXCEPT !.st = "releasing", !.isOpen = FALSE]
    /\ UNCHANGED <<cmd, store, reads, got>>

\* ReleaseAll posts while somebody waits.
ReleaseAll ==
    /\ db.st = "releasing"
    /\ db' = IF db.waiters # 0 THEN [db EXCEPT !.posts = 1] ELSE [db EXCEPT !.st = "joining"]
    /\ UNCHANGED <<cmd, store, reads, got>>

\* The thread is joined, and the database closed.  The thread of DoRun is joined only
\* for a base of its own, where it was not started: for the base of the caller it is
\* destroyed unjoined, which ends the process.
JoinCmd ==
    /\ db.st = "joining" /\ cmd.pc = "ended"
    /\ db' = [db EXCEPT !.st = IF db.inner THEN "closed" ELSE "terminated"]
    /\ UNCHANGED <<cmd, store, reads, got>>

DbStep == AskRelease \/ TryDequeue \/ EnterWait \/ SemWait \/ Read \/ NotifyResult \/ OnResult
          \/ ReleaseAll \/ JoinCmd

DbNext ==
    \/ Open \/ CloseDb \/ DbStep
    \/ \E K \in Writes : Put(K) \/ Delete(K)
    \/ Get \/ Seek

DbSpec == DbInit /\ [][DbNext]_dbVars /\ WF_dbVars(DbStep)

-----------------------------------------------------------------------------
(* Properties *)

\* A read sees every write that had returned when it was asked for, and a batch whole
\* or not at all: its values are those of one state of the store, the one at the
\* request or a later one.  Results come in the order of the requests, each once.
ReadsFresh ==
    LET all == got \o db.results
    IN  \A i \in DOMAIN all :
          /\ all[i].read = i
          /\ \E n \in reads[i].states .. Len(store) :
                all[i].values = Result(reads[i].cmd, store[n])

\* No command and no result is forgotten: the thread that sleeps has been posted for,
\* and the eventfd is set while results wait for the loop.
ReadsAnswered ==
    db.st = "open" =>
        /\ cmd.pc = "semWait" /\ db.cmds # <<>> => db.posts > 0 \/ db.asking
        /\ db.results # <<>> => db.ring \/ cmd.pc = "notify"

\* The destructor gets past the join, but in one window: the thread has seen the
\* wrapper open and not yet become a waiter when ReleaseAll finds none.
DestroyReturns ==
    db.st = "releasing" ~> \/ db.st \in {"closed", "terminated"}
                           \/ cmd.pc = "semWait" /\ db.posts = 0
=============================================================================
