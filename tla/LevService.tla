----------------------------- MODULE LevService -----------------------------
(***************************************************************************)
(* The TCP server of project_about/feedproxy: Service (levservice/         *)
(* service.h) with its pool of CliContext (public/cli_context.h), the      *)
(* loops of EvLoop (levservice/ev_loop.cpp) and the wheel of idle          *)
(* connections (public/eddid_cricular_buffer.h).                           *)
(*                                                                         *)
(* A context is taken from the free list for every accepted socket and is  *)
(* given back when the connection is closed.  Close is called by the loop  *)
(* of the connection (the peer hung up), by the timer of the listener's    *)
(* loop (the connection is idle), and by the thread that calls Stop; it    *)
(* takes no lock, so it is modelled statement by statement.  libevent      *)
(* itself is external: an event is delivered on the loop of its            *)
(* bufferevent, and a loop runs one callback at a time.                    *)
(***************************************************************************)
EXTENDS Naturals, Sequences, FiniteSets

CONSTANTS
    Client,        \* the sockets that connect, each of them once
    None,          \* no socket
    Above,         \* DEFAULT_MAX_ABOVE_CONN: contexts beyond max_conn_
    BufferSize,    \* buckets of the wheel: def_cricular_buf_size
    CountMod,      \* the counters of EvLoop are unsigned: 2^32, scaled down
    Setups         \* the uses of the service, a subset of Setup

\* How many loops EvLoop::Initialize makes, max_conn_, whether
\* SetAutoMonitorClient was called, and whether the main thread calls Stop.
Setup == [workThreads : Nat \ {0}, maxConn : Nat \ {0},
          autoMonitor : BOOLEAN, stops : BOOLEAN]

ASSUME ServiceAssumption ==
    /\ Above \in Nat
    /\ BufferSize \in Nat \ {0} /\ CountMod \in Nat \ {0, 1}
    /\ Setups \subseteq Setup /\ None \notin Client

Pool(s) == 1..(s.maxConn + Above)
Context == UNION {Pool(s) : s \in Setups}
Loop == UNION {1..s.workThreads : s \in Setups}
Listener == 1               \* the loop Start puts the listener and the timer on
Main == 0                   \* the thread that calls Stop
Thread == Loop \cup {Main}
Entry == [ctx : Context, sock : Client]    \* an IdleConnectEntry

VARIABLES
    setup,        \* the setup of this service, which does not change
    sock,         \* each client's socket: "new", "waiting", "open", "closed"
    hungUp,       \* the clients that have closed their side
    free,         \* lst_free_conn_
    conns,        \* the keys of mp_client_conn_
    current,      \* current_conn_
    gone,         \* contexts destroyed by Stop
    isExit, isConnected, hasBev, base,   \* fields of each context
    client,       \* the socket in each context's bufferevent
    weakEntry,    \* ctx_any_: the socket of the entry it points to
    buckets,      \* idle_cricular_buffer_, oldest bucket first
    count,        \* mp_work_event_base_: what EvLoop counts on each loop
    listening,    \* listener_ is not null
    pc,           \* each thread's place
    ret,          \* where Close returns to
    cur,          \* the context a thread works on
    hand,         \* the socket being accepted
    todo          \* what a thread has left: entries evicted, clients to stop

poolVars   == <<free, conns, current, gone>>
ctxVars    == <<isExit, isConnected, hasBev, base, client>>
idleVars   == <<weakEntry, buckets>>
threadVars == <<pc, ret, cur, hand, todo>>
vars == <<setup, sock, hungUp, poolVars, ctxVars, idleVars, count, listening, threadVars>>

\* Initialize has filled the pool; Start has counted the listener on its loop.
Init ==
    /\ setup \in Setups
    /\ sock = [k \in Client |-> "new"] /\ hungUp = {}
    /\ free = [i \in Pool(setup) |-> i]
    /\ conns = {} /\ current = 0 /\ gone = {}
    /\ isExit = [c \in Context |-> FALSE]
    /\ isConnected = [c \in Context |-> FALSE]
    /\ hasBev = [c \in Context |-> FALSE]
    /\ base = [c \in Context |-> Listener]
    /\ client = [c \in Context |-> None]
    /\ weakEntry = [c \in Context |-> None]
    /\ buckets = <<>>
    /\ count = [l \in Loop |-> IF l = Listener THEN 1 ELSE 0]
    /\ listening = TRUE
    /\ pc = [t \in Thread |-> "idle"]
    /\ ret = [t \in Thread |-> "idle"]
    /\ cur = [t \in Thread |-> 1]
    /\ hand = None
    /\ todo = [t \in Thread |-> {}]

Goto(t, place) == pc' = [pc EXCEPT ![t] = place]

\* Call Close of context c and go on at place.
CallClose(t, c, place) ==
    /\ cur' = [cur EXCEPT ![t] = c]
    /\ ret' = [ret EXCEPT ![t] = place]
    /\ Goto(t, "close")

-----------------------------------------------------------------------------
(* The clients *)

Connect(k) ==
    /\ sock[k] = "new" /\ listening
    /\ sock' = [sock EXCEPT ![k] = "waiting"]
    /\ UNCHANGED <<hungUp, poolVars, ctxVars, idleVars, count, listening, threadVars>>

HangUp(k) ==
    /\ sock[k] \in {"waiting", "open"} /\ k \notin hungUp
    /\ hungUp' = hungUp \cup {k}
    /\ UNCHANGED <<sock, poolVars, ctxVars, idleVars, count, listening, threadVars>>

-----------------------------------------------------------------------------
(* CliContext::Close, by whatever thread *)

\* Close forgets to take the socket out of the bufferevent.
CloseBegin_KeepFd(t) ==
    /\ pc[t] = "close"
    /\ LET c == cur[t] IN
       IF isExit[c] \/ ~hasBev[c]
       THEN /\ isExit' = [isExit EXCEPT ![c] = TRUE]
            /\ Goto(t, ret[t])
            /\ UNCHANGED <<sock, client, count>>
       ELSE /\ UNCHANGED <<sock, client>>
            /\ count' = [count EXCEPT ![base[c]] = (@ + CountMod - 1) % CountMod]
            /\ Goto(t, "recycle")
            /\ UNCHANGED isExit
    /\ UNCHANGED <<hungUp, poolVars, isConnected, hasBev, base, idleVars, listening,
                   ret, cur, hand, todo>>

\* The two early returns; then the events are disabled, the socket is closed
\* and taken out of the bufferevent, and the loop's counter goes down.
CloseBegin(t) ==
    /\ pc[t] = "close"
    /\ LET c == cur[t] IN
       IF isExit[c] \/ ~hasBev[c]
       THEN /\ isExit' = [isExit EXCEPT ![c] = TRUE]
            /\ Goto(t, ret[t])
            /\ UNCHANGED <<sock, client, count>>
       ELSE /\ sock' = IF client[c] = None THEN sock
                       ELSE [sock EXCEPT ![client[c]] = "closed"]
            /\ client' = [client EXCEPT ![c] = None]
            /\ count' = [count EXCEPT ![base[c]] = (@ + CountMod - 1) % CountMod]
            /\ Goto(t, "recycle")
            /\ UNCHANGED isExit
    /\ UNCHANGED <<hungUp, poolVars, isConnected, hasBev, base, idleVars, listening,
                   ret, cur, hand, todo>>

\* RecycleClientConn without looking the context up first.
Recycle_NoFind(t, here, put, skip) ==
    /\ pc[t] = here
    /\ conns' = conns \ {cur[t]}
    /\ current' = IF current = 0 THEN 0 ELSE current - 1
    /\ Goto(t, put)
    /\ UNCHANGED <<sock, hungUp, free, gone, ctxVars, idleVars, count, listening,
                   ret, cur, hand, todo>>

\* RecycleClientConn, first half: find and erase under client_conn_mutex_,
\* and count the connection off.  Close calls it, and Error calls it again.
Recycle(t, here, put, skip) ==
    /\ pc[t] = here
    /\ IF cur[t] \in conns
       THEN /\ conns' = conns \ {cur[t]}
            /\ current' = current - 1
            /\ Goto(t, put)
       ELSE /\ Goto(t, skip)
            /\ UNCHANGED <<conns, current>>
    /\ UNCHANGED <<sock, hungUp, free, gone, ctxVars, idleVars, count, listening,
                   ret, cur, hand, todo>>

\* RecycleClientConn, second half: to the end of the free list.
PutFree(t, here, next) ==
    /\ pc[t] = here
    /\ free' = Append(free, cur[t])
    /\ Goto(t, next)
    /\ UNCHANGED <<sock, hungUp, conns, current, gone, ctxVars, idleVars, count,
                   listening, ret, cur, hand, todo>>

\* Only now, with the context back in the pool, are its flags set.
Disconnect(t) ==
    /\ pc[t] = "disconnect"
    /\ isConnected' = [isConnected EXCEPT ![cur[t]] = FALSE]
    /\ Goto(t, "markExit")
    /\ UNCHANGED <<sock, hungUp, poolVars, isExit, hasBev, base, client, idleVars,
                   count, listening, ret, cur, hand, todo>>

MarkExit(t) ==
    /\ pc[t] = "markExit"
    /\ isExit' = [isExit EXCEPT ![cur[t]] = TRUE]
    /\ Goto(t, ret[t])
    /\ UNCHANGED <<sock, hungUp, poolVars, isConnected, hasBev, base, client, idleVars,
                   count, listening, ret, cur, hand, todo>>

Close(t) == \/ CloseBegin(t)
            \/ Recycle(t, "recycle", "putFree", "disconnect")
            \/ PutFree(t, "putFree", "disconnect")
            \/ Disconnect(t)
            \/ MarkExit(t)

\* CliContext::Error on the loop of the connection: the peer has closed.
Error(l) ==
    /\ pc[l] = "idle"
    /\ \E c \in Context : /\ base[c] = l /\ client[c] \in hungUp
                          /\ CallClose(l, c, "recycleAgain")
    /\ UNCHANGED <<sock, hungUp, poolVars, ctxVars, idleVars, count, listening,
                   hand, todo>>

\* After Close, Error recycles the context once more; then come the callbacks.
ErrorEnd(l) == \/ Recycle(l, "recycleAgain", "putFreeAgain", "idle")
               \/ PutFree(l, "putFreeAgain", "idle")

-----------------------------------------------------------------------------
(* Service::AcceptHelper on the listener's loop *)

\* A service that is full takes one more.
Accept_OffByOne ==
    /\ pc[Listener] = "idle" /\ listening
    /\ \E k \in Client :
         /\ sock[k] = "waiting"
         /\ IF current > setup.maxConn
            THEN /\ sock' = [sock EXCEPT ![k] = "closed"]
                 /\ UNCHANGED <<pc, hand>>
            ELSE /\ sock' = [sock EXCEPT ![k] = "open"]
                 /\ hand' = k
                 /\ Goto(Listener, "pop")
    /\ UNCHANGED <<hungUp, poolVars, ctxVars, idleVars, count, listening, ret, cur, todo>>

\* A service that is full closes the socket.
Accept ==
    /\ pc[Listener] = "idle" /\ listening
    /\ \E k \in Client :
         /\ sock[k] = "waiting"
         /\ IF current >= setup.maxConn
            THEN /\ sock' = [sock EXCEPT ![k] = "closed"]
                 /\ UNCHANGED <<pc, hand>>
            ELSE /\ sock' = [sock EXCEPT ![k] = "open"]
                 /\ hand' = k
                 /\ Goto(Listener, "pop")
    /\ UNCHANGED <<hungUp, poolVars, ctxVars, idleVars, count, listening, ret, cur, todo>>

\* The front of the free list, which AcceptClient marks as in use.
Pop ==
    /\ pc[Listener] = "pop" /\ free # <<>>
    /\ LET c == Head(free) IN
         /\ cur' = [cur EXCEPT ![Listener] = c]
         /\ isExit' = [isExit EXCEPT ![c] = FALSE]
    /\ free' = Tail(free)
    /\ Goto(Listener, "attach")
    /\ UNCHANGED <<sock, hungUp, conns, current, gone, isConnected, hasBev, base, client,
                   idleVars, count, listening, ret, hand, todo>>

\* GetWorkLoop: the first loop with the smallest counter.
GetWorkLoop == CHOOSE l \in 1..setup.workThreads :
                  /\ \A m \in 1..setup.workThreads : count[l] <= count[m]
                  /\ \A m \in 1..(l - 1) : count[m] > count[l]

\* AcceptClient has a bufferevent for the socket on some loop, which nobody
\* counts; from here on the events of the socket are delivered.
Attach ==
    /\ pc[Listener] = "attach"
    /\ LET c == cur[Listener] IN
         /\ base' = [base EXCEPT ![c] = GetWorkLoop]
         /\ hasBev' = [hasBev EXCEPT ![c] = TRUE]
         /\ client' = [client EXCEPT ![c] = hand]
         /\ isConnected' = [isConnected EXCEPT ![c] = TRUE]
    /\ Goto(Listener, "count")
    /\ UNCHANGED <<sock, hungUp, poolVars, isExit, idleVars, count, listening,
                   ret, cur, hand, todo>>

\* libevent fails; AcceptHelper closes the context and gives it back.
AttachFails ==
    /\ pc[Listener] = "attach"
    /\ sock' = [sock EXCEPT ![hand] = "closed"]
    /\ CallClose(Listener, cur[Listener], "giveBack")
    /\ UNCHANGED <<hungUp, poolVars, ctxVars, idleVars, count, listening, hand, todo>>

GiveBack == PutFree(Listener, "giveBack", "idle")

CountConn ==
    /\ pc[Listener] = "count"
    /\ current' = current + 1
    /\ Goto(Listener, "emplace")
    /\ UNCHANGED <<sock, hungUp, free, conns, gone, ctxVars, idleVars, count, listening,
                   ret, cur, hand, todo>>

Emplace ==
    /\ pc[Listener] = "emplace"
    /\ conns' = conns \cup {cur[Listener]}
    /\ Goto(Listener, IF setup.autoMonitor THEN "monitor" ELSE "idle")
    /\ UNCHANGED <<sock, hungUp, free, current, gone, ctxVars, idleVars, count, listening,
                   ret, cur, hand, todo>>

-----------------------------------------------------------------------------
(* The wheel of idle connections *)

\* Insert an entry in the newest bucket, making the first one when needed.
InsertEntry(e) ==
    buckets' = IF buckets = <<>> THEN <<{e}>>
               ELSE [buckets EXCEPT ![Len(buckets)] = @ \cup {e}]

Monitored(e) == \E i \in DOMAIN buckets : e \in buckets[i]

\* The lock of idle_conn_mutex_: the timer holds it while it evicts.
Evicting == pc[Listener] = "evict" \/ ret[Listener] = "evict"

\* The entry goes to the oldest bucket.
Monitor_Oldest ==
    /\ pc[Listener] = "monitor"
    /\ LET c == cur[Listener] IN
         /\ weakEntry' = [weakEntry EXCEPT ![c] = hand]
         /\ buckets' = IF Len(buckets) < 2 THEN buckets
                       ELSE [buckets EXCEPT ![1] = @ \cup {[ctx |-> c, sock |-> hand]}]
    /\ Goto(Listener, "idle")
    /\ UNCHANGED <<sock, hungUp, poolVars, ctxVars, count, listening, ret, cur, hand, todo>>

\* The end of AcceptHelper: a new entry, known to the context by a weak pointer.
Monitor ==
    /\ pc[Listener] = "monitor"
    /\ LET c == cur[Listener] IN
         /\ weakEntry' = [weakEntry EXCEPT ![c] = hand]
         /\ InsertEntry([ctx |-> c, sock |-> hand])
    /\ Goto(Listener, "idle")
    /\ UNCHANGED <<sock, hungUp, poolVars, ctxVars, count, listening, ret, cur, hand, todo>>

\* AddConnToMonitor, which a handler calls when it has read from a client: the
\* entry, if it still exists, is in the newest bucket as well.
AddConnToMonitor(l) ==
    /\ pc[l] = "idle" /\ ~Evicting
    /\ \E c \in Context :
         /\ base[c] = l /\ client[c] # None /\ weakEntry[c] # None
         /\ LET e == [ctx |-> c, sock |-> weakEntry[c]] IN
              /\ Monitored(e)
              /\ InsertEntry(e)
    /\ UNCHANGED <<sock, hungUp, poolVars, ctxVars, weakEntry, count, listening, threadVars>>

\* ProcessIdlConn, on the timer: a new bucket is pushed; when the wheel is full
\* the oldest goes, and the entries that were in no other bucket are destroyed.
ProcessIdlConn ==
    /\ setup.autoMonitor /\ pc[Listener] = "idle" /\ listening
    /\ LET longer == Append(buckets, {})
           full == Len(buckets) >= BufferSize IN
         /\ buckets' = IF full THEN Tail(longer) ELSE longer
         /\ todo' = [todo EXCEPT ![Listener] =
                        IF full THEN {e \in Head(longer) :
                                        \A i \in 2..Len(longer) : e \notin longer[i]}
                        ELSE {}]
    /\ Goto(Listener, "evict")
    /\ UNCHANGED <<sock, hungUp, poolVars, ctxVars, weakEntry, count, listening,
                   ret, cur, hand>>

\* ~IdleConnectEntry closes the context the entry was made for.
Evict ==
    /\ pc[Listener] = "evict"
    /\ IF todo[Listener] = {}
       THEN /\ Goto(Listener, "idle")
            /\ ret' = [ret EXCEPT ![Listener] = "idle"]
            /\ UNCHANGED <<cur, todo>>
       ELSE \E e \in todo[Listener] :
              /\ todo' = [todo EXCEPT ![Listener] = @ \ {e}]
              /\ CallClose(Listener, e.ctx, "evict")
    /\ UNCHANGED <<sock, hungUp, poolVars, ctxVars, idleVars, count, listening, hand>>

-----------------------------------------------------------------------------
(* Service::Stop, on the main thread *)

StopBegin ==
    /\ setup.stops /\ pc[Main] = "idle" /\ listening
    /\ listening' = FALSE
    /\ todo' = [todo EXCEPT ![Main] = conns]
    /\ Goto(Main, IF conns = {} THEN "clear" ELSE "stopping")
    /\ UNCHANGED <<sock, hungUp, poolVars, ctxVars, idleVars, count, ret, cur, hand>>

\* it->first->Close().
StopClose ==
    /\ pc[Main] = "stopping"
    /\ \E c \in todo[Main] :
         /\ todo' = [todo EXCEPT ![Main] = @ \ {c}]
         /\ CallClose(Main, c, "stopNext")
    /\ UNCHANGED <<sock, hungUp, poolVars, ctxVars, idleVars, count, listening, hand>>

\* ++it, on the element that Close has just erased: undefined behaviour.  The
\* freed node may still lead on, may lead nowhere, or may end the process.
StopNext ==
    /\ pc[Main] = "stopNext"
    /\ \/ todo[Main] # {} /\ Goto(Main, "stopping")
       \/ Goto(Main, "clear")
       \/ Goto(Main, "crashed")
    /\ UNCHANGED <<sock, hungUp, poolVars, ctxVars, idleVars, count, listening,
                   ret, cur, hand, todo>>

\* lst_free_conn_.clear() destroys the contexts it holds.
StopClear ==
    /\ pc[Main] = "clear"
    /\ gone' = gone \cup {free[i] : i \in DOMAIN free}
    /\ free' = <<>>
    /\ Goto(Main, "stopped")
    /\ UNCHANGED <<sock, hungUp, conns, current, ctxVars, idleVars, count, listening,
                   ret, cur, hand, todo>>

Stop == StopBegin \/ StopClose \/ StopNext \/ StopClear

-----------------------------------------------------------------------------

AcceptHelper == \/ Accept \/ Pop \/ Attach \/ AttachFails
                \/ GiveBack \/ CountConn \/ Emplace \/ Monitor

\* What a loop does without being asked by a client.
LoopStep(l) == Close(l) \/ Error(l) \/ ErrorEnd(l)

Next ==
    /\ pc[Main] # "crashed" /\ UNCHANGED setup
    /\ \/ \E k \in Client : Connect(k) \/ HangUp(k)
       \/ AcceptHelper
       \/ ProcessIdlConn \/ Evict
       \/ \E l \in Loop : LoopStep(l) \/ AddConnToMonitor(l)
       \/ Close(Main) \/ Stop

Spec == Init /\ [][Next]_vars

\* A loop goes on with the callback it runs, and delivers an event that stays
\* pending: libevent goes round all active events.
FairSpec ==
    /\ Spec
    /\ \A l \in Loop : /\ WF_vars((Close(l) \/ ErrorEnd(l)) /\ UNCHANGED setup)
                       /\ SF_vars(Error(l) /\ UNCHANGED setup)
    /\ WF_vars((AcceptHelper \/ Evict) /\ UNCHANGED setup)

-----------------------------------------------------------------------------
(* Properties *)

Place == {"idle", "close", "recycle", "putFree", "disconnect", "markExit",
          "recycleAgain", "putFreeAgain", "pop", "attach", "giveBack", "count",
          "emplace", "monitor", "evict", "stopping", "stopNext", "clear",
          "stopped", "crashed"}

\* Every variable has its type; current_conn_ never wraps below zero.
TypeOK ==
    /\ setup \in Setups
    /\ sock \in [Client -> {"new", "waiting", "open", "closed"}]
    /\ hungUp \in SUBSET Client
    /\ free \in Seq(Context) /\ conns \in SUBSET Context /\ gone \in SUBSET Context
    /\ current \in 0..setup.maxConn
    /\ isExit \in [Context -> BOOLEAN] /\ isConnected \in [Context -> BOOLEAN]
    /\ hasBev \in [Context -> BOOLEAN] /\ base \in [Context -> Loop]
    /\ client \in [Context -> Client \cup {None}]
    /\ weakEntry \in [Context -> Client \cup {None}]
    /\ buckets \in Seq(SUBSET Entry) /\ Len(buckets) <= BufferSize
    /\ count \in [Loop -> 0..(CountMod - 1)]
    /\ listening \in BOOLEAN
    /\ pc \in [Thread -> Place] /\ ret \in [Thread -> Place]
    /\ cur \in [Thread -> Context]
    /\ hand \in Client \cup {None}
    /\ todo[Main] \subseteq Context /\ \A l \in Loop : todo[l] \subseteq Entry

\* A thread holds the context it works on alone: between the free list and the
\* map on the way in, between the map and the free list on the way out.
InHand(t, c) ==
    /\ cur[t] = c
    /\ \/ pc[t] \in {"attach", "giveBack", "count", "emplace", "putFree", "putFreeAgain"}
       \/ ret[t] = "giveBack" /\ pc[t] \in {"close", "recycle", "disconnect", "markExit"}

Places(c) == Cardinality({i \in DOMAIN free : free[i] = c})
             + Cardinality({t \in Thread : InHand(t, c)})
             + Cardinality({c} \cap conns) + Cardinality({c} \cap gone)

\* A context is in one place: in the free list, once, or in the map of the
\* connections, or in the hands of one thread.  Two closes of one connection,
\* and the two recycles of one close, never give it back twice.
\* AcceptHelper takes the front of the free list without looking: the contexts
\* above max_conn_ cover those that a close still has in its hands, as long as
\* Stop does not empty the list.
Partition ==
    /\ TypeOK
    /\ \A c \in Pool(setup) : Places(c) = 1
    /\ pc[Listener] = "pop" /\ ~setup.stops => free # <<>>

\* No callback runs; the guarantees below are those of a service with one loop
\* that nobody stops, as both programs of the repository run it.
Quiet == \A t \in Thread : pc[t] \in {"idle", "stopped"}

OneLoop == setup.workThreads = 1 /\ ~setup.stops

\* Whenever no callback runs current_conn_ is what its comment says, 当前连接数,
\* the number of current connections; and no socket is lost: one that is open
\* belongs to one context that is in the map, connected, and can be closed.
SocketsOwned ==
    OneLoop /\ Quiet =>
        /\ current = Cardinality({c \in Context : client[c] # None})
        /\ \A k \in Client : sock[k] = "open" =>
               /\ Cardinality({c \in Context : client[c] = k}) = 1
               /\ \A c \in Context : client[c] = k =>
                      c \in conns /\ isConnected[c] /\ ~isExit[c]

\* Every connection has its own entry in the wheel: a client that falls silent
\* is found however often its context was used before.
AllMonitored ==
    (setup.autoMonitor /\ OneLoop /\ Quiet) =>
        \A c \in conns : Monitored([ctx |-> c, sock |-> client[c]])

\* A connection whose peer has hung up is closed, so that its context serves
\* again.
HangUpCloses ==
    \A k \in Client :
        (sock[k] = "open" /\ k \in hungUp /\ OneLoop) ~> sock[k] = "closed"
=============================================================================
