----------------------------- MODULE ZmqWrapper -----------------------------
(* zmq_wrapper.cpp: sockets of ZeroMQ on a libevent loop.  A program queues *)
(* messages of several parts with Send and rings an eventfd; the loop takes *)
(* them out and gives them to the socket part by part, and hands the parts  *)
(* of what arrives to the callback.  Here a ROUTER that connects and a      *)
(* DEALER that is bound talk to each other.  ZeroMQ and libevent are        *)
(* external: a message whose first part the socket took is sent whole or    *)
(* not at all, and the descriptor of a socket is readable once per arrival. *)
EXTENDS Integers, Sequences, FiniteSets, SequencesExt

CONSTANTS Parts,     \* number of parts of a message
          MaxMsgs,   \* bound on the messages of each side, [Wrapper -> Nat]
          MaxFlips   \* bound on the changes of the connection

Wrapper == {"ROUTER", "DEALER"}
Peer(w) == CHOOSE v \in Wrapper : v # w

ASSUME ZmqAssumption ==
    Parts \in Nat \ {0} /\ MaxMsgs \in [Wrapper -> Nat] /\ MaxFlips \in Nat

VARIABLES zmq,    \* [Wrapper -> the members of its CZmqWrapper and its socket]
          link,   \* are the two connected?
          flips

zmqVars == <<zmq, link, flips>>

\* Parts are pairs of the message and the place in it.
RoutingID == <<0, 0>>

\* The parts of the message n, with the routing id that the router sends first.
Message(w, n, routed) ==
    (IF w = "ROUTER" /\ routed THEN <<RoutingID>> ELSE <<>>) \o [i \in 1 .. Parts |-> <<n, i>>]

ZmqInit ==
    /\ zmq = [w \in Wrapper |->
                [st |-> "new", made |-> 0, ring |-> FALSE, sending |-> FALSE, queue |-> <<>>,
                 pc |-> "idle", left |-> <<>>, open |-> FALSE, drop |-> FALSE, building |-> <<>>,
                 inbox |-> <<>>, signal |-> FALSE, got |-> <<>>]]
    /\ link = FALSE /\ flips = 0

Zmq_(w, r) == zmq' = [zmq EXCEPT ![w] = r] /\ UNCHANGED <<link, flips>>

-----------------------------------------------------------------------------
(* ZeroMQ *)

\* The connection is gone: what is under way is lost, and of a message a socket has
\* begun to take the rest is dropped.
Disconnected ==
    [w \in Wrapper |-> [zmq[w] EXCEPT !.inbox = <<>>, !.drop = zmq[w].open]]

\* The peer comes or goes.
Flip ==
    /\ flips < MaxFlips /\ flips' = flips + 1
    /\ \A w \in Wrapper : zmq[w].st = "running"
    /\ link' = ~link
    /\ zmq' = IF link THEN Disconnected ELSE zmq

\* zmq_send of one part: a DEALER without a peer refuses the first part of a message,
\* a ROUTER takes it for the address and drops a message it cannot route.  Without
\* ZMQ_SNDMORE the message is complete.  Sending also consumes the signal.
Taken(w, r) == r.open \/ w = "ROUTER" \/ link

ZmqSend(w, part, more) ==
    LET r       == zmq[w]
        address == ~r.open /\ w = "ROUTER"
        drop    == IF r.open THEN r.drop ELSE address /\ ~(part = RoutingID /\ link)
        whole   == IF address THEN <<>> ELSE Append(r.building, part)
        kept    == [r EXCEPT !.signal = FALSE, !.open = more, !.drop = drop /\ more,
                             !.building = IF more THEN whole ELSE <<>>]
        m       == IF w = "DEALER" THEN <<RoutingID>> \o whole ELSE whole
    IN  IF ~Taken(w, r) THEN [zmq EXCEPT ![w].signal = FALSE]
        ELSE IF more \/ drop \/ m = <<>> THEN [zmq EXCEPT ![w] = kept]
        ELSE [zmq EXCEPT ![w] = kept, ![Peer(w)].inbox = Append(@, m), ![Peer(w)].signal = TRUE]

-----------------------------------------------------------------------------
(* The program *)

\* Init, Bind and Connect; the loop runs, inside or outside.
InitWrapper(w) ==
    /\ zmq[w].st = "new"
    /\ Zmq_(w, [zmq[w] EXCEPT !.st = "running"])

\* Send enqueues and then writes to the eventfd.
Send(w, routed) ==
    /\ zmq[w].st = "running" /\ ~zmq[w].sending /\ zmq[w].made < MaxMsgs[w]
    /\ Zmq_(w, [zmq[w] EXCEPT !.made = @ + 1, !.sending = TRUE,
                  !.queue = Append(@, Message(w, zmq[w].made + 1, routed))])

SendNotify(w) ==
    /\ zmq[w].sending
    /\ Zmq_(w, [zmq[w] EXCEPT !.sending = FALSE, !.ring = TRUE])

\* The destructor frees the events: the loop, which the timeout of the read event
\* wakes, has none left and ends once its callback has returned; then the thread is
\* joined and the socket closed.  What is still in the queue is lost.
Destroy(w) ==
    /\ zmq[w].st = "running" /\ ~zmq[w].sending
    /\ Zmq_(w, [zmq[w] EXCEPT !.st = "joining"])

JoinThread(w) ==
    /\ zmq[w].st = "joining" /\ zmq[w].pc = "idle"
    /\ zmq' = [Disconnected EXCEPT ![w].st = "closed"]
    /\ link' = FALSE /\ UNCHANGED flips

-----------------------------------------------------------------------------
(* The loop *)

\* OnNotify: the counter of the eventfd is read before the queue is emptied.
OnNotify(w) ==
    /\ zmq[w].st = "running" /\ zmq[w].pc = "idle" /\ zmq[w].ring
    /\ Zmq_(w, [zmq[w] EXCEPT !.pc = "dequeue", !.ring = FALSE])

DequeueMsg(w) ==
    LET r == zmq[w]
    IN  /\ r.pc = "dequeue" /\ r.left = <<>>
        /\ Zmq_(w, IF r.queue = <<>> THEN [r EXCEPT !.pc = "idle"]
                   ELSE [r EXCEPT !.queue = Tail(@), !.left = Head(r.queue)])

\* Next part of the message: when the address is refused the message is given up, but
\* when another part is, the loop over the parts goes on with the next one.
SendPart(w) ==
    LET r    == zmq[w]
        sent == ZmqSend(w, r.left[1], Len(r.left) > 1)
    IN  /\ r.pc = "dequeue" /\ r.left # <<>>
        /\ zmq' = [sent EXCEPT ![w].left =
                     IF r.left[1] = RoutingID /\ ~Taken(w, r) THEN <<>> ELSE Tail(@)]
        /\ UNCHANGED <<link, flips>>

\* As if the event had no timeout.
OnRead_NoTimer(w) ==
    /\ zmq[w].st = "running" /\ zmq[w].pc = "idle" /\ zmq[w].inbox # <<>> /\ zmq[w].signal
    /\ Zmq_(w, [zmq[w] EXCEPT !.pc = "recv", !.signal = FALSE])

\* OnRead, when the descriptor signals or by its timeout of 100 ms, which makes up
\* for the signals that a send has consumed.
OnRead(w) ==
    /\ zmq[w].st = "running" /\ zmq[w].pc = "idle" /\ zmq[w].inbox # <<>>
    /\ Zmq_(w, [zmq[w] EXCEPT !.pc = "recv", !.signal = FALSE])

\* One message: the first part that a ROUTER receives is the routing id, the others go
\* to the callback one by one.
RecvMsg(w) ==
    LET r == zmq[w]
        m == Head(r.inbox)
    IN  /\ r.pc = "recv"
        /\ Zmq_(w, IF r.inbox = <<>> THEN [r EXCEPT !.pc = "idle"]
                   ELSE [r EXCEPT !.inbox = Tail(@),
                                  !.got = @ \o IF w = "ROUTER" THEN Tail(m) ELSE m])

Loop(w) == OnNotify(w) \/ DequeueMsg(w) \/ SendPart(w) \/ RecvMsg(w)

ZmqNext ==
    \/ Flip
    \/ \E w \in Wrapper :
          \/ InitWrapper(w) \/ SendNotify(w) \/ Destroy(w) \/ JoinThread(w)
          \/ \E routed \in BOOLEAN : Send(w, routed)
          \/ Loop(w) \/ OnRead(w)

ZmqFairness ==
    \A w \in Wrapper : /\ WF_zmqVars(SendNotify(w)) /\ WF_zmqVars(JoinThread(w))
                       /\ WF_zmqVars(Loop(w)) /\ WF_zmqVars(OnRead(w))

ZmqSpec == ZmqInit /\ [][ZmqNext]_zmqVars /\ ZmqFairness

-----------------------------------------------------------------------------
(* Properties *)

\* No message is forgotten in the queue: while there is one, the loop is emptying the
\* queue, or the eventfd is set, or the Send is about to set it, however the signals
\* of several Sends have merged.
SendsTaken ==
    \A w \in Wrapper :
        zmq[w].queue # <<>> => \/ zmq[w].pc = "dequeue" \/ zmq[w].ring \/ zmq[w].sending
                               \/ zmq[w].st \in {"joining", "closed"}

\* The parts reach the callback in the order they were sent; parts are lost, but what
\* arrives of a message from a part on is all the rest of it, never mixed with parts
\* of another message.
InOrderToTheEnd ==
    \A w \in Wrapper :
        LET g == zmq[w].got
        IN  \A i \in DOMAIN g :
              /\ g[i][2] < Parts => i < Len(g) /\ g[i + 1] = <<g[i][1], g[i][2] + 1>>
              /\ i < Len(g) /\ g[i][2] = Parts => g[i + 1][1] > g[i][1]

\* What has arrived is read, also when sending has consumed the signal of its arrival.
ArrivedIsRead ==
    \A w \in Wrapper : zmq[w].inbox # <<>> ~> zmq[w].inbox = <<>>
=============================================================================
