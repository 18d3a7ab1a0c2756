------------------------------- MODULE WsLink -------------------------------
(* UwsClient and UwsService of third_party_about/websocket over uWS, from the   *)
(* connect to the end of a connection: HttpSocket, WebSocket with its queue and *)
(* its closing handshake, the groups, the timers, the client's reconnects and   *)
(* the timing wheel with which the service ends connections that are silent.    *)
(* Every hub has a thread; the programs call SendMsg, Stop and Broadcast from    *)
(* others.  The kernel keeps at most Cap units of a message per direction.       *)
EXTENDS Integers, Sequences, FiniteSets

CONSTANTS Links,       \* 1 .. n, the connections in the order they are made: a bound
          Slots,       \* the memory in which the service's WebSockets live
          Cap,         \* units a socket holds that the peer has not read
          Units,       \* units of a message
          WheelSize, TimeoutTicks,   \* of CRoughTimingWheel
          Plans        \* what the programs do: whether maxHeartbeatTime is set, how many
                       \* messages an end sends over a connection, which program stops

Ends == {"c", "s"}
Other(e) == IF e = "c" THEN "s" ELSE "c"
Min2(a, b) == IF a < b THEN a ELSE b

VARIABLES link,      \* [Links -> connection], an end for the client and one for the service
          client,    \* UwsClient: m_ws, m_isExit, what its thread is doing
          service,   \* UwsService: m_wsMap, the wheel and m_isExit
          plan       \* the member of Plans that is carried out

linkState == <<link, client, service>>
linkVars == <<linkState, plan>>

\* st: "none", "connecting", "http", "ws", "shut" once shuttingDown, "closed" when the
\* descriptor is, "deleted".  queue: units of messageQueue; in: what the kernel holds;
\* wr: not shut down for writing; timer: a timeout runs; sent, got: messages so far;
\* opened, ended: how often onConnection and onDisconnection were called.
NoEnd == [st |-> "none", queue |-> <<>>, in |-> <<>>, wr |-> TRUE, timer |-> FALSE,
          missed |-> FALSE, sent |-> 0, got |-> 0, opened |-> 0, ended |-> 0]

LinkInit ==
    /\ link = [k \in Links |-> [c |-> NoEnd, s |-> NoEnd, slot |-> 0, cut |-> "", idle |-> 0]]
    /\ client = [ws |-> 0, exit |-> FALSE, pc |-> "run", then |-> <<>>, fresh |-> 1, late |-> FALSE]
    /\ service = [exit |-> FALSE, map |-> [p \in Slots |-> 0], now |-> 0,
                  wheel |-> [b \in 0 .. WheelSize - 1 |-> {}]]
    /\ plan \in Plans

-----------------------------------------------------------------------------
(* Socket and its queue *)

Gone(end) == end.st \in {"none", "closed", "deleted"}

\* ioHandler: as much of the queue is sent as fits; once a closing frame is sent its
\* callback shuts the socket down.
Flush(l, e) ==
    LET room == IF Gone(l[Other(e)]) /\ l[Other(e)].st # "none" THEN Len(l[e].queue)
                ELSE Cap - Len(l[Other(e)].in)
        n == Min2(Len(l[e].queue), room)
        sent == SubSeq(l[e].queue, 1, n)
    IN  [l EXCEPT ![e].queue = SubSeq(@, n + 1, Len(@)),
                  ![Other(e)].in = IF l[Other(e)].st \in {"closed", "deleted"} THEN @ ELSE @ \o sent,
                  ![e].wr = @ /\ (n = 0 \/ sent[n].t # "close")]

\* write: a message is sent at once only when none waits; what does not fit is queued.
Write(l, e, units) ==
    IF ~l[e].wr THEN l
    ELSE IF l[e].queue # <<>> THEN [l EXCEPT ![e].queue = @ \o units]
    ELSE Flush([l EXCEPT ![e].queue = units], e)

Message(n) == [u \in 1 .. Units |-> [t |-> "msg", n |-> n, last |-> u = Units]]
One(t) == <<[t |-> t, n |-> 0, last |-> TRUE]>>

\* HttpSocket::upgrade: the request of a client, the answer of a server.
Upgrade(e) == One(IF e = "c" THEN "request" ELSE "answer")

\* startTimeout and cancelTimeout; the timer lies where the user data is.
StartTimeout(l, e) == [l EXCEPT ![e].timer = TRUE]
CancelTimeout(l, e) == [l EXCEPT ![e].timer = FALSE]

\* closeSocket, and the queue emptied; the memory is freed when the loop begins anew.
CloseSocket(l, e) ==
    CancelTimeout([l EXCEPT ![e].st = "closed", ![e].queue = <<>>, ![e].in = <<>>], e)

\* The rest of WebSocket::close, after the handler: a timeout is started, for the peer
\* that does not answer, and the closing frame sent.
StartClosing(l, e) ==
    Write(StartTimeout([l EXCEPT ![e].st = "shut"], e), e, One("close"))

-----------------------------------------------------------------------------
(* The client *)

ClientRuns == client.pc = "run"

\* Hub::connect: a socket that connects and a timeout.
NewLink(ls, k) == [ls EXCEPT ![k] = StartTimeout([@ EXCEPT !.c.st = "connecting"], "c")]

StartClient ==
    /\ client.fresh = 1 /\ ~client.exit
    /\ link' = NewLink(link, 1)
    /\ client' = [client EXCEPT !.fresh = 2]
    /\ UNCHANGED service

\* onDisconnection and onError of the client: unless it exits it sleeps for three seconds,
\* in the handler and so in the thread of its hub; what is left to do comes after that.
Handler(ls, k, rest) ==
    IF client.exit
    THEN /\ link' = [ls EXCEPT ![k] = IF rest = "close" THEN StartClosing(@, "c") ELSE CloseSocket(@, "c")]
         /\ UNCHANGED client
    ELSE /\ link' = ls
         /\ client' = [client EXCEPT !.pc = "sleep", !.then = <<k, rest>>]

\* After the sleep it connects, whether m_isExit was set meanwhile or not.
Reconnect ==
    LET k == client.then[1]
        ended == [link EXCEPT ![k] = IF client.then[2] = "close" THEN StartClosing(@, "c")
                                     ELSE CloseSocket(@, "c")]
    IN  /\ client.pc = "sleep"
        /\ IF client.fresh <= plan.links
           THEN /\ link' = NewLink(ended, client.fresh)
                /\ client' = [client EXCEPT !.pc = "run", !.then = <<>>, !.fresh = @ + 1,
                                            !.late = @ \/ client.exit]
           ELSE /\ link' = ended
                /\ client' = [client EXCEPT !.pc = "run", !.then = <<>>]
        /\ UNCHANGED service

\* onClientConnection: the request goes out.
Established(k) ==
    /\ ClientRuns /\ link[k].c.st = "connecting" /\ ~service.exit
    /\ link' = [link EXCEPT ![k] = Write([@ EXCEPT !.c.st = "http", !.s.st = "accept"],
                                         "c", Upgrade("c"))]
    /\ UNCHANGED <<client, service>>

\* The connection is refused, or its timeout expires: HttpSocket::onEnd and errorHandler.
ConnectFails(k) ==
    /\ ClientRuns
    /\ \/ link[k].c.st = "connecting" /\ service.exit
       \/ link[k].c.st = "http" /\ (link[k].c.timer \/ link[k].s.st = "closed")
    /\ Handler(link, k, "end")
    /\ UNCHANGED service

\* The answer is read: the timeout is cancelled and the socket becomes a WebSocket.
ClientUpgrade(k) ==
    /\ ClientRuns /\ link[k].c.st = "http" /\ link[k].c.in # <<>>
    /\ link' = [link EXCEPT ![k] =
                   CancelTimeout([@ EXCEPT !.c.st = "ws", !.c.in = Tail(@), !.c.opened = 1], "c")]
    /\ client' = [client EXCEPT !.ws = k]
    /\ UNCHANGED service

\* SendMsg, from another thread, looks at m_ws without a lock and after it has ended.
Sendable(k) == link[k].c.st = "ws"

SendMsg ==
    LET k == client.ws
    IN  /\ k # 0 /\ Sendable(k) /\ link[k].c.sent < plan.c
        /\ link' = [link EXCEPT ![k] = Write([@ EXCEPT !.c.sent = @ + 1], "c",
                                             Message(link[k].c.sent + 1))]
        /\ UNCHANGED <<client, service>>

\* Stop: Group::close closes the WebSockets of the group, not the one that connects.
InGroup(k, e) == link[k][e].st = "ws" /\ link[k][e].ended = 0

ClosedBy(e) ==
    [k \in Links |-> IF InGroup(k, e) THEN StartClosing([link[k] EXCEPT ![e].ended = 1], e)
                     ELSE link[k]]

StopClient ==
    /\ ~client.exit /\ client.fresh > 1
    /\ plan.stop = "c"
    /\ client' = [client EXCEPT !.exit = TRUE, !.late = \E k \in Links : link[k].c.st \in {"connecting", "http"}]
    /\ link' = ClosedBy("c")
    /\ UNCHANGED service

-----------------------------------------------------------------------------
(* The service *)

\* onServerAccept
Accept(k) ==
    /\ link[k].s.st = "accept" /\ ~service.exit
    /\ link' = [link EXCEPT ![k].s.st = "http"]
    /\ UNCHANGED <<client, service>>

\* CRoughTimingWheel::Add
AddTo(wheel, k) == [wheel EXCEPT ![(service.now + TimeoutTicks) % WheelSize] = @ \cup {k}]

\* onConnection: into the wheel and into m_wsMap.  Without a maxHeartbeatTime the wheel does
\* not turn, and what is in it does not matter.
OnConnection(p, k) ==
    [service EXCEPT !.map[p] = k, !.wheel = IF plan.beats THEN AddTo(@, k) ELSE @]

\* onDisconnection
OnDisconnection(k) == [service EXCEPT !.map[link[k].slot] = 0]

\* With an emptied weak_ptr a message would not put it into the wheel again.
MessageForgets(k) == service

\* onMessage: into the wheel again, unless it has expired.
OnMessage(k) ==
    IF service.map[link[k].slot] = k /\ \E b \in DOMAIN service.wheel : k \in service.wheel[b]
    THEN [service EXCEPT !.wheel = AddTo(@, k)] ELSE service

FreeSlots == {p \in Slots : \A k \in Links : link[k].slot = p => link[k].s.st = "deleted"}

\* HttpSocket::onData: the answer is sent, a WebSocket allocated, onConnection called.  A
\* socket that Stop has shut down before its request came stays shutting down.
ServerUpgrade(k) ==
    /\ link[k].s.st = "http" /\ link[k].s.in # <<>>
    /\ \E p \in FreeSlots :
          /\ link' = [link EXCEPT ![k] = Write([@ EXCEPT !.s.st = IF link[k].s.wr THEN "ws" ELSE "shut",
                                                       !.s.in = Tail(@), !.s.opened = 1, !.slot = p,
                                                       !.cut = IF link[k].s.wr THEN "" ELSE "late"],
                                               "s", Upgrade("s"))]
          /\ service' = OnConnection(p, k)
    /\ UNCHANGED client

\* The timer of the group, every second: a socket without a request is ended the second
\* time.
HttpTimer ==
    /\ ~service.exit
    /\ \E k \in Links : link[k].s.st = "http"
    /\ link' = [k \in Links |-> IF link[k].s.st # "http" THEN link[k]
                                ELSE IF link[k].s.missed THEN CloseSocket(link[k], "s")
                                ELSE [link[k] EXCEPT !.s.missed = TRUE]]
    /\ UNCHANGED <<client, service>>

\* Broadcast, to every WebSocket of the group.
Broadcast ==
    /\ \E k \in Links : InGroup(k, "s")
    /\ \A k \in Links : InGroup(k, "s") => link[k].s.sent < plan.s
    /\ link' = [k \in Links |-> IF ~InGroup(k, "s") THEN link[k]
                                ELSE Write([link[k] EXCEPT !.s.sent = @ + 1], "s",
                                           Message(link[k].s.sent + 1))]
    /\ UNCHANGED <<client, service>>

\* AdvanceClock: when the last ST_WS of a connection goes, its destructor shuts down what
\* lies at the address of its WebSocket by then.
Tick ==
    LET now == (service.now + 1) % WheelSize
        wheel == [service.wheel EXCEPT ![now] = {}]
        dead == {k \in service.wheel[now] : \A b \in DOMAIN wheel : k \notin wheel[b]}
        at(k) == {j \in Links : link[j].slot = link[k].slot /\ link[j].s.st \in {"ws", "shut"}}
        hit == UNION {at(k) : k \in dead}
    IN  /\ plan.beats /\ ~service.exit
        /\ \E b \in DOMAIN service.wheel : service.wheel[b] # {}
        /\ service' = [service EXCEPT !.now = now, !.wheel = wheel]
        /\ link' = [k \in Links |->
                       [link[k] EXCEPT !.s.wr = @ /\ k \notin hit,
                                       !.cut = IF k \notin hit THEN @ ELSE IF k \in dead THEN "idle" ELSE "reused",
                                       !.idle = Min2(@ + 1, TimeoutTicks)]]
        /\ UNCHANGED client

StopService ==
    /\ ~service.exit /\ plan.stop = "s"
    /\ link' = [k \in Links |-> [ClosedBy("s")[k] EXCEPT !.s.wr = @ /\ link[k].s.st # "http"]]
    /\ service' = [service EXCEPT !.exit = TRUE,
                                  !.map = [p \in Slots |-> IF @[p] # 0 /\ InGroup(@[p], "s") THEN 0 ELSE @[p]]]
    /\ UNCHANGED client

-----------------------------------------------------------------------------
(* Both ends *)

Awake(e) == e = "s" \/ ClientRuns

\* onData of a WebSocket: a unit is read, and the last one of a message handed on.
ReadUnit(k, e) ==
    LET u == Head(link[k][e].in)
        read == [link EXCEPT ![k][e].in = Tail(@), ![k][e].got = IF u.last THEN @ + 1 ELSE @,
                             ![k].idle = IF e = "s" /\ u.last THEN 0 ELSE @]
    IN  /\ Awake(e) /\ link[k][e].st = "ws" /\ link[k][e].in # <<>> /\ u.t = "msg"
        /\ link' = read
        /\ service' = IF e = "s" /\ u.last THEN OnMessage(k) ELSE service
        /\ UNCHANGED client

\* A closing frame: WebSocket::close, the disconnection handler first.
ReadClose(k, e) ==
    /\ Awake(e) /\ InGroup(k, e) /\ link[k][e].in # <<>> /\ Head(link[k][e].in).t = "close"
    /\ LET ls == [link EXCEPT ![k][e].in = Tail(@), ![k][e].ended = 1]
       IN  IF e = "c" THEN Handler(ls, k, "close") /\ UNCHANGED service
           ELSE /\ link' = [ls EXCEPT ![k] = StartClosing(@, "s")]
                /\ service' = OnDisconnection(k)
                /\ UNCHANGED client

\* What comes after the closing handshake has begun is read and thrown away.
Discard(k, e) ==
    /\ Awake(e) /\ link[k][e].st = "shut" /\ link[k][e].in # <<>>
    /\ link' = [link EXCEPT ![k][e].in = <<>>]
    /\ UNCHANGED <<client, service>>

\* The peer has shut down or closed its side: recv returns 0 and onEnd is called; so it
\* is when the queue cannot be sent, and when the timeout of a closing socket expires.
AtEnd(k, e) ==
    LET me == link[k][e]
        peer == link[k][Other(e)]
    IN  \/ me.st \in {"ws", "shut"} /\ me.in = <<>> /\ (~peer.wr \/ Gone(peer))
        \/ me.st \in {"ws", "shut"} /\ me.queue # <<>> /\ ~me.wr
        \/ me.st = "shut" /\ me.timer
        \/ me.st = "http" /\ e = "s" /\ me.in = <<>> /\ Gone(peer)

OnEnd(k, e) ==
    /\ Awake(e) /\ AtEnd(k, e)
    /\ IF link[k][e].st = "ws"
       THEN LET ls == [link EXCEPT ![k][e].ended = @ + 1]
            IN  IF e = "c" THEN Handler(ls, k, "end") /\ UNCHANGED service
                ELSE /\ link' = [ls EXCEPT ![k] = CloseSocket(@, "s")]
                     /\ service' = OnDisconnection(k)
                     /\ UNCHANGED client
       ELSE /\ link' = [link EXCEPT ![k] = CloseSocket(@, e)]
            /\ UNCHANGED <<client, service>>

\* The socket is writable again.
Writable(k, e) ==
    /\ Awake(e) /\ link[k][e].queue # <<>> /\ link[k][e].wr
    /\ Flush(link[k], e) # link[k]
    /\ link' = [link EXCEPT ![k] = Flush(@, e)]
    /\ UNCHANGED <<client, service>>

\* doEpoll frees what was closed.
Reap(e) ==
    /\ Awake(e) /\ \E k \in Links : link[k][e].st = "closed"
    /\ link' = [k \in Links |-> IF link[k][e].st # "closed" THEN link[k]
                                ELSE [link[k] EXCEPT ![e].st = "deleted"]]
    /\ UNCHANGED <<client, service>>

\* What a hub's thread does for a connection, and what a loop does at the next turn.
Turn(k, e) == ReadUnit(k, e) \/ ReadClose(k, e) \/ Discard(k, e) \/ OnEnd(k, e) \/ Writable(k, e)

ClientLoop(k) == Established(k) \/ ConnectFails(k) \/ ClientUpgrade(k)
ServiceLoop(k) == Accept(k) \/ ServerUpgrade(k)

LinkActs ==
    \/ StartClient \/ Reconnect \/ SendMsg \/ StopClient
    \/ HttpTimer \/ Broadcast \/ Tick \/ StopService
    \/ \E k \in Links : ClientLoop(k) \/ ServiceLoop(k)
    \/ \E k \in Links, e \in Ends : Turn(k, e)
    \/ \E e \in Ends : Reap(e)

LinkNext == LinkActs /\ UNCHANGED plan

\* The loops go on, sleeps end and timers fire.
LinkFairness ==
    /\ WF_linkState(Reconnect)
    /\ WF_linkState(Tick)
    /\ \A k \in Links : WF_linkState(ClientLoop(k)) /\ WF_linkState(ServiceLoop(k))
    /\ \A k \in Links, e \in Ends : WF_linkState(Turn(k, e))
    /\ \A e \in Ends : WF_linkState(Reap(e))

LinkSpec == LinkInit /\ [][LinkNext]_linkVars /\ LinkFairness

-----------------------------------------------------------------------------
(* Properties *)

\* onDisconnection is called once for a connection, after onConnection and before the
\* WebSocket is freed, and m_wsMap holds the WebSockets of the group.  The exception is a
\* WebSocket that the service makes of a socket it has shut down.
HandlersPaired ==
    /\ \A k \in Links, e \in Ends :
          /\ link[k][e].ended <= link[k][e].opened
          /\ link[k][e].st \in {"closed", "deleted"} /\ ~(e = "s" /\ link[k].cut = "late")
                => link[k][e].ended = link[k][e].opened
    /\ \A p \in Slots, k \in Links : link[k].cut # "late" =>
          (service.map[p] = k <=> (link[k].slot = p /\ InGroup(k, "s")))

\* Messages arrive whole and in order, however they are queued and sent in parts, and all
\* of them come before the closing frame.
WholeAndInOrder ==
    \A k \in Links, e \in Ends :
        LET me == link[k][e]
            peer == link[k][Other(e)]
        IN  me.in # <<>> =>
                /\ Head(me.in).t = "msg" => Head(me.in).n = me.got + 1
                /\ Head(me.in).t = "close" /\ me.st = "ws" => me.got = peer.sent

\* The service shuts down a connection that was silent for its time, or one that lies
\* where another was: the wheel keeps the address of a WebSocket that is gone.
CutWhenSilent ==
    [][\A k \in Links : link'[k].cut = "idle" /\ link[k].cut = "" => link'[k].idle = TimeoutTicks]_linkVars

\* With the heartbeat check every connection of a client that falls silent ends and is
\* freed, and without it every one that begins to close.
SilentEnd ==
    \A k \in Links :
        /\ (plan.beats /\ link[k].s.st = "ws") ~> (link[k].s.st = "deleted")
        /\ (link[k].s.st = "shut") ~> (link[k].s.st = "deleted")

\* ~UwsClient joins a thread that ends with its last socket: it returns, unless Stop came
\* while the client was connecting or slept before it did.
ClientEnds ==
    client.exit ~> (client.late \/ \A k \in Links : link[k].c.st \in {"none", "deleted"})
=============================================================================
