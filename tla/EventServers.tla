---------------------------- MODULE EventServers ----------------------------
(* multiplexing_io_server.cpp, which reads what clients send with select,   *)
(* poll or epoll, and the RpcServer of pb_rpc, which answers echo requests  *)
(* on an epoll loop, with its client.  The kernel is external: select and   *)
(* poll report what is ready, an edge-triggered epoll what has arrived      *)
(* since it last reported, and the bytes of a message may arrive in pieces. *)
EXTENDS Integers, Sequences, FiniteSets, SequencesExt

CONSTANTS Clients,   \* the clients, each with one connection
          MaxPieces, \* greatest number of pieces a request arrives in
          MaxSent    \* bound on the pieces a client sends

ASSUME MuxAssumption ==
    /\ IsFiniteSet(Clients) /\ "listen" \notin Clients
    /\ MaxPieces \in Nat \ {0} /\ MaxSent \in Nat

Modes == {"select", "poll", "epoll", "rpc"}
Listen == "listen"

VARIABLES mux,   \* the server: its mode, the descriptors it watches, the events at hand,
                 \* and the number of pieces the network makes of a request
          net    \* [Clients -> connection], and the queue of those not accepted

muxVars == <<mux, net>>

MuxInit ==
    /\ \E m \in Modes, n \in 1 .. MaxPieces :
          mux = [mode |-> m, pieces |-> n, fds |-> <<>>, edges |-> {}, todo |-> <<>>]
    /\ net = [backlog |-> <<>>,
              conn |-> [c \in Clients |-> [st |-> "new", in |-> <<>>, sent |-> 0, eof |-> FALSE,
                                           read |-> <<>>, reply |-> <<>>, echoed |-> <<>>]]]

Edge == mux.mode \in {"epoll", "rpc"}
Watched == ToSet(mux.fds)
Readable(c) == net.conn[c].in # <<>> \/ net.conn[c].eof

\* Something has happened at a descriptor that epoll watches.
Signal(fd) == IF Edge THEN [mux EXCEPT !.edges = @ \cup ({fd} \cap (Watched \cup {Listen}))]
              ELSE mux

-----------------------------------------------------------------------------
(* The clients *)

ConnectClient(c) ==
    /\ net.conn[c].st = "new"
    /\ net' = [backlog |-> Append(net.backlog, c), conn |-> [net.conn EXCEPT ![c].st = "open"]]
    /\ mux' = Signal(Listen)

\* Is every request of the client sent as a whole and answered?
Answered(c) == Len(net.conn[c].echoed) * mux.pieces = net.conn[c].sent

\* The client of pb_rpc sends a request and waits for one answer; the other one sends.
Sends(c) ==
    LET k == net.conn[c]
    IN  /\ k.st = "open" /\ ~k.eof /\ k.sent < MaxSent
        /\ mux.mode = "rpc" /\ k.sent % mux.pieces = 0 => Answered(c)
        /\ net' = [net EXCEPT !.conn[c].sent = @ + 1, !.conn[c].in = Append(@, k.sent + 1)]
        /\ mux' = Signal(c)

\* CallMethod returns what a single read brings.
ReadReply(c) ==
    /\ net.conn[c].reply # <<>>
    /\ net' = [net EXCEPT !.conn[c].echoed = Append(@, net.conn[c].reply),
                          !.conn[c].reply = <<>>]
    /\ UNCHANGED mux

CloseClient(c) ==
    LET k == net.conn[c]
    IN  /\ k.st = "open" /\ ~k.eof
        /\ mux.mode = "rpc" => Answered(c)
        /\ net' = [net EXCEPT !.conn[c].eof = TRUE]
        /\ mux' = Signal(c)

-----------------------------------------------------------------------------
(* The server *)

\* The elements of s stand in t in that order.
InOrder(s, t) ==
    \A i, j \in DOMAIN s :
        i < j => \E a, b \in DOMAIN t : a < b /\ t[a] = s[i] /\ t[b] = s[j]

\* What select, poll or epoll_wait reports; epoll in any order, the others as they go
\* over the descriptors.  While a connection waits to be accepted, those do nothing else.
Ready ==
    IF Edge THEN SetToSeqs(mux.edges)
    ELSE IF net.backlog # <<>> THEN {<<Listen>>}
    ELSE {s \in SetToSeqs({c \in Watched : Readable(c)}) : InOrder(s, mux.fds)}

WaitEvents ==
    /\ mux.todo = <<>>
    /\ \E events \in Ready :
          /\ events # <<>>
          /\ mux' = [mux EXCEPT !.todo = events, !.edges = {}]
    /\ UNCHANGED net

\* One connection is accepted per event, whatever the number that wait.
AcceptOne ==
    LET c == Head(net.backlog)
    IN  /\ mux.todo # <<>> /\ Head(mux.todo) = Listen
        /\ net' = [net EXCEPT !.backlog = Tail(@)]
        /\ mux' = [mux EXCEPT !.todo = Tail(@), !.fds = Append(@, c),
                              !.edges = IF Edge /\ Readable(c) THEN @ \cup {c} ELSE @]

Drop(m, c) == [m EXCEPT !.todo = Tail(@), !.edges = @ \ {c},
                        !.fds = RemoveAt(@, CHOOSE i \in DOMAIN @ : @[i] = c)]

\* A variant that reads only once for each event.
Handle_Once ==
    LET c == Head(mux.todo)
        k == net.conn[c]
    IN  /\ mux.mode # "rpc" /\ mux.todo # <<>> /\ c # Listen
        /\ net' = [net EXCEPT !.conn[c].read = @ \o SelectSeq(k.in, LAMBDA p : p = k.in[1]),
                              !.conn[c].in = SelectSeq(@, LAMBDA p : p # k.in[1])]
        /\ mux' = IF k.eof THEN Drop(mux, c) ELSE [mux EXCEPT !.todo = Tail(@)]

\* Handle reads until nothing is left; when the client has closed, the descriptor is
\* not watched any more, and never closed.
Handle ==
    LET c == Head(mux.todo)
        k == net.conn[c]
    IN  /\ mux.mode # "rpc" /\ mux.todo # <<>> /\ c # Listen
        /\ net' = [net EXCEPT !.conn[c].read = @ \o k.in, !.conn[c].in = <<>>]
        /\ mux' = IF k.eof THEN Drop(mux, c) ELSE [mux EXCEPT !.todo = Tail(@)]

\* RecvData reads until nothing is left.  What it has read is taken for one request,
\* and thrown away when the client has closed in the meantime.  Only a request that is
\* there in one piece can be parsed; SendBack answers it on the same descriptor.
RecvData ==
    LET c == Head(mux.todo)
        k == net.conn[c]
    IN  /\ mux.mode = "rpc" /\ mux.todo # <<>> /\ c # Listen
        /\ IF k.eof
           THEN /\ net' = [net EXCEPT !.conn[c].in = <<>>, !.conn[c].st = "closed"]
                /\ mux' = Drop(mux, c)
           ELSE /\ net' = [net EXCEPT !.conn[c].in = <<>>, !.conn[c].read = @ \o k.in,
                                      !.conn[c].reply = @ \o
                                          IF Len(k.in) = mux.pieces THEN k.in ELSE <<0>>]
                /\ mux' = [mux EXCEPT !.todo = Tail(@)]

Serve == WaitEvents \/ AcceptOne \/ Handle \/ RecvData

MuxNext ==
    \/ Serve
    \/ \E c \in Clients : ConnectClient(c) \/ Sends(c) \/ ReadReply(c) \/ CloseClient(c)

MuxSpec == MuxInit /\ [][MuxNext]_muxVars

-----------------------------------------------------------------------------
(* Properties *)

Waiting == mux.todo = <<>> /\ \A s \in Ready : s = <<>>

\* When the server waits, it has read all that clients it has accepted have sent, in
\* the order it was sent, although epoll tells it only once.  With select and poll no
\* connection waits either; with epoll those stay that arrived while one event was due.
NothingUnread ==
    /\ Waiting => \A c \in Watched : ~Readable(c)
    /\ Waiting /\ ~Edge => net.backlog = <<>>
    /\ \A c \in Clients : net.conn[c].read = [i \in 1 .. Len(net.conn[c].read) |-> i]

\* A client whose requests arrive in one piece gets one answer to each, its own.
EchoesOwn ==
    mux.mode = "rpc" /\ mux.pieces = 1 =>
        \A c \in Clients : LET k == net.conn[c]
                           IN  /\ k.echoed = [i \in 1 .. Len(k.echoed) |-> <<i>>]
                               /\ Len(k.echoed) \in {k.sent - 1, k.sent}
=============================================================================
