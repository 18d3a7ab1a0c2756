------------------------------ MODULE WsFrames ------------------------------
(* The websocket frames of a TCP stream and the two parsers that read them:    *)
(* WebSocketProtocol of uWS, as server or client, and CWebSocketProto of       *)
(* third_party_about/websocket behind the handshake of CWsClient.  A stream is *)
(* a sequence of bytes that arrives in chunks of any size; a byte is known by  *)
(* its frame and its place, and by the byte of the mask it was xored with.     *)
EXTENDS Integers, Sequences, FiniteSets, SequencesExt

CONSTANTS Sent,        \* what a peer sends: sequences of <<op, length>>, or of frames
          Receivers,   \* a subset of "uws server", "uws client", "ws_proto"
          Short,       \* payload2BytesLen: lengths below it fit into the head
          Medium,      \* longest payload whose length takes two bytes
          MaxPayload,  \* maxPayload, defaultDataMaxSize
          DataMax,     \* dataMaxSize of PackMsg
          HttpHead     \* length of the answer to the handshake

Control == {"close", "ping", "pong"}
Server == "uws server"

VARIABLES wire,    \* who receives which frames, and the bytes that have not arrived
          uwsIn,   \* the state of WebSocketProtocol and its WebSocket
          proto    \* the state of CWebSocketProto and CWsClient

frameVars == <<wire, uwsIn, proto>>

Frames == wire.frames

\* formatMessage: a message in one frame.
UwsFrames(op, len) ==
    <<[op |-> op, fin |-> TRUE, len |-> len,
       key |-> IF len < Short THEN 0 ELSE IF len <= Medium THEN 2 ELSE 8]>>

\* PackMsg: a message in frames of dataMaxSize bytes.
PackMsg(op, len) ==
    LET pieces == IF len = 0 THEN 1 ELSE (len + DataMax - 1) \div DataMax
        size(k) == IF k < pieces THEN DataMax ELSE len - (pieces - 1) * DataMax
    IN  [k \in 1 .. pieces |->
            [op |-> IF k = 1 THEN op ELSE "cont", fin |-> k = pieces, len |-> size(k),
             key |-> IF size(k) < Short THEN 0 ELSE IF size(k) < Medium THEN 2 ELSE 8]]

\* What goes over the wire: the messages as one of the two senders makes frames of
\* them, or frames of another peer as they are.
FramesOf(sent) ==
    IF sent.as = "uws" THEN FlattenSeq([k \in DOMAIN sent.msgs |-> UwsFrames(sent.msgs[k][1], sent.msgs[k][2])])
    ELSE IF sent.as = "pack" THEN FlattenSeq([k \in DOMAIN sent.msgs |-> PackMsg(sent.msgs[k][1], sent.msgs[k][2])])
    ELSE sent.msgs

\* Bytes before the payload; a client masks.
MaskLen == IF wire.to = Server THEN 4 ELSE 0
HeadLen(f) == 2 + f.key + MaskLen
FrameLen(f) == HeadLen(f) + f.len

\* formatMessage: the bytes of frame n, the payload xored with the mask in turn.
FormatMessage(to, frames, n) ==
    LET f == frames[n]
        mask == IF to = Server THEN 4 ELSE 0
        head == 2 + f.key + mask
    IN  [i \in 1 .. head + f.len |->
            [n |-> n, i |-> i, xor |-> IF i > head /\ mask > 0 THEN (i - head - 1) % 4 ELSE -1]]

Http == [i \in 1 .. HttpHead |-> [n |-> 0, i |-> i, xor |-> -1]]

Bytes(to, frames) ==
    (IF to = Server THEN <<>> ELSE Http)
        \o FlattenSeq([n \in 1 .. Len(frames) |-> FormatMessage(to, frames, n)])

\* WebSocketState and WebSocket: spill bytes, remainingBytes of a payload, the stack of
\* opcodes, fragmentBuffer and the length of a control frame at its end.
NewSocket == [st |-> "open", spill |-> <<>>, wantsHead |-> TRUE, remaining |-> 0,
              opStack |-> <<>>, lastFin |-> TRUE, mask |-> <<>>, fragment |-> <<>>, tip |-> 0,
              http |-> IF wire.to = Server THEN "done" ELSE "", out |-> <<>>]

\* m_pkgCache and m_dataCache.
NewProto == [connected |-> FALSE, st |-> "open", pkg |-> <<>>, data |-> <<>>, out |-> <<>>,
             lost |-> FALSE]

FramesInit ==
    /\ \E to \in Receivers, sent \in Sent :
          LET frames == FramesOf(sent)
          IN  wire = [to |-> to, frames |-> frames, left |-> Bytes(to, frames), cut |-> FALSE]
    /\ uwsIn = NewSocket
    /\ proto = NewProto

-----------------------------------------------------------------------------
(* WebSocketProtocol *)

\* unmaskImprecise, unmaskInplace: xor with the mask; the same byte twice is none.
Unmask(s, bytes) ==
    IF wire.to # Server THEN bytes
    ELSE [k \in DOMAIN bytes |->
            [bytes[k] EXCEPT !.xor = IF @ = s.mask[((k - 1) % 4) + 1] THEN -1 ELSE 9]]

\* Without it the next chunk of a payload is unmasked from the mask's first byte again.
MaskUnturned(s, length) == s.mask

\* rotateMask by 4 - length % 4.
RotateMask(s, length) == [j \in DOMAIN s.mask |-> s.mask[((j - 1 + length) % 4) + 1]]

\* handleFragment: a message goes to the handler when its last byte is there, and a
\* control frame although the message around it is not complete.
HandleFragment(s, bytes, remaining, op, fin) ==
    LET all == s.fragment \o bytes
        done == remaining = 0 /\ fin
        tip == s.tip + Len(bytes)
        frame == IF s.tip = 0 THEN bytes ELSE SubSeq(all, Len(all) - tip + 1, Len(all))
    IN  IF op \notin Control
        THEN IF done THEN [s EXCEPT !.out = Append(@, [op |-> op, data |-> all]), !.fragment = <<>>]
             ELSE [s EXCEPT !.fragment = all]
        ELSE IF ~done THEN [s EXCEPT !.fragment = all, !.tip = tip]
        ELSE [s EXCEPT !.out = Append(@, [op |-> op, data |-> frame]),
                       !.st = IF op = "close" THEN "shut" ELSE @,
                       !.fragment = IF s.tip = 0 THEN @ ELSE SubSeq(all, 1, Len(all) - tip),
                       !.tip = 0]

ForceClose(s) == [s EXCEPT !.st = "closed"]

\* consumeMessage: the head f of a frame, whose bytes start src; TRUE ends the chunk.
ConsumeMessage(s, src, f) ==
    LET head == HeadLen(f)
        first == f.op # "cont"
        full == Len(s.opStack) = 2 \/ (~s.lastFin /\ f.op \notin Control)
        t == [s EXCEPT !.opStack = IF first THEN Append(@, f.op) ELSE @, !.lastFin = f.fin,
                       !.spill = <<>>,
                       !.mask = IF wire.to = Server THEN <<0, 1, 2, 3>> ELSE <<>>]
        op == Last(t.opStack)
        here == SubSeq(src, head + 1, Len(src))
        left == f.len - Len(here)
    IN  IF (first /\ full) \/ (~first /\ s.opStack = <<>>) \/ f.len > MaxPayload
        THEN [s |-> ForceClose(s), src |-> <<>>]
        ELSE IF left <= 0
        THEN LET u == HandleFragment(t, Unmask(t, SubSeq(here, 1, f.len)), 0, op, f.fin)
             IN  IF u.st # "open" THEN [s |-> u, src |-> <<>>]
                 ELSE [s |-> IF f.fin THEN [u EXCEPT !.opStack = Front(@)] ELSE u,
                       src |-> SubSeq(here, f.len + 1, Len(here))]
        ELSE LET u == HandleFragment([t EXCEPT !.wantsHead = FALSE, !.remaining = left],
                                     Unmask(t, here), left, op, f.fin)
             IN  [s |-> [u EXCEPT !.mask = RotateMask(t, Len(here))], src |-> <<>>]

\* consumeContinuation: more of a payload whose head is read.
ConsumeContinuation(s, src) ==
    LET op == Last(s.opStack)
    IN  IF s.remaining <= Len(src)
        THEN LET u == HandleFragment(s, Unmask(s, SubSeq(src, 1, s.remaining)), 0, op, s.lastFin)
             IN  IF u.st # "open" THEN [s |-> u, src |-> <<>>]
                 ELSE [s |-> [u EXCEPT !.opStack = IF s.lastFin THEN Front(@) ELSE @,
                                       !.wantsHead = TRUE],
                       src |-> SubSeq(src, s.remaining + 1, Len(src))]
        ELSE LET u == HandleFragment(s, Unmask(s, src), s.remaining - Len(src), op, s.lastFin)
             IN  [s |-> [u EXCEPT !.mask = RotateMask(s, Len(src)),
                                  !.remaining = @ - Len(src)],
                  src |-> <<>>]

\* Is the head complete?  Frames that break the protocol close the socket.
Illegal(f) == f.op \in Control /\ (~f.fin \/ f.key > 0)

RECURSIVE ParseHeads(_, _)
ParseHeads(s, src) ==
    IF src = <<>> \/ s.st # "open" THEN s
    ELSE LET f == Frames[Head(src).n]
         IN  IF Len(src) < 2 + MaskLen THEN [s EXCEPT !.spill = src]
             ELSE IF Illegal(f) THEN ForceClose(s)
             ELSE IF Len(src) < HeadLen(f) THEN [s EXCEPT !.spill = src]
             ELSE LET r == ConsumeMessage(s, src, f)
                  IN  IF r.s.wantsHead THEN ParseHeads(r.s, r.src) ELSE r.s

\* consume: the spilled head comes before the chunk.
Consume(s, chunk) ==
    IF s.wantsHead THEN ParseHeads([s EXCEPT !.spill = <<>>], s.spill \o chunk)
    ELSE LET r == ConsumeContinuation(s, chunk)
         IN  IF r.s.wantsHead THEN ParseHeads(r.s, r.src) ELSE r.s

\* HttpSocket::onData of a client keeps what it has until the answer is whole, and
\* hands what follows it to the websocket; onData of a socket shutting down reads nothing.
UwsOnData(s, chunk) ==
    IF s.st # "open" THEN s
    ELSE IF s.http = "done" THEN Consume(s, chunk)
    ELSE LET all == s.spill \o chunk
         IN  IF Len(all) < HttpHead THEN [s EXCEPT !.spill = all]
             ELSE Consume([s EXCEPT !.http = "done", !.spill = <<>>],
                          SubSeq(all, HttpHead + 1, Len(all)))

-----------------------------------------------------------------------------
(* CWebSocketProto *)

\* CloseClear: both caches are emptied, and the caller does not look at the result.
CloseClear(p) == [p EXCEPT !.pkg = <<>>, !.data = <<>>, !.lost = TRUE]

\* Does the cache begin with the first byte of a frame?
AtHead(pkg) == pkg[1].n > 0 /\ pkg[1].i = 1

\* ParseMsg: every frame that is complete; the payload of any frame, a control frame
\* too, is added to m_dataCache and handed on with the opcode of the frame that ends it.
RECURSIVE ParseMsg(_)
ParseMsg(p) ==
    IF Len(p.pkg) < 2 THEN CloseClear(p)
    ELSE IF ~AtHead(p.pkg) THEN [p EXCEPT !.st = "garbled"]
    ELSE LET f == Frames[p.pkg[1].n]
         IN  IF f.op = "close" THEN CloseClear(p)
             ELSE IF Len(p.pkg) < 2 + f.key THEN p
             ELSE IF f.len > MaxPayload THEN CloseClear(p)
             ELSE IF Len(p.pkg) < FrameLen(f) THEN p
             ELSE LET data == p.data \o SubSeq(p.pkg, HeadLen(f) + 1, FrameLen(f))
                      q == [p EXCEPT !.pkg = SubSeq(@, FrameLen(f) + 1, Len(@)),
                                     !.data = IF f.fin THEN <<>> ELSE data,
                                     !.out = IF f.fin THEN Append(@, [op |-> f.op, data |-> data])
                                             ELSE @]
                  IN  IF q.pkg = <<>> THEN q ELSE ParseMsg(q)

\* OnReadDone of CWsClient: a chunk without the whole answer is thrown away; one with
\* more than it is parsed with its old length, beyond the end of the buffer.
OnReadDone(p, chunk) ==
    IF p.st # "open" THEN p
    ELSE IF p.connected THEN ParseMsg([p EXCEPT !.pkg = @ \o chunk])
    ELSE IF Head(chunk).n = 0 /\ Head(chunk).i = 1 /\ Len(chunk) >= HttpHead
    THEN IF Len(chunk) = HttpHead THEN [p EXCEPT !.connected = TRUE]
         ELSE ParseMsg([p EXCEPT !.connected = TRUE,
                                 !.pkg = @ \o SubSeq(chunk, HttpHead + 1, Len(chunk))
                                           \o SubSeq(chunk, 1, HttpHead)])
    ELSE p

-----------------------------------------------------------------------------
\* A chunk that ends after the first byte of a head, or that does not hold the answer
\* to the handshake and only this.
BadCut(chunk, left) ==
    \/ left # <<>> /\ left[1].n > 0 /\ left[1].i = 2
    \/ chunk[1].n = 0 /\ Len(chunk) # HttpHead

\* A chunk of n bytes arrives at the one that receives.
Arrive(n) ==
    LET chunk == SubSeq(wire.left, 1, n)
        left == SubSeq(wire.left, n + 1, Len(wire.left))
    IN  /\ n <= Len(wire.left)
        /\ wire' = [wire EXCEPT !.left = left, !.cut = @ \/ BadCut(chunk, left)]
        /\ IF wire.to = "ws_proto"
           THEN proto' = OnReadDone(proto, chunk) /\ UNCHANGED uwsIn
           ELSE uwsIn' = UwsOnData(uwsIn, chunk) /\ UNCHANGED proto

FramesNext == \E n \in 1 .. Len(wire.left) : Arrive(n)

FramesSpec == FramesInit /\ [][FramesNext]_frameVars

-----------------------------------------------------------------------------
(* Properties *)

\* Frame n as the standard reads it, when a holds the messages before it, the opcodes
\* begun and the data of the message begun; a.st is the end of what may be read.
Read(a, n) ==
    LET f == Frames[n]
        all == a.data \o [i \in 1 .. f.len |-> [n |-> n, i |-> HeadLen(f) + i, xor |-> -1]]
        own == SubSeq(all, Len(a.data) + 1, Len(all))
    IN  IF a.st # "open" THEN a
        ELSE IF f.op \in Control
        THEN IF Illegal(f) THEN [a EXCEPT !.st = "closed"]
             ELSE [a EXCEPT !.out = Append(@, [op |-> f.op, data |-> own]),
                            !.st = IF f.op = "close" THEN "shut" ELSE @]
        ELSE IF (f.op = "cont") # (a.op # "") \/ f.len > MaxPayload THEN [a EXCEPT !.st = "closed"]
        ELSE LET op == IF f.op = "cont" THEN a.op ELSE f.op
             IN  IF f.fin THEN [a EXCEPT !.out = Append(@, [op |-> op, data |-> all]),
                                         !.op = "", !.data = <<>>]
                 ELSE [a EXCEPT !.op = op, !.data = all]

Reading == FoldLeft(Read, [st |-> "open", op |-> "", data |-> <<>>, out |-> <<>>],
                    [n \in 1 .. Len(Frames) |-> n])

\* However the stream is cut, uWS hands on the messages that the standard reads in it,
\* control frames inside others included, closes at the frame that is not allowed and
\* at no other, and unmasks every byte with its byte of the mask.
UwsReads ==
    wire.to # "ws_proto" =>
        /\ IsPrefix(uwsIn.out, Reading.out)
        /\ uwsIn.st \in {"open", Reading.st}
        /\ wire.left = <<>> => uwsIn.st = Reading.st /\ uwsIn.out = Reading.out

\* CWebSocketProto hands on the data of messages without control frames inside, when no
\* chunk ends after one byte of a head and the answer to the handshake comes alone.
Plain == \A n \in 1 .. Len(Frames) : Frames[n].op \in Control /\ n > 1 => Frames[n - 1].fin

Datas(out) == [k \in DOMAIN out |-> out[k].data]

ProtoReads ==
    wire.to = "ws_proto" /\ ~wire.cut /\ Plain /\ Reading.st = "open" =>
        /\ proto.st = "open" /\ ~proto.lost
        /\ IsPrefix(Datas(proto.out), Datas(Reading.out))
        /\ wire.left = <<>> => Datas(proto.out) = Datas(Reading.out)
=============================================================================
