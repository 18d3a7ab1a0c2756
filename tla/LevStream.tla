----------------------------- MODULE LevStream ------------------------------
(***************************************************************************)
(* The bytes that clients send to the feed proxy, from CliContext to       *)
(* ProcessReq (cli_context.h, convert_service.cpp).  A request is a header *)
(* that says how long its data is, and the data; a read takes any part of  *)
(* what has come.  The bytes of all connections go into one m_lastMsg,     *)
(* which outlives a connection, and a request is taken as one of the       *)
(* connection whose bytes complete it.                                     *)
(*                                                                         *)
(* A byte here is a unit: of the client that sent it, the number of its    *)
(* request there, and its place.  A header has two units, of which the     *)
(* second has the length.                                                  *)
(***************************************************************************)
EXTENDS Integers, Sequences, SequencesExt, FiniteSets

CONSTANTS
    Contexts,     \* the contexts in use
    DataLens,     \* the lengths of the data of requests
    Scripts,      \* what a client asks: the lengths of its requests
    MaxLeaves     \* bound: the clients that leave

VARIABLES
    guest,      \* context -> the number of its client
    asked,     \* context -> the lengths of the requests of its client
    input,     \* context -> what its client sends and is not read
    lastMsg,   \* m_lastMsg
    reading,   \* the context whose OnLevReadDone runs, or {}
    taken,     \* ProcessReq's calls: the connection's client and the data
    met,       \* the bytes of two clients have been in m_lastMsg together
    cleared    \* m_lastMsg has been cleared

streamVars == <<guest, asked, input, lastMsg, reading, taken, met, cleared>>

HdrLen == 2
Client(c) == <<c, guest[c]>>

\* PackMsg, which the clients have too.
Packed(from, n, len) ==
    [i \in 1 .. HdrLen + len |-> [from |-> from, n |-> n, at |-> i, len |-> len]]
Sends(from, lens) == FlattenSeq([n \in DOMAIN lens |-> Packed(from, n, lens[n])])
Payload(from, n, len) == SubSeq(Packed(from, n, len), HdrLen + 1, HdrLen + len)

StreamInit ==
    /\ guest = [c \in Contexts |-> 1]
    /\ asked \in [Contexts -> Scripts]
    /\ input = [c \in Contexts |-> Sends(Client(c), asked[c])]
    /\ lastMsg = <<>> /\ reading = {} /\ taken = <<>>
    /\ met = FALSE /\ cleared = FALSE

\* A client leaves, also in the middle of a request, and the context serves another.
\* Neither the context's Close nor OnLevDisConnect touches m_lastMsg.
Leave(c) ==
    /\ reading = {} /\ FoldFunction(+, 0, guest) < Cardinality(Contexts) + MaxLeaves
    /\ guest' = [guest EXCEPT ![c] = @ + 1]
    /\ \E lens \in Scripts :
          /\ asked' = [asked EXCEPT ![c] = lens]
          /\ input' = [input EXCEPT ![c] = Sends(<<c, guest'[c]>>, lens)]
    /\ UNCHANGED <<lastMsg, reading, taken, met, cleared>>

\* ReadDone moves what has come to recv_buffer_, and OnLevReadDone all of that to
\* m_lastMsg: recv_buffer_ is empty between two reads.  Bound: the read in which the bytes
\* of two clients meet is the last one, for what the loop finds from there on is anything.
ReadDone(c) ==
    /\ reading = {} /\ ~met
    /\ \E k \in 1 .. Len(input[c]) :
          /\ lastMsg' = lastMsg \o SubSeq(input[c], 1, k)
          /\ input' = [input EXCEPT ![c] = SubSeq(@, k + 1, Len(@))]
    /\ reading' = {c}
    /\ met' = (met \/ \E i \in DOMAIN lastMsg : lastMsg[i].from # Client(c))
    /\ UNCHANGED <<guest, asked, taken, cleared>>

\* The lengths that the header may say: what the second unit has if it is of a header,
\* anything if it is data, or lies past the end of m_lastMsg.
SaidLengths ==
    IF Len(lastMsg) >= HdrLen /\ lastMsg[HdrLen].at = HdrLen THEN {lastMsg[HdrLen].len}
    ELSE DataLens

\* ProcessReq's conversion succeeds for the data of a request; for bytes that are not, it
\* may do either.
Converts(data) ==
    IF \E len \in DataLens : data = Payload(data[1].from, data[1].n, len) THEN {TRUE} ELSE BOOLEAN

\* One turn of the loop of OnLevReadDone that finds a request.
TakeOne(c) ==
    /\ reading = {c}
    /\ \E len \in SaidLengths :
          /\ HdrLen + len <= Len(lastMsg)
          /\ LET data == SubSeq(lastMsg, HdrLen + 1, HdrLen + len)
                 rest == SubSeq(lastMsg, HdrLen + len + 1, Len(lastMsg)) IN
             /\ taken' = Append(taken, [by |-> Client(c), data |-> data])
             /\ \E good \in Converts(data) :
                   /\ lastMsg' = IF good THEN rest ELSE <<>>
                   /\ reading' = IF good /\ Len(rest) >= HdrLen THEN {c} ELSE {}
                   /\ cleared' = (cleared \/ ~good)
    /\ UNCHANGED <<guest, asked, input, met>>

\* The turn that finds none.
Incomplete(c) ==
    /\ reading = {c}
    /\ \E len \in SaidLengths : HdrLen + len > Len(lastMsg)
    /\ reading' = {}
    /\ UNCHANGED <<guest, asked, input, lastMsg, taken, met, cleared>>

StreamNext ==
    \E c \in Contexts : Leave(c) \/ ReadDone(c) \/ TakeOne(c) \/ Incomplete(c)

-----------------------------------------------------------------------------
TakenOf(from) == SelectSeq(taken, LAMBDA r : r.by = from)

\* Until the bytes of two clients meet in m_lastMsg, wherever the reads cut them and whoever
\* left before: the requests that were taken of a client are its first, whole, in their
\* order and of no other; none waits there that is complete when no read is under way; and
\* nothing was thrown away.
RequestsWhole ==
    ~met =>
       /\ ~cleared
       /\ \A i \in DOMAIN taken :
             LET r == taken[i]
                 before == {j \in 1 .. i : taken[j].by = r.by} IN
             r.data = Payload(r.by, Cardinality(before), Len(r.data))
       /\ \A c \in Contexts :
             LET mine == TakenOf(Client(c)) IN
             /\ Len(mine) <= Len(asked[c])
             /\ \A n \in DOMAIN mine : Len(mine[n].data) = asked[c][n]
       /\ reading = {} /\ Len(lastMsg) >= HdrLen => Len(lastMsg) < HdrLen + lastMsg[HdrLen].len
=============================================================================
