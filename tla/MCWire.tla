------------------------------- MODULE MCWire -------------------------------
EXTENDS Wire

CONSTANTS f1, f2

\* What a peer sends: messages of uWS and of PackMsg around the limits of the lengths, and
\* frames in orders that are legal and that are not.
Frame(op, fin, len) == [op |-> op, fin |-> fin, len |-> len, key |-> 0]
SmallSent ==
    {[as |-> "uws", msgs |-> m] : m \in
        {<<<<"binary", 3>>, <<"text", 0>>, <<"ping", 1>>, <<"binary", 4>>>>,
         <<<<"text", 6>>, <<"close", 2>>, <<"text", 1>>>>,
         <<<<"binary", 9>>, <<"text", 1>>>>, <<<<"text", 10>>, <<"text", 1>>>>}}
    \cup {[as |-> "pack", msgs |-> m] : m \in
        {<<<<"binary", 8>>, <<"ping", 1>>, <<"text", 3>>>>, <<<<"text", 6>>, <<"binary", 0>>>>}}
    \cup {[as |-> "frames", msgs |-> m] : m \in
        {<<Frame("text", FALSE, 2), Frame("ping", TRUE, 2), Frame("cont", FALSE, 0), Frame("pong", TRUE, 0), Frame("cont", TRUE, 3)>>,
         <<Frame("text", FALSE, 1), Frame("binary", TRUE, 1)>>,
         <<Frame("binary", TRUE, 1), Frame("cont", TRUE, 1)>>,
         <<Frame("binary", FALSE, 1), Frame("ping", FALSE, 1)>>}}

\* A client that only sends and falls silent, over two connections; a service that
\* stops; a client that stops.
WirePlans == {[links |-> 2, beats |-> TRUE, c |-> 1, s |-> 0, stop |-> ""],
              [links |-> 1, beats |-> FALSE, c |-> 1, s |-> 1, stop |-> "s"],
              [links |-> 2, beats |-> FALSE, c |-> 0, s |-> 1, stop |-> "c"]}

\* Two instruments that a client knows by one name, but for their exchange.
InsA == [market |-> 2011, code |-> "a", trade |-> "b"]
InsB == [market |-> 2002, code |-> "b", trade |-> ""]
WireQuoted == {InsA}
WirePages == {<<<<InsA>>, <<InsB>>>>}

\* The clients of the feed proxy ask once or twice.
WireScripts == {<<1, 2>>, <<2>>}
=============================================================================
