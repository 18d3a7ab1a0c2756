----------------------------- MODULE UwsClient -----------------------------
(***************************************************************************)
(* The upstream side of the feed proxy: UwsClient of                       *)
(* feedproxy/uwsclient/uws_client_multi_recon.h.  It keeps WS_SIZE         *)
(* websockets to the quote server.  The first one carries the queries, the *)
(* others carry the subscriptions, PER_WS_CODE_NUMS of them each; when one *)
(* is lost, the next connection that succeeds takes its symbols over.      *)
(*                                                                         *)
(* Its tables are one value, u, because a handler of the proxy may call    *)
(* SendReq several times.  An operator here is one call of SendReq or one  *)
(* callback of the websocket hub, run to its end: the two threads that do  *)
(* this share the tables without a lock, and that race is not modelled.    *)
(* A websocket is its address: the address of one that is gone may come    *)
(* back.  The hub and the quote server are external.                       *)
(***************************************************************************)
EXTENDS Naturals, Sequences, FiniteSets, SequencesExt

CONSTANTS
    Key,                \* the symbols: type|market|code
    Addresses,          \* bound: how many addresses websockets may have
    WS_SIZE,            \* how many connections are made at the start
    PER_WS_CODE_NUMS,   \* how many symbols a connection carries
    None,               \* no value: absent from a map
    Null                \* a null shared_ptr in a map

Ws == 1..Addresses

\* A WsConnections object: its websocket, and which of the objects that were
\* made for that address it is.
Con == Ws \X {0, 1}

ASSUME UwsAssumption ==
    /\ Addresses \in Nat /\ WS_SIZE \in 1..Addresses
    /\ PER_WS_CODE_NUMS \in Nat \ {0}
    /\ IsFiniteSet(Key) /\ None \notin Key
    /\ Null # None /\ \A con \in Con : con # None /\ con # Null

\* The tables.  con2symbolMap without an entry for a connection behaves as with
\* an empty one.
Tables ==
    [symbol2con : [Key -> Con \cup {None, Null}],   \* symbol2conMap
     con2symbol : [Ws -> SUBSET Key],               \* con2symbolMap
     allWs      : [Ws -> Con \cup {None, Null}],    \* allWsMap
     counts     : [Con -> Nat],                     \* the counts of the objects
     disconWs   : Seq(Ws),                          \* disconWsQue
     queryWs    : Ws \cup {None},
     crashed    : BOOLEAN,                          \* a null pointer was followed
     connecting : Nat,                              \* hub: connects under way
     open       : SUBSET Ws,                        \* hub: connections that are up
     subId      : Nat,                              \* the reqid left in subTemplate
     subs       : SUBSET (Ws \X Key),               \* server: who gets what
     asked      : SUBSET (Ws \X Nat)]               \* server: requests to answer

NoTables ==
    [symbol2con |-> [k \in Key |-> None],
     con2symbol |-> [w \in Ws |-> {}],
     allWs      |-> [w \in Ws |-> None],
     counts     |-> [c \in Con |-> 0],
     disconWs   |-> <<>>,
     queryWs    |-> None,
     crashed    |-> FALSE,
     connecting |-> WS_SIZE,
     open       |-> {},
     subId      |-> 0,
     subs       |-> {},
     asked      |-> {}]

Crash(u) == [u EXCEPT !.crashed = TRUE]

\* The connections a loop over allWsMap meets, and the null ones among them.
Registered(u) == {w \in Ws : u.allWs[w] # None}
NullWs(u) == {w \in Ws : u.allWs[w] = Null}

\* The objects somebody points to; another one is free for a new connection.
Used(u) == {u.allWs[w] : w \in Ws} \cup {u.symbol2con[k] : k \in Key}
NewCon(u, w) == IF <<w, 0>> \in Used(u) THEN <<w, 1>> ELSE <<w, 0>>

-----------------------------------------------------------------------------
(* SendReq.  WsConnections::SendReq drops a message for a connection that  *)
(* is not open.                                                            *)

\* The server gets a subscription or the end of one and answers it; the proxy
\* ignores the answers to requests of its own (0 is none, 2 an unsub).
Asked(u, w, id) == IF id \in {0, 2} THEN u.asked ELSE u.asked \cup {<<w, id>>}
ServerSub(u, w, keys, id) ==
    IF w \notin u.open THEN u
    ELSE [u EXCEPT !.subs = @ \cup ({w} \X keys), !.asked = Asked(u, w, id)]
ServerUnsub(u, w, k, id) ==
    IF w \notin u.open THEN u
    ELSE [u EXCEPT !.subs = @ \ {<<w, k>>}, !.asked = Asked(u, w, id)]

\* Mutant: a connection is filled without looking at what it carries.
Room_All(con, u) == PER_WS_CODE_NUMS

\* canSubNums
Room(con, u) == IF u.counts[con] >= PER_WS_CODE_NUMS THEN 0
                ELSE PER_WS_CODE_NUMS - u.counts[con]

\* One round of the loop over allWsMap: as many of the symbols that are left as
\* the connection has room for.
SubRound(acc, w, id) ==
    LET u == acc.u
        con == u.allWs[w]
    IN IF u.crashed \/ acc.left = <<>> THEN acc
       ELSE IF con = Null THEN [acc EXCEPT !.u = Crash(u)]
       ELSE LET n == IF Room(con, u) < Len(acc.left) THEN Room(con, u) ELSE Len(acc.left)
                now == {acc.left[i] : i \in 1..n}
                v == [u EXCEPT !.counts[con] = @ + n,
                               !.symbol2con = [k \in Key |-> IF k \in now THEN con ELSE @[k]],
                               !.con2symbol[w] = @ \cup now,
                               !.subId = id]
            IN [u |-> IF n = 0 THEN u ELSE ServerSub(v, w, now, id),
                left |-> SubSeq(acc.left, n + 1, Len(acc.left))]

\* The symbols ks go to the connections in the order they are met.
SubInOrder(u, ks, id, order) ==
    FoldLeft(LAMBDA acc, w : SubRound(acc, w, id), [u |-> u, left |-> ks], order).u

\* A request to subscribe, for every order the hash map may be walked in.  With
\* no room left the rest of the symbols is not subscribed: SendReq returns -1,
\* which nobody looks at.
SendSub(u, keys, id) ==
    {SubInOrder(u, ks, id, order) :
        ks \in SetToSeqs(keys), order \in SetToSeqs(Registered(u))}

\* Mutant: the symbol stays in con2symbolMap.
UnsubOne_Keep(u, k, id) ==
    LET con == u.symbol2con[k]
    IN IF u.crashed \/ con = None THEN u
       ELSE IF con = Null THEN Crash(u)
       ELSE ServerUnsub([u EXCEPT !.counts[con] = IF @ = 0 THEN 0 ELSE @ - 1,
                                  !.symbol2con[k] = None], con[1], k, id)

\* One symbol of a request to unsubscribe; an unknown symbol is skipped.
UnsubOne(u, k, id) ==
    LET con == u.symbol2con[k]
    IN IF u.crashed \/ con = None THEN u
       ELSE IF con = Null THEN Crash(u)
       ELSE ServerUnsub([u EXCEPT !.counts[con] = @ - 1,
                                  !.symbol2con[k] = None,
                                  !.con2symbol[con[1]] = @ \ {k}], con[1], k, id)

SendUnsub(u, keys, id) == FoldLeft(LAMBDA v, k : UnsubOne(v, k, id), u, SetToSeq(keys))

\* A heartbeat goes to every connection and, like any other request, to the
\* query connection, where it is lost when that one is not open.
SendHeartbeat(u) == IF NullWs(u) # {} THEN Crash(u) ELSE u
SendQuery(u, id) ==
    IF u.queryWs \in u.open THEN [u EXCEPT !.asked = Asked(u, u.queryWs, id)] ELSE u

\* Resub, every three minutes: all symbols once more.
Resub(u) ==
    LET held == {k \in Key : u.symbol2con[k] # None}
    IN IF \E k \in held : u.symbol2con[k] = Null THEN Crash(u)
       ELSE [u EXCEPT !.subs = @ \cup {<<u.symbol2con[k][1], k>> :
                                    k \in {j \in held : u.symbol2con[j][1] \in u.open}}]

-----------------------------------------------------------------------------
(* The callbacks of the hub.                                               *)

\* allWsMap.insert, which changes nothing when the key is there, a null pointer
\* under it included.
Insert(u, w, n) ==
    IF u.allWs[w] # None THEN u
    ELSE [u EXCEPT !.allWs[w] = NewCon(u, w), !.counts[NewCon(u, w)] = n]

FirstConnect(u, w) == IF u.queryWs = None THEN [u EXCEPT !.queryWs = w] ELSE Insert(u, w, 0)

\* Mutant: the symbols are taken over, but not subscribed again.
Reconnect_Silent(u, w) ==
    LET gone == Head(u.disconWs)
        temp == u.con2symbol[gone]
        moved == [u EXCEPT !.disconWs = Tail(@),
                           !.allWs[w] = IF @ = None /\ temp # {} THEN Null ELSE @,
                           !.con2symbol = [@ EXCEPT ![gone] = {}, ![w] = temp]]
        pointed == [moved EXCEPT !.symbol2con =
                        [k \in Key |-> IF k \in temp THEN moved.allWs[w] ELSE @[k]]]
    IN Insert([pointed EXCEPT !.allWs[gone] = None], w, Cardinality(temp))

\* The oldest lost connection is replaced: its symbols point to allWsMap[ws],
\* which creates a null entry when there is none, and are subscribed again,
\* under the id of whatever request was the last to subscribe.
Reconnect(u, w) ==
    LET gone == Head(u.disconWs)
        temp == u.con2symbol[gone]
        moved == [u EXCEPT !.disconWs = Tail(@),
                           !.allWs[w] = IF @ = None /\ temp # {} THEN Null ELSE @,
                           !.con2symbol = [@ EXCEPT ![gone] = {}, ![w] = temp]]
        pointed == [moved EXCEPT !.symbol2con =
                        [k \in Key |-> IF k \in temp THEN moved.allWs[w] ELSE @[k]]]
        sent == IF temp = {} THEN pointed ELSE ServerSub(pointed, w, temp, pointed.subId)
    IN Insert([sent EXCEPT !.allWs[gone] = None], w, Cardinality(temp))

\* onConnection for a websocket at address w.
OnConnection(u, w) ==
    LET up == [u EXCEPT !.open = @ \cup {w}, !.connecting = @ - 1]
    IN IF u.disconWs = <<>> THEN FirstConnect(up, w) ELSE Reconnect(up, w)

\* onDisconnection: the connection is queued and a new one is begun.  What the
\* server knew of it is gone.
OnDisconnection(u, w) ==
    [u EXCEPT !.open = @ \ {w},
              !.disconWs = Append(@, w),
              !.connecting = @ + 1,
              !.subs = {s \in @ : s[1] # w},
              !.asked = {a \in @ : a[1] # w}]

\* onError: nothing is tried again.
OnError(u) == [u EXCEPT !.connecting = @ - 1]
-----------------------------------------------------------------------------
(* What the tables keep *)

\* A symbol is in the set of one connection, symbol2conMap has an object of that connection
\* or a null pointer for it, and allWsMap has an object of the connection under its address.
Carried(u) ==
    /\ \A v, w \in Ws : u.con2symbol[v] \cap u.con2symbol[w] # {} => v = w
    /\ \A w \in Ws : \A k \in u.con2symbol[w] : u.symbol2con[k] \in {Null} \cup ({w} \X {0, 1})
    /\ \A w \in Ws : u.allWs[w] \in {None, Null} \cup ({w} \X {0, 1})
=============================================================================
