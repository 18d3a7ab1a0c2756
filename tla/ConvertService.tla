--------------------------- MODULE ConvertService ---------------------------
(***************************************************************************)
(* The feed proxy of project_about/feedproxy: ConvertService               *)
(* (convertservice/convert_service.cpp) between the TCP clients of         *)
(* LevService and the upstream tables of UwsClient.                        *)
(*                                                                         *)
(* Clients subscribe symbols and ask questions; the first subscriber of a  *)
(* symbol makes the proxy subscribe it upstream, the last one ends that.   *)
(* Requests get an id of the proxy, under which the answer finds its way   *)
(* back.  All handlers here run on the one loop of the server, each to its *)
(* end; the websocket hub has a thread of its own.  Clients are seen       *)
(* through their context, which serves another client later.  Requests are *)
(* taken as whole messages: the buffer all connections share (lines        *)
(* 251-280) is not modelled.                                               *)
(***************************************************************************)
EXTENDS UwsClient

CONSTANTS
    Client, Ctx,
    QuoteKeys,          \* the symbols of type 1, of which a snapshot is asked
    REQ_ID_START,       \* below are the proxy's own requests; 3 is the walk
    Markets,            \* the size of m_marketVec
    MaxReqs,            \* bound: how many ids are given out
    Setups              \* what the environment does, a subset of Setup

\* The connections that are up when the clients come, how often a connection or
\* a connect may fail, whether the walk over the markets takes place, and whether
\* it goes on for long enough that the timer of a minute expires.
Setup == [up : 0..WS_SIZE, faults : Nat, walk : BOOLEAN, timer : BOOLEAN,
          reqs : 0..MaxReqs]

ASSUME ConvertAssumption ==
    /\ QuoteKeys \subseteq Key
    /\ REQ_ID_START \in Nat /\ REQ_ID_START > 9
    /\ Markets \in Nat \ {0} /\ MaxReqs \in Nat
    /\ Setups \subseteq Setup
    /\ None \notin Client \cup Ctx /\ \A xs \in SUBSET Ctx : xs # None

Id == REQ_ID_START + 1 .. REQ_ID_START + MaxReqs

VARIABLES
    setup,
    uws,          \* m_uwsClientPtr: the tables of UwsClient
    resQue,       \* m_resQue: the ids of the answers that have come
    reqId,        \* m_reqId
    id2ctx,       \* m_id2ctxMap
    type2ctxs,    \* m_type2ctxsMap: the subscribers of a symbol
    ctx2type,     \* m_ctx2typeMap; an absent entry behaves as an empty one
    isLive,       \* m_ctx2isLiveMap
    vecPos,       \* m_vecPos, the market the walk is at
    walked,       \* "no", "asked", "ready": m_queryAllInsResStr is there
    client,       \* whom a context serves
    gone,         \* the clients that came and left
    wants,        \* history: what each client has subscribed
    asker,        \* history: the client behind each id
    replies,      \* history: how many answers each id was forwarded
    faults        \* how often a connection or a connect failed

subVars  == <<type2ctxs, ctx2type>>
walkVars == <<vecPos, walked>>
envVars  == <<client, gone, isLive>>
histVars == <<wants, asker, replies>>
vars == <<setup, uws, resQue, reqId, id2ctx, subVars, walkVars, envVars, histVars, faults>>

\* Every one of the connections that were up at the start.
Started(n) == FoldLeft(LAMBDA u, w : OnConnection(u, w), NoTables, [i \in 1..n |-> i])

Init ==
    /\ setup \in Setups
    /\ uws = Started(setup.up)
    /\ resQue = <<>> /\ reqId = REQ_ID_START
    /\ id2ctx = [i \in Id |-> None]
    /\ type2ctxs = [k \in Key |-> None]
    /\ ctx2type = [x \in Ctx |-> {}]
    /\ isLive = [x \in Ctx |-> None]
    /\ vecPos = 0 /\ walked = "no"
    /\ client = [x \in Ctx |-> None] /\ gone = {}
    /\ wants = [c \in Client |-> {}]
    /\ asker = [i \in Id |-> None]
    /\ replies = [i \in Id |-> 0]
    /\ faults = 0

Connected == {client[x] : x \in Ctx} \ {None}

-----------------------------------------------------------------------------
(* A request.  It takes the next id, and a second one when a snapshot is   *)
(* asked first.                                                            *)

Request(x, n) ==
    /\ client[x] # None
    /\ reqId + n <= REQ_ID_START + setup.reqs
    /\ reqId' = reqId + n

\* The answers to the last n ids go to context x.
Remember(x, n) ==
    LET now == reqId + 1 .. reqId + n
    IN /\ id2ctx' = [i \in Id |-> IF i \in now THEN x ELSE id2ctx[i]]
       /\ asker' = [i \in Id |-> IF i \in now THEN client[x] ELSE asker[i]]

\* Mutant: the context forgets which symbols it has subscribed before.
Sub_Replace(x, keys) ==
    LET quote == keys \cap QuoteKeys # {}
        fresh == {k \in keys : type2ctxs[k] = None}
    IN /\ Request(x, IF quote THEN 2 ELSE 1)
       /\ type2ctxs' = [k \in Key |-> IF k \notin keys THEN type2ctxs[k]
                                      ELSE IF k \in fresh THEN {x}
                                      ELSE type2ctxs[k] \cup {x}]
       /\ ctx2type' = [ctx2type EXCEPT ![x] = keys]
       /\ uws' \in SendSub(IF quote THEN SendQuery(uws, reqId + 2) ELSE uws,
                           fresh, reqId + 1)
       /\ Remember(x, IF quote THEN 2 ELSE 1)
       /\ wants' = [wants EXCEPT ![client[x]] = @ \cup keys]
       /\ UNCHANGED <<resQue, walkVars, envVars, replies, faults>>

\* ProcessReq, 200: only the symbols without an entry are subscribed upstream.
Sub(x, keys) ==
    LET quote == keys \cap QuoteKeys # {}
        fresh == {k \in keys : type2ctxs[k] = None}
    IN /\ Request(x, IF quote THEN 2 ELSE 1)
       /\ type2ctxs' = [k \in Key |-> IF k \notin keys THEN type2ctxs[k]
                                      ELSE IF k \in fresh THEN {x}
                                      ELSE type2ctxs[k] \cup {x}]
       /\ ctx2type' = [ctx2type EXCEPT ![x] = @ \cup keys]
       /\ uws' \in SendSub(IF quote THEN SendQuery(uws, reqId + 2) ELSE uws,
                           fresh, reqId + 1)
       /\ Remember(x, IF quote THEN 2 ELSE 1)
       /\ wants' = [wants EXCEPT ![client[x]] = @ \cup keys]
       /\ UNCHANGED <<resQue, walkVars, envVars, replies, faults>>

\* ProcessReq, 201: the symbols whose last subscriber this was are ended
\* upstream, and their entries go.  ctx2type keeps them.
Unsub(x, keys) ==
    LET mine == {k \in keys : type2ctxs[k] # None /\ x \in type2ctxs[k]}
        last == {k \in mine : type2ctxs[k] = {x}}
    IN /\ Request(x, 1)
       /\ type2ctxs' = [k \in Key |-> IF k \in last THEN None
                                      ELSE IF k \in mine THEN type2ctxs[k] \ {x}
                                      ELSE type2ctxs[k]]
       /\ uws' = SendUnsub(uws, last, reqId + 1)
       /\ Remember(x, 1)
       /\ wants' = [wants EXCEPT ![client[x]] = @ \ keys]
       /\ UNCHANGED <<resQue, ctx2type, walkVars, envVars, replies, faults>>

\* ProcessReq, any other request that is forwarded.
Query(x) ==
    /\ Request(x, 1)
    /\ uws' = SendQuery(uws, reqId + 1)
    /\ Remember(x, 1)
    /\ UNCHANGED <<resQue, subVars, walkVars, envVars, wants, replies, faults>>

\* ProcessReq, what ends here: a heartbeat, or a question that is answered from
\* what is known (50, 52), or a message that makes no sense.
Heartbeat(x) ==
    /\ Request(x, 1)
    /\ isLive' = [isLive EXCEPT ![x] = TRUE]
    /\ UNCHANGED <<uws, resQue, id2ctx, subVars, walkVars, client, gone, histVars, faults>>
Local(x) ==
    /\ Request(x, 1)
    /\ UNCHANGED <<uws, resQue, id2ctx, subVars, walkVars, envVars, histVars, faults>>

-----------------------------------------------------------------------------
(* Clients that come and go *)

OnLevAccept(x, c) ==
    /\ client[x] = None /\ c \notin Connected \cup gone
    /\ client' = [client EXCEPT ![x] = c]
    /\ isLive' = [isLive EXCEPT ![x] = TRUE]
    /\ UNCHANGED <<uws, resQue, reqId, id2ctx, subVars, walkVars, gone, histVars, faults>>

\* OnLevDisConnect of the contexts xs: the entries they leave behind, and the
\* upstream requests.  An entry that is empty, now or since earlier, is ended
\* upstream and stays.
Held(xs) == {k \in UNION {ctx2type[x] : x \in xs} : type2ctxs[k] # None}
Left(xs) == [k \in Key |-> IF k \in Held(xs) THEN type2ctxs[k] \ xs ELSE type2ctxs[k]]

\* Mutant: the symbols nobody subscribes any more are not ended upstream.
Ended_Not(xs) == uws
Ended(xs) == SendUnsub(uws, {k \in Held(xs) : Left(xs)[k] = {}}, 2)

\* The clients of the contexts xs are gone.
Leave(xs) ==
    LET who == {client[x] : x \in xs} \ {None}
    IN /\ client' = [x \in Ctx |-> IF x \in xs THEN None ELSE client[x]]
       /\ gone' = gone \cup who
       /\ wants' = [c \in Client |-> IF c \in who THEN {} ELSE wants[c]]

\* CliContext::Error: the peer has closed.
OnLevDisConnect(x) ==
    /\ client[x] # None
    /\ type2ctxs' = Left({x})
    /\ uws' = Ended({x})
    /\ Leave({x})
    /\ UNCHANGED <<resQue, reqId, id2ctx, ctx2type, walkVars, isLive, asker, replies, faults>>

\* OnSendHeartbeatTimer: a context not heard of since the last time is closed,
\* an idle one too; id2ctx.erase of the context finds no such id.
CheckClientAlive ==
    LET dead == {x \in Ctx : isLive[x] = FALSE}
    IN /\ setup.timer /\ \E x \in Ctx : isLive[x] # None
       /\ type2ctxs' = Left(dead)
       /\ uws' = SendHeartbeat(Ended(dead))
       /\ Leave(dead)
       /\ isLive' = [x \in Ctx |-> IF isLive[x] = TRUE THEN FALSE ELSE None]
       /\ UNCHANGED <<resQue, reqId, id2ctx, ctx2type, walkVars, asker, replies, faults>>

-----------------------------------------------------------------------------
(* The other timers, and what comes from upstream *)

ResubTimer ==
    /\ uws' = Resub(uws)
    /\ UNCHANGED <<resQue, reqId, id2ctx, subVars, walkVars, envVars, histVars, faults>>

\* Once, two seconds after the start.
OnQueryInsInfoTimer ==
    /\ setup.walk /\ walked = "no"
    /\ walked' = "asked"
    /\ uws' = SendQuery(uws, 3)
    /\ UNCHANGED <<resQue, reqId, id2ctx, subVars, vecPos, envVars, histVars, faults>>

\* Whom a push of symbol k is sent to.  A push changes nothing in the proxy.
Receivers(k) ==
    IF type2ctxs[k] = None THEN {} ELSE {client[x] : x \in type2ctxs[k]} \ {None}

\* Mutant: one market too many.
Walk_Past(more) ==
    IF vecPos <= Markets
    THEN /\ vecPos' = IF more THEN vecPos ELSE vecPos + 1
         /\ uws' = SendQuery(uws, 3)
         /\ UNCHANGED walked
    ELSE /\ walked' = "ready"
         /\ UNCHANGED <<vecPos, uws>>

\* Mutant: a market of several pages is not asked for the others.
Walk_OnePage(more) ==
    IF vecPos < Markets
    THEN /\ vecPos' = IF more THEN vecPos ELSE vecPos + 1
         /\ uws' = IF more THEN uws ELSE SendQuery(uws, 3)
         /\ UNCHANGED walked
    ELSE /\ walked' = "ready"
         /\ UNCHANGED <<vecPos, uws>>

\* Request 3: the next page of a market or the next market.  After the last one
\* the answer to a query of m_marketVec[Markets], which is not there, ends it.
Walk(more) ==
    IF vecPos < Markets
    THEN /\ vecPos' = IF more THEN vecPos ELSE vecPos + 1
         /\ uws' = SendQuery(uws, 3)
         /\ UNCHANGED walked
    ELSE /\ walked' = "ready"
         /\ UNCHANGED <<vecPos, uws>>

\* Mutant: an id is never taken out of m_id2ctxMap.
Forward_Keep(id) ==
    /\ replies' = IF id2ctx[id] = None THEN replies ELSE [replies EXCEPT ![id] = @ + 1]
    /\ UNCHANGED id2ctx

\* The answer to a client's request, forwarded to the context the id stands for.
Forward(id) ==
    /\ replies' = IF id2ctx[id] = None THEN replies ELSE [replies EXCEPT ![id] = @ + 1]
    /\ id2ctx' = [id2ctx EXCEPT ![id] = None]

\* OnNotify and ProcessRes, one of the messages of a batch.
ProcessRes ==
    /\ resQue # <<>>
    /\ resQue' = Tail(resQue)
    /\ IF Head(resQue) = 3
       THEN /\ \E more \in BOOLEAN : Walk(more)
            /\ UNCHANGED <<id2ctx, replies>>
       ELSE /\ Forward(Head(resQue))
            /\ UNCHANGED <<uws, walkVars>>
    /\ UNCHANGED <<reqId, subVars, envVars, wants, asker, faults>>

\* The quote server answers a request, and onMessage queues the answer.
Answer ==
    /\ \E a \in uws.asked : /\ uws' = [uws EXCEPT !.asked = @ \ {a}]
                            /\ resQue' = Append(resQue, a[2])
    /\ UNCHANGED <<reqId, id2ctx, subVars, walkVars, envVars, histVars, faults>>

hubUnchanged == UNCHANGED <<resQue, reqId, id2ctx, subVars, walkVars, envVars, histVars>>

\* A new websocket gets the address of one that is gone, or the next one.
Connect ==
    LET taken == uws.open \cup ToSet(uws.disconWs)
    IN /\ uws.connecting > 0
       /\ \E w \in Ws \ uws.open :
             /\ w \in ToSet(uws.disconWs) \/ \A v \in 1..w - 1 : v \in taken
             /\ uws' = OnConnection(uws, w)
       /\ hubUnchanged /\ UNCHANGED faults

Fault == faults < setup.faults /\ faults' = faults + 1

ConnectFails ==
    /\ Fault
    /\ uws.connecting > 0
    /\ uws' = OnError(uws)
    /\ hubUnchanged

Disconnect ==
    /\ Fault
    /\ \E w \in uws.open : uws' = OnDisconnection(uws, w)
    /\ hubUnchanged

ClientStep ==
    \/ \E x \in Ctx, c \in Client : OnLevAccept(x, c)
    \/ \E x \in Ctx, keys \in SUBSET Key \ {{}} : Sub(x, keys) \/ Unsub(x, keys)
    \/ \E x \in Ctx : Query(x) \/ Heartbeat(x) \/ Local(x) \/ OnLevDisConnect(x)

HubStep == Answer \/ Connect \/ ConnectFails \/ Disconnect

LoopStep == CheckClientAlive \/ ResubTimer \/ OnQueryInsInfoTimer \/ ProcessRes

\* A process that has followed a null pointer does nothing any more.
Next ==
    /\ ~uws.crashed
    /\ ClientStep \/ HubStep \/ LoopStep
    /\ UNCHANGED setup

Spec == Init /\ [][Next]_vars

Running(step) == ~uws.crashed /\ step /\ UNCHANGED setup

\* The hub's thread and the loop keep running, the server answers, and a market
\* has finitely many pages.
Fairness ==
    /\ WF_vars(Running(Connect))
    /\ WF_vars(Running(Answer))
    /\ WF_vars(Running(ProcessRes))
    /\ SF_vars(Running(ProcessRes) /\ vecPos' # vecPos)

FairSpec == Spec /\ Fairness

-----------------------------------------------------------------------------
(* Properties *)

\* The tables hold what the code puts there: no negative count of symbols, no
\* answer to an id that was not given out.
TypeOK ==
    /\ setup \in Setups
    /\ uws \in Tables
    /\ ToSet(resQue) \subseteq {3} \cup REQ_ID_START + 1 .. reqId
    /\ reqId \in REQ_ID_START .. REQ_ID_START + MaxReqs
    /\ id2ctx \in [Id -> Ctx \cup {None}]
    /\ type2ctxs \in [Key -> {None} \cup SUBSET Ctx]
    /\ ctx2type \in [Ctx -> SUBSET Key]
    /\ isLive \in [Ctx -> BOOLEAN \cup {None}]
    /\ vecPos \in 0..Markets /\ walked \in {"no", "asked", "ready"}
    /\ client \in [Ctx -> Client \cup {None}] /\ gone \subseteq Client
    /\ wants \in [Client -> SUBSET Key]
    /\ asker \in [Id -> Client \cup {None}]
    /\ replies \in [Id -> Nat] /\ faults \in 0..setup.faults

\* A push reaches the clients that have subscribed its symbol and no others,
\* however contexts are reused and however clients leave.
Routing == \A k \in Key : Receivers(k) = {c \in Connected : k \in wants[c]}

\* The proxy holds no symbol upstream that nobody has subscribed, unless it died
\* while it was ending the subscription.  A symbol is carried by one connection, and
\* symbol2conMap names it, or has the null pointer that a replacement left there.
UpstreamWanted ==
    ~uws.crashed =>
        /\ \A k \in Key : uws.symbol2con[k] # None => Receivers(k) # {}
        /\ Carried(uws)

\* The three accounts of a subscription agree: the server serves exactly the
\* symbols con2symbolMap has for the connections that are up, and a symbol is
\* in that set of the connection symbol2conMap names.  No connection is given more
\* symbols than it may carry, through a lost connection and an address that comes
\* back.  This is so while one connection at a time is lost: with two in disconWsQue,
\* a new one at the address of the second takes the entry of con2symbolMap that the
\* replacement of the second is to take over.
ServerAgrees ==
    /\ TypeOK
    /\ \A w \in Ws : Cardinality({k \in Key : <<w, k>> \in uws.subs}) <= PER_WS_CODE_NUMS
    /\ uws.subs = {s \in uws.open \X Key : s[2] \in uws.con2symbol[s[1]]}
    /\ \A k \in Key : uws.symbol2con[k] \notin {None, Null}
                       => k \in uws.con2symbol[uws.symbol2con[k][1]]

\* An answer is forwarded once, and an id that waits for one still stands for
\* the client that asked, as long as that one is connected.
Replies ==
    \A i \in Id : /\ replies[i] <= 1
                  /\ asker[i] \in Connected /\ id2ctx[i] # None
                        => client[id2ctx[i]] = asker[i]

\* What the code does not do: a symbol that is asked for is held upstream, when
\* a connection has room for it.  The entry that the last subscriber left
\* behind by disconnecting hides the next one from the server.
Heard ==
    \A k \in Key :
        Receivers(k) # {} /\ (\E w \in Registered(uws) : Room(uws.allWs[w], uws) > 0)
            => uws.symbol2con[k] # None

\* A symbol whose connection was lost is served again, unless nobody wants it any
\* more, the process has died, or the connect failed: nothing tries that again.
ServedAgain ==
    \A k \in Key :
        (\E w \in Ws \ uws.open : k \in uws.con2symbol[w])
            ~> \/ \E w \in uws.open : <<w, k>> \in uws.subs
               \/ uws.symbol2con[k] = None \/ uws.crashed
               \/ uws.connecting = 0 /\ uws.disconWs # <<>>

\* The walk over the markets ends, if its connection was there and stays.
WalkEnds ==
    (walked = "asked" /\ <<uws.queryWs, 3>> \in uws.asked)
        ~> (walked = "ready" \/ faults > 0 \/ uws.crashed)
=============================================================================
