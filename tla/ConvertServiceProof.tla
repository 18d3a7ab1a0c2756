------------------------ MODULE ConvertServiceProof ------------------------
(***************************************************************************)
(* What the feed proxy promises its clients, for any clients, contexts,    *)
(* symbols and requests, and whatever the upstream side does: ProxyInv     *)
(* does not look into the tables of UwsClient, so that no fault of theirs, *)
(* a crash included, can send a push or an answer to the wrong client.     *)
(* UpstreamInv does: what is subscribed upstream, somebody wants.          *)
(* ServerInv counts as well: the maps, the counts of the connections and   *)
(* the server agree, while no connection is lost when another is already.  *)
(***************************************************************************)
EXTENDS ConvertService, FoldProof

-----------------------------------------------------------------------------
(* The inductive invariant, in parts                                       *)

ClientTypes ==
    /\ client \in [Ctx -> Client \cup {None}] /\ gone \subseteq Client
    /\ type2ctxs \in [Key -> {None} \cup SUBSET Ctx]
    /\ ctx2type \in [Ctx -> SUBSET Key]
    /\ wants \in [Client -> SUBSET Key]

RequestTypes ==
    /\ reqId \in Nat
    /\ id2ctx \in [Id -> Ctx \cup {None}]
    /\ asker \in [Id -> Client \cup {None}]
    /\ replies \in [Id -> Nat]

\* A client has one context, and does not come back.
OneContext ==
    /\ \A x, y \in Ctx : client[x] = client[y] /\ client[x] # None => x = y
    /\ \A x \in Ctx : client[x] \notin gone

\* Context x is in m_type2ctxsMap[k].
Serves(k, x) == type2ctxs[k] # None /\ x \in type2ctxs[k]

\* The two maps and what the clients want agree: a context is in the set of the
\* symbols its client has subscribed, an idle one in no set, and m_ctx2typeMap lets
\* Close find every one of these sets.
MapsAgree ==
    /\ \A c \in Client \ Connected : wants[c] = {}
    /\ \A k \in Key, x \in Ctx :
          /\ Serves(k, x) <=> client[x] # None /\ k \in wants[client[x]]
          /\ Serves(k, x) => k \in ctx2type[x]

\* An id that has not been given out stands for nothing, one that waits for its answer
\* had none yet, and the client behind an id is connected or has left.
IdsAgree ==
    \A i \in Id :
        /\ replies[i] <= 1
        /\ id2ctx[i] # None => replies[i] = 0
        /\ i > reqId => id2ctx[i] = None /\ replies[i] = 0 /\ asker[i] = None
        /\ asker[i] # None => asker[i] \in Connected \cup gone
        /\ asker[i] \in Connected /\ id2ctx[i] # None => client[id2ctx[i]] = asker[i]

ClientsInv == ClientTypes /\ OneContext /\ MapsAgree
ProxyInv == ClientsInv /\ RequestTypes /\ IdsAgree

-----------------------------------------------------------------------------

(* The clients and their symbols                                           *)

LEMMA ClientsInit == ASSUME Init PROVE ClientsInv
  <1> USE ConvertAssumption, UwsAssumption
  <1>1. ClientTypes  BY DEF Init, ClientTypes
  <1>2. OneContext  BY DEF Init, OneContext
  <1>3. MapsAgree  BY DEF Init, MapsAgree, Serves
  <1> QED  BY <1>1, <1>2, <1>3 DEF ClientsInv

LEMMA SubClients ==
  ASSUME ClientsInv, NEW x \in Ctx, NEW keys \in SUBSET Key, Sub(x, keys)
  PROVE  ClientsInv'
  <1> USE ConvertAssumption
  <1>1. /\ client[x] # None /\ client[x] \in Client
        /\ client' = client /\ gone' = gone
        /\ type2ctxs' = [k \in Key |-> IF k \notin keys THEN type2ctxs[k]
                                       ELSE IF type2ctxs[k] = None THEN {x}
                                       ELSE type2ctxs[k] \cup {x}]
        /\ ctx2type' = [ctx2type EXCEPT ![x] = @ \cup keys]
        /\ wants' = [wants EXCEPT ![client[x]] = @ \cup keys]
    BY DEF Sub, Request, envVars, ClientsInv, ClientTypes
  <1> USE DEF ClientsInv
  <1>2. ClientTypes'  BY <1>1 DEF ClientTypes
  <1>3. OneContext'  BY <1>1 DEF OneContext
  <1>4. \A c \in Client \ Connected' : wants'[c] = {}
    BY <1>1 DEF MapsAgree, ClientTypes, Connected
  <1>5. ASSUME NEW k \in Key, NEW y \in Ctx
        PROVE  /\ Serves(k, y)' <=> Serves(k, y) \/ (y = x /\ k \in keys)
               /\ client'[y] # None =>
                    (k \in wants'[client'[y]] <=>
                       k \in wants[client[y]] \/ (y = x /\ k \in keys))
               /\ k \in ctx2type'[y] <=> k \in ctx2type[y] \/ (y = x /\ k \in keys)
    <2>1. Serves(k, y)' <=> Serves(k, y) \/ (y = x /\ k \in keys)
      BY <1>1 DEF Serves, ClientTypes
    <2>2. client'[y] # None => (k \in wants'[client'[y]] <=>
                                  k \in wants[client[y]] \/ (y = x /\ k \in keys))
      BY <1>1 DEF ClientTypes, OneContext
    <2>3. k \in ctx2type'[y] <=> k \in ctx2type[y] \/ (y = x /\ k \in keys)
      BY <1>1 DEF ClientTypes
    <2> QED  BY <2>1, <2>2, <2>3
  <1>6. MapsAgree'  BY <1>1, <1>4, <1>5 DEF MapsAgree
  <1> QED  BY <1>2, <1>3, <1>6

LEMMA UnsubClients ==
  ASSUME ClientsInv, NEW x \in Ctx, NEW keys \in SUBSET Key, Unsub(x, keys)
  PROVE  ClientsInv'
  <1> USE ConvertAssumption
  <1>1. /\ client[x] # None /\ client[x] \in Client
        /\ client' = client /\ gone' = gone /\ ctx2type' = ctx2type
        /\ type2ctxs' = [k \in Key |->
              IF k \in keys /\ Serves(k, x)
              THEN IF type2ctxs[k] = {x} THEN None ELSE type2ctxs[k] \ {x}
              ELSE type2ctxs[k]]
        /\ wants' = [wants EXCEPT ![client[x]] = @ \ keys]
    BY DEF Unsub, Request, envVars, ClientsInv, ClientTypes, Serves
  <1> USE DEF ClientsInv
  <1>2. ClientTypes'  BY <1>1 DEF ClientTypes, Serves
  <1>3. OneContext'  BY <1>1 DEF OneContext
  <1>4. \A c \in Client \ Connected' : wants'[c] = {}
    BY <1>1 DEF MapsAgree, ClientTypes, Connected
  <1>5. ASSUME NEW k \in Key, NEW y \in Ctx
        PROVE  /\ Serves(k, y)' <=> Serves(k, y) /\ ~(y = x /\ k \in keys)
               /\ client'[y] # None =>
                    (k \in wants'[client'[y]] <=>
                       k \in wants[client[y]] /\ ~(y = x /\ k \in keys))
    <2>1. Serves(k, y)' <=> Serves(k, y) /\ ~(y = x /\ k \in keys)
      BY <1>1 DEF Serves, ClientTypes
    <2>2. client'[y] # None => (k \in wants'[client'[y]] <=>
                                  k \in wants[client[y]] /\ ~(y = x /\ k \in keys))
      BY <1>1 DEF ClientTypes, OneContext
    <2> QED  BY <2>1, <2>2
  <1>6. MapsAgree'  BY <1>1, <1>4, <1>5 DEF MapsAgree
  <1> QED  BY <1>2, <1>3, <1>6

LEMMA AcceptClients ==
  ASSUME ClientsInv, NEW x \in Ctx, NEW c \in Client, OnLevAccept(x, c)
  PROVE  ClientsInv'
  <1> USE ConvertAssumption
  <1>1. /\ client[x] = None /\ c \notin Connected /\ c \notin gone
        /\ client' = [client EXCEPT ![x] = c]
        /\ UNCHANGED <<gone, type2ctxs, ctx2type, wants>>
    BY DEF OnLevAccept, subVars, histVars
  <1> USE DEF ClientsInv
  <1>2. ClientTypes'  BY <1>1 DEF ClientTypes
  <1>3. OneContext'  BY <1>1 DEF OneContext, ClientTypes, Connected
  <1>4. \A d \in Client \ Connected' : wants'[d] = {}
    <2> SUFFICES ASSUME NEW d \in Client \ Connected' PROVE d \notin Connected
      BY <1>1 DEF MapsAgree
    <2>1. ASSUME NEW y \in Ctx, client[y] = d PROVE FALSE
      BY <1>1, <2>1 DEF ClientTypes, Connected
    <2> QED  BY <2>1 DEF Connected
  <1>5. ASSUME NEW k \in Key, NEW y \in Ctx
        PROVE  /\ Serves(k, y)' <=> Serves(k, y)
               /\ Serves(k, y)' <=> client'[y] # None /\ k \in wants'[client'[y]]
    BY <1>1 DEF MapsAgree, Serves, ClientTypes
  <1>6. MapsAgree'  BY <1>1, <1>4, <1>5 DEF MapsAgree
  <1> QED  BY <1>2, <1>3, <1>6

\* A context that leaves is taken out of every set it was in.
LEMMA LeaveClients ==
  ASSUME ClientsInv, NEW xs \in SUBSET Ctx, type2ctxs' = Left(xs), Leave(xs),
         ctx2type' = ctx2type
  PROVE  ClientsInv'
  <1> USE ConvertAssumption
  <1> DEFINE who == {client[x] : x \in xs} \ {None}
  <1>1. /\ client' = [x \in Ctx |-> IF x \in xs THEN None ELSE client[x]]
        /\ gone' = gone \cup who
        /\ wants' = [c \in Client |-> IF c \in who THEN {} ELSE wants[c]]
    BY DEF Leave
  <1> USE DEF ClientsInv
  <1>2. who \subseteq Client  BY DEF ClientTypes
  <1>3. \A y \in Ctx : client[y] \in who <=> y \in xs /\ client[y] # None
    BY DEF OneContext
  <1> HIDE DEF who
  <1>4. ClientTypes'
    <2>1. type2ctxs' \in [Key -> {None} \cup SUBSET Ctx]  BY DEF Left, Held, ClientTypes
    <2> QED  BY <1>1, <1>2, <2>1 DEF ClientTypes
  <1>5. OneContext'
    <2>1. ASSUME NEW y \in Ctx, NEW z \in Ctx, client'[y] = client'[z], client'[y] # None
          PROVE  y = z
      BY <1>1, <2>1 DEF OneContext
    <2>2. ASSUME NEW y \in Ctx PROVE client'[y] \notin gone'
      <3>1. CASE y \in xs  BY <1>1, <1>2, <3>1 DEF ClientTypes
      <3>2. CASE y \notin xs  BY <1>1, <1>3, <3>2 DEF OneContext
      <3> QED  BY <3>1, <3>2
    <2> QED  BY <2>1, <2>2 DEF OneContext
  <1>6. \A d \in Client \ Connected' : wants'[d] = {}
    <2> SUFFICES ASSUME NEW d \in Client \ Connected', d \notin who
                 PROVE  d \notin Connected
      BY <1>1 DEF MapsAgree
    <2>1. ASSUME NEW y \in Ctx, client[y] = d PROVE FALSE
      BY <1>1, <1>3, <2>1 DEF ClientTypes, Connected
    <2> QED  BY <2>1 DEF Connected
  <1>7. ASSUME NEW k \in Key, NEW y \in Ctx
        PROVE  Serves(k, y)' <=> Serves(k, y) /\ y \notin xs
    <2>1. CASE k \in Held(xs)
      <3>1. type2ctxs'[k] = type2ctxs[k] \ xs /\ type2ctxs[k] # None
        BY <2>1 DEF Left, Held
      <3>2. type2ctxs[k] \ xs # None  BY <3>1 DEF ClientTypes
      <3> QED  BY <3>1, <3>2 DEF Serves
    <2>2. CASE k \notin Held(xs)
      <3>1. type2ctxs'[k] = type2ctxs[k]  BY <2>2 DEF Left
      <3>2. Serves(k, y) => y \notin xs
        BY <2>2 DEF Held, Serves, MapsAgree
      <3> QED  BY <3>1, <3>2 DEF Serves
    <2> QED  BY <2>1, <2>2
  <1>8. ASSUME NEW k \in Key, NEW y \in Ctx
        PROVE  Serves(k, y)' <=> client'[y] # None /\ k \in wants'[client'[y]]
    BY <1>1, <1>3, <1>7 DEF MapsAgree, ClientTypes
  <1>9. MapsAgree'  BY <1>6, <1>7, <1>8 DEF MapsAgree
  <1> QED  BY <1>4, <1>5, <1>9

LEMMA ClientsStep == ASSUME ClientsInv, [Next]_vars PROVE ClientsInv'
  <1>1. CASE UNCHANGED <<client, gone, subVars, wants>>
    BY <1>1 DEF ClientsInv, ClientTypes, OneContext, MapsAgree, Serves, Connected, subVars
  <1>2. CASE \E x \in Ctx, c \in Client : OnLevAccept(x, c)  BY <1>2, AcceptClients
  <1>3. CASE \E x \in Ctx, keys \in SUBSET Key \ {{}} : Sub(x, keys) \/ Unsub(x, keys)
    BY <1>3, SubClients, UnsubClients
  <1>4. CASE \E x \in Ctx : OnLevDisConnect(x)
    <2> PICK x \in Ctx : OnLevDisConnect(x)  BY <1>4
    <2> QED  BY LeaveClients DEF OnLevDisConnect
  <1>5. CASE CheckClientAlive
    <2>1. PICK dead \in SUBSET Ctx : type2ctxs' = Left(dead) /\ Leave(dead)
      BY <1>5 DEF CheckClientAlive
    <2> QED  BY <1>5, <2>1, LeaveClients DEF CheckClientAlive
  <1>6. CASE \E x \in Ctx : Query(x) \/ Heartbeat(x) \/ Local(x)
    BY <1>1, <1>6 DEF Query, Heartbeat, Local, envVars, histVars
  <1>7. CASE HubStep
    BY <1>1, <1>7 DEF HubStep, Answer, Connect, ConnectFails, Disconnect, hubUnchanged,
                      envVars, histVars
  <1>8. CASE ResubTimer \/ OnQueryInsInfoTimer \/ ProcessRes
    BY <1>1, <1>8 DEF ResubTimer, OnQueryInsInfoTimer, ProcessRes, envVars, histVars
  <1>9. CASE UNCHANGED vars  BY <1>1, <1>9 DEF vars, envVars, histVars
  <1> QED
    BY <1>2, <1>3, <1>4, <1>5, <1>6, <1>7, <1>8, <1>9 DEF Next, ClientStep, LoopStep

(* The ids of the requests                                                 *)

LEMMA IdsInit == ASSUME Init PROVE RequestTypes /\ IdsAgree
  BY ConvertAssumption DEF Init, RequestTypes, IdsAgree, Id

\* A request of context x that takes n ids, all of them remembered.
LEMMA RememberIds ==
  ASSUME ClientsInv, RequestTypes, IdsAgree, NEW x \in Ctx, NEW n \in 1..2,
         Request(x, n), Remember(x, n), UNCHANGED <<client, gone, replies>>
  PROVE  RequestTypes' /\ IdsAgree'
  <1> USE ConvertAssumption
  <1> DEFINE now == reqId + 1 .. reqId + n
  <1>1. /\ client[x] # None /\ client[x] \in Client /\ reqId' = reqId + n
        /\ id2ctx' = [i \in Id |-> IF i \in now THEN x ELSE id2ctx[i]]
        /\ asker' = [i \in Id |-> IF i \in now THEN client[x] ELSE asker[i]]
    BY DEF Request, Remember, ClientsInv, ClientTypes
  <1>2. /\ reqId' \in Nat /\ reqId' > reqId
        /\ \A i \in Id : i \in now => i > reqId /\ ~(i > reqId')
        /\ \A i \in Id : i > reqId' => i > reqId
    BY <1>1 DEF RequestTypes, Id
  <1> HIDE DEF now
  <1>3. RequestTypes'  BY <1>1, <1>2 DEF RequestTypes
  <1>4. Connected' = Connected /\ client[x] \in Connected  BY <1>1 DEF Connected
  <1>5. ASSUME NEW i \in Id
        PROVE  /\ replies'[i] <= 1
               /\ id2ctx'[i] # None => replies'[i] = 0
               /\ i > reqId' => id2ctx'[i] = None /\ replies'[i] = 0 /\ asker'[i] = None
               /\ asker'[i] # None => asker'[i] \in Connected' \cup gone'
               /\ asker'[i] \in Connected' /\ id2ctx'[i] # None
                     => client'[id2ctx'[i]] = asker'[i]
    <2>1. CASE i \in now  BY <1>1, <1>2, <1>4, <2>1 DEF IdsAgree
    <2>2. CASE i \notin now
      <3>1. /\ id2ctx'[i] = id2ctx[i] /\ asker'[i] = asker[i] /\ replies'[i] = replies[i]
            /\ client' = client /\ gone' = gone /\ Connected' = Connected
            /\ i > reqId' => i > reqId
        BY <1>1, <1>2, <1>4, <2>2
      <3> QED  BY <3>1 DEF IdsAgree
    <2> QED  BY <2>1, <2>2
  <1>6. IdsAgree'  BY <1>5 DEF IdsAgree
  <1> QED  BY <1>3, <1>6

\* A heartbeat takes an id that nothing is remembered of.
LEMMA SpendId ==
  ASSUME RequestTypes, IdsAgree, NEW x \in Ctx, Request(x, 1),
         UNCHANGED <<client, gone, id2ctx, asker, replies>>
  PROVE  RequestTypes' /\ IdsAgree'
  <1>1. reqId' = reqId + 1 /\ reqId \in Nat  BY DEF Request, RequestTypes
  <1>2. \A i \in Id : i > reqId' => i > reqId  BY <1>1, ConvertAssumption DEF Id
  <1> QED  BY <1>1, <1>2 DEF RequestTypes, IdsAgree, Connected

LEMMA AcceptIds ==
  ASSUME ClientsInv, RequestTypes, IdsAgree, NEW x \in Ctx, NEW c \in Client,
         OnLevAccept(x, c)
  PROVE  RequestTypes' /\ IdsAgree'
  <1> USE ConvertAssumption
  <1>1. /\ client[x] = None /\ c \notin Connected \cup gone
        /\ client' = [client EXCEPT ![x] = c]
        /\ UNCHANGED <<gone, reqId, id2ctx, asker, replies>>
    BY DEF OnLevAccept, histVars
  <1>2. Connected' = Connected \cup {c}
    BY <1>1 DEF Connected, ClientsInv, ClientTypes
  <1>3. ASSUME NEW i \in Id, asker[i] \in Connected', id2ctx[i] # None
        PROVE  client'[id2ctx[i]] = asker[i]
    <2>1. asker[i] # c
      BY <1>1 DEF IdsAgree
    <2>2. client[id2ctx[i]] = asker[i] /\ asker[i] # None /\ id2ctx[i] \in Ctx
      BY <1>2, <1>3, <2>1 DEF IdsAgree, Connected, RequestTypes
    <2> QED  BY <1>1, <2>2 DEF ClientsInv, ClientTypes
  <1>4. IdsAgree'  BY <1>1, <1>2, <1>3 DEF IdsAgree
  <1> QED  BY <1>1, <1>4 DEF RequestTypes

\* The ids of a context that leaves stay, but nobody who is connected stands behind them.
LEMMA LeaveIds ==
  ASSUME ClientsInv, RequestTypes, IdsAgree, NEW xs \in SUBSET Ctx, Leave(xs),
         UNCHANGED <<reqId, id2ctx, asker, replies>>
  PROVE  RequestTypes' /\ IdsAgree'
  <1> USE ConvertAssumption
  <1> DEFINE who == {client[x] : x \in xs} \ {None}
  <1>1. /\ client' = [x \in Ctx |-> IF x \in xs THEN None ELSE client[x]]
        /\ gone' = gone \cup who
    BY DEF Leave
  <1>2. Connected' \subseteq Connected /\ Connected \subseteq Connected' \cup who
    BY <1>1 DEF Connected
  <1>3. \A x \in Ctx : client[x] \in Connected' => x \notin xs
    BY <1>1 DEF Connected, ClientsInv, OneContext
  <1>4. ASSUME NEW i \in Id, asker[i] \in Connected', id2ctx[i] # None
        PROVE  client'[id2ctx[i]] = asker[i]
    <2>1. client[id2ctx[i]] = asker[i] /\ id2ctx[i] \in Ctx
      BY <1>2, <1>4 DEF IdsAgree, RequestTypes
    <2> QED  BY <1>1, <1>3, <1>4, <2>1
  <1>5. \A i \in Id : asker[i] # None => asker[i] \in Connected' \cup gone'
    BY <1>1, <1>2 DEF IdsAgree
  <1>6. IdsAgree'  BY <1>4, <1>5 DEF IdsAgree
  <1> QED  BY <1>6 DEF RequestTypes

LEMMA ProcessResIds ==
  ASSUME RequestTypes, IdsAgree, ProcessRes
  PROVE  RequestTypes' /\ IdsAgree'
  <1>1. UNCHANGED <<reqId, client, gone, asker>> /\ Connected' = Connected
    BY DEF ProcessRes, envVars, Connected
  <1>2. CASE UNCHANGED <<id2ctx, replies>>
    BY <1>1, <1>2 DEF RequestTypes, IdsAgree
  <1>3. CASE Forward(Head(resQue))
    <2> PICK id : id = Head(resQue)  OBVIOUS
    <2>1. /\ id2ctx' = [id2ctx EXCEPT ![id] = None]
          /\ replies' = IF id2ctx[id] = None THEN replies ELSE [replies EXCEPT ![id] = @ + 1]
      BY <1>3 DEF Forward
    <2>2. \A i \in Id : /\ i = id => id2ctx'[i] = None
                        /\ i # id => id2ctx'[i] = id2ctx[i] /\ replies'[i] = replies[i]
                        /\ replies'[i] = replies[i] \/ replies'[i] = replies[i] + 1
                        /\ replies'[i] # replies[i] => id2ctx[i] # None
      BY <2>1 DEF RequestTypes
    <2>3. ASSUME NEW i \in Id
          PROVE  \/ id2ctx'[i] = None /\ replies'[i] <= 1
                 \/ id2ctx'[i] = id2ctx[i] /\ replies'[i] = replies[i]
      BY <2>2 DEF RequestTypes, IdsAgree
    <2>4. RequestTypes'
      <3>1. id2ctx' \in [Id -> Ctx \cup {None}]  BY <2>1 DEF RequestTypes
      <3>2. CASE id2ctx[id] = None  BY <1>1, <2>1, <3>1, <3>2 DEF RequestTypes
      <3>3. CASE id2ctx[id] # None
        <4>1. replies' = [replies EXCEPT ![id] = @ + 1]  BY <2>1, <3>3
        <4>2. \A i \in Id : replies[i] \in Nat /\ replies[i] + 1 \in Nat
          BY DEF RequestTypes
        <4>3. replies' \in [Id -> Nat]
          <5>1. CASE id \in Id  BY <4>1, <4>2, <5>1 DEF RequestTypes
          <5>2. CASE id \notin Id  BY <4>1, <4>2, <5>2 DEF RequestTypes
          <5> QED  BY <5>1, <5>2
        <4> QED  BY <1>1, <3>1, <4>3 DEF RequestTypes
      <3> QED  BY <3>2, <3>3
    <2>5. ASSUME NEW i \in Id, i > reqId PROVE id2ctx'[i] = None /\ replies'[i] = 0
      BY <2>1, <2>5 DEF RequestTypes, IdsAgree
    <2>6. IdsAgree'
      <3> SUFFICES ASSUME NEW i \in Id
                   PROVE  /\ replies'[i] <= 1
                          /\ id2ctx'[i] # None => replies'[i] = 0
                          /\ i > reqId => id2ctx'[i] = None /\ replies'[i] = 0
                                          /\ asker[i] = None
                          /\ asker[i] # None => asker[i] \in Connected \cup gone
                          /\ asker[i] \in Connected /\ id2ctx'[i] # None
                                => client[id2ctx'[i]] = asker[i]
        BY <1>1 DEF IdsAgree
      <3>1. i > reqId => asker[i] = None  BY DEF IdsAgree
      <3> QED  BY <2>3, <2>5, <3>1 DEF IdsAgree
    <2> QED  BY <2>4, <2>6
  <1> QED  BY <1>2, <1>3 DEF ProcessRes

LEMMA IdsStep ==
  ASSUME ClientsInv, RequestTypes, IdsAgree, [Next]_vars
  PROVE  RequestTypes' /\ IdsAgree'
  <1>1. CASE UNCHANGED <<reqId, client, gone, id2ctx, asker, replies>>
    BY <1>1 DEF RequestTypes, IdsAgree, Connected
  <1>2. CASE \E x \in Ctx, c \in Client : OnLevAccept(x, c)  BY <1>2, AcceptIds
  <1>3. CASE \E x \in Ctx, keys \in SUBSET Key \ {{}} : Sub(x, keys) \/ Unsub(x, keys)
    <2>1. PICK x \in Ctx, n \in 1..2 :
             Request(x, n) /\ Remember(x, n) /\ UNCHANGED <<client, gone, replies>>
      BY <1>3 DEF Sub, Unsub, envVars
    <2> QED  BY <2>1, RememberIds
  <1>4. CASE \E x \in Ctx : Query(x)
    <2>1. PICK x \in Ctx :
             Request(x, 1) /\ Remember(x, 1) /\ UNCHANGED <<client, gone, replies>>
      BY <1>4 DEF Query, envVars
    <2> QED  BY <2>1, RememberIds
  <1>5. CASE \E x \in Ctx : Heartbeat(x) \/ Local(x)
    <2>1. PICK x \in Ctx :
             Request(x, 1) /\ UNCHANGED <<client, gone, id2ctx, asker, replies>>
      BY <1>5 DEF Heartbeat, Local, envVars, histVars
    <2> QED  BY <2>1, SpendId
  <1>6. CASE \/ \E x \in Ctx : OnLevDisConnect(x)
             \/ CheckClientAlive
    <2>1. PICK xs \in SUBSET Ctx : Leave(xs) /\ UNCHANGED <<reqId, id2ctx, asker, replies>>
      BY <1>6 DEF OnLevDisConnect, CheckClientAlive
    <2> QED  BY <2>1, LeaveIds
  <1>7. CASE ProcessRes  BY <1>7, ProcessResIds
  <1>8. CASE HubStep
    BY <1>1, <1>8 DEF HubStep, Answer, Connect, ConnectFails, Disconnect, hubUnchanged,
                      envVars, histVars
  <1>9. CASE ResubTimer \/ OnQueryInsInfoTimer
    BY <1>1, <1>9 DEF ResubTimer, OnQueryInsInfoTimer, envVars, histVars
  <1>10. CASE UNCHANGED vars  BY <1>1, <1>10 DEF vars, envVars, histVars
  <1> QED
    BY <1>2, <1>3, <1>4, <1>5, <1>6, <1>7, <1>8, <1>9, <1>10
    DEF Next, ClientStep, LoopStep

-----------------------------------------------------------------------------
(* The tables of UwsClient                                                 *)

\* Tables, without the promise that nothing is counted below zero.
Books ==
    [symbol2con : [Key -> Con \cup {None, Null}], con2symbol : [Ws -> SUBSET Key],
     allWs : [Ws -> Con \cup {None, Null}], counts : [Con -> Int], disconWs : Seq(Ws),
     queryWs : Ws \cup {None}, crashed : BOOLEAN, connecting : Int, open : SUBSET Ws,
     subId : Nat, subs : SUBSET (Ws \X Key), asked : SUBSET (Ws \X Nat)]

Good(u) == u \in Books /\ Carried(u)

\* v has the entries of u.
SameEntries(u, v) ==
    v.symbol2con = u.symbol2con /\ v.con2symbol = u.con2symbol /\ v.allWs = u.allWs

LEMMA SameGood ==
  ASSUME NEW u, NEW v, Good(u), v \in Books, SameEntries(u, v)
  PROVE  Good(v)
BY DEF Good, SameEntries, Carried

LEMMA AskedType ==
  ASSUME NEW u \in Books, NEW w \in Ws, NEW id \in Nat
  PROVE  Asked(u, w, id) \in SUBSET (Ws \X Nat)
BY DEF Asked, Books

LEMMA ServerSubSame ==
  ASSUME NEW u \in Books, NEW w \in Ws, NEW keys \in SUBSET Key, NEW id \in Nat
  PROVE  /\ ServerSub(u, w, keys, id) \in Books /\ SameEntries(u, ServerSub(u, w, keys, id))
         /\ ServerSub(u, w, keys, id).crashed = u.crashed
<1>1. Asked(u, w, id) \in SUBSET (Ws \X Nat) /\ u.subs \cup ({w} \X keys) \in SUBSET (Ws \X Key)
  BY AskedType DEF Books
<1>2. PICK s, a : s = u.subs \cup ({w} \X keys) /\ a = Asked(u, w, id)
  OBVIOUS
<1>3. [u EXCEPT !.subs = s, !.asked = a] \in Books /\ SameEntries(u, [u EXCEPT !.subs = s, !.asked = a])
  BY <1>1, <1>2 DEF Books, SameEntries
<1>4. SameEntries(u, u)
  BY DEF SameEntries
<1>5. [u EXCEPT !.subs = s, !.asked = a].crashed = u.crashed
  BY DEF Books
<1>6. ServerSub(u, w, keys, id) \in {u, [u EXCEPT !.subs = s, !.asked = a]}
  BY <1>2 DEF ServerSub
<1> QED
  BY <1>3, <1>4, <1>5, <1>6

LEMMA ServerUnsubSame ==
  ASSUME NEW u \in Books, NEW w \in Ws, NEW k \in Key, NEW id \in Nat
  PROVE  /\ ServerUnsub(u, w, k, id) \in Books /\ SameEntries(u, ServerUnsub(u, w, k, id))
         /\ ServerUnsub(u, w, k, id).crashed = u.crashed
<1>1. Asked(u, w, id) \in SUBSET (Ws \X Nat) /\ u.subs \ {<<w, k>>} \in SUBSET (Ws \X Key)
  BY AskedType DEF Books
<1>2. PICK s, a : s = u.subs \ {<<w, k>>} /\ a = Asked(u, w, id)
  OBVIOUS
<1>3. [u EXCEPT !.subs = s, !.asked = a] \in Books /\ SameEntries(u, [u EXCEPT !.subs = s, !.asked = a])
  BY <1>1, <1>2 DEF Books, SameEntries
<1>4. SameEntries(u, u)
  BY DEF SameEntries
<1>5. [u EXCEPT !.subs = s, !.asked = a].crashed = u.crashed
  BY DEF Books
<1>6. ServerUnsub(u, w, k, id) \in {u, [u EXCEPT !.subs = s, !.asked = a]}
  BY <1>2 DEF ServerUnsub
<1> QED
  BY <1>3, <1>4, <1>5, <1>6

LEMMA CrashSame ==
  ASSUME NEW u \in Books
  PROVE  Crash(u) \in Books /\ SameEntries(u, Crash(u)) /\ Crash(u).crashed
BY DEF Crash, Books, SameEntries

\* One symbol is ended: it has no connection any more, or the process has died.
Unsubbed(u, v, k) ==
  /\ Good(v)
  /\ \A j \in Key \ {k} : v.symbol2con[j] = u.symbol2con[j]
  /\ ~v.crashed => ~u.crashed /\ v.symbol2con[k] = None

LEMMA UnsubOneGood ==
  ASSUME NEW u, Good(u), NEW k \in Key, NEW id \in Nat
  PROVE  Unsubbed(u, UnsubOne(u, k, id), k)
<1>1. PICK con \in Con \cup {None, Null} : con = u.symbol2con[k]
  BY DEF Good, Books
<1>2. CASE u.crashed \/ con = None
  <2>1. UnsubOne(u, k, id) = u
    BY <1>1, <1>2 DEF UnsubOne
  <2> QED
    BY <1>1, <1>2, <2>1 DEF Unsubbed
<1>3. CASE ~(u.crashed \/ con = None) /\ con = Null
  <2>1. UnsubOne(u, k, id) = Crash(u)
    BY <1>1, <1>3 DEF UnsubOne
  <2>2. Crash(u) \in Books /\ SameEntries(u, Crash(u)) /\ Crash(u).crashed
    BY CrashSame DEF Good
  <2>3. Good(Crash(u))
    BY <2>2, SameGood
  <2> QED
    BY <2>1, <2>2, <2>3 DEF Unsubbed, SameEntries
<1>4. CASE ~(u.crashed \/ con = None) /\ con # Null
  <2>1. con \in Con /\ con[1] \in Ws
    BY <1>4 DEF Con
  <2>2. PICK counts, symbol2con, con2symbol :
           /\ counts = [u.counts EXCEPT ![con] = @ - 1]
           /\ symbol2con = [u.symbol2con EXCEPT ![k] = None]
           /\ con2symbol = [u.con2symbol EXCEPT ![con[1]] = @ \ {k}]
    OBVIOUS
  <2>3. counts \in [Con -> Int] /\ symbol2con \in [Key -> Con \cup {None, Null}] /\ con2symbol \in [Ws -> SUBSET Key]
    BY <2>1, <2>2 DEF Good, Books
  <2>4. PICK v : v = [u EXCEPT !.counts = counts, !.symbol2con = symbol2con, !.con2symbol = con2symbol]
    OBVIOUS
  <2>5. v = [u EXCEPT !.counts[con] = @ - 1, !.symbol2con[k] = None, !.con2symbol[con[1]] = @ \ {k}]
    BY <2>2, <2>4 DEF Good, Books
  <2>6. v \in Books /\ v.symbol2con = symbol2con /\ v.con2symbol = con2symbol /\ v.allWs = u.allWs /\ v.crashed = u.crashed
    BY <2>3, <2>4 DEF Good, Books
  <2>7. Carried(v)
    <3>1. \A w \in Ws : con2symbol[w] \subseteq u.con2symbol[w]
      BY <2>1, <2>2 DEF Good, Books
    <3>2. \A a, b \in Ws : v.con2symbol[a] \cap v.con2symbol[b] # {} => a = b
      BY <2>6, <3>1 DEF Good, Carried
    <3>3. ASSUME NEW w \in Ws, NEW j \in v.con2symbol[w] PROVE v.symbol2con[j] \in {Null} \cup ({w} \X {0, 1})
      <4>1. j \in u.con2symbol[w] /\ j \in Key
        BY <2>6, <3>1 DEF Good, Books
      <4>2. u.symbol2con[j] \in {Null} \cup ({w} \X {0, 1})
        BY <4>1 DEF Good, Carried
      <4>3. j # k
        <5> SUFFICES ASSUME j = k PROVE FALSE
          OBVIOUS
        <5>1. w = con[1]
          BY <1>1, <1>4, <4>2
        <5>2. k \notin con2symbol[w]
          BY <2>1, <2>2, <5>1 DEF Good, Books
        <5> QED
          BY <2>6, <5>2
      <4> QED
        BY <2>2, <2>6, <4>1, <4>2, <4>3 DEF Good, Books
    <3>4. \A w \in Ws : v.allWs[w] \in {None, Null} \cup ({w} \X {0, 1})
      BY <2>6 DEF Good, Carried
    <3> QED
      BY <3>2, <3>3, <3>4 DEF Carried
  <2>8. UnsubOne(u, k, id) = ServerUnsub(v, con[1], k, id)
    BY <1>1, <1>4, <2>5 DEF UnsubOne
  <2>9. PICK z : z = ServerUnsub(v, con[1], k, id)
    OBVIOUS
  <2>10. z \in Books /\ SameEntries(v, z) /\ z.crashed = v.crashed
    BY <2>1, <2>6, <2>9, ServerUnsubSame
  <2>11. Good(z)
    BY <2>6, <2>7, <2>10, SameGood DEF Good
  <2>12. z.symbol2con = [u.symbol2con EXCEPT ![k] = None] /\ z.crashed = u.crashed
    BY <2>2, <2>6, <2>10 DEF SameEntries
  <2>13. z.symbol2con[k] = None /\ \A j \in Key \ {k} : z.symbol2con[j] = u.symbol2con[j]
    BY <2>12 DEF Good, Books
  <2> QED
    BY <1>4, <2>8, <2>9, <2>11, <2>12, <2>13 DEF Unsubbed
<1> QED
  BY <1>2, <1>3, <1>4

\* SetToSeq has every element of a set, once.
LEMMA InSomeOrder ==
  ASSUME NEW keys \in SUBSET Key, NEW ks, ks = SetToSeq(keys)
  PROVE  \E n \in Nat : ks \in [1..n -> keys] /\ (\A k \in keys : \E i \in 1..n : ks[i] = k)
                        /\ \A i, j \in 1..n : i # j => ks[i] # ks[j]
<1>1. IsFiniteSet(keys)
  BY UwsAssumption, FS_Subset
<1>2. PICK n \in Nat : n = Cardinality(keys) /\ ExistsBijection(1..n, keys)
  BY <1>1, FS_CardinalityType
<1>3. PICK f \in [1..n -> keys] : \A i, j \in 1..n : f[i] = f[j] => i = j
  <2>1. PICK f \in Bijection(1..n, keys) : TRUE
    BY <1>2 DEF ExistsBijection
  <2> QED
    BY <2>1 DEF Bijection, Injection, IsInjective
<1>4. IsInjective(f)
  BY <1>3 DEF IsInjective
<1>5. ks \in [1..n -> keys] /\ IsInjective(ks)
  BY <1>2, <1>4 DEF SetToSeq
<1>6. ks \in Injection(1..n, keys)
  BY <1>5 DEF Injection
<1>7. IsFiniteSet(1..n) /\ Cardinality(1..n) = n
  BY FS_Interval
<1>8. ks \in Surjection(1..n, keys)
  BY <1>1, <1>2, <1>6, <1>7, FS_Injection
<1>9. \A k \in keys : \E i \in 1..n : ks[i] = k
  BY <1>8 DEF Surjection
<1>10. \A i, j \in 1..n : i # j => ks[i] # ks[j]
  BY <1>5 DEF IsInjective
<1> QED
  BY <1>5, <1>9, <1>10

\* The symbols are ended, or the process has died.
Ends(u, v, keys) ==
  /\ Good(v)
  /\ \A j \in Key \ keys : v.symbol2con[j] = u.symbol2con[j]
  /\ ~v.crashed => ~u.crashed /\ \A j \in keys : v.symbol2con[j] = None

\* The symbols of a request to unsubscribe are ended one after the other: ks is their order, v
\* what the tables are in between.
UnsubRun(u, keys, id, n, ks, v) ==
  /\ ks \in [1..n -> keys] /\ \A k \in keys : \E i \in 1..n : ks[i] = k
  /\ v[0] = u /\ v[n] = SendUnsub(u, keys, id)
  /\ \A i \in 1..n : v[i] = UnsubOne(v[i - 1], ks[i], id)

LEMMA SendUnsubRun ==
  ASSUME NEW A, NEW u \in A, NEW keys \in SUBSET Key, NEW id,
         \A v \in A : \A k \in keys : UnsubOne(v, k, id) \in A
  PROVE  SendUnsub(u, keys, id) \in A /\ \E n \in Nat : \E ks, v : UnsubRun(u, keys, id, n, ks, v)
<1>1. PICK ks : ks = SetToSeq(keys)
  OBVIOUS
<1>2. PICK n \in Nat : /\ ks \in [1..n -> keys] /\ (\A k \in keys : \E i \in 1..n : ks[i] = k)
                       /\ \A i, j \in 1..n : i # j => ks[i] # ks[j]
  BY <1>1, InSomeOrder
<1> DEFINE step == [p \in A \X (1..n) |-> UnsubOne(p[1], ks[p[2]], id)]
           Rule(f) == [T \in SUBSET (1..n) |-> IF T = {} THEN u ELSE UnsubOne(f[T \ {Max(T)}], ks[Max(T)], id)]
           fold == CHOOSE g : g = Rule(g)
<1>3. \A v \in A : \A i \in 1..n : UnsubOne(v, ks[i], id) \in A
  BY <1>2
<1>4. step \in [A \X (1..n) -> A]
  <2>1. ASSUME NEW p \in A \X (1..n) PROVE UnsubOne(p[1], ks[p[2]], id) \in A
    <3>1. p[1] \in A /\ p[2] \in 1..n
      OBVIOUS
    <3> QED
      BY <1>3, <3>1
  <2> QED
    BY <2>1
<1>5. PICK f \in [SUBSET (1..n) -> A] : Folds(f, u, n, step)
  <2> HIDE DEF step
  <2> QED
    BY <1>4, FoldThere
<1>6. f = Rule(f)
  <2>1. ASSUME NEW T \in SUBSET (1..n), T # {}
        PROVE  f[T] = UnsubOne(f[T \ {Max(T)}], ks[Max(T)], id)
    <3>1. Max(T) \in 1..n /\ f[T \ {Max(T)}] \in A
      BY <2>1, LargestIs
    <3>2. <<f[T \ {Max(T)}], Max(T)>> \in A \X (1..n)
      BY <3>1
    <3>3. f[T] = step[<<f[T \ {Max(T)}], Max(T)>>]
      <4> HIDE DEF step
      <4> QED
        BY <1>5, <2>1 DEF Folds
    <3> QED
      BY <3>2, <3>3
  <2>2. f[{}] = u
    <3> HIDE DEF step
    <3> QED
      BY <1>5 DEF Folds
  <2> QED
    BY <1>5, <2>1, <2>2
<1>7. fold = Rule(fold)
  <2> HIDE DEF Rule
  <2> QED
    BY <1>6
<1>8. SendUnsub(u, keys, id) = fold[1..n]
  <2>1. DOMAIN ks = 1..n
    BY <1>2
  <2>2. SendUnsub(u, keys, id) = FoldLeft(LAMBDA v, k : UnsubOne(v, k, id), u, ks)
    BY <1>1, Zenon DEF SendUnsub
  <2> QED
    BY <2>1, <2>2, Zenon DEF FoldLeft, MapThenFoldSet
<1> HIDE DEF fold
<1>9. \A T \in SUBSET (1..n) : fold[T] = IF T = {} THEN u ELSE UnsubOne(fold[T \ {Max(T)}], ks[Max(T)], id)
  BY <1>7
<1>10. PICK v : v = [i \in 0..n |-> fold[1..i]]
  OBVIOUS
<1>11. v[0] = u
  <2>1. 1..0 = {} /\ {} \in SUBSET (1..n) /\ 0 \in 0..n
    OBVIOUS
  <2>2. v[0] = fold[{}]
    BY <1>10, <2>1
  <2> QED
    BY <1>9, <2>1, <2>2
<1>12. ASSUME NEW i \in 1..n
       PROVE  v[i] = UnsubOne(v[i - 1], ks[i], id)
  <2>1. Max(1..i) = i /\ (1..i) \ {i} = 1..i - 1 /\ 1..i # {}
    <3>1. i \in Nat /\ i > 0
      OBVIOUS
    <3> QED
      BY <3>1, LargestOfInterval
  <2>2. 1..i \in SUBSET (1..n) /\ i \in 0..n /\ i - 1 \in 0..n
    OBVIOUS
  <2>3. v[i] = fold[1..i] /\ v[i - 1] = fold[1..i - 1]
    BY <1>10, <2>2
  <2>4. fold[1..i] = IF 1..i = {} THEN u ELSE UnsubOne(fold[(1..i) \ {Max(1..i)}], ks[Max(1..i)], id)
    BY <1>9, <2>2, Zenon
  <2> QED
    BY <2>1, <2>3, <2>4
<1>13. v[n] = SendUnsub(u, keys, id)
  BY <1>8, <1>10
<1>14. v[n] \in A
  <2> DEFINE G == {i \in 0..n : v[i] \in A}
  <2>1. 0 \in G
    BY <1>11
  <2>2. \A i \in 1..n : i - 1 \in G => i \in G
    BY <1>3, <1>12
  <2> HIDE DEF G
  <2>3. \A i \in 0..n : i \in G
    BY <2>1, <2>2, UpTo
  <2> QED
    BY <2>3 DEF G
<1>15. UnsubRun(u, keys, id, n, ks, v)
  BY <1>2, <1>11, <1>12, <1>13 DEF UnsubRun
<1> QED
  BY <1>13, <1>14, <1>15

LEMMA SendUnsubGood ==
  ASSUME NEW u, Good(u), NEW keys \in SUBSET Key, NEW id \in Nat
  PROVE  Ends(u, SendUnsub(u, keys, id), keys)
<1> DEFINE A == {v \in Books : Carried(v)}
<1>1. ASSUME NEW v \in A, NEW k \in keys
      PROVE  UnsubOne(v, k, id) \in A /\ Unsubbed(v, UnsubOne(v, k, id), k)
  <2>1. Good(v) /\ k \in Key
    BY DEF Good
  <2>2. Unsubbed(v, UnsubOne(v, k, id), k)
    BY <2>1, UnsubOneGood
  <2> QED
    BY <2>2 DEF Unsubbed, Good
<1>2. u \in A
  BY DEF Good
<1> HIDE DEF A
<1>3. PICK n \in Nat : \E ks, v : UnsubRun(u, keys, id, n, ks, v)
  <2>1. \A x \in A : \A k \in keys : UnsubOne(x, k, id) \in A
    BY <1>1
  <2> QED
    BY <1>2, <2>1, SendUnsubRun
<1>4. PICK ks, v : UnsubRun(u, keys, id, n, ks, v)
  BY <1>3
<1>5. v[0] = u /\ v[n] = SendUnsub(u, keys, id)
  BY <1>4 DEF UnsubRun
<1>6. \A i \in 1..n : ks[i] \in keys /\ v[i] = UnsubOne(v[i - 1], ks[i], id)
  BY <1>4 DEF UnsubRun
<1> DEFINE Done(i) == {ks[j] : j \in 1..i}
           G == {i \in 0..n : v[i] \in A /\ Ends(u, v[i], Done(i))}
<1>7. 0 \in G
  <2>1. Done(0) = {}
    OBVIOUS
  <2>2. v[0] \in A /\ v[0] = u
    BY <1>2, <1>5
  <2> QED
    BY <2>1, <2>2 DEF Ends
<1>8. ASSUME NEW i \in 1..n, i - 1 \in G PROVE i \in G
  <2>1. PICK a, b, k : a = v[i - 1] /\ b = v[i] /\ k = ks[i]
    OBVIOUS
  <2>2. a \in A /\ Ends(u, a, Done(i - 1)) /\ k \in keys
    BY <1>6, <1>8, <2>1
  <2>3. b \in A /\ Unsubbed(a, b, k)
    BY <1>1, <1>6, <2>1, <2>2
  <2>4. Done(i) = Done(i - 1) \cup {k}
    <3>1. \A j \in 1..i : j \in 1..i - 1 \/ j = i
      OBVIOUS
    <3>2. 1..i - 1 \subseteq 1..i /\ i \in 1..i
      OBVIOUS
    <3> QED
      BY <2>1, <3>1, <3>2
  <2>5. Done(i - 1) \subseteq keys
    <3>1. \A j \in 1..i - 1 : j \in 1..n
      OBVIOUS
    <3> QED
      BY <1>6, <3>1
  <2>6. PICK D, E : D = Done(i - 1) /\ E = Done(i)
    OBVIOUS
  <2>7. Ends(u, a, D) /\ E = D \cup {k} /\ D \subseteq keys
    <3> HIDE DEF Done, A
    <3> QED
      BY <2>2, <2>4, <2>5, <2>6
  <2>8. Ends(u, b, E)
    BY <2>2, <2>3, <2>7 DEF Ends, Unsubbed
  <2>9. v[i] \in A /\ Ends(u, v[i], Done(i)) /\ i \in 0..n
    <3> HIDE DEF Done, A
    <3> QED
      BY <2>1, <2>3, <2>6, <2>8
  <2> QED
    BY <2>9
<1>9. n \in G
  <2> HIDE DEF G
  <2>1. \A i \in 0..n : i \in G
    BY <1>7, <1>8, UpTo
  <2> QED
    BY <2>1
<1>10. Done(n) = keys
  BY <1>4 DEF UnsubRun
<1> QED
  BY <1>5, <1>9, <1>10

\* A loop over allWsMap that subscribes: acc.u is u with some of the symbols of keys
\* subscribed, and acc.left has others of them, each once, that no connection carries.
Subscribing(u, acc, keys) ==
  /\ acc \in [u : Books, left : Seq(keys)] /\ Carried(acc.u)
  /\ acc.u.allWs = u.allWs /\ (~acc.u.crashed => ~u.crashed)
  /\ \A k \in Key \ keys : acc.u.symbol2con[k] = u.symbol2con[k]
  /\ \A i, j \in 1..Len(acc.left) : i # j => acc.left[i] # acc.left[j]
  /\ \A i \in 1..Len(acc.left) : \A w \in Ws : acc.left[i] \notin acc.u.con2symbol[w]

\* The symbols of now go to con, an object of the connection at w.
Given(u, w, con, now, n, id) ==
  [u EXCEPT !.counts[con] = @ + n,
            !.symbol2con = [k \in Key |-> IF k \in now THEN con ELSE @[k]],
            !.con2symbol[w] = @ \cup now,
            !.subId = id]

LEMMA GivenGood ==
  ASSUME NEW u, Good(u), NEW w \in Ws, NEW con \in {w} \X {0, 1}, NEW now \in SUBSET Key,
         NEW n \in Nat, NEW id \in Nat, \A k \in now : \A a \in Ws : k \notin u.con2symbol[a]
  PROVE  /\ Good(Given(u, w, con, now, n, id)) /\ Given(u, w, con, now, n, id).allWs = u.allWs
         /\ Given(u, w, con, now, n, id).crashed = u.crashed
         /\ \A k \in Key \ now : Given(u, w, con, now, n, id).symbol2con[k] = u.symbol2con[k]
         /\ \A a \in Ws : Given(u, w, con, now, n, id).con2symbol[a] \subseteq u.con2symbol[a] \cup now
<1>1. con \in Con
  BY DEF Con
<1>2. PICK counts, symbol2con, con2symbol :
         /\ counts = [u.counts EXCEPT ![con] = @ + n]
         /\ symbol2con = [k \in Key |-> IF k \in now THEN con ELSE u.symbol2con[k]]
         /\ con2symbol = [u.con2symbol EXCEPT ![w] = @ \cup now]
  OBVIOUS
<1>3. counts \in [Con -> Int] /\ symbol2con \in [Key -> Con \cup {None, Null}] /\ con2symbol \in [Ws -> SUBSET Key]
  BY <1>1, <1>2 DEF Good, Books
<1>4. PICK v : v = [u EXCEPT !.counts = counts, !.symbol2con = symbol2con, !.con2symbol = con2symbol, !.subId = id]
  OBVIOUS
<1>5. v = Given(u, w, con, now, n, id)
  BY <1>2, <1>4 DEF Good, Books, Given
<1>6. /\ v \in Books /\ v.symbol2con = symbol2con /\ v.con2symbol = con2symbol /\ v.allWs = u.allWs
      /\ v.crashed = u.crashed
  BY <1>3, <1>4 DEF Good, Books
<1>7. \A k \in Key \ now : symbol2con[k] = u.symbol2con[k]
  BY <1>2
<1>8. \A a \in Ws : con2symbol[a] = IF a = w THEN u.con2symbol[a] \cup now ELSE u.con2symbol[a]
  BY <1>2 DEF Good, Books
<1>9. Carried(v)
  <2>1. ASSUME NEW a \in Ws, NEW b \in Ws, v.con2symbol[a] \cap v.con2symbol[b] # {} PROVE a = b
    <3>1. PICK k : k \in con2symbol[a] /\ k \in con2symbol[b]
      BY <1>6, <2>1
    <3>2. CASE k \in now
      BY <1>8, <3>1, <3>2
    <3>3. CASE k \notin now
      <4>1. k \in u.con2symbol[a] \cap u.con2symbol[b]
        BY <1>8, <3>1, <3>3
      <4> QED
        BY <4>1 DEF Good, Carried
    <3> QED
      BY <3>2, <3>3
  <2>2. ASSUME NEW a \in Ws, NEW k \in v.con2symbol[a] PROVE v.symbol2con[k] \in {Null} \cup ({a} \X {0, 1})
    <3>1. k \in Key /\ k \in con2symbol[a]
      BY <1>3, <1>6, <2>2
    <3>2. CASE k \in now
      <4>1. a = w
        BY <1>8, <3>1, <3>2
      <4> QED
        BY <1>2, <1>6, <3>1, <3>2, <4>1
    <3>3. CASE k \notin now
      <4>1. k \in u.con2symbol[a]
        BY <1>8, <3>1, <3>3
      <4>2. u.symbol2con[k] \in {Null} \cup ({a} \X {0, 1})
        BY <4>1 DEF Good, Carried
      <4> QED
        BY <1>6, <1>7, <3>1, <3>3, <4>2
    <3> QED
      BY <3>2, <3>3
  <2>3. \A a \in Ws : v.allWs[a] \in {None, Null} \cup ({a} \X {0, 1})
    BY <1>6 DEF Good, Carried
  <2> QED
    BY <2>1, <2>2, <2>3 DEF Carried
<1>10. \A a \in Ws : con2symbol[a] \subseteq u.con2symbol[a] \cup now
  BY <1>8
<1> QED
  BY <1>5, <1>6, <1>7, <1>9, <1>10 DEF Good

LEMMA SubRoundKeeps ==
  ASSUME NEW u, Good(u), NEW keys \in SUBSET Key, NEW acc, Subscribing(u, acc, keys),
         NEW w \in Registered(u), NEW id \in Nat
  PROVE  Subscribing(u, SubRound(acc, w, id), keys)
<1>1. PICK x, left, con : x = acc.u /\ left = acc.left /\ con = acc.u.allWs[w]
  OBVIOUS
<1>2. /\ x \in Books /\ left \in Seq(keys) /\ acc = [u |-> x, left |-> left] /\ Carried(x) /\ x.allWs = u.allWs
      /\ w \in Ws
  BY <1>1 DEF Subscribing, Registered
<1>3. CASE x.crashed \/ left = <<>>
  <2>1. SubRound(acc, w, id) = acc
    BY <1>1, <1>3 DEF SubRound
  <2> QED
    BY <2>1
<1>4. CASE ~(x.crashed \/ left = <<>>) /\ con = Null
  <2>1. PICK y : y = Crash(x)
    OBVIOUS
  <2>2. y \in Books /\ SameEntries(x, y) /\ y.crashed
    BY <1>2, <2>1, CrashSame
  <2>3. Carried(y)
    BY <1>2, <2>2, SameGood DEF Good
  <2>4. SubRound(acc, w, id) = [acc EXCEPT !.u = y]
    BY <1>1, <1>4, <2>1 DEF SubRound
  <2>5. SubRound(acc, w, id) = [u |-> y, left |-> left]
    BY <1>2, <2>4
  <2>6. Subscribing(u, [u |-> y, left |-> left], keys)
    BY <1>1, <1>2, <2>2, <2>3 DEF Subscribing, SameEntries
  <2> QED
    BY <2>5, <2>6
<1>5. CASE ~(x.crashed \/ left = <<>>) /\ con # Null
  <2>1. con \in {w} \X {0, 1} /\ con \in Con
    <3>1. con # None /\ con \in {None, Null} \cup ({w} \X {0, 1})
      BY <1>1, <1>2 DEF Registered, Carried
    <3> QED
      BY <1>2, <1>5, <3>1 DEF Con
  <2>2. Room(con, x) \in Nat
    <3>1. x.counts[con] \in Int /\ PER_WS_CODE_NUMS \in Nat
      BY <1>2, <2>1, UwsAssumption DEF Books
    <3> QED
      BY <3>1 DEF Room
  <2>3. PICK n : n = IF Room(con, x) < Len(left) THEN Room(con, x) ELSE Len(left)
    OBVIOUS
  <2>4. n \in 0..Len(left) /\ Len(left) \in Nat /\ n \in Nat
    BY <1>2, <2>2, <2>3
  <2>5. PICK now : now = {left[i] : i \in 1..n}
    OBVIOUS
  <2>6. now \subseteq keys
    BY <1>2, <2>4, <2>5
  <2>7. PICK y, z, rest : /\ y = Given(x, w, con, now, n, id)
                          /\ z = IF n = 0 THEN x ELSE ServerSub(y, w, now, id)
                          /\ rest = SubSeq(left, n + 1, Len(left))
    OBVIOUS
  <2>8. SubRound(acc, w, id) = [u |-> z, left |-> rest]
    BY <1>1, <1>5, <2>3, <2>5, <2>7 DEF SubRound, Given
  <2>9. \A k \in now : \A a \in Ws : k \notin x.con2symbol[a]
    BY <1>1, <2>4, <2>5 DEF Subscribing
  <2>10. /\ Good(y) /\ y.allWs = x.allWs /\ y.crashed = x.crashed
         /\ \A k \in Key \ now : y.symbol2con[k] = x.symbol2con[k]
         /\ \A a \in Ws : y.con2symbol[a] \subseteq x.con2symbol[a] \cup now
    <3>1. Good(x) /\ now \in SUBSET Key
      BY <1>2, <2>6 DEF Good
    <3>2. /\ Good(Given(x, w, con, now, n, id)) /\ Given(x, w, con, now, n, id).allWs = x.allWs
          /\ Given(x, w, con, now, n, id).crashed = x.crashed
          /\ \A k \in Key \ now : Given(x, w, con, now, n, id).symbol2con[k] = x.symbol2con[k]
          /\ \A b \in Ws : Given(x, w, con, now, n, id).con2symbol[b] \subseteq x.con2symbol[b] \cup now
      BY <1>2, <2>1, <2>4, <2>9, <3>1, GivenGood
    <3> QED
      BY <2>7, <3>2
  <2>11. /\ Good(z) /\ z.allWs = x.allWs /\ z.crashed = x.crashed
         /\ \A k \in Key \ keys : z.symbol2con[k] = x.symbol2con[k]
         /\ \A a \in Ws : z.con2symbol[a] \subseteq x.con2symbol[a] \cup now
    <3>1. CASE n = 0
      BY <1>2, <2>7, <3>1 DEF Good
    <3>2. CASE n # 0
      <4>1. z = ServerSub(y, w, now, id) /\ now \in SUBSET Key
        BY <2>6, <2>7, <3>2
      <4>2. z \in Books /\ SameEntries(y, z) /\ z.crashed = y.crashed
        BY <1>2, <2>10, <4>1, ServerSubSame DEF Good
      <4>3. Good(z)
        BY <2>10, <4>2, SameGood
      <4> QED
        BY <2>6, <2>10, <4>2, <4>3 DEF SameEntries
    <3> QED
      BY <3>1, <3>2
  <2>12. rest \in Seq(keys) /\ Len(rest) = Len(left) - n /\ \A i \in 1..Len(rest) : rest[i] = left[n + i] /\ n + i \in 1..Len(left)
    BY <1>2, <2>4, <2>7
  <2>13. \A i, j \in 1..Len(rest) : i # j => rest[i] # rest[j]
    <3>1. \A i, j \in 1..Len(left) : i # j => left[i] # left[j]
      BY <1>1 DEF Subscribing
    <3> SUFFICES ASSUME NEW i \in 1..Len(rest), NEW j \in 1..Len(rest), i # j PROVE rest[i] # rest[j]
      OBVIOUS
    <3>2. n + i # n + j /\ n + i \in 1..Len(left) /\ n + j \in 1..Len(left)
      BY <2>4, <2>12
    <3> QED
      BY <2>12, <3>1, <3>2
  <2>14. ASSUME NEW i \in 1..Len(rest), NEW a \in Ws PROVE rest[i] \notin z.con2symbol[a]
    <3>1. rest[i] = left[n + i] /\ n + i \in 1..Len(left)
      BY <2>12
    <3>2. left[n + i] \notin x.con2symbol[a]
      BY <1>1, <3>1 DEF Subscribing
    <3>3. left[n + i] \notin now
      <4>1. \A j \in 1..n : n + i # j /\ j \in 1..Len(left)
        BY <2>4, <2>12
      <4>2. \A j \in 1..n : left[n + i] # left[j]
        BY <1>1, <3>1, <4>1 DEF Subscribing
      <4> QED
        BY <2>5, <4>2
    <3> QED
      BY <2>11, <3>1, <3>2, <3>3
  <2>15. PICK r : r = [u |-> z, left |-> rest]
    OBVIOUS
  <2>16. r \in [u : Books, left : Seq(keys)] /\ r.u = z /\ r.left = rest /\ Carried(z)
    BY <2>11, <2>12, <2>15 DEF Good
  <2>17. ~z.crashed => ~u.crashed
    BY <1>1, <2>11 DEF Subscribing
  <2>18. \A k \in Key \ keys : z.symbol2con[k] = u.symbol2con[k]
    BY <1>1, <2>11 DEF Subscribing
  <2>19. Subscribing(u, r, keys)
    BY <1>2, <2>11, <2>13, <2>14, <2>16, <2>17, <2>18 DEF Subscribing
  <2> QED
    BY <2>8, <2>15, <2>19
<1> QED
  BY <1>3, <1>4, <1>5

\* What holds when the loop starts, in whatever order, and is kept by a round of it, holds at
\* its end.
SubFirst(u, keys, A) ==
  \A m \in Nat : \A ks \in [1..m -> keys] :
      (\A i, j \in 1..m : i # j => ks[i] # ks[j]) => [u |-> u, left |-> ks] \in A
SubKept(u, id, A) == \A acc \in A : \A w \in Registered(u) : SubRound(acc, w, id) \in A

LEMMA SendSubRun ==
  ASSUME NEW u, NEW keys \in SUBSET Key, NEW id, NEW A, SubFirst(u, keys, A), SubKept(u, id, A),
         NEW x, x \in SendSub(u, keys, id)
  PROVE  \E acc \in A : x = acc.u
<1>1. PICK ks \in SetToSeqs(keys), order \in SetToSeqs(Registered(u)) : x = SubInOrder(u, ks, id, order)
  BY DEF SendSub
<1>2. PICK m \in Nat : ks \in [1..m -> keys] /\ \A i, j \in 1..m : i # j => ks[i] # ks[j]
  <2>1. IsFiniteSet(keys)
    BY UwsAssumption, FS_Subset
  <2>2. Cardinality(keys) \in Nat
    BY <2>1, FS_CardinalityType
  <2> QED
    BY <2>2 DEF SetToSeqs
<1>3. PICK n \in Nat : order \in [1..n -> Registered(u)]
  <2>1. IsFiniteSet(Ws) /\ Registered(u) \subseteq Ws
    BY UwsAssumption, FS_Interval DEF Ws, Registered
  <2>2. IsFiniteSet(Registered(u))
    BY <2>1, FS_Subset
  <2>3. Cardinality(Registered(u)) \in Nat
    BY <2>2, FS_CardinalityType
  <2> QED
    BY <2>3 DEF SetToSeqs
<1> DEFINE first == [u |-> u, left |-> ks]
           step == [p \in A \X (1..n) |-> SubRound(p[1], order[p[2]], id)]
           Rule(f) == [T \in SUBSET (1..n) |-> IF T = {} THEN first ELSE SubRound(f[T \ {Max(T)}], order[Max(T)], id)]
           fold == CHOOSE g : g = Rule(g)
<1>4. \A v \in A : \A i \in 1..n : SubRound(v, order[i], id) \in A
  BY <1>3 DEF SubKept
<1>5. first \in A
  BY <1>2 DEF SubFirst
<1> HIDE DEF first
<1>6. step \in [A \X (1..n) -> A]
  <2>1. ASSUME NEW p \in A \X (1..n) PROVE SubRound(p[1], order[p[2]], id) \in A
    <3>1. p[1] \in A /\ p[2] \in 1..n
      OBVIOUS
    <3> QED
      BY <1>4, <3>1
  <2> QED
    BY <2>1
<1>7. PICK f \in [SUBSET (1..n) -> A] : Folds(f, first, n, step)
  <2> HIDE DEF step
  <2> QED
    BY <1>5, <1>6, FoldThere
<1>8. f = Rule(f)
  <2>1. ASSUME NEW T \in SUBSET (1..n), T # {}
        PROVE  f[T] = SubRound(f[T \ {Max(T)}], order[Max(T)], id)
    <3>1. Max(T) \in 1..n /\ f[T \ {Max(T)}] \in A
      BY <2>1, LargestIs
    <3>2. <<f[T \ {Max(T)}], Max(T)>> \in A \X (1..n)
      BY <3>1
    <3>3. f[T] = step[<<f[T \ {Max(T)}], Max(T)>>]
      <4> HIDE DEF step
      <4> QED
        BY <1>7, <2>1 DEF Folds
    <3> QED
      BY <3>2, <3>3
  <2>2. f[{}] = first
    <3> HIDE DEF step
    <3> QED
      BY <1>7 DEF Folds
  <2> QED
    BY <1>7, <2>1, <2>2
<1>9. fold = Rule(fold)
  <2> HIDE DEF Rule
  <2> QED
    BY <1>8
<1>10. x = fold[1..n].u
  <2>1. DOMAIN order = 1..n
    BY <1>3
  <2>2. x = FoldLeft(LAMBDA acc, w : SubRound(acc, w, id), first, order).u
    BY <1>1, Zenon DEF first, SubInOrder
  <2> QED
    BY <2>1, <2>2, Zenon DEF FoldLeft, MapThenFoldSet
<1> HIDE DEF fold
<1>11. \A T \in SUBSET (1..n) : fold[T] = IF T = {} THEN first ELSE SubRound(fold[T \ {Max(T)}], order[Max(T)], id)
  BY <1>9
<1> DEFINE G == {i \in 0..n : fold[1..i] \in A}
<1>12. 0 \in G
  <2>1. 1..0 = {} /\ {} \in SUBSET (1..n) /\ 0 \in 0..n
    OBVIOUS
  <2>2. fold[{}] = first
    BY <1>11, <2>1
  <2> QED
    BY <1>5, <2>1, <2>2
<1>13. ASSUME NEW i \in 1..n, i - 1 \in G PROVE i \in G
  <2>1. Max(1..i) = i /\ (1..i) \ {i} = 1..i - 1 /\ 1..i # {}
    <3>1. i \in Nat /\ i > 0
      OBVIOUS
    <3> QED
      BY <3>1, LargestOfInterval
  <2>2. 1..i \in SUBSET (1..n) /\ i \in 0..n
    OBVIOUS
  <2>3. fold[1..i] = IF 1..i = {} THEN first ELSE SubRound(fold[(1..i) \ {Max(1..i)}], order[Max(1..i)], id)
    BY <1>11, <2>2, Zenon
  <2>4. fold[1..i] = SubRound(fold[1..i - 1], order[i], id)
    BY <2>1, <2>3
  <2>5. fold[1..i - 1] \in A
    BY <1>13
  <2>6. SubRound(fold[1..i - 1], order[i], id) \in A
    BY <1>4, <2>5
  <2> QED
    BY <2>2, <2>4, <2>6
<1>14. n \in G
  <2> HIDE DEF G
  <2>1. \A i \in 0..n : i \in G
    BY <1>12, <1>13, UpTo
  <2> QED
    BY <2>1
<1> QED
  BY <1>10, <1>14

LEMMA SendSubGood ==
  ASSUME NEW u, Good(u), NEW keys \in SUBSET Key, NEW id \in Nat,
         \A k \in keys : \A w \in Ws : k \notin u.con2symbol[w],
         NEW x \in SendSub(u, keys, id)
  PROVE  /\ Good(x) /\ (~x.crashed => ~u.crashed)
         /\ \A k \in Key \ keys : x.symbol2con[k] = u.symbol2con[k]
<1> DEFINE A == {acc \in [u : Books, left : Seq(keys)] : Subscribing(u, acc, keys)}
<1>1. SubKept(u, id, A)
  <2> SUFFICES ASSUME NEW acc \in A, NEW w \in Registered(u) PROVE SubRound(acc, w, id) \in A
    BY DEF SubKept
  <2>1. Subscribing(u, SubRound(acc, w, id), keys)
    BY SubRoundKeeps
  <2> QED
    BY <2>1 DEF Subscribing
<1>2. ASSUME NEW m \in Nat, NEW ks \in [1..m -> keys], \A i, j \in 1..m : i # j => ks[i] # ks[j]
      PROVE  [u |-> u, left |-> ks] \in A
  <2>1. ks \in Seq(keys) /\ Len(ks) = m
    OBVIOUS
  <2>2. PICK first : first = [u |-> u, left |-> ks]
    OBVIOUS
  <2>3. first \in [u : Books, left : Seq(keys)] /\ first.u = u /\ first.left = ks
    BY <2>1, <2>2 DEF Good
  <2>4. \A i \in 1..m : \A w \in Ws : ks[i] \notin u.con2symbol[w]
    OBVIOUS
  <2>5. Subscribing(u, first, keys)
    BY <1>2, <2>1, <2>3, <2>4 DEF Subscribing, Good
  <2> QED
    BY <2>2, <2>3, <2>5
<1> HIDE DEF A
<1>3. \E acc \in A : x = acc.u
  <2>1. SubFirst(u, keys, A)
    BY <1>2 DEF SubFirst
  <2> QED
    BY <1>1, <2>1, SendSubRun
<1>4. PICK acc \in A : x = acc.u
  BY <1>3
<1>5. Subscribing(u, acc, keys)
  BY DEF A
<1> QED
  BY <1>4, <1>5 DEF Subscribing, Good

\* v has no symbol that u has not, and has not forgotten that the process died.
NoneNew(u, v) ==
  /\ Good(v) /\ (~v.crashed => ~u.crashed)
  /\ \A k \in Key : v.symbol2con[k] # None => u.symbol2con[k] # None

LEMMA SameNoneNew ==
  ASSUME NEW u, Good(u), NEW v \in Books, SameEntries(u, v), v.crashed = u.crashed \/ v.crashed
  PROVE  NoneNew(u, v)
BY SameGood DEF NoneNew, SameEntries, Books

LEMMA SendQueryNoneNew ==
  ASSUME NEW u, Good(u), NEW id \in Nat
  PROVE  NoneNew(u, SendQuery(u, id))
<1>1. CASE u.queryWs \in u.open
  <2>1. u.queryWs \in Ws /\ u \in Books
    BY <1>1 DEF Good, Books
  <2>2. PICK a : a = Asked(u, u.queryWs, id)
    OBVIOUS
  <2>3. a \in SUBSET (Ws \X Nat)
    BY <2>1, <2>2, AskedType
  <2>4. PICK v : v = [u EXCEPT !.asked = a]
    OBVIOUS
  <2>5. v \in Books /\ SameEntries(u, v) /\ v.crashed = u.crashed
    BY <2>1, <2>3, <2>4 DEF Books, SameEntries
  <2>6. SendQuery(u, id) = v
    BY <1>1, <2>2, <2>4 DEF SendQuery
  <2> QED
    BY <2>5, <2>6, SameNoneNew
<1>2. CASE u.queryWs \notin u.open
  BY <1>2 DEF SendQuery, NoneNew
<1> QED
  BY <1>1, <1>2

LEMMA SendHeartbeatNoneNew ==
  ASSUME NEW u, Good(u)
  PROVE  NoneNew(u, SendHeartbeat(u))
<1>1. NoneNew(u, u)
  BY DEF NoneNew
<1>2. NoneNew(u, Crash(u))
  BY CrashSame, SameNoneNew DEF Good
<1> QED
  BY <1>1, <1>2 DEF SendHeartbeat

LEMMA ResubNoneNew ==
  ASSUME NEW u, Good(u)
  PROVE  NoneNew(u, Resub(u))
<1> DEFINE held == {k \in Key : u.symbol2con[k] # None}
           more == {<<u.symbol2con[k][1], k>> : k \in {j \in held : u.symbol2con[j][1] \in u.open}}
<1>1. NoneNew(u, Crash(u))
  BY CrashSame, SameNoneNew DEF Good
<1>2. more \in SUBSET (Ws \X Key)
  BY DEF Good, Books
<1>3. PICK s : s = u.subs \cup more
  OBVIOUS
<1>4. s \in SUBSET (Ws \X Key)
  BY <1>2, <1>3 DEF Good, Books
<1>5. PICK v : v = [u EXCEPT !.subs = s]
  OBVIOUS
<1>6. v \in Books /\ SameEntries(u, v) /\ v.crashed = u.crashed
  BY <1>4, <1>5 DEF Good, Books, SameEntries
<1>7. NoneNew(u, v)
  BY <1>6, SameNoneNew
<1>8. Resub(u) \in {Crash(u), v}
  BY <1>3, <1>5 DEF Resub
<1> QED
  BY <1>1, <1>7, <1>8

LEMMA OnDisconnectionNoneNew ==
  ASSUME NEW u, Good(u), NEW w \in Ws
  PROVE  NoneNew(u, OnDisconnection(u, w))
<1>1. PICK open, discon, connecting, subs, asked :
         /\ open = u.open \ {w} /\ discon = Append(u.disconWs, w) /\ connecting = u.connecting + 1
         /\ subs = {s \in u.subs : s[1] # w} /\ asked = {a \in u.asked : a[1] # w}
  OBVIOUS
<1>2. /\ open \in SUBSET Ws /\ discon \in Seq(Ws) /\ connecting \in Int /\ subs \in SUBSET (Ws \X Key)
      /\ asked \in SUBSET (Ws \X Nat)
  BY <1>1 DEF Good, Books
<1>3. PICK v : v = [u EXCEPT !.open = open, !.disconWs = discon, !.connecting = connecting,
                             !.subs = subs, !.asked = asked]
  OBVIOUS
<1>4. v = OnDisconnection(u, w)
  BY <1>1, <1>3 DEF OnDisconnection, Good, Books
<1>5. v \in Books /\ SameEntries(u, v) /\ v.crashed = u.crashed
  BY <1>2, <1>3 DEF Good, Books, SameEntries
<1> QED
  BY <1>4, <1>5, SameNoneNew

LEMMA OnErrorNoneNew ==
  ASSUME NEW u, Good(u)
  PROVE  NoneNew(u, OnError(u))
<1>1. PICK n \in Int : n = u.connecting - 1
  BY DEF Good, Books
<1>2. PICK v : v = [u EXCEPT !.connecting = n]
  OBVIOUS
<1>3. v \in Books /\ SameEntries(u, v) /\ v.crashed = u.crashed
  BY <1>2 DEF Good, Books, SameEntries
<1>4. v = OnError(u)
  BY <1>1, <1>2 DEF OnError
<1> QED
  BY <1>3, <1>4, SameNoneNew

LEMMA AnsweredNoneNew ==
  ASSUME NEW u, Good(u), NEW a
  PROVE  NoneNew(u, [u EXCEPT !.asked = @ \ {a}])
<1>1. PICK v : v = [u EXCEPT !.asked = @ \ {a}]
  OBVIOUS
<1>2. v \in Books /\ SameEntries(u, v) /\ v.crashed = u.crashed
  BY <1>1 DEF Good, Books, SameEntries
<1> QED
  BY <1>1, <1>2, SameNoneNew

LEMMA InsertNoneNew ==
  ASSUME NEW u, Good(u), NEW w \in Ws, NEW n \in Int
  PROVE  NoneNew(u, Insert(u, w, n))
<1>1. CASE u.allWs[w] # None
  BY <1>1 DEF Insert, NoneNew
<1>2. CASE u.allWs[w] = None
  <2>1. PICK con : con = NewCon(u, w)
    OBVIOUS
  <2>2. con \in {w} \X {0, 1} /\ con \in Con
    BY <2>1 DEF NewCon, Con
  <2>3. PICK allWs, counts : allWs = [u.allWs EXCEPT ![w] = con] /\ counts = [u.counts EXCEPT ![con] = n]
    OBVIOUS
  <2>4. allWs \in [Ws -> Con \cup {None, Null}] /\ counts \in [Con -> Int]
    BY <2>2, <2>3 DEF Good, Books
  <2>5. PICK v : v = [u EXCEPT !.allWs = allWs, !.counts = counts]
    OBVIOUS
  <2>6. v = Insert(u, w, n)
    BY <1>2, <2>1, <2>3, <2>5 DEF Insert, Good, Books
  <2>7. /\ v \in Books /\ v.symbol2con = u.symbol2con /\ v.con2symbol = u.con2symbol /\ v.allWs = allWs
        /\ v.crashed = u.crashed
    BY <2>4, <2>5 DEF Good, Books
  <2>8. \A a \in Ws : allWs[a] \in {None, Null} \cup ({a} \X {0, 1})
    BY <2>2, <2>3 DEF Good, Books, Carried
  <2>9. Carried(v)
    BY <2>7, <2>8 DEF Good, Carried
  <2> QED
    BY <2>6, <2>7, <2>9 DEF NoneNew, Good
<1> QED
  BY <1>1, <1>2

LEMMA NoneNewTwice ==
  ASSUME NEW u, NEW v, NEW z, NoneNew(u, v), NoneNew(v, z)
  PROVE  NoneNew(u, z)
BY DEF NoneNew

\* The connection at w takes over the symbols of the one at lost.
TakenOver(u, v, lost, w) ==
  LET temp == u.con2symbol[lost]
  IN /\ v \in Books /\ v.crashed = u.crashed
     /\ v.allWs = [u.allWs EXCEPT ![w] = IF @ = None /\ temp # {} THEN Null ELSE @]
     /\ v.con2symbol = [[u.con2symbol EXCEPT ![lost] = {}] EXCEPT ![w] = temp]
     /\ v.symbol2con = [k \in Key |-> IF k \in temp THEN v.allWs[w] ELSE u.symbol2con[k]]

LEMMA TakenOverNoneNew ==
  ASSUME NEW u, Good(u), NEW lost \in Ws, NEW w \in Ws, NEW v, TakenOver(u, v, lost, w)
  PROVE  NoneNew(u, v)
<1>1. PICK temp : temp = u.con2symbol[lost]
  OBVIOUS
<1>2. \A k \in temp : \A a \in Ws : k \in u.con2symbol[a] => a = lost
  BY <1>1 DEF Good, Carried
<1>3. \A a \in Ws : v.con2symbol[a] = IF a = w THEN temp ELSE IF a = lost THEN {} ELSE u.con2symbol[a]
  BY <1>1 DEF TakenOver, Good, Books
<1>4. v.allWs[w] \in {None, Null} \cup ({w} \X {0, 1}) /\ (temp # {} => v.allWs[w] # None)
  BY <1>1, UwsAssumption DEF TakenOver, Good, Books, Carried
<1>5. \A a \in Ws : v.allWs[a] \in {None, Null} \cup ({a} \X {0, 1})
  <2>1. \A a \in Ws : a # w => v.allWs[a] = u.allWs[a]
    BY DEF TakenOver, Good, Books
  <2> QED
    BY <1>4, <2>1 DEF Good, Carried
<1>6. /\ \A k \in temp : v.symbol2con[k] = v.allWs[w]
      /\ \A k \in Key \ temp : v.symbol2con[k] = u.symbol2con[k]
  BY <1>1 DEF TakenOver, Good, Books
<1>7. ASSUME NEW a \in Ws, NEW b \in Ws, v.con2symbol[a] \cap v.con2symbol[b] # {} PROVE a = b
  <2>1. PICK k : k \in v.con2symbol[a] /\ k \in v.con2symbol[b]
    BY <1>7
  <2>2. CASE k \in temp
    BY <1>2, <1>3, <2>1, <2>2
  <2>3. CASE k \notin temp
    <3>1. k \in u.con2symbol[a] \cap u.con2symbol[b]
      BY <1>3, <2>1, <2>3
    <3> QED
      BY <3>1 DEF Good, Carried
  <2> QED
    BY <2>2, <2>3
<1>8. ASSUME NEW a \in Ws, NEW k \in v.con2symbol[a] PROVE v.symbol2con[k] \in {Null} \cup ({a} \X {0, 1})
  <2>1. k \in Key
    BY <1>8 DEF TakenOver, Books
  <2>2. CASE k \in temp
    <3>1. a = w
      BY <1>2, <1>3, <1>8, <2>2
    <3> QED
      BY <1>4, <1>6, <2>2, <3>1
  <2>3. CASE k \notin temp
    <3>1. k \in u.con2symbol[a]
      BY <1>3, <1>8, <2>3
    <3>2. u.symbol2con[k] \in {Null} \cup ({a} \X {0, 1})
      BY <3>1 DEF Good, Carried
    <3> QED
      BY <1>6, <2>1, <2>3, <3>2
  <2> QED
    BY <2>2, <2>3
<1>9. Good(v)
  BY <1>5, <1>7, <1>8 DEF Good, Carried, TakenOver
<1>10. ASSUME NEW k \in Key, v.symbol2con[k] # None PROVE u.symbol2con[k] # None
  <2>1. CASE k \in temp
    <3>1. u.symbol2con[k] \in {Null} \cup ({lost} \X {0, 1})
      BY <1>1, <2>1 DEF Good, Carried
    <3> QED
      BY <3>1, UwsAssumption DEF Con
  <2>2. CASE k \notin temp
    BY <1>6, <1>10, <2>2
  <2> QED
    BY <2>1, <2>2
<1> QED
  BY <1>9, <1>10 DEF NoneNew, TakenOver

\* The connection at w replaces the one at lost: its symbols are moved, then subscribed again,
\* then the lost one leaves allWsMap and the new one gets an object.
Replaced(u, w, lost, temp, pointed, sent, left) ==
  /\ lost = Head(u.disconWs) /\ temp = u.con2symbol[lost]
  /\ TakenOver(u, pointed, lost, w)
  /\ pointed.counts = u.counts /\ pointed.open = u.open /\ pointed.disconWs = Tail(u.disconWs)
  /\ pointed.subs = u.subs /\ pointed.asked = u.asked /\ pointed.subId = u.subId
  /\ pointed.connecting = u.connecting
  /\ sent = IF temp = {} THEN pointed ELSE ServerSub(pointed, w, temp, pointed.subId)
  /\ left = [sent EXCEPT !.allWs = [@ EXCEPT ![lost] = None]]
  /\ Reconnect(u, w) = Insert(left, w, Cardinality(temp))

LEMMA ReconnectParts ==
  ASSUME NEW u, Good(u), u.disconWs # <<>>, NEW w \in Ws
  PROVE  \E lost, temp, pointed, sent, left : Replaced(u, w, lost, temp, pointed, sent, left)
<1>1. PICK lost, temp : lost = Head(u.disconWs) /\ temp = u.con2symbol[lost]
  OBVIOUS
<1>2. lost \in Ws /\ temp \in SUBSET Key /\ Tail(u.disconWs) \in Seq(Ws)
  BY <1>1 DEF Good, Books
<1>3. PICK queue, allWs, con2symbol, symbol2con :
         /\ queue = Tail(u.disconWs)
         /\ allWs = [u.allWs EXCEPT ![w] = IF @ = None /\ temp # {} THEN Null ELSE @]
         /\ con2symbol = [[u.con2symbol EXCEPT ![lost] = {}] EXCEPT ![w] = temp]
         /\ symbol2con = [k \in Key |-> IF k \in temp THEN allWs[w] ELSE u.symbol2con[k]]
  OBVIOUS
<1>4. /\ allWs \in [Ws -> Con \cup {None, Null}] /\ con2symbol \in [Ws -> SUBSET Key]
  BY <1>2, <1>3 DEF Good, Books
<1>5. symbol2con \in [Key -> Con \cup {None, Null}]
  BY <1>3, <1>4 DEF Good, Books
<1>6. PICK moved : moved = [u EXCEPT !.disconWs = queue, !.allWs = allWs, !.con2symbol = con2symbol]
  OBVIOUS
<1>7. PICK pointed : pointed = [moved EXCEPT !.symbol2con = symbol2con]
  OBVIOUS
<1>8. /\ moved \in Books /\ moved.allWs = allWs /\ moved.symbol2con = u.symbol2con
      /\ moved.con2symbol = con2symbol /\ moved.crashed = u.crashed
  BY <1>2, <1>3, <1>4, <1>6 DEF Good, Books
<1>9. /\ pointed \in Books /\ pointed.allWs = allWs /\ pointed.symbol2con = symbol2con
      /\ pointed.con2symbol = con2symbol /\ pointed.crashed = u.crashed
  BY <1>5, <1>7, <1>8 DEF Books
<1>10. TakenOver(u, pointed, lost, w)
  BY <1>1, <1>3, <1>9 DEF TakenOver
<1>11. PICK sent : sent = IF temp = {} THEN pointed ELSE ServerSub(pointed, w, temp, pointed.subId)
  OBVIOUS
<1>12. PICK left : left = [sent EXCEPT !.allWs[lost] = None]
  OBVIOUS
<1>13. moved = [u EXCEPT !.disconWs = Tail(@),
                         !.allWs[w] = IF @ = None /\ temp # {} THEN Null ELSE @,
                         !.con2symbol = [@ EXCEPT ![lost] = {}, ![w] = temp]]
  BY <1>3, <1>6 DEF Good, Books
<1>14. pointed = [moved EXCEPT !.symbol2con = [k \in Key |-> IF k \in temp THEN moved.allWs[w] ELSE @[k]]]
  BY <1>3, <1>7, <1>8 DEF Books
<1>15. Reconnect(u, w) = Insert(left, w, Cardinality(temp))
  <2> DEFINE Moved(l, t) == [u EXCEPT !.disconWs = Tail(@),
                                      !.allWs[w] = IF @ = None /\ t # {} THEN Null ELSE @,
                                      !.con2symbol = [@ EXCEPT ![l] = {}, ![w] = t]]
             Pointed(m, t) == [m EXCEPT !.symbol2con = [k \in Key |-> IF k \in t THEN m.allWs[w] ELSE @[k]]]
             Sent(p, t) == IF t = {} THEN p ELSE ServerSub(p, w, t, p.subId)
             Done(s, l, t) == Insert([s EXCEPT !.allWs[l] = None], w, Cardinality(t))
             L == Head(u.disconWs)
             T == u.con2symbol[L]
  <2>1. Reconnect(u, w) = Done(Sent(Pointed(Moved(L, T), T), T), L, T)
    BY Zenon DEF Reconnect
  <2>2. moved = Moved(lost, temp) /\ pointed = Pointed(moved, temp) /\ sent = Sent(pointed, temp)
    BY <1>11, <1>13, <1>14, Zenon
  <2>3. Insert(left, w, Cardinality(temp)) = Done(sent, lost, temp)
    BY <1>12, Zenon
  <2> HIDE DEF Moved, Pointed, Sent, Done
  <2> QED
    BY <1>1, <2>1, <2>2, <2>3
<1>16. /\ pointed.counts = u.counts /\ pointed.open = u.open /\ pointed.disconWs = Tail(u.disconWs)
       /\ pointed.subs = u.subs /\ pointed.asked = u.asked /\ pointed.subId = u.subId
       /\ pointed.connecting = u.connecting
  <2>1. /\ moved.counts = u.counts /\ moved.open = u.open /\ moved.disconWs = queue
        /\ moved.subs = u.subs /\ moved.asked = u.asked /\ moved.subId = u.subId
        /\ moved.connecting = u.connecting
    BY <1>6 DEF Good, Books
  <2> QED
    BY <1>3, <1>7, <1>8, <2>1 DEF Books
<1>17. left = [sent EXCEPT !.allWs = [@ EXCEPT ![lost] = None]]
  BY <1>12
<1> QED
  BY <1>1, <1>10, <1>11, <1>15, <1>16, <1>17 DEF Replaced

LEMMA ReplacedNoneNew ==
  ASSUME NEW u, Good(u), u.disconWs # <<>>, NEW w \in Ws,
         NEW lost, NEW temp, NEW pointed, NEW sent, NEW left, Replaced(u, w, lost, temp, pointed, sent, left)
  PROVE  NoneNew(u, pointed) /\ NoneNew(u, sent) /\ NoneNew(u, left) /\ lost \in Ws /\ temp \in SUBSET Key
<1>1. Replaced(u, w, lost, temp, pointed, sent, left)
  OBVIOUS
<1>2. lost \in Ws /\ temp \in SUBSET Key
  <2>1. lost = Head(u.disconWs) /\ temp = u.con2symbol[lost]
    BY <1>1 DEF Replaced
  <2>2. u.disconWs \in Seq(Ws) /\ u.con2symbol \in [Ws -> SUBSET Key]
    BY DEF Good, Books
  <2>3. lost \in Ws
    BY <2>1, <2>2
  <2> QED
    BY <2>1, <2>2, <2>3
<1>3. NoneNew(u, pointed)
  BY <1>1, <1>2, TakenOverNoneNew DEF Replaced
<1>4. NoneNew(pointed, sent)
  <2>1. CASE temp = {}
    BY <1>1, <1>3, <2>1 DEF NoneNew, Replaced
  <2>2. CASE temp # {}
    <3>1. sent = ServerSub(pointed, w, temp, pointed.subId) /\ pointed.subId \in Nat /\ pointed \in Books
      BY <1>1, <1>3, <2>2 DEF Replaced, NoneNew, Good, Books
    <3>2. sent \in Books /\ SameEntries(pointed, sent) /\ sent.crashed = pointed.crashed
      BY <1>2, <3>1, ServerSubSame
    <3> QED
      BY <1>3, <3>2, SameNoneNew DEF NoneNew
  <2> QED
    BY <2>1, <2>2
<1>5. NoneNew(sent, left)
  <2>1. Good(sent)
    BY <1>4 DEF NoneNew
  <2>2. PICK all : all = [sent.allWs EXCEPT ![lost] = None]
    OBVIOUS
  <2>3. left = [sent EXCEPT !.allWs = all] /\ all \in [Ws -> Con \cup {None, Null}]
    BY <1>1, <2>1, <2>2 DEF Good, Books, Replaced
  <2>4. /\ left \in Books /\ left.symbol2con = sent.symbol2con /\ left.con2symbol = sent.con2symbol
        /\ left.allWs = all /\ left.crashed = sent.crashed
    BY <2>1, <2>3 DEF Good, Books
  <2>5. \A a \in Ws : all[a] \in {None, Null} \cup ({a} \X {0, 1})
    BY <2>1, <2>2 DEF Good, Books, Carried
  <2>6. Carried(left)
    BY <2>1, <2>4, <2>5 DEF Good, Carried
  <2> QED
    BY <2>4, <2>6 DEF NoneNew, Good
<1> QED
  BY <1>2, <1>3, <1>4, <1>5, NoneNewTwice

LEMMA ReconnectNoneNew ==
  ASSUME NEW u, Good(u), u.disconWs # <<>>, NEW w \in Ws
  PROVE  NoneNew(u, Reconnect(u, w))
<1>1. PICK lost, temp, pointed, sent, left : Replaced(u, w, lost, temp, pointed, sent, left)
  BY ReconnectParts
<1>2. NoneNew(u, left) /\ temp \in SUBSET Key
  BY <1>1, ReplacedNoneNew
<1>3. Cardinality(temp) \in Int
  BY <1>2, UwsAssumption, FS_Subset, FS_CardinalityType
<1>4. NoneNew(left, Insert(left, w, Cardinality(temp)))
  BY <1>2, <1>3, InsertNoneNew DEF NoneNew
<1>5. NoneNew(left, Reconnect(u, w))
  BY <1>1, <1>4 DEF Replaced
<1> QED
  BY <1>2, <1>5, NoneNewTwice

LEMMA OnConnectionNoneNew ==
  ASSUME NEW u, Good(u), NEW w \in Ws
  PROVE  NoneNew(u, OnConnection(u, w))
<1>1. PICK up : up = [u EXCEPT !.open = @ \cup {w}, !.connecting = @ - 1]
  OBVIOUS
<1>2. up \in Books /\ SameEntries(u, up) /\ up.crashed = u.crashed /\ up.disconWs = u.disconWs
  <2>1. PICK n, open : n = u.connecting - 1 /\ open = u.open \cup {w}
    OBVIOUS
  <2>2. n \in Int /\ open \in SUBSET Ws
    BY <2>1 DEF Good, Books
  <2>3. up = [u EXCEPT !.open = open, !.connecting = n]
    BY <1>1, <2>1
  <2> QED
    BY <2>2, <2>3 DEF Good, Books, SameEntries
<1>3. NoneNew(u, up)
  BY <1>2, SameNoneNew
<1>4. CASE u.disconWs = <<>>
  <2>1. OnConnection(u, w) = FirstConnect(up, w)
    BY <1>1, <1>4 DEF OnConnection
  <2>2. CASE up.queryWs = None
    <3>1. PICK v : v = [up EXCEPT !.queryWs = w]
      OBVIOUS
    <3>2. v \in Books /\ SameEntries(up, v) /\ v.crashed = up.crashed
      BY <1>2, <3>1 DEF Books, SameEntries
    <3>3. NoneNew(up, v)
      BY <1>3, <3>2, SameNoneNew DEF NoneNew
    <3>4. OnConnection(u, w) = v
      BY <2>1, <2>2, <3>1 DEF FirstConnect
    <3> QED
      BY <1>3, <3>3, <3>4, NoneNewTwice
  <2>3. CASE up.queryWs # None
    <3>1. OnConnection(u, w) = Insert(up, w, 0)
      BY <2>1, <2>3 DEF FirstConnect
    <3>2. NoneNew(up, Insert(up, w, 0))
      BY <1>3, InsertNoneNew DEF NoneNew
    <3> QED
      BY <1>3, <3>1, <3>2, NoneNewTwice
  <2> QED
    BY <2>2, <2>3
<1>5. CASE u.disconWs # <<>>
  <2>1. OnConnection(u, w) = Reconnect(up, w)
    BY <1>1, <1>5 DEF OnConnection
  <2>2. NoneNew(up, Reconnect(up, w))
    BY <1>2, <1>3, <1>5, ReconnectNoneNew DEF NoneNew
  <2> QED
    BY <1>3, <2>1, <2>2, NoneNewTwice
<1> QED
  BY <1>4, <1>5

LEMMA NoTablesGood == Good(NoTables) /\ ~NoTables.crashed /\ \A k \in Key : NoTables.symbol2con[k] = None
<1>1. WS_SIZE \in Int
  BY UwsAssumption
<1>2. \A S : <<>> \in Seq(S)
  OBVIOUS
<1>3. NoTables \in Books
  BY <1>1, <1>2 DEF NoTables, Books
<1> QED
  BY <1>3 DEF NoTables, Good, Carried

\* The connections that are up at the start, one after the other.
LEMMA StartedRun ==
  ASSUME NEW n \in 0..WS_SIZE, NEW A, NoTables \in A, \A v \in A : \A w \in Ws : OnConnection(v, w) \in A
  PROVE  \E v : /\ v[0] = NoTables /\ v[n] = Started(n)
                /\ \A i \in 0..n : v[i] \in A
                /\ \A i \in 1..n : v[i] = OnConnection(v[i - 1], i)
<1>1. PICK ws : ws = [i \in 1..n |-> i]
  OBVIOUS
<1>2. n \in Nat /\ \A i \in 1..n : ws[i] \in Ws
  BY <1>1, UwsAssumption DEF Ws
<1> DEFINE step == [p \in A \X (1..n) |-> OnConnection(p[1], ws[p[2]])]
           Rule(f) == [T \in SUBSET (1..n) |-> IF T = {} THEN NoTables ELSE OnConnection(f[T \ {Max(T)}], ws[Max(T)])]
           fold == CHOOSE g : g = Rule(g)
<1>3. \A v \in A : \A i \in 1..n : OnConnection(v, ws[i]) \in A
  BY <1>2
<1>4. step \in [A \X (1..n) -> A]
  <2>1. ASSUME NEW p \in A \X (1..n) PROVE OnConnection(p[1], ws[p[2]]) \in A
    <3>1. p[1] \in A /\ p[2] \in 1..n
      OBVIOUS
    <3> QED
      BY <1>3, <3>1
  <2> QED
    BY <2>1
<1>5. PICK f \in [SUBSET (1..n) -> A] : Folds(f, NoTables, n, step)
  <2> HIDE DEF step
  <2> QED
    BY <1>2, <1>4, FoldThere
<1>6. f = Rule(f)
  <2>1. ASSUME NEW T \in SUBSET (1..n), T # {}
        PROVE  f[T] = OnConnection(f[T \ {Max(T)}], ws[Max(T)])
    <3>1. Max(T) \in 1..n /\ f[T \ {Max(T)}] \in A
      BY <1>2, <2>1, LargestIs
    <3>2. <<f[T \ {Max(T)}], Max(T)>> \in A \X (1..n)
      BY <3>1
    <3>3. f[T] = step[<<f[T \ {Max(T)}], Max(T)>>]
      <4> HIDE DEF step
      <4> QED
        BY <1>5, <2>1 DEF Folds
    <3> QED
      BY <3>2, <3>3
  <2>2. f[{}] = NoTables
    <3> HIDE DEF step
    <3> QED
      BY <1>5 DEF Folds
  <2> QED
    BY <1>5, <2>1, <2>2
<1>7. fold = Rule(fold)
  <2> HIDE DEF Rule
  <2> QED
    BY <1>6
<1>8. Started(n) = fold[1..n]
  <2>1. DOMAIN ws = 1..n
    BY <1>1
  <2>2. Started(n) = FoldLeft(LAMBDA u, w : OnConnection(u, w), NoTables, ws)
    BY <1>1, Zenon DEF Started
  <2> QED
    BY <2>1, <2>2, Zenon DEF FoldLeft, MapThenFoldSet
<1> HIDE DEF fold
<1>9. \A T \in SUBSET (1..n) : fold[T] = IF T = {} THEN NoTables ELSE OnConnection(fold[T \ {Max(T)}], ws[Max(T)])
  BY <1>7
<1> DEFINE G == {i \in 0..n : fold[1..i] \in A}
<1>10. 0 \in G
  <2>1. 1..0 = {} /\ {} \in SUBSET (1..n) /\ 0 \in 0..n
    BY <1>2
  <2>2. fold[{}] = NoTables
    BY <1>9, <2>1
  <2> QED
    BY <2>1, <2>2
<1>11. ASSUME NEW i \in 1..n, i - 1 \in G PROVE i \in G
  <2>1. Max(1..i) = i /\ (1..i) \ {i} = 1..i - 1 /\ 1..i # {}
    <3>1. i \in Nat /\ i > 0
      BY <1>2
    <3> QED
      BY <3>1, LargestOfInterval
  <2>2. 1..i \in SUBSET (1..n) /\ i \in 0..n
    BY <1>2
  <2>3. fold[1..i] = IF 1..i = {} THEN NoTables ELSE OnConnection(fold[(1..i) \ {Max(1..i)}], ws[Max(1..i)])
    BY <1>9, <2>2, Zenon
  <2>4. fold[1..i] = OnConnection(fold[1..i - 1], ws[i])
    BY <2>1, <2>3
  <2>5. fold[1..i - 1] \in A
    BY <1>11
  <2>6. OnConnection(fold[1..i - 1], ws[i]) \in A
    BY <1>3, <2>5
  <2> QED
    BY <2>2, <2>4, <2>6
<1>12. \A i \in 0..n : i \in G
  <2> HIDE DEF G
  <2> QED
    BY <1>2, <1>10, <1>11, UpTo
<1>13. PICK v : v = [i \in 0..n |-> fold[1..i]]
  OBVIOUS
<1>14. v[0] = NoTables /\ v[n] = Started(n)
  <2>1. 1..0 = {} /\ {} \in SUBSET (1..n) /\ 0 \in 0..n /\ n \in 0..n
    BY <1>2
  <2>2. fold[{}] = NoTables
    BY <1>9, <2>1
  <2> QED
    BY <1>8, <1>13, <2>1, <2>2
<1>15. \A i \in 0..n : v[i] \in A
  BY <1>12, <1>13
<1>16. ASSUME NEW i \in 1..n PROVE v[i] = OnConnection(v[i - 1], i)
  <2>1. Max(1..i) = i /\ (1..i) \ {i} = 1..i - 1 /\ 1..i # {}
    <3>1. i \in Nat /\ i > 0
      BY <1>2
    <3> QED
      BY <3>1, LargestOfInterval
  <2>2. 1..i \in SUBSET (1..n) /\ i \in 0..n /\ i - 1 \in 0..n
    BY <1>2
  <2>3. fold[1..i] = IF 1..i = {} THEN NoTables ELSE OnConnection(fold[(1..i) \ {Max(1..i)}], ws[Max(1..i)])
    BY <1>9, <2>2, Zenon
  <2>4. fold[1..i] = OnConnection(fold[1..i - 1], i)
    BY <1>1, <2>1, <2>3
  <2> QED
    BY <1>13, <2>2, <2>4
<1> QED
  BY <1>14, <1>15, <1>16

LEMMA StartedNoneNew ==
  ASSUME NEW n \in 0..WS_SIZE
  PROVE  NoneNew(NoTables, Started(n))
<1> DEFINE A == {v \in Books : NoneNew(NoTables, v)}
<1>1. \A v \in A : \A w \in Ws : OnConnection(v, w) \in A
  <2> SUFFICES ASSUME NEW v \in A, NEW w \in Ws PROVE OnConnection(v, w) \in A
    OBVIOUS
  <2>1. NoneNew(v, OnConnection(v, w))
    BY OnConnectionNoneNew DEF NoneNew
  <2>2. NoneNew(NoTables, OnConnection(v, w))
    BY <2>1, NoneNewTwice
  <2> QED
    BY <2>2 DEF NoneNew, Good
<1>2. NoTables \in A
  BY NoTablesGood DEF NoneNew, Good
<1> HIDE DEF A
<1>3. PICK v : v[n] = Started(n) /\ \A i \in 0..n : v[i] \in A
  BY <1>1, <1>2, StartedRun
<1>4. n \in 0..n
  OBVIOUS
<1> QED
  BY <1>3, <1>4 DEF A

-----------------------------------------------------------------------------
(* The symbols held upstream                                               *)

\* What is held upstream has a subscriber, unless the process has died.
UpstreamInv ==
  /\ Good(uws)
  /\ ~uws.crashed => \A k \in Key : uws.symbol2con[k] # None => \E x \in Ctx : Serves(k, x)

LEMMA UpstreamInit ==
  ASSUME Init
  PROVE  UpstreamInv
<1>1. setup.up \in 0..WS_SIZE
  BY ConvertAssumption DEF Init, Setup
<1>2. NoneNew(NoTables, uws)
  BY <1>1, StartedNoneNew DEF Init
<1> QED
  BY <1>2, NoTablesGood DEF NoneNew, UpstreamInv

\* A step that subscribes nothing upstream and takes no subscriber away.
LEMMA NoneNewKept ==
  ASSUME UpstreamInv, NoneNew(uws, uws'), ~uws.crashed,
         \A k \in Key, x \in Ctx : Serves(k, x) => Serves(k, x)'
  PROVE  UpstreamInv'
BY DEF UpstreamInv, NoneNew

\* A symbol without subscribers is carried by no connection.
LEMMA FreshNowhere ==
  ASSUME UpstreamInv, ~uws.crashed, NEW u, NoneNew(uws, u), NEW k \in Key, type2ctxs[k] = None, NEW w \in Ws
  PROVE  k \notin u.con2symbol[w]
<1> SUFFICES ASSUME k \in u.con2symbol[w] PROVE FALSE
  OBVIOUS
<1>1. u.symbol2con[k] \in {Null} \cup ({w} \X {0, 1})
  BY DEF NoneNew, Good, Carried
<1>2. u.symbol2con[k] # None
  BY <1>1, UwsAssumption DEF Con
<1>3. uws.symbol2con[k] # None
  BY <1>2 DEF NoneNew
<1>4. PICK y \in Ctx : Serves(k, y)
  BY <1>3 DEF UpstreamInv
<1> QED
  BY <1>4 DEF Serves

LEMMA SubUpstream ==
  ASSUME UpstreamInv, ProxyInv, ~uws.crashed, NEW x \in Ctx, NEW keys \in SUBSET Key, Sub(x, keys)
  PROVE  UpstreamInv'
<1> DEFINE quote == keys \cap QuoteKeys # {}
           fresh == {k \in keys : type2ctxs[k] = None}
<1>1. PICK u : u = IF quote THEN SendQuery(uws, reqId + 2) ELSE uws
  OBVIOUS
<1>2. reqId \in Nat /\ reqId + 1 \in Nat /\ reqId + 2 \in Nat
  BY ConvertAssumption DEF ProxyInv, RequestTypes
<1>3. NoneNew(uws, u)
  <2>1. NoneNew(uws, uws)
    BY DEF NoneNew, UpstreamInv
  <2>2. NoneNew(uws, SendQuery(uws, reqId + 2))
    BY <1>2, SendQueryNoneNew DEF UpstreamInv
  <2> QED
    BY <1>1, <2>1, <2>2
<1>4. uws' \in SendSub(u, fresh, reqId + 1)
  BY <1>1 DEF Sub
<1>5. \A k \in fresh : \A w \in Ws : k \notin u.con2symbol[w]
  BY <1>3, FreshNowhere
<1>6. /\ Good(uws') /\ (~uws'.crashed => ~u.crashed)
      /\ \A k \in Key \ fresh : uws'.symbol2con[k] = u.symbol2con[k]
  <2>1. Good(u) /\ fresh \in SUBSET Key
    BY <1>3 DEF NoneNew
  <2> HIDE DEF fresh
  <2> QED
    BY <1>2, <1>4, <1>5, <2>1, SendSubGood
<1>7. ASSUME NEW k \in Key, uws'.symbol2con[k] # None PROVE \E y \in Ctx : Serves(k, y)'
  <2>1. type2ctxs'[k] = IF k \notin keys THEN type2ctxs[k] ELSE IF k \in fresh THEN {x} ELSE type2ctxs[k] \cup {x}
    BY DEF Sub
  <2>2. CASE k \in keys
    <3>1. x \in type2ctxs'[k] /\ type2ctxs'[k] \in SUBSET Ctx
      BY <2>1, <2>2 DEF ProxyInv, ClientsInv, ClientTypes
    <3> QED
      BY <3>1, ConvertAssumption DEF Serves
  <2>3. CASE k \notin keys
    <3>1. uws.symbol2con[k] # None
      BY <1>3, <1>6, <1>7, <2>3 DEF NoneNew
    <3>2. PICK y \in Ctx : Serves(k, y)
      BY <3>1 DEF UpstreamInv
    <3> QED
      BY <2>1, <2>3, <3>2 DEF Serves
  <2> QED
    BY <2>2, <2>3
<1> QED
  BY <1>6, <1>7 DEF UpstreamInv

LEMMA UnsubUpstream ==
  ASSUME UpstreamInv, ProxyInv, ~uws.crashed, NEW x \in Ctx, NEW keys \in SUBSET Key, Unsub(x, keys)
  PROVE  UpstreamInv'
<1> DEFINE mine == {k \in keys : type2ctxs[k] # None /\ x \in type2ctxs[k]}
           last == {k \in mine : type2ctxs[k] = {x}}
<1>1. reqId + 1 \in Nat
  BY ConvertAssumption DEF ProxyInv, RequestTypes
<1>2. uws' = SendUnsub(uws, last, reqId + 1) /\ last \in SUBSET Key
  BY DEF Unsub
<1>3. Ends(uws, uws', last)
  <2> HIDE DEF last
  <2> QED
    BY <1>1, <1>2, SendUnsubGood DEF UpstreamInv
<1>4. ASSUME ~uws'.crashed, NEW k \in Key, uws'.symbol2con[k] # None PROVE \E y \in Ctx : Serves(k, y)'
  <2>1. k \notin last
    BY <1>3, <1>4 DEF Ends
  <2>2. uws.symbol2con[k] # None
    BY <1>3, <1>4, <2>1 DEF Ends
  <2>3. PICK y \in Ctx : Serves(k, y)
    BY <2>2 DEF UpstreamInv
  <2>4. type2ctxs'[k] = IF k \in last THEN None ELSE IF k \in mine THEN type2ctxs[k] \ {x} ELSE type2ctxs[k]
    BY DEF Unsub
  <2>5. CASE k \notin mine
    BY <2>1, <2>3, <2>4, <2>5 DEF Serves
  <2>6. CASE k \in mine
    <3>1. type2ctxs[k] \in SUBSET Ctx /\ type2ctxs[k] # {x} /\ x \in type2ctxs[k]
      BY <2>1, <2>6 DEF ProxyInv, ClientsInv, ClientTypes
    <3>2. PICK z \in Ctx : z \in type2ctxs[k] \ {x}
      BY <3>1
    <3>3. type2ctxs'[k] # None
      BY <2>1, <2>4, <2>6, <3>1, ConvertAssumption
    <3> QED
      BY <2>1, <2>4, <2>6, <3>2, <3>3 DEF Serves
  <2> QED
    BY <2>5, <2>6
<1> QED
  BY <1>3, <1>4 DEF UpstreamInv, Ends

\* The contexts xs leave: what they alone had is ended.
LEMMA LeaveUpstream ==
  ASSUME UpstreamInv, ProxyInv, ~uws.crashed, NEW xs \in SUBSET Ctx,
         NEW u, u = Ended(xs), type2ctxs' = Left(xs), NoneNew(u, uws')
  PROVE  UpstreamInv'
<1> DEFINE ends == {k \in Held(xs) : Left(xs)[k] = {}}
<1>1. ends \in SUBSET Key
  BY DEF Held, ProxyInv, ClientsInv, ClientTypes
<1>2. Ends(uws, u, ends)
  <2>1. u = SendUnsub(uws, ends, 2) /\ 2 \in Nat
    BY DEF Ended
  <2> HIDE DEF ends
  <2> QED
    BY <1>1, <2>1, SendUnsubGood DEF UpstreamInv
<1>3. ASSUME ~uws'.crashed, NEW k \in Key, uws'.symbol2con[k] # None PROVE \E y \in Ctx : Serves(k, y)'
  <2>1. ~u.crashed /\ u.symbol2con[k] # None
    BY <1>3 DEF NoneNew
  <2>2. k \notin ends
    BY <1>2, <2>1 DEF Ends
  <2>3. uws.symbol2con[k] # None
    BY <1>2, <2>1, <2>2 DEF Ends
  <2>4. PICK y \in Ctx : Serves(k, y)
    BY <2>3 DEF UpstreamInv
  <2>5. type2ctxs'[k] = IF k \in Held(xs) THEN type2ctxs[k] \ xs ELSE type2ctxs[k]
    BY DEF Left
  <2>6. CASE k \notin Held(xs)
    BY <2>4, <2>5, <2>6 DEF Serves
  <2>7. CASE k \in Held(xs)
    <3>1. type2ctxs'[k] # {}
      BY <2>2, <2>7
    <3>2. type2ctxs[k] \in SUBSET Ctx
      BY <2>4 DEF ProxyInv, ClientsInv, ClientTypes, Serves
    <3>3. PICK z \in Ctx : z \in type2ctxs'[k]
      BY <2>5, <2>7, <3>1, <3>2
    <3>4. type2ctxs'[k] # None
      BY <2>5, <2>7, <3>2, ConvertAssumption
    <3> QED
      BY <3>3, <3>4 DEF Serves
  <2> QED
    BY <2>6, <2>7
<1> QED
  BY <1>3 DEF UpstreamInv, NoneNew

LEMMA UpstreamStep ==
  ASSUME UpstreamInv, ProxyInv, [Next]_vars
  PROVE  UpstreamInv'
<1> DEFINE Same == NoneNew(uws, uws') /\ UNCHANGED type2ctxs
<1>1. CASE UNCHANGED vars
  BY <1>1 DEF vars, subVars, UpstreamInv, Good, Carried, Serves
<1>2. ASSUME ~uws.crashed, Same PROVE UpstreamInv'
  <2>1. \A k \in Key, x \in Ctx : Serves(k, x) => Serves(k, x)'
    BY <1>2 DEF Serves
  <2> QED
    BY <1>2, <2>1, NoneNewKept
<1>3. Good(uws) /\ NoneNew(uws, uws)
  BY DEF UpstreamInv, NoneNew
<1>4. reqId + 1 \in Nat /\ 3 \in Nat /\ 2 \in Nat
  BY ConvertAssumption DEF ProxyInv, RequestTypes
<1>5. ASSUME ~uws.crashed, ClientStep PROVE UpstreamInv'
  <2>1. CASE \E x \in Ctx, c \in Client : OnLevAccept(x, c)
    <3>1. Same
      BY <1>3, <2>1 DEF OnLevAccept, subVars
    <3> QED
      BY <1>2, <1>5, <3>1
  <2>2. CASE \E x \in Ctx, keys \in SUBSET Key \ {{}} : Sub(x, keys) \/ Unsub(x, keys)
    <3>1. PICK x \in Ctx, keys \in SUBSET Key : Sub(x, keys) \/ Unsub(x, keys)
      BY <2>2
    <3> QED
      BY <1>5, <3>1, SubUpstream, UnsubUpstream
  <2>3. ASSUME NEW x \in Ctx, Query(x) PROVE UpstreamInv'
    <3>1. Same
      BY <1>3, <1>4, <2>3, SendQueryNoneNew DEF Query, subVars
    <3> QED
      BY <1>2, <1>5, <3>1
  <2>4. ASSUME NEW x \in Ctx, Heartbeat(x) \/ Local(x) PROVE UpstreamInv'
    <3>1. Same
      BY <1>3, <2>4 DEF Heartbeat, Local, subVars
    <3> QED
      BY <1>2, <1>5, <3>1
  <2>5. ASSUME NEW x \in Ctx, OnLevDisConnect(x) PROVE UpstreamInv'
    <3>1. uws' = Ended({x}) /\ type2ctxs' = Left({x}) /\ {x} \in SUBSET Ctx
      BY <2>5 DEF OnLevDisConnect
    <3>2. NoneNew(uws', uws')
      <4>1. PICK ends : ends = {k \in Held({x}) : Left({x})[k] = {}}
        OBVIOUS
      <4>2. ends \in SUBSET Key
        BY <4>1 DEF Held, ProxyInv, ClientsInv, ClientTypes
      <4>3. uws' = SendUnsub(uws, ends, 2)
        BY <3>1, <4>1 DEF Ended
      <4>4. Good(uws')
        BY <1>3, <1>4, <4>2, <4>3, SendUnsubGood DEF Ends
      <4> QED
        BY <4>4 DEF NoneNew
    <3> QED
      BY <1>5, <3>1, <3>2, LeaveUpstream
  <2> QED
    BY <1>5, <2>1, <2>2, <2>3, <2>4, <2>5 DEF ClientStep
<1>6. ASSUME ~uws.crashed, HubStep PROVE UpstreamInv'
  <2>1. CASE Answer
    <3>1. PICK a \in uws.asked : uws' = [uws EXCEPT !.asked = @ \ {a}]
      BY <2>1 DEF Answer
    <3>2. NoneNew(uws, [uws EXCEPT !.asked = @ \ {a}])
      BY <1>3, AnsweredNoneNew
    <3>3. Same
      BY <2>1, <3>1, <3>2 DEF Answer, subVars
    <3> QED
      BY <1>2, <1>6, <3>3
  <2>2. CASE Connect
    <3>1. PICK w \in Ws : uws' = OnConnection(uws, w)
      BY <2>2 DEF Connect
    <3>2. Same
      BY <1>3, <2>2, <3>1, OnConnectionNoneNew DEF Connect, hubUnchanged, subVars
    <3> QED
      BY <1>2, <1>6, <3>2
  <2>3. CASE ConnectFails
    <3>1. Same
      BY <1>3, <2>3, OnErrorNoneNew DEF ConnectFails, hubUnchanged, subVars
    <3> QED
      BY <1>2, <1>6, <3>1
  <2>4. CASE Disconnect
    <3>1. PICK w \in Ws : uws' = OnDisconnection(uws, w)
      BY <2>4 DEF Disconnect, UpstreamInv, Good, Books
    <3>2. Same
      BY <1>3, <2>4, <3>1, OnDisconnectionNoneNew DEF Disconnect, hubUnchanged, subVars
    <3> QED
      BY <1>2, <1>6, <3>2
  <2> QED
    BY <1>6, <2>1, <2>2, <2>3, <2>4 DEF HubStep
<1>7. ASSUME ~uws.crashed, LoopStep PROVE UpstreamInv'
  <2>1. CASE CheckClientAlive
    <3>0. PICK dead \in SUBSET Ctx : uws' = SendHeartbeat(Ended(dead)) /\ type2ctxs' = Left(dead)
      BY <2>1 DEF CheckClientAlive
    <3>1. PICK u, ends : /\ u = Ended(dead) /\ uws' = SendHeartbeat(u) /\ type2ctxs' = Left(dead)
                         /\ ends = {k \in Held(dead) : Left(dead)[k] = {}}
      BY <3>0
    <3>2. ends \in SUBSET Key
      BY <3>1 DEF Held, ProxyInv, ClientsInv, ClientTypes
    <3>3. u = SendUnsub(uws, ends, 2)
      BY <3>1 DEF Ended
    <3>4. Good(u)
      BY <1>3, <1>4, <3>2, <3>3, SendUnsubGood DEF Ends
    <3>5. NoneNew(u, uws')
      BY <3>1, <3>4, SendHeartbeatNoneNew
    <3> QED
      BY <1>7, <3>1, <3>5, LeaveUpstream
  <2>2. CASE ResubTimer
    <3>1. Same
      BY <1>3, <2>2, ResubNoneNew DEF ResubTimer, subVars
    <3> QED
      BY <1>2, <1>7, <3>1
  <2>3. CASE OnQueryInsInfoTimer
    <3>1. Same
      BY <1>3, <1>4, <2>3, SendQueryNoneNew DEF OnQueryInsInfoTimer, subVars
    <3> QED
      BY <1>2, <1>7, <3>1
  <2>4. CASE ProcessRes
    <3>1. uws' = SendQuery(uws, 3) \/ uws' = uws
      BY <2>4 DEF ProcessRes, Walk
    <3>2. Same
      BY <1>3, <1>4, <2>4, <3>1, SendQueryNoneNew DEF ProcessRes, subVars
    <3> QED
      BY <1>2, <1>7, <3>2
  <2> QED
    BY <1>7, <2>1, <2>2, <2>3, <2>4 DEF LoopStep
<1> QED
  BY <1>1, <1>5, <1>6, <1>7 DEF Next

-----------------------------------------------------------------------------
(* The tables and the server, while no more than one connection is lost at *)
(* a time                                                                  *)

\* The symbols that point to an object, and what the server serves by the tables.
HeldBy(u, con) == {k \in Key : u.symbol2con[k] = con}
Serving(open, con2symbol) == {s \in open \X Key : s[2] \in con2symbol[s[1]]}

\* symbol2conMap names a connection that has the symbol in its set.
Pointing(u) == \A k \in Key : u.symbol2con[k] \notin {None, Null} => k \in u.con2symbol[u.symbol2con[k][1]]

\* No object counts less than the symbols that point to it, nor less than the symbols of its
\* connection when allWsMap has it, and no set is larger than a connection may carry.  A count
\* may be too high: the object that replaced one at the same address counts its symbols too.
Counted(u) ==
  /\ \A con \in Con : Cardinality(HeldBy(u, con)) <= u.counts[con]
  /\ \A w \in Ws : Cardinality(u.con2symbol[w]) <= PER_WS_CODE_NUMS
  /\ \A w \in Ws : u.allWs[w] \notin {None, Null} => Cardinality(u.con2symbol[w]) <= u.counts[u.allWs[w]]

Served(u) == u.subs = Serving(u.open, u.con2symbol)

\* An address that is neither up nor lost has left nothing in the maps.
PlacedBut(u, b) ==
  /\ \A w \in Ws \ u.open : w \notin ToSet(u.disconWs) => u.con2symbol[w] = {} /\ u.allWs[w] = None
  /\ \A w \in ToSet(u.disconWs) : w \notin u.open
  /\ \A w \in Ws \ b : u.con2symbol[w] # {} => u.allWs[w] # None

\* The requests the server has, and the id that was left in subTemplate, are of the set ids.
Within(u, ids) ==
  /\ u.connecting \in Nat /\ u.subId \in ids \cup {0, 2} /\ \A a \in u.asked : a[2] \in ids

Agree(u, ids) == Good(u) /\ Pointing(u) /\ Counted(u) /\ Served(u) /\ PlacedBut(u, {}) /\ Within(u, ids)

\* v has the tables of u.
SameTables(u, v) ==
  /\ SameEntries(u, v)
  /\ v.counts = u.counts /\ v.open = u.open /\ v.disconWs = u.disconWs /\ v.subs = u.subs

LEMMA SameAgree ==
  ASSUME NEW u, NEW ids, Agree(u, ids), NEW v, v \in Books, SameTables(u, v), Within(v, ids)
  PROVE  Agree(v, ids)
<1>1. /\ v.symbol2con = u.symbol2con /\ v.con2symbol = u.con2symbol /\ v.allWs = u.allWs
      /\ v.counts = u.counts /\ v.open = u.open /\ v.disconWs = u.disconWs /\ v.subs = u.subs
  BY DEF SameTables, SameEntries
<1>2. Good(v)
  BY SameGood DEF Agree, SameTables
<1>3. Pointing(v)
  BY <1>1 DEF Agree, Pointing
<1>4. Counted(v)
  BY <1>1 DEF Agree, Counted, HeldBy
<1>5. Served(v)
  BY <1>1 DEF Agree, Served
<1>6. PlacedBut(v, {})
  BY <1>1 DEF Agree, PlacedBut
<1> QED
  BY <1>2, <1>3, <1>4, <1>5, <1>6 DEF Agree

\* Sets of symbols are counted.
LEMMA SymbolsCount ==
  ASSUME NEW S \in SUBSET Key
  PROVE  /\ IsFiniteSet(S) /\ Cardinality(S) \in Nat
         /\ \A T \in SUBSET S : Cardinality(T) <= Cardinality(S)
         /\ \A k \in S : Cardinality(S \ {k}) = Cardinality(S) - 1
<1>1. IsFiniteSet(S)
  BY UwsAssumption, FS_Subset
<1>2. Cardinality(S) \in Nat
  BY <1>1, FS_CardinalityType
<1>3. \A T \in SUBSET S : Cardinality(T) <= Cardinality(S)
  BY <1>1, FS_Subset
<1>4. \A k \in S : Cardinality(S \ {k}) = Cardinality(S) - 1
  BY <1>1, FS_RemoveElement
<1> QED
  BY <1>1, <1>2, <1>3, <1>4

\* The symbols that are taken from the front of a sequence are no more than its length.
LEMMA TakenCount ==
  ASSUME NEW n \in Nat, NEW f, NEW now \in SUBSET Key, now = {f[i] : i \in 1..n}
  PROVE  Cardinality(now) <= n
<1>1. IsFiniteSet(1..n) /\ Cardinality(1..n) = n
  BY FS_Interval
<1>2. PICK g : g = [i \in 1..n |-> f[i]]
  OBVIOUS
<1>3. g \in Surjection(1..n, now)
  BY <1>2 DEF Surjection
<1> QED
  BY <1>1, <1>3, FS_Surjection

LEMMA MoreCount ==
  ASSUME NEW S \in SUBSET Key, NEW T \in SUBSET Key
  PROVE  Cardinality(S \cup T) <= Cardinality(S) + Cardinality(T)
<1>1. IsFiniteSet(S) /\ IsFiniteSet(T) /\ Cardinality(S) \in Nat /\ Cardinality(T) \in Nat
  BY SymbolsCount
<1>2. /\ IsFiniteSet(S \cap T) /\ Cardinality(S \cap T) \in Nat
      /\ Cardinality(S \cup T) = Cardinality(S) + Cardinality(T) - Cardinality(S \cap T)
  <2>1. S \cap T \in SUBSET Key
    OBVIOUS
  <2> QED
    BY <1>1, <2>1, SymbolsCount, FS_Union
<1> QED
  BY <1>1, <1>2

\* v is u when the server has been told something: it serves subs then, and may answer id.
Told(u, v, subs, id) ==
  /\ v \in Books /\ SameEntries(u, v) /\ v.crashed = u.crashed /\ v.counts = u.counts
  /\ v.open = u.open /\ v.disconWs = u.disconWs /\ v.connecting = u.connecting
  /\ v.subId = u.subId /\ v.subs = subs
  /\ \A a \in v.asked : a \in u.asked \/ (a[2] = id /\ id \notin {0, 2})

LEMMA ToldNothing ==
  ASSUME NEW u \in Books, NEW id
  PROVE  Told(u, u, u.subs, id)
BY DEF Told, SameEntries

LEMMA ToldIs ==
  ASSUME NEW u \in Books, NEW w \in Ws, NEW id \in Nat, NEW s \in SUBSET (Ws \X Key),
         NEW v, v = [u EXCEPT !.subs = s, !.asked = Asked(u, w, id)]
  PROVE  Told(u, v, s, id)
<1>1. PICK a : a = Asked(u, w, id)
  OBVIOUS
<1>2. a \in SUBSET (Ws \X Nat)
  BY <1>1, AskedType
<1>3. v = [u EXCEPT !.subs = s, !.asked = a]
  BY <1>1
<1>4. /\ v \in Books /\ SameEntries(u, v) /\ v.crashed = u.crashed /\ v.counts = u.counts
      /\ v.open = u.open /\ v.disconWs = u.disconWs /\ v.connecting = u.connecting
      /\ v.subId = u.subId /\ v.subs = s /\ v.asked = a
  BY <1>2, <1>3 DEF Books, SameEntries
<1>5. \A b \in a : b \in u.asked \/ (b[2] = id /\ id \notin {0, 2})
  BY <1>1 DEF Asked
<1> QED
  BY <1>4, <1>5 DEF Told

LEMMA ServerSubTold ==
  ASSUME NEW u \in Books, NEW w \in Ws, NEW keys \in SUBSET Key, NEW id \in Nat
  PROVE  Told(u, ServerSub(u, w, keys, id), IF w \in u.open THEN u.subs \cup ({w} \X keys) ELSE u.subs, id)
<1>1. CASE w \notin u.open
  BY <1>1, ToldNothing DEF ServerSub
<1>2. CASE w \in u.open
  <2>1. PICK s : s = u.subs \cup ({w} \X keys)
    OBVIOUS
  <2>2. s \in SUBSET (Ws \X Key)
    BY <2>1 DEF Books
  <2>3. ServerSub(u, w, keys, id) = [u EXCEPT !.subs = s, !.asked = Asked(u, w, id)]
    BY <1>2, <2>1 DEF ServerSub
  <2>4. Told(u, ServerSub(u, w, keys, id), s, id)
    BY <2>2, <2>3, ToldIs
  <2> QED
    BY <1>2, <2>1, <2>4
<1> QED
  BY <1>1, <1>2

LEMMA ServerUnsubTold ==
  ASSUME NEW u \in Books, NEW w \in Ws, NEW k \in Key, NEW id \in Nat
  PROVE  Told(u, ServerUnsub(u, w, k, id), IF w \in u.open THEN u.subs \ {<<w, k>>} ELSE u.subs, id)
<1>1. CASE w \notin u.open
  BY <1>1, ToldNothing DEF ServerUnsub
<1>2. CASE w \in u.open
  <2>1. PICK s : s = u.subs \ {<<w, k>>}
    OBVIOUS
  <2>2. s \in SUBSET (Ws \X Key)
    BY <2>1 DEF Books
  <2>3. ServerUnsub(u, w, k, id) = [u EXCEPT !.subs = s, !.asked = Asked(u, w, id)]
    BY <1>2, <2>1 DEF ServerUnsub
  <2>4. Told(u, ServerUnsub(u, w, k, id), s, id)
    BY <2>2, <2>3, ToldIs
  <2> QED
    BY <1>2, <2>1, <2>4
<1> QED
  BY <1>1, <1>2

\* The maps agree, whatever the server has been told.
MapsGood(u, b) == Good(u) /\ Pointing(u) /\ Counted(u) /\ PlacedBut(u, b)

LEMMA ToldAgree ==
  ASSUME NEW u, NEW b, MapsGood(u, b), NEW ids, Within(u, ids), NEW id \in ids \cup {0, 2}, NEW v, NEW subs,
         Told(u, v, subs, id), subs = Serving(u.open, u.con2symbol)
  PROVE  MapsGood(v, b) /\ Served(v) /\ Within(v, ids)
<1>1. /\ v.symbol2con = u.symbol2con /\ v.con2symbol = u.con2symbol /\ v.allWs = u.allWs
      /\ v.counts = u.counts /\ v.open = u.open /\ v.disconWs = u.disconWs /\ v.subs = subs
  BY DEF Told, SameEntries
<1>2. Good(v)
  BY SameGood DEF MapsGood, Told
<1>3. Pointing(v)
  BY <1>1 DEF MapsGood, Pointing
<1>4. Counted(v)
  BY <1>1 DEF MapsGood, Counted, HeldBy
<1>5. Served(v)
  BY <1>1 DEF Served
<1>6. PlacedBut(v, b)
  BY <1>1 DEF MapsGood, PlacedBut
<1>7. Within(v, ids)
  BY DEF Within, Told
<1> QED
  BY <1>2, <1>3, <1>4, <1>5, <1>6, <1>7 DEF MapsGood

LEMMA AgreeParts ==
  ASSUME NEW u, NEW ids
  PROVE  Agree(u, ids) <=> MapsGood(u, {}) /\ Served(u) /\ Within(u, ids)
BY DEF Agree, MapsGood

LEMMA CrashAgree ==
  ASSUME NEW u, NEW ids, Agree(u, ids)
  PROVE  Agree(Crash(u), ids)
<1>1. u \in Books
  BY DEF Agree, Good
<1>2. Crash(u) \in Books /\ SameTables(u, Crash(u)) /\ Within(Crash(u), ids)
  BY <1>1 DEF Crash, Books, SameTables, SameEntries, Agree, Within
<1> QED
  BY <1>2, SameAgree

\* The symbol k does not point to con any more, and is out of the set of its connection.
Dropped(u, v, k, con) ==
  /\ v \in Books /\ v.allWs = u.allWs /\ v.open = u.open /\ v.disconWs = u.disconWs
  /\ v.counts = [u.counts EXCEPT ![con] = @ - 1]
  /\ v.symbol2con = [u.symbol2con EXCEPT ![k] = None]
  /\ v.con2symbol = [u.con2symbol EXCEPT ![con[1]] = @ \ {k}]

LEMMA DroppedAgree ==
  ASSUME NEW u, MapsGood(u, {}), NEW v, NEW k \in Key, NEW con \in Con, u.symbol2con[k] = con,
         Dropped(u, v, k, con), Good(v)
  PROVE  MapsGood(v, {})
<1>1. PICK w : w = con[1]
  OBVIOUS
<1>2. w \in Ws /\ con \notin {None, Null} /\ u \in Books
  BY <1>1, UwsAssumption DEF Con, MapsGood, Good
<1>3. k \in u.con2symbol[w]
  BY <1>1, <1>2 DEF MapsGood, Pointing
<1>4. \A a \in Ws : v.con2symbol[a] = IF a = w THEN u.con2symbol[a] \ {k} ELSE u.con2symbol[a]
  BY <1>1, <1>2 DEF Dropped, Books
<1>5. \A j \in Key : v.symbol2con[j] = IF j = k THEN None ELSE u.symbol2con[j]
  BY <1>2 DEF Dropped, Books
<1>6. \A c \in Con : v.counts[c] = IF c = con THEN u.counts[c] - 1 ELSE u.counts[c]
  BY <1>2 DEF Dropped, Books
<1>7. Pointing(v)
  <2> SUFFICES ASSUME NEW j \in Key, v.symbol2con[j] \notin {None, Null}
               PROVE  j \in v.con2symbol[v.symbol2con[j][1]]
    BY DEF Pointing
  <2>1. j # k /\ v.symbol2con[j] = u.symbol2con[j]
    BY <1>5
  <2>2. j \in u.con2symbol[u.symbol2con[j][1]]
    BY <2>1 DEF MapsGood, Pointing
  <2>3. u.symbol2con[j][1] \in Ws
    BY <1>2, <2>1 DEF Books, Con
  <2> QED
    BY <1>4, <2>1, <2>2, <2>3
<1>8. Counted(v)
  <2>1. ASSUME NEW c \in Con PROVE Cardinality(HeldBy(v, c)) <= v.counts[c]
    <3>1. HeldBy(v, c) = HeldBy(u, c) \ {k}
      BY <1>2, <1>5, UwsAssumption DEF HeldBy
    <3>2. PICK S : S = HeldBy(u, c)
      OBVIOUS
    <3>3. S \in SUBSET Key /\ Cardinality(S) <= u.counts[c] /\ u.counts[c] \in Int
      BY <1>2, <3>2 DEF HeldBy, MapsGood, Counted, Books
    <3>4. Cardinality(S) \in Nat /\ Cardinality(S \ {k}) \in Nat /\ Cardinality(S \ {k}) <= Cardinality(S)
      <4>1. S \ {k} \in SUBSET Key /\ S \ {k} \in SUBSET S
        BY <3>3
      <4> QED
        BY <3>3, <4>1, SymbolsCount
    <3>5. CASE c = con
      <4>1. k \in S
        BY <3>2, <3>5 DEF HeldBy
      <4>2. Cardinality(S \ {k}) = Cardinality(S) - 1
        BY <3>3, <4>1, SymbolsCount
      <4> QED
        BY <1>6, <3>1, <3>2, <3>3, <3>4, <3>5, <4>2
    <3>6. CASE c # con
      BY <1>6, <3>1, <3>2, <3>3, <3>4, <3>6
    <3> QED
      BY <3>5, <3>6
  <2>2. ASSUME NEW a \in Ws
        PROVE  /\ Cardinality(v.con2symbol[a]) <= PER_WS_CODE_NUMS
               /\ v.allWs[a] \notin {None, Null} => Cardinality(v.con2symbol[a]) <= v.counts[v.allWs[a]]
    <3>1. PICK S, T : S = u.con2symbol[a] /\ T = v.con2symbol[a]
      OBVIOUS
    <3>2. S \in SUBSET Key /\ T \in SUBSET S /\ T \in SUBSET Key
      BY <1>2, <1>4, <3>1 DEF Books
    <3>3. Cardinality(S) \in Nat /\ Cardinality(T) \in Nat /\ Cardinality(T) <= Cardinality(S)
      BY <3>2, SymbolsCount
    <3>4. Cardinality(S) <= PER_WS_CODE_NUMS /\ PER_WS_CODE_NUMS \in Nat
      BY <3>1, UwsAssumption DEF MapsGood, Counted
    <3>5. ASSUME v.allWs[a] \notin {None, Null} PROVE Cardinality(T) <= v.counts[v.allWs[a]]
      <4>1. PICK c : c = v.allWs[a]
        OBVIOUS
      <4>2. c = u.allWs[a] /\ c \in {a} \X {0, 1} /\ c \in Con
        BY <3>5, <4>1 DEF Dropped, Good, Carried, Con
      <4>3. Cardinality(S) <= u.counts[c] /\ u.counts[c] \in Int
        BY <1>2, <3>1, <3>5, <4>1, <4>2 DEF MapsGood, Counted, Books
      <4>4. CASE c = con
        <5>1. a = w
          BY <1>1, <4>2, <4>4
        <5>2. Cardinality(T) = Cardinality(S) - 1
          BY <1>3, <1>4, <3>1, <3>2, <5>1, SymbolsCount
        <5> QED
          BY <1>6, <3>3, <4>1, <4>2, <4>3, <4>4, <5>2
      <4>5. CASE c # con
        BY <1>6, <3>3, <4>1, <4>2, <4>3, <4>5
      <4> QED
        BY <4>4, <4>5
    <3> QED
      BY <3>1, <3>3, <3>4, <3>5
  <2> QED
    BY <2>1, <2>2 DEF Counted
<1>9. PlacedBut(v, {})
  <2>1. \A a \in Ws : u.con2symbol[a] = {} => v.con2symbol[a] = {}
    BY <1>4
  <2>2. \A a \in Ws : v.con2symbol[a] # {} => u.con2symbol[a] # {}
    BY <1>4
  <2> QED
    BY <2>1, <2>2 DEF MapsGood, PlacedBut, Dropped
<1> QED
  BY <1>7, <1>8, <1>9 DEF MapsGood

LEMMA UnsubOneAgree ==
  ASSUME NEW ids, ids \subseteq Nat, NEW u, Agree(u, ids), NEW k \in Key, NEW id \in ids \cup {0, 2}
  PROVE  Agree(UnsubOne(u, k, id), ids)
<1>1. PICK con \in Con \cup {None, Null} : con = u.symbol2con[k]
  BY DEF Agree, Good, Books
<1>2. CASE u.crashed \/ con = None
  BY <1>1, <1>2 DEF UnsubOne
<1>3. CASE ~(u.crashed \/ con = None) /\ con = Null
  <2>1. UnsubOne(u, k, id) = Crash(u)
    BY <1>1, <1>3 DEF UnsubOne
  <2> QED
    BY <2>1, CrashAgree
<1>4. CASE ~(u.crashed \/ con = None) /\ con # Null
  <2>1. con \in Con /\ con[1] \in Ws /\ id \in Nat
    BY <1>4 DEF Con
  <2>2. MapsGood(u, {}) /\ Served(u) /\ Within(u, ids) /\ Good(u)
    BY AgreeParts DEF MapsGood
  <2>3. PICK counts, symbol2con, con2symbol :
           /\ counts = [u.counts EXCEPT ![con] = @ - 1]
           /\ symbol2con = [u.symbol2con EXCEPT ![k] = None]
           /\ con2symbol = [u.con2symbol EXCEPT ![con[1]] = @ \ {k}]
    OBVIOUS
  <2>4. counts \in [Con -> Int] /\ symbol2con \in [Key -> Con \cup {None, Null}] /\ con2symbol \in [Ws -> SUBSET Key]
    BY <2>1, <2>2, <2>3 DEF Good, Books
  <2>5. PICK v : v = [u EXCEPT !.counts = counts, !.symbol2con = symbol2con, !.con2symbol = con2symbol]
    OBVIOUS
  <2>6. v = [u EXCEPT !.counts[con] = @ - 1, !.symbol2con[k] = None, !.con2symbol[con[1]] = @ \ {k}]
    BY <2>2, <2>3, <2>5 DEF Good, Books
  <2>7. /\ v \in Books /\ v.symbol2con = symbol2con /\ v.con2symbol = con2symbol /\ v.allWs = u.allWs
        /\ v.counts = counts /\ v.open = u.open /\ v.disconWs = u.disconWs /\ v.connecting = u.connecting
        /\ v.subId = u.subId /\ v.asked = u.asked /\ v.subs = u.subs
    BY <2>2, <2>4, <2>5 DEF Good, Books
  <2>8. UnsubOne(u, k, id) = ServerUnsub(v, con[1], k, id)
    BY <1>1, <1>4, <2>6 DEF UnsubOne
  <2>9. PICK z, subs : z = ServerUnsub(v, con[1], k, id) /\ subs = IF con[1] \in v.open THEN v.subs \ {<<con[1], k>>} ELSE v.subs
    OBVIOUS
  <2>10. Told(v, z, subs, id)
    BY <2>1, <2>7, <2>9, ServerUnsubTold
  <2>11. Good(v)
    <3>1. Good(z)
      BY <2>1, <2>2, <2>8, <2>9, UnsubOneGood DEF Unsubbed
    <3>2. SameEntries(z, v)
      BY <2>10 DEF Told, SameEntries
    <3> QED
      BY <2>7, <3>1, <3>2, SameGood
  <2>12. MapsGood(v, {})
    <3>1. Dropped(u, v, k, con)
      BY <2>3, <2>7 DEF Dropped
    <3> QED
      BY <1>1, <2>1, <2>2, <2>11, <3>1, DroppedAgree
  <2>13. Within(v, ids)
    BY <2>2, <2>7 DEF Within
  <2>14. subs = Serving(v.open, v.con2symbol)
    <3>1. v.subs = Serving(u.open, u.con2symbol)
      BY <2>2, <2>7 DEF Served
    <3>2. PICK w : w = con[1] /\ w \in Ws
      BY <2>1
    <3>3. \A a \in Ws : v.con2symbol[a] = IF a = w THEN u.con2symbol[a] \ {k} ELSE u.con2symbol[a]
      <4>1. v.con2symbol = [u.con2symbol EXCEPT ![w] = @ \ {k}]
        BY <2>3, <2>7, <3>2
      <4>2. u.con2symbol \in [Ws -> SUBSET Key]
        BY <2>2 DEF Good, Books
      <4> QED
        BY <4>1, <4>2
    <3>4. v.open = u.open /\ u.open \subseteq Ws /\ u.con2symbol \in [Ws -> SUBSET Key]
      BY <2>2, <2>7 DEF Good, Books
    <3>5. subs = Serving(u.open, u.con2symbol) \ {<<w, k>>}
      <4>1. w \notin u.open => <<w, k>> \notin Serving(u.open, u.con2symbol)
        BY DEF Serving
      <4> QED
        BY <2>9, <3>1, <3>2, <3>4, <4>1
    <3>6. ASSUME NEW a \in u.open, NEW j \in Key
          PROVE  j \in v.con2symbol[a] <=> j \in u.con2symbol[a] /\ <<a, j>> # <<w, k>>
      BY <3>3, <3>4
    <3> QED
      BY <3>4, <3>5, <3>6 DEF Serving
  <2>15. MapsGood(z, {}) /\ Served(z) /\ Within(z, ids)
    BY <2>10, <2>12, <2>13, <2>14, ToldAgree
  <2> QED
    BY <2>8, <2>9, <2>15, AgreeParts
<1> QED
  BY <1>2, <1>3, <1>4

LEMMA SendUnsubAgree ==
  ASSUME NEW ids, ids \subseteq Nat, NEW u, Agree(u, ids), NEW keys \in SUBSET Key, NEW id \in ids \cup {0, 2}
  PROVE  Agree(SendUnsub(u, keys, id), ids)
<1> DEFINE A == {v \in Books : Agree(v, ids)}
<1>1. u \in A
  BY DEF Agree, Good
<1>2. \A v \in A : \A k \in keys : UnsubOne(v, k, id) \in A
  <2> SUFFICES ASSUME NEW v \in A, NEW k \in keys PROVE UnsubOne(v, k, id) \in A
    OBVIOUS
  <2>1. Agree(UnsubOne(v, k, id), ids)
    BY UnsubOneAgree
  <2> QED
    BY <2>1 DEF Agree, Good
<1>3. SendUnsub(u, keys, id) \in A
  <2> HIDE DEF A
  <2> QED
    BY <1>1, <1>2, SendUnsubRun
<1> QED
  BY <1>3

\* A connection is given symbols that nobody carries, no more than it has room for.
LEMMA GivenAgree ==
  ASSUME NEW u, MapsGood(u, {}), NEW w \in Ws, NEW con \in {w} \X {0, 1}, u.allWs[w] = con,
         NEW now \in SUBSET Key, NEW n \in Nat, Cardinality(now) <= n,
         u.counts[con] + n <= PER_WS_CODE_NUMS, NEW id,
         NEW v, v = Given(u, w, con, now, n, id), Good(v)
  PROVE  MapsGood(v, {})
<1>1. con \in Con /\ con[1] = w /\ u \in Books /\ con \notin {None, Null}
  <2>1. con \in Con /\ con[1] = w /\ u \in Books
    BY DEF Con, MapsGood, Good
  <2> QED
    BY <2>1, UwsAssumption
<1>2. /\ v.counts = [u.counts EXCEPT ![con] = @ + n]
      /\ v.symbol2con = [k \in Key |-> IF k \in now THEN con ELSE u.symbol2con[k]]
      /\ v.con2symbol = [u.con2symbol EXCEPT ![w] = @ \cup now]
      /\ v.allWs = u.allWs /\ v.open = u.open /\ v.disconWs = u.disconWs
  BY <1>1 DEF Given, Books
<1>3. \A a \in Ws : v.con2symbol[a] = IF a = w THEN u.con2symbol[a] \cup now ELSE u.con2symbol[a]
  BY <1>1, <1>2 DEF Books
<1>4. \A j \in Key : v.symbol2con[j] = IF j \in now THEN con ELSE u.symbol2con[j]
  BY <1>2
<1>5. \A c \in Con : v.counts[c] = IF c = con THEN u.counts[c] + n ELSE u.counts[c]
  BY <1>1, <1>2 DEF Books
<1>6. Pointing(v)
  <2> SUFFICES ASSUME NEW j \in Key, v.symbol2con[j] \notin {None, Null}
               PROVE  j \in v.con2symbol[v.symbol2con[j][1]]
    BY DEF Pointing
  <2>1. CASE j \in now
    BY <1>1, <1>3, <1>4, <2>1
  <2>2. CASE j \notin now
    <3>1. j \in u.con2symbol[u.symbol2con[j][1]] /\ u.symbol2con[j][1] \in Ws
      BY <1>1, <1>4, <2>2 DEF MapsGood, Pointing, Books, Con
    <3> QED
      BY <1>3, <1>4, <2>2, <3>1
  <2> QED
    BY <2>1, <2>2
<1>7. Counted(v)
  <2>0. Cardinality(now) \in Nat
    BY SymbolsCount
  <2>1. ASSUME NEW c \in Con PROVE Cardinality(HeldBy(v, c)) <= v.counts[c]
    <3>1. PICK S, T : S = HeldBy(u, c) /\ T = HeldBy(v, c)
      OBVIOUS
    <3>2. S \in SUBSET Key /\ T \in SUBSET Key /\ Cardinality(S) <= u.counts[c] /\ u.counts[c] \in Int
      BY <1>1, <3>1 DEF HeldBy, MapsGood, Counted, Books
    <3>3. Cardinality(S) \in Nat /\ Cardinality(T) \in Nat
      BY <3>2, SymbolsCount
    <3>4. CASE c = con
      <4>1. T = S \cup now
        BY <1>4, <3>1, <3>4 DEF HeldBy
      <4>2. Cardinality(T) <= Cardinality(S) + Cardinality(now)
        BY <3>2, <4>1, MoreCount
      <4> QED
        BY <1>5, <2>0, <3>1, <3>2, <3>3, <3>4, <4>2
    <3>5. CASE c # con
      <4>1. T \in SUBSET S
        BY <1>4, <3>1, <3>5 DEF HeldBy
      <4>2. Cardinality(T) <= Cardinality(S)
        BY <3>2, <4>1, SymbolsCount
      <4> QED
        BY <1>5, <3>1, <3>2, <3>3, <3>5, <4>2
    <3> QED
      BY <3>4, <3>5
  <2>2. ASSUME NEW a \in Ws
        PROVE  /\ Cardinality(v.con2symbol[a]) <= PER_WS_CODE_NUMS
               /\ v.allWs[a] \notin {None, Null} => Cardinality(v.con2symbol[a]) <= v.counts[v.allWs[a]]
    <3>1. PICK S, T : S = u.con2symbol[a] /\ T = v.con2symbol[a]
      OBVIOUS
    <3>2. S \in SUBSET Key /\ T \in SUBSET Key
      BY <1>1, <1>3, <3>1 DEF Books
    <3>3. Cardinality(S) \in Nat /\ Cardinality(T) \in Nat
      BY <3>2, SymbolsCount
    <3>4. Cardinality(S) <= PER_WS_CODE_NUMS /\ PER_WS_CODE_NUMS \in Nat
      BY <3>1, UwsAssumption DEF MapsGood, Counted
    <3>5. u.allWs[a] \notin {None, Null} => /\ Cardinality(S) <= u.counts[u.allWs[a]] /\ u.allWs[a] \in {a} \X {0, 1}
                                            /\ u.allWs[a] \in Con /\ u.counts[u.allWs[a]] \in Int
      <4> SUFFICES ASSUME u.allWs[a] \notin {None, Null}
                   PROVE  /\ Cardinality(S) <= u.counts[u.allWs[a]] /\ u.allWs[a] \in {a} \X {0, 1}
                          /\ u.allWs[a] \in Con /\ u.counts[u.allWs[a]] \in Int
        OBVIOUS
      <4>1. u.allWs[a] \in {a} \X {0, 1} /\ u.allWs[a] \in Con
        BY DEF MapsGood, Good, Carried, Con
      <4> QED
        BY <1>1, <3>1, <4>1 DEF MapsGood, Counted, Books
    <3>6. CASE a = w
      <4>1. T = S \cup now
        BY <1>3, <3>1, <3>6
      <4>2. Cardinality(T) <= Cardinality(S) + Cardinality(now)
        BY <3>2, <4>1, MoreCount
      <4>3. Cardinality(S) <= u.counts[con] /\ u.counts[con] \in Int
        BY <1>1, <3>5, <3>6
      <4>4. v.allWs[a] = con /\ v.counts[con] = u.counts[con] + n
        BY <1>1, <1>2, <1>5, <3>6
      <4>5. Cardinality(T) <= u.counts[con] + n
        BY <2>0, <3>3, <4>2, <4>3
      <4> QED
        BY <3>1, <3>3, <3>4, <4>3, <4>4, <4>5
    <3>7. CASE a # w
      <4>1. T = S
        BY <1>3, <3>1, <3>7
      <4>2. ASSUME v.allWs[a] \notin {None, Null} PROVE Cardinality(T) <= v.counts[v.allWs[a]]
        <5>1. PICK c : c = u.allWs[a] /\ c = v.allWs[a]
          BY <1>2
        <5>2. c \in Con /\ c # con /\ Cardinality(S) <= u.counts[c]
          BY <1>1, <3>5, <3>7, <4>2, <5>1
        <5> QED
          BY <1>5, <4>1, <5>1, <5>2
      <4> QED
        BY <3>1, <3>4, <4>1, <4>2
    <3> QED
      BY <3>6, <3>7
  <2> QED
    BY <2>1, <2>2 DEF Counted
<1>8. PlacedBut(v, {})
  <2>1. \A a \in Ws : a # w => v.con2symbol[a] = u.con2symbol[a]
    BY <1>3
  <2>2. u.allWs[w] # None /\ v.allWs = u.allWs /\ v.open = u.open /\ v.disconWs = u.disconWs
    BY <1>1, <1>2
  <2> QED
    BY <2>1, <2>2 DEF MapsGood, PlacedBut
<1> QED
  BY <1>6, <1>7, <1>8 DEF MapsGood

LEMMA SubRoundAgree ==
  ASSUME NEW ids, ids \subseteq Nat, NEW u, Good(u), NEW keys \in SUBSET Key, NEW acc,
         Subscribing(u, acc, keys), Agree(acc.u, ids), NEW w \in Registered(u), NEW id \in ids
  PROVE  Agree(SubRound(acc, w, id).u, ids)
<1>1. PICK x, left, con : x = acc.u /\ left = acc.left /\ con = acc.u.allWs[w]
  OBVIOUS
<1>2. /\ x \in Books /\ left \in Seq(keys) /\ acc = [u |-> x, left |-> left] /\ x.allWs = u.allWs
      /\ w \in Ws /\ id \in Nat /\ Good(x) /\ Agree(x, ids)
  BY <1>1 DEF Subscribing, Registered, Good
<1>3. CASE x.crashed \/ left = <<>>
  <2>1. SubRound(acc, w, id) = acc
    BY <1>1, <1>3 DEF SubRound
  <2> QED
    BY <2>1
<1>4. CASE ~(x.crashed \/ left = <<>>) /\ con = Null
  <2>1. PICK y : y = Crash(x)
    OBVIOUS
  <2>2. SubRound(acc, w, id) = [acc EXCEPT !.u = y]
    BY <1>1, <1>4, <2>1 DEF SubRound
  <2>3. SubRound(acc, w, id).u = y
    BY <1>2, <2>2
  <2> QED
    BY <1>2, <2>1, <2>3, CrashAgree
<1>5. CASE ~(x.crashed \/ left = <<>>) /\ con # Null
  <2>1. con \in {w} \X {0, 1} /\ con \in Con
    <3>1. con # None /\ con \in {None, Null} \cup ({w} \X {0, 1})
      BY <1>1, <1>2 DEF Registered, Good, Carried
    <3> QED
      BY <1>2, <1>5, <3>1 DEF Con
  <2>2. x.counts[con] \in Int /\ PER_WS_CODE_NUMS \in Nat
    BY <1>2, <2>1, UwsAssumption DEF Books
  <2>3. Room(con, x) \in Nat /\ (Room(con, x) > 0 => x.counts[con] + Room(con, x) = PER_WS_CODE_NUMS)
    BY <2>2 DEF Room
  <2>4. PICK n : n = IF Room(con, x) < Len(left) THEN Room(con, x) ELSE Len(left)
    OBVIOUS
  <2>5. n \in 0..Len(left) /\ Len(left) \in Nat /\ n \in Nat /\ (n # 0 => x.counts[con] + n <= PER_WS_CODE_NUMS)
    <3>1. Len(left) \in Nat
      BY <1>2
    <3>2. n \in Nat /\ n <= Len(left) /\ n <= Room(con, x)
      BY <2>3, <2>4, <3>1
    <3> QED
      BY <2>2, <2>3, <3>1, <3>2
  <2>6. PICK now : now = {left[i] : i \in 1..n}
    OBVIOUS
  <2>7. now \in SUBSET Key
    BY <1>2, <2>5, <2>6
  <2>8. Cardinality(now) <= n
    BY <2>5, <2>6, <2>7, TakenCount
  <2>9. PICK y, z, rest : /\ y = Given(x, w, con, now, n, id)
                          /\ z = IF n = 0 THEN x ELSE ServerSub(y, w, now, id)
                          /\ rest = SubSeq(left, n + 1, Len(left))
    OBVIOUS
  <2>10. SubRound(acc, w, id).u = z
    BY <1>1, <1>5, <2>4, <2>6, <2>9 DEF SubRound, Given
  <2>11. CASE n = 0
    BY <1>2, <2>9, <2>10, <2>11
  <2>12. CASE n # 0
    <3>1. Good(y)
      <4>1. \A k \in now : \A a \in Ws : k \notin x.con2symbol[a]
        BY <1>1, <2>5, <2>6 DEF Subscribing
      <4> QED
        BY <1>2, <2>1, <2>5, <2>7, <2>9, <4>1, GivenGood
    <3>2. MapsGood(x, {}) /\ Served(x) /\ Within(x, ids)
      BY <1>2, AgreeParts
    <3>3. MapsGood(y, {})
      <4>1. x.allWs[w] = con /\ x.counts[con] + n <= PER_WS_CODE_NUMS
        BY <1>1, <2>5, <2>12
      <4> QED
        BY <1>2, <2>1, <2>5, <2>7, <2>8, <2>9, <3>1, <3>2, <4>1, GivenAgree
    <3>4. /\ y.open = x.open /\ y.connecting = x.connecting /\ y.subId = id /\ y.asked = x.asked
          /\ y.subs = x.subs /\ y.con2symbol = [x.con2symbol EXCEPT ![w] = @ \cup now]
      BY <1>2, <2>9 DEF Given, Books
    <3>5. Within(y, ids)
      BY <3>2, <3>4 DEF Within
    <3>6. PICK subs : subs = IF w \in y.open THEN y.subs \cup ({w} \X now) ELSE y.subs
      OBVIOUS
    <3>7. Told(y, z, subs, id)
      BY <1>2, <2>7, <2>9, <2>12, <3>1, <3>6, ServerSubTold DEF Good
    <3>8. subs = Serving(y.open, y.con2symbol)
      <4>1. x.con2symbol \in [Ws -> SUBSET Key] /\ x.open \subseteq Ws /\ x.subs = Serving(x.open, x.con2symbol)
        BY <1>2, <3>2 DEF Books, Served
      <4>2. \A a \in Ws : y.con2symbol[a] = IF a = w THEN x.con2symbol[a] \cup now ELSE x.con2symbol[a]
        BY <3>4, <4>1
      <4>3. ASSUME NEW a \in x.open, NEW j \in Key
            PROVE  j \in y.con2symbol[a] <=> j \in x.con2symbol[a] \/ (a = w /\ j \in now)
        BY <4>1, <4>2
      <4>4. Serving(x.open, y.con2symbol) = Serving(x.open, x.con2symbol) \cup {s \in x.open \X Key : s[1] = w /\ s[2] \in now}
        BY <4>3 DEF Serving
      <4>5. {s \in x.open \X Key : s[1] = w /\ s[2] \in now} = IF w \in x.open THEN {w} \X now ELSE {}
        BY <2>7
      <4> QED
        BY <3>4, <3>6, <4>1, <4>4, <4>5
    <3>9. MapsGood(z, {}) /\ Served(z) /\ Within(z, ids)
      BY <3>3, <3>5, <3>7, <3>8, ToldAgree
    <3> QED
      BY <2>10, <3>9, AgreeParts
  <2> QED
    BY <2>11, <2>12
<1> QED
  BY <1>3, <1>4, <1>5

LEMMA SendSubAgree ==
  ASSUME NEW ids, ids \subseteq Nat, NEW u, Agree(u, ids), NEW keys \in SUBSET Key, NEW id \in ids,
         \A k \in keys : \A w \in Ws : k \notin u.con2symbol[w],
         NEW x \in SendSub(u, keys, id)
  PROVE  Agree(x, ids)
<1> DEFINE A == {acc \in [u : Books, left : Seq(keys)] : Subscribing(u, acc, keys) /\ Agree(acc.u, ids)}
<1>0. Good(u) /\ id \in Nat
  BY DEF Agree
<1>1. SubKept(u, id, A)
  <2> SUFFICES ASSUME NEW acc \in A, NEW w \in Registered(u) PROVE SubRound(acc, w, id) \in A
    BY DEF SubKept
  <2>1. Subscribing(u, SubRound(acc, w, id), keys)
    BY <1>0, SubRoundKeeps
  <2>2. Agree(SubRound(acc, w, id).u, ids)
    BY <1>0, SubRoundAgree
  <2> QED
    BY <2>1, <2>2 DEF Subscribing
<1>2. ASSUME NEW m \in Nat, NEW ks \in [1..m -> keys], \A i, j \in 1..m : i # j => ks[i] # ks[j]
      PROVE  [u |-> u, left |-> ks] \in A
  <2>1. ks \in Seq(keys) /\ Len(ks) = m
    OBVIOUS
  <2>2. PICK first : first = [u |-> u, left |-> ks]
    OBVIOUS
  <2>3. first \in [u : Books, left : Seq(keys)] /\ first.u = u /\ first.left = ks
    BY <1>0, <2>1, <2>2 DEF Good
  <2>4. \A i \in 1..m : \A w \in Ws : ks[i] \notin u.con2symbol[w]
    OBVIOUS
  <2>5. Subscribing(u, first, keys)
    BY <1>0, <1>2, <2>1, <2>3, <2>4 DEF Subscribing, Good
  <2> QED
    BY <2>2, <2>3, <2>5
<1> HIDE DEF A
<1>3. \E acc \in A : x = acc.u
  <2>1. SubFirst(u, keys, A)
    BY <1>2 DEF SubFirst
  <2> QED
    BY <1>1, <2>1, SendSubRun
<1> QED
  BY <1>3 DEF A

LEMMA SendQueryAgree ==
  ASSUME NEW ids, ids \subseteq Nat, NEW u, Agree(u, ids), NEW id \in ids
  PROVE  Agree(SendQuery(u, id), ids)
<1>1. CASE u.queryWs \in u.open
  <2>1. u.queryWs \in Ws /\ u \in Books /\ id \in Nat
    BY <1>1 DEF Agree, Good, Books
  <2>2. PICK a : a = Asked(u, u.queryWs, id)
    OBVIOUS
  <2>3. a \in SUBSET (Ws \X Nat) /\ \A b \in a : b \in u.asked \/ b[2] = id
    BY <2>1, <2>2, AskedType DEF Asked
  <2>4. PICK v : v = [u EXCEPT !.asked = a]
    OBVIOUS
  <2>5. v \in Books /\ SameTables(u, v) /\ v.connecting = u.connecting /\ v.subId = u.subId /\ v.asked = a
    BY <2>1, <2>3, <2>4 DEF Books, SameTables, SameEntries
  <2>6. Within(v, ids)
    BY <2>3, <2>5 DEF Agree, Within
  <2>7. SendQuery(u, id) = v
    BY <1>1, <2>2, <2>4 DEF SendQuery
  <2> QED
    BY <2>5, <2>6, <2>7, SameAgree
<1>2. CASE u.queryWs \notin u.open
  BY <1>2 DEF SendQuery
<1> QED
  BY <1>1, <1>2

LEMMA SendHeartbeatAgree ==
  ASSUME NEW u, NEW ids, Agree(u, ids)
  PROVE  Agree(SendHeartbeat(u), ids)
BY CrashAgree DEF SendHeartbeat

\* Subscribing everything once more tells the server nothing new.
LEMMA ResubAgree ==
  ASSUME NEW u, NEW ids, Agree(u, ids)
  PROVE  Agree(Resub(u), ids)
<1> DEFINE held == {k \in Key : u.symbol2con[k] # None}
           more == {<<u.symbol2con[k][1], k>> : k \in {j \in held : u.symbol2con[j][1] \in u.open}}
<1>1. CASE \E k \in held : u.symbol2con[k] = Null
  BY <1>1, CrashAgree DEF Resub
<1>2. CASE ~ \E k \in held : u.symbol2con[k] = Null
  <2>1. ASSUME NEW k \in held, u.symbol2con[k][1] \in u.open
        PROVE  <<u.symbol2con[k][1], k>> \in Serving(u.open, u.con2symbol)
    <3>1. k \in u.con2symbol[u.symbol2con[k][1]]
      BY <1>2 DEF Agree, Pointing
    <3> QED
      BY <2>1, <3>1 DEF Serving
  <2>2. u.subs \cup more = u.subs
    BY <2>1 DEF Agree, Served
  <2>3. PICK s : s = u.subs \cup more
    OBVIOUS
  <2>4. Resub(u) = [u EXCEPT !.subs = s]
    BY <1>2, <2>3 DEF Resub
  <2>5. u \in Books /\ s = u.subs
    BY <2>2, <2>3 DEF Agree, Good
  <2>6. [u EXCEPT !.subs = s] = u
    BY <2>5 DEF Books
  <2> QED
    BY <2>4, <2>6
<1> QED
  BY <1>1, <1>2

LEMMA AnsweredAgree ==
  ASSUME NEW u, NEW ids, Agree(u, ids), NEW a
  PROVE  Agree([u EXCEPT !.asked = @ \ {a}], ids)
<1>1. u \in Books
  BY DEF Agree, Good
<1>2. PICK v : v = [u EXCEPT !.asked = @ \ {a}]
  OBVIOUS
<1>3. v \in Books /\ SameTables(u, v) /\ v.connecting = u.connecting /\ v.subId = u.subId /\ v.asked \subseteq u.asked
  BY <1>1, <1>2 DEF Books, SameTables, SameEntries
<1>4. Within(v, ids)
  BY <1>3 DEF Agree, Within
<1> QED
  BY <1>2, <1>3, <1>4, SameAgree

LEMMA OnErrorAgree ==
  ASSUME NEW u, NEW ids, Agree(u, ids), u.connecting > 0
  PROVE  Agree(OnError(u), ids)
<1>1. u \in Books /\ u.connecting \in Nat
  BY DEF Agree, Good, Within
<1>2. PICK n \in Nat : n = u.connecting - 1 /\ n \in Int
  BY <1>1
<1>3. PICK v : v = [u EXCEPT !.connecting = n]
  OBVIOUS
<1>4. v \in Books /\ SameTables(u, v) /\ v.connecting = n /\ v.subId = u.subId /\ v.asked = u.asked
  BY <1>1, <1>2, <1>3 DEF Books, SameTables, SameEntries
<1>5. Within(v, ids)
  BY <1>4 DEF Agree, Within
<1>6. v = OnError(u)
  BY <1>2, <1>3 DEF OnError
<1> QED
  BY <1>4, <1>5, <1>6, SameAgree

LEMMA OnDisconnectionAgree ==
  ASSUME NEW u, NEW ids, Agree(u, ids), NEW w \in u.open
  PROVE  Agree(OnDisconnection(u, w), ids)
<1>1. PICK open, discon, connecting, subs, asked :
         /\ open = u.open \ {w} /\ discon = Append(u.disconWs, w) /\ connecting = u.connecting + 1
         /\ subs = {s \in u.subs : s[1] # w} /\ asked = {a \in u.asked : a[1] # w}
  OBVIOUS
<1>2. u \in Books /\ w \in Ws /\ u.connecting \in Nat /\ u.disconWs \in Seq(Ws)
  BY DEF Agree, Good, Books, Within
<1>3. /\ open \in SUBSET Ws /\ discon \in Seq(Ws) /\ connecting \in Nat /\ connecting \in Int /\ subs \in SUBSET (Ws \X Key)
      /\ asked \in SUBSET (Ws \X Nat)
  BY <1>1, <1>2 DEF Books
<1>4. PICK v : v = [u EXCEPT !.open = open, !.disconWs = discon, !.connecting = connecting,
                             !.subs = subs, !.asked = asked]
  OBVIOUS
<1>5. v = OnDisconnection(u, w)
  BY <1>1, <1>2, <1>4 DEF OnDisconnection, Books
<1>6. /\ v \in Books /\ SameEntries(u, v) /\ v.counts = u.counts /\ v.open = open /\ v.disconWs = discon
      /\ v.connecting = connecting /\ v.subs = subs /\ v.asked = asked /\ v.subId = u.subId
  BY <1>2, <1>3, <1>4 DEF Books, SameEntries
<1>7. v.symbol2con = u.symbol2con /\ v.con2symbol = u.con2symbol /\ v.allWs = u.allWs
  BY <1>6 DEF SameEntries
<1>8. Good(v)
  BY <1>6, SameGood DEF Agree
<1>9. Pointing(v) /\ Counted(v)
  BY <1>6, <1>7 DEF Agree, Pointing, Counted, HeldBy
<1>10. Served(v)
  <2>1. subs = {s \in Serving(u.open, u.con2symbol) : s[1] # w}
    BY <1>1 DEF Agree, Served
  <2>2. subs = Serving(open, u.con2symbol)
    BY <1>1, <2>1 DEF Serving
  <2> QED
    BY <1>6, <1>7, <2>2 DEF Served
<1>11. ToSet(discon) = ToSet(u.disconWs) \cup {w}
  <2>1. Len(discon) = Len(u.disconWs) + 1 /\ discon[Len(discon)] = w /\ Len(u.disconWs) \in Nat
    BY <1>1, <1>2
  <2>2. \A i \in 1..Len(u.disconWs) : discon[i] = u.disconWs[i]
    BY <1>1, <1>2
  <2>3. DOMAIN discon = 1..Len(discon) /\ DOMAIN u.disconWs = 1..Len(u.disconWs)
    BY <1>2, <1>3
  <2> QED
    BY <2>1, <2>2, <2>3 DEF ToSet
<1>12. PlacedBut(v, {})
  BY <1>1, <1>6, <1>7, <1>11 DEF Agree, PlacedBut
<1>13. Within(v, ids)
  BY <1>1, <1>3, <1>6 DEF Agree, Within
<1> QED
  BY <1>5, <1>8, <1>9, <1>10, <1>12, <1>13 DEF Agree

\* The maps of a connection that replaces another, before it gets an object.
Moved(u, w, lost, temp, pointed, left) ==
  /\ left \in Books /\ left.counts = u.counts /\ left.open = u.open
  /\ left.disconWs = Tail(u.disconWs) /\ left.connecting = u.connecting /\ left.subId = u.subId
  /\ left.subs = u.subs \cup ({w} \X temp)
  /\ \A a \in left.asked : a \in u.asked \/ (a[2] = u.subId /\ u.subId \notin {0, 2})
  /\ left.symbol2con = pointed.symbol2con /\ left.con2symbol = pointed.con2symbol
  /\ left.allWs = [pointed.allWs EXCEPT ![lost] = None]

LEMMA ReplacedFields ==
  ASSUME NEW u, Good(u), u.disconWs # <<>>, NEW w \in u.open,
         NEW lost, NEW temp, NEW pointed, NEW sent, NEW left, Replaced(u, w, lost, temp, pointed, sent, left)
  PROVE  Moved(u, w, lost, temp, pointed, left)
<1>1. /\ NoneNew(u, pointed) /\ NoneNew(u, sent) /\ NoneNew(u, left) /\ lost \in Ws /\ temp \in SUBSET Key
      /\ w \in Ws
  BY ReplacedNoneNew DEF Good, Books
<1>2. pointed \in Books /\ sent \in Books /\ left \in Books /\ pointed.subId \in Nat
  BY <1>1 DEF NoneNew, Good, Books
<1>3. /\ pointed.counts = u.counts /\ pointed.open = u.open /\ pointed.disconWs = Tail(u.disconWs)
      /\ pointed.subs = u.subs /\ pointed.asked = u.asked /\ pointed.subId = u.subId
      /\ pointed.connecting = u.connecting
  BY DEF Replaced
<1>4. Told(pointed, sent, u.subs \cup ({w} \X temp), u.subId)
  <2>1. CASE temp = {}
    <3>1. sent = pointed /\ u.subs \cup ({w} \X temp) = pointed.subs
      BY <1>3, <2>1 DEF Replaced
    <3> QED
      BY <1>2, <3>1, ToldNothing
  <2>2. CASE temp # {}
    <3>1. sent = ServerSub(pointed, w, temp, pointed.subId)
      BY <2>2 DEF Replaced
    <3>2. Told(pointed, sent, IF w \in pointed.open THEN pointed.subs \cup ({w} \X temp) ELSE pointed.subs, pointed.subId)
      BY <1>1, <1>2, <3>1, ServerSubTold
    <3> QED
      BY <1>3, <3>2
  <2> QED
    BY <2>1, <2>2
<1>5. /\ sent.symbol2con = pointed.symbol2con /\ sent.con2symbol = pointed.con2symbol /\ sent.allWs = pointed.allWs
      /\ sent.counts = pointed.counts /\ sent.open = pointed.open /\ sent.disconWs = pointed.disconWs
      /\ sent.connecting = pointed.connecting /\ sent.subId = pointed.subId
      /\ sent.subs = u.subs \cup ({w} \X temp)
      /\ \A a \in sent.asked : a \in pointed.asked \/ (a[2] = u.subId /\ u.subId \notin {0, 2})
  BY <1>4 DEF Told, SameEntries
<1>6. PICK all : all = [sent.allWs EXCEPT ![lost] = None]
  OBVIOUS
<1>7. left = [sent EXCEPT !.allWs = all]
  BY <1>6 DEF Replaced
<1>8. /\ left.symbol2con = sent.symbol2con /\ left.con2symbol = sent.con2symbol /\ left.allWs = all
      /\ left.counts = sent.counts /\ left.open = sent.open /\ left.disconWs = sent.disconWs
      /\ left.connecting = sent.connecting /\ left.subId = sent.subId
      /\ left.subs = sent.subs /\ left.asked = sent.asked
  BY <1>2, <1>7 DEF Books
<1>9. left.counts = u.counts /\ left.open = u.open
  BY <1>3, <1>5, <1>8
<1>10. left.disconWs = Tail(u.disconWs) /\ left.connecting = u.connecting /\ left.subId = u.subId
  BY <1>3, <1>5, <1>8
<1>11. left.subs = u.subs \cup ({w} \X temp)
  BY <1>5, <1>8
<1>12. \A a \in left.asked : a \in u.asked \/ (a[2] = u.subId /\ u.subId \notin {0, 2})
  BY <1>3, <1>5, <1>8
<1>13. left.symbol2con = pointed.symbol2con /\ left.con2symbol = pointed.con2symbol
  BY <1>5, <1>8
<1>14. left.allWs = [pointed.allWs EXCEPT ![lost] = None]
  BY <1>5, <1>6, <1>8
<1> QED
  BY <1>2, <1>9, <1>10, <1>11, <1>12, <1>13, <1>14 DEF Moved

\* A new object for the connection at w: one of the two of its address is free.
LEMMA InsertAgree ==
  ASSUME NEW u, NEW ids, NEW w \in u.open, MapsGood(u, {w}), Served(u), Within(u, ids),
         NEW n \in Nat, Cardinality(u.con2symbol[w]) <= n,
         u.allWs[w] = None => \E b \in {0, 1} : HeldBy(u, <<w, b>>) = {}
  PROVE  Agree(Insert(u, w, n), ids)
<1>1. Good(u) /\ u \in Books /\ w \in Ws
  BY DEF MapsGood, Good, Books
<1>2. CASE u.allWs[w] # None
  <2>1. PlacedBut(u, {})
    BY <1>2 DEF MapsGood, PlacedBut
  <2>2. Insert(u, w, n) = u
    BY <1>2 DEF Insert
  <2> QED
    BY <2>1, <2>2 DEF MapsGood, Agree
<1>3. CASE u.allWs[w] = None
  <2>1. PICK con : con = NewCon(u, w)
    OBVIOUS
  <2>2. con \in {w} \X {0, 1} /\ con \in Con /\ con # None /\ con # Null
    <3>1. con \in {w} \X {0, 1} /\ con \in Con
      BY <1>1, <2>1 DEF NewCon, Con
    <3> QED
      BY <3>1, UwsAssumption
  <2>3. HeldBy(u, con) = {}
    <3>1. CASE <<w, 0>> \in Used(u)
      <4>1. \A a \in Ws : u.allWs[a] # <<w, 0>>
        <5> SUFFICES ASSUME NEW a \in Ws, u.allWs[a] = <<w, 0>> PROVE FALSE
          OBVIOUS
        <5>1. <<w, 0>> # None /\ <<w, 0>> # Null
          BY <1>1, UwsAssumption DEF Con
        <5>2. a = w
          BY <1>1, <5>1 DEF Good, Carried
        <5> QED
          BY <1>3, <5>1, <5>2
      <4>2. PICK k \in Key : u.symbol2con[k] = <<w, 0>>
        BY <3>1, <4>1 DEF Used
      <4>3. HeldBy(u, <<w, 0>>) # {}
        BY <4>2 DEF HeldBy
      <4>4. HeldBy(u, <<w, 1>>) = {}
        BY <1>3, <4>3
      <4> QED
        BY <2>1, <3>1, <4>4 DEF NewCon
    <3>2. CASE <<w, 0>> \notin Used(u)
      <4>1. HeldBy(u, <<w, 0>>) = {}
        BY <3>2 DEF Used, HeldBy
      <4> QED
        BY <2>1, <3>2, <4>1 DEF NewCon
    <3> QED
      BY <3>1, <3>2
  <2>4. PICK allWs, counts : allWs = [u.allWs EXCEPT ![w] = con] /\ counts = [u.counts EXCEPT ![con] = n]
    OBVIOUS
  <2>5. allWs \in [Ws -> Con \cup {None, Null}] /\ counts \in [Con -> Int]
    BY <1>1, <2>2, <2>4 DEF Books
  <2>6. PICK v : v = [u EXCEPT !.allWs = allWs, !.counts = counts]
    OBVIOUS
  <2>7. v = Insert(u, w, n)
    BY <1>1, <1>3, <2>1, <2>4, <2>6 DEF Insert, Books
  <2>8. Good(v)
    <3>1. n \in Int
      OBVIOUS
    <3> QED
      BY <1>1, <2>7, <3>1, InsertNoneNew DEF NoneNew
  <2>9. /\ v.symbol2con = u.symbol2con /\ v.con2symbol = u.con2symbol /\ v.allWs = allWs /\ v.counts = counts
        /\ v.open = u.open /\ v.disconWs = u.disconWs /\ v.subs = u.subs /\ v.connecting = u.connecting
        /\ v.subId = u.subId /\ v.asked = u.asked
    BY <1>1, <2>6 DEF Books
  <2>10. \A c \in Con : counts[c] = IF c = con THEN n ELSE u.counts[c]
    BY <1>1, <2>4 DEF Books
  <2>11. \A a \in Ws : allWs[a] = IF a = w THEN con ELSE u.allWs[a]
    BY <1>1, <2>4 DEF Books
  <2>12. Pointing(v) /\ Served(v) /\ Within(v, ids)
    <3>1. Pointing(v)
      BY <2>9 DEF MapsGood, Pointing
    <3>2. Served(v) /\ Within(v, ids)
      BY <2>9 DEF Served, Within
    <3> QED
      BY <3>1, <3>2
  <2>13. Counted(v)
    <3>1. ASSUME NEW c \in Con PROVE Cardinality(HeldBy(v, c)) <= v.counts[c]
      <4>1. HeldBy(v, c) = HeldBy(u, c)
        BY <2>9 DEF HeldBy
      <4>2. CASE c = con
        <5>1. Cardinality(HeldBy(v, c)) = 0
          BY <2>3, <4>1, <4>2, FS_EmptySet
        <5> QED
          BY <2>9, <2>10, <4>2, <5>1
      <4>3. CASE c # con
        BY <2>9, <2>10, <4>1, <4>3 DEF MapsGood, Counted
      <4> QED
        BY <4>2, <4>3
    <3>2. ASSUME NEW a \in Ws, v.allWs[a] \notin {None, Null}
          PROVE  Cardinality(v.con2symbol[a]) <= v.counts[v.allWs[a]]
      <4>1. CASE a = w
        BY <2>2, <2>9, <2>10, <2>11, <4>1
      <4>2. CASE a # w
        <5>1. PICK c : c = u.allWs[a] /\ c = v.allWs[a] /\ c \notin {None, Null}
          BY <2>9, <2>11, <3>2, <4>2
        <5>2. c \in {a} \X {0, 1} /\ c \in Con
          <6>1. u.allWs[a] \in {None, Null} \cup ({a} \X {0, 1})
            BY <1>1 DEF Good, Carried
          <6> QED
            BY <5>1, <6>1 DEF Con
        <5>3. c # con
          BY <2>2, <4>2, <5>2
        <5>4. Cardinality(u.con2symbol[a]) <= u.counts[c]
          BY <5>1 DEF MapsGood, Counted
        <5> QED
          BY <2>9, <2>10, <5>1, <5>2, <5>3, <5>4
      <4> QED
        BY <4>1, <4>2
    <3>3. \A a \in Ws : Cardinality(v.con2symbol[a]) <= PER_WS_CODE_NUMS
      BY <2>9 DEF MapsGood, Counted
    <3> QED
      BY <3>1, <3>2, <3>3 DEF Counted
  <2>14. PlacedBut(v, {})
    BY <2>2, <2>9, <2>11 DEF MapsGood, PlacedBut
  <2> QED
    BY <2>7, <2>8, <2>12, <2>13, <2>14 DEF Agree
<1> QED
  BY <1>2, <1>3

\* One more connection is up, and nothing has been done about it yet.
Up(u, up, w) == up = [u EXCEPT !.open = @ \cup {w}, !.connecting = @ - 1]

LEMMA UpFields ==
  ASSUME NEW u, NEW ids, Agree(u, ids), u.connecting > 0, NEW w \in Ws, NEW up, Up(u, up, w)
  PROVE  /\ up \in Books /\ Good(up) /\ up.symbol2con = u.symbol2con /\ up.con2symbol = u.con2symbol
         /\ up.allWs = u.allWs /\ up.counts = u.counts /\ up.disconWs = u.disconWs /\ up.subs = u.subs
         /\ up.open = u.open \cup {w} /\ up.queryWs = u.queryWs /\ Within(up, ids)
<1>1. u \in Books /\ u.connecting \in Nat
  BY DEF Agree, Good, Within
<1>2. PICK n \in Nat : n = u.connecting - 1 /\ n \in Int
  BY <1>1
<1>3. PICK open \in SUBSET Ws : open = u.open \cup {w}
  <2>1. u.open \in SUBSET Ws
    BY <1>1 DEF Books
  <2> QED
    BY <2>1
<1>4. up = [u EXCEPT !.open = open, !.connecting = n]
  BY <1>2, <1>3 DEF Up
<1>5. /\ up \in Books /\ up.symbol2con = u.symbol2con /\ up.con2symbol = u.con2symbol
      /\ up.allWs = u.allWs /\ up.counts = u.counts /\ up.disconWs = u.disconWs /\ up.subs = u.subs
      /\ up.open = open /\ up.queryWs = u.queryWs /\ up.connecting = n /\ up.subId = u.subId
      /\ up.asked = u.asked
  BY <1>1, <1>2, <1>3, <1>4 DEF Books
<1>6. Good(up)
  BY <1>5, SameGood DEF SameEntries, Agree
<1>7. Within(up, ids)
  BY <1>5 DEF Agree, Within
<1> QED
  BY <1>3, <1>5, <1>6, <1>7

\* A connection that comes when none is lost: its address has left nothing behind.
LEMMA FirstConnectAgree ==
  ASSUME NEW u, NEW ids, Agree(u, ids), u.connecting > 0, u.disconWs = <<>>, NEW w \in Ws \ u.open
  PROVE  Agree(OnConnection(u, w), ids)
<1>1. PICK up : up = [u EXCEPT !.open = @ \cup {w}, !.connecting = @ - 1]
  OBVIOUS
<1>2. Up(u, up, w) /\ u \in Books
  BY <1>1 DEF Up, Agree, Good
<1>3. /\ up \in Books /\ Good(up) /\ up.symbol2con = u.symbol2con /\ up.con2symbol = u.con2symbol
      /\ up.allWs = u.allWs /\ up.counts = u.counts /\ up.disconWs = u.disconWs /\ up.subs = u.subs
      /\ up.open = u.open \cup {w} /\ up.queryWs = u.queryWs /\ Within(up, ids)
  BY <1>2, UpFields
<1>4. ToSet(u.disconWs) = {}
  BY DEF ToSet
<1>5. u.con2symbol[w] = {} /\ u.allWs[w] = None
  BY <1>4 DEF Agree, PlacedBut
<1>6. Served(up)
  <2>1. u.subs = Serving(u.open, u.con2symbol)
    BY DEF Agree, Served
  <2>2. Serving(u.open \cup {w}, u.con2symbol) = Serving(u.open, u.con2symbol)
    BY <1>5 DEF Serving
  <2> QED
    BY <1>3, <2>1, <2>2 DEF Served
<1>7. MapsGood(up, {})
  <2>1. Pointing(up)
    BY <1>3 DEF Agree, Pointing
  <2>2. Counted(up)
    BY <1>3 DEF Agree, Counted, HeldBy
  <2>3. PlacedBut(up, {})
    BY <1>3, <1>4 DEF Agree, PlacedBut
  <2> QED
    BY <1>3, <2>1, <2>2, <2>3 DEF MapsGood
<1>8. OnConnection(u, w) = FirstConnect(up, w)
  BY <1>1 DEF OnConnection
<1>9. CASE up.queryWs = None
  <2>1. PICK v : v = [up EXCEPT !.queryWs = w]
    OBVIOUS
  <2>2. v \in Books /\ SameTables(up, v) /\ v.connecting = up.connecting /\ v.subId = up.subId /\ v.asked = up.asked
    BY <1>3, <2>1 DEF Books, SameTables, SameEntries
  <2>3. Within(v, ids)
    BY <1>3, <2>2 DEF Within
  <2>4. Agree(up, ids)
    BY <1>3, <1>6, <1>7, AgreeParts
  <2>5. Agree(v, ids)
    BY <2>2, <2>3, <2>4, SameAgree
  <2> QED
    BY <1>8, <1>9, <2>1, <2>5 DEF FirstConnect
<1>10. CASE up.queryWs # None
  <2>1. \A b \in {0, 1} : HeldBy(up, <<w, b>>) = {}
    <3> SUFFICES ASSUME NEW b \in {0, 1}, NEW k \in Key, u.symbol2con[k] = <<w, b>> PROVE FALSE
      BY <1>3 DEF HeldBy
    <3>1. <<w, b>> \notin {None, Null}
      <4>1. <<w, b>> \in Con
        BY DEF Con
      <4> QED
        BY <4>1, UwsAssumption
    <3>2. k \in u.con2symbol[u.symbol2con[k][1]]
      BY <3>1 DEF Agree, Pointing
    <3> QED
      BY <1>5, <3>2
  <2>2. Cardinality(up.con2symbol[w]) <= 0
    BY <1>3, <1>5, FS_EmptySet
  <2>3. MapsGood(up, {w}) /\ w \in up.open
    BY <1>3, <1>7 DEF MapsGood, PlacedBut
  <2>4. Agree(Insert(up, w, 0), ids)
    BY <1>3, <1>6, <2>1, <2>2, <2>3, InsertAgree
  <2> QED
    BY <1>8, <1>10, <2>4 DEF FirstConnect
<1> QED
  BY <1>9, <1>10

\* The maps when the only lost connection has been replaced by the one at w: its symbols temp
\* point to P, which is the object w had when it is the address of the lost one, and null or
\* nothing when it is another.
Follows(u, v, lost, w, temp, P) ==
  /\ ToSet(u.disconWs) = {lost} /\ temp = u.con2symbol[lost]
  /\ v.disconWs = <<>> /\ v.open = u.open \cup {w} /\ v.counts = u.counts /\ v.subs = u.subs \cup ({w} \X temp)
  /\ P = IF u.allWs[w] = None /\ temp # {} THEN Null ELSE u.allWs[w]
  /\ \A a \in Ws : v.allWs[a] = IF a = lost THEN None ELSE IF a = w THEN P ELSE u.allWs[a]
  /\ \A a \in Ws : v.con2symbol[a] = IF a = w THEN temp ELSE IF a = lost THEN {} ELSE u.con2symbol[a]
  /\ \A k \in Key : v.symbol2con[k] = IF k \in temp THEN P ELSE u.symbol2con[k]

LEMMA ReplacedAgree ==
  ASSUME NEW u, NEW ids, Agree(u, ids), NEW w \in Ws \ u.open, NEW lost \in Ws, NEW temp,
         NEW v, Good(v), NEW P, Follows(u, v, lost, w, temp, P)
  PROVE  /\ MapsGood(v, {w}) /\ Served(v)
         /\ v.con2symbol[w] = temp /\ \E b \in {0, 1} : HeldBy(v, <<w, b>>) = {}
<1>0. /\ ToSet(u.disconWs) = {lost} /\ temp = u.con2symbol[lost]
      /\ v.disconWs = <<>> /\ v.open = u.open \cup {w} /\ v.counts = u.counts /\ v.subs = u.subs \cup ({w} \X temp)
      /\ P = IF u.allWs[w] = None /\ temp # {} THEN Null ELSE u.allWs[w]
      /\ \A a \in Ws : v.allWs[a] = IF a = lost THEN None ELSE IF a = w THEN P ELSE u.allWs[a]
      /\ \A a \in Ws : v.con2symbol[a] = IF a = w THEN temp ELSE IF a = lost THEN {} ELSE u.con2symbol[a]
      /\ \A k \in Key : v.symbol2con[k] = IF k \in temp THEN P ELSE u.symbol2con[k]
  BY DEF Follows
<1> USE <1>0
<1>1. /\ u \in Books /\ Good(u) /\ lost \notin u.open /\ temp \in SUBSET Key /\ w \notin u.open
      /\ u.open \subseteq Ws /\ u.con2symbol \in [Ws -> SUBSET Key]
  BY DEF Agree, Good, PlacedBut, Books
<1>2. w # lost => u.con2symbol[w] = {} /\ u.allWs[w] = None
  BY DEF Agree, PlacedBut
<1>3. temp # {} => u.allWs[lost] # None
  BY DEF Agree, PlacedBut
<1>4. P \in {None, Null} \cup ({w} \X {0, 1})
  BY <1>1 DEF Good, Carried
<1>5. P \notin {None, Null} => w = lost /\ P = u.allWs[lost] /\ P[1] = w /\ P \in Con
  BY <1>2, <1>4 DEF Con
<1>6. ASSUME NEW k \in Key, k \notin temp, v.symbol2con[k] \notin {None, Null}
      PROVE  /\ v.symbol2con[k] = u.symbol2con[k] /\ v.symbol2con[k] \in Con /\ v.symbol2con[k][1] \in Ws
             /\ v.symbol2con[k][1] # lost /\ v.symbol2con[k][1] # w /\ k \in u.con2symbol[v.symbol2con[k][1]]
  <2>1. v.symbol2con[k] = u.symbol2con[k]
    BY <1>6
  <2>2. v.symbol2con[k] \in Con /\ v.symbol2con[k][1] \in Ws
    BY <1>1, <1>6, <2>1 DEF Books, Con
  <2>3. k \in u.con2symbol[v.symbol2con[k][1]]
    BY <1>6, <2>1 DEF Agree, Pointing
  <2> QED
    BY <1>2, <1>6, <2>1, <2>2, <2>3
<1>7. Pointing(v)
  <2> SUFFICES ASSUME NEW k \in Key, v.symbol2con[k] \notin {None, Null}
               PROVE  k \in v.con2symbol[v.symbol2con[k][1]]
    BY DEF Pointing
  <2>1. CASE k \in temp
    BY <1>5, <2>1
  <2>2. CASE k \notin temp
    BY <1>6, <2>2
  <2> QED
    BY <2>1, <2>2
<1>8. Counted(v)
  <2>1. ASSUME NEW c \in Con PROVE Cardinality(HeldBy(v, c)) <= v.counts[c]
    <3>0. c \notin {None, Null}
      BY UwsAssumption
    <3>1. PICK S, T : S = HeldBy(u, c) /\ T = HeldBy(v, c)
      OBVIOUS
    <3>2. S \in SUBSET Key /\ T \in SUBSET Key /\ Cardinality(S) <= u.counts[c] /\ u.counts[c] \in Int
      BY <1>1, <3>1 DEF HeldBy, Agree, Counted, Books
    <3>3. Cardinality(S) \in Nat /\ Cardinality(T) \in Nat /\ Cardinality(temp) \in Nat
      BY <1>1, <3>2, SymbolsCount
    <3>4. CASE c = P
      <4>1. T \subseteq temp
        <5> SUFFICES ASSUME NEW k \in Key, k \notin temp, v.symbol2con[k] = c PROVE FALSE
          BY <3>1 DEF HeldBy
        <5> QED
          BY <1>5, <1>6, <3>0, <3>4
      <4>2. Cardinality(T) <= Cardinality(temp)
        BY <1>1, <4>1, SymbolsCount
      <4>3. Cardinality(temp) <= u.counts[c]
        <5>1. c = u.allWs[lost]
          BY <1>5, <3>0, <3>4
        <5> QED
          BY <3>0, <5>1 DEF Agree, Counted
      <4> QED
        BY <3>1, <3>2, <3>3, <4>2, <4>3
    <3>5. CASE c # P
      <4>1. T \in SUBSET S
        BY <3>1, <3>5 DEF HeldBy
      <4>2. Cardinality(T) <= Cardinality(S)
        BY <3>2, <4>1, SymbolsCount
      <4> QED
        BY <3>1, <3>2, <3>3, <4>2
    <3> QED
      BY <3>4, <3>5
  <2>2. \A a \in Ws : Cardinality(v.con2symbol[a]) <= PER_WS_CODE_NUMS
    <3>1. Cardinality({}) <= PER_WS_CODE_NUMS
      BY UwsAssumption, FS_EmptySet
    <3> QED
      BY <3>1 DEF Agree, Counted
  <2>3. ASSUME NEW a \in Ws, v.allWs[a] \notin {None, Null}
        PROVE  Cardinality(v.con2symbol[a]) <= v.counts[v.allWs[a]]
    <3>1. a # lost
      BY <2>3
    <3>2. a # w
      BY <1>5, <2>3, <3>1
    <3>3. v.allWs[a] = u.allWs[a] /\ v.con2symbol[a] = u.con2symbol[a]
      BY <3>1, <3>2
    <3> QED
      BY <2>3, <3>3 DEF Agree, Counted
  <2> QED
    BY <2>1, <2>2, <2>3 DEF Counted
<1>9. PlacedBut(v, {w})
  <2>1. ToSet(v.disconWs) = {}
    BY DEF ToSet
  <2>2. ASSUME NEW a \in Ws \ v.open PROVE v.con2symbol[a] = {} /\ v.allWs[a] = None
    <3>1. a # w /\ a \notin u.open
      BY <2>2
    <3>2. a # lost => u.con2symbol[a] = {} /\ u.allWs[a] = None
      BY <3>1 DEF Agree, PlacedBut
    <3> QED
      BY <3>1, <3>2
  <2>3. ASSUME NEW a \in Ws \ {w}, v.con2symbol[a] # {} PROVE v.allWs[a] # None
    <3>1. a # lost /\ u.con2symbol[a] # {}
      BY <2>3
    <3>2. u.allWs[a] # None
      BY <3>1 DEF Agree, PlacedBut
    <3> QED
      BY <3>1, <3>2
  <2> QED
    BY <2>1, <2>2, <2>3 DEF PlacedBut
<1>10. Served(v)
  <2>1. u.subs = Serving(u.open, u.con2symbol)
    BY DEF Agree, Served
  <2>2. \A a \in u.open : v.con2symbol[a] = u.con2symbol[a]
    BY <1>1
  <2>3. v.con2symbol[w] = temp
    OBVIOUS
  <2>4. Serving(u.open \cup {w}, v.con2symbol) = Serving(u.open, u.con2symbol) \cup ({w} \X temp)
    BY <1>1, <2>2, <2>3 DEF Serving
  <2> QED
    BY <2>1, <2>4 DEF Served
<1>11. \E b \in {0, 1} : HeldBy(v, <<w, b>>) = {}
  <2>1. PICK b \in {0, 1} : P # <<w, b>>
    OBVIOUS
  <2>2. <<w, b>> \in Con /\ <<w, b>>[1] = w
    BY DEF Con
  <2>3. HeldBy(v, <<w, b>>) = {}
    <3> SUFFICES ASSUME NEW k \in Key, v.symbol2con[k] = <<w, b>> PROVE FALSE
      BY DEF HeldBy
    <3>1. v.symbol2con[k] \notin {None, Null} /\ k \notin temp
      BY <2>1, <2>2, UwsAssumption
    <3> QED
      BY <1>6, <2>2, <3>1
  <2> QED
    BY <2>3
<1> QED
  BY <1>7, <1>8, <1>9, <1>10, <1>11 DEF MapsGood

LEMMA OneAtMost ==
  ASSUME NEW S, NEW q \in Seq(S), Len(q) <= 1
  PROVE  q = <<>> \/ (q # <<>> /\ Tail(q) = <<>> /\ ToSet(q) = {Head(q)})
<1>1. CASE q = <<>>
  BY <1>1
<1>2. CASE q # <<>>
  <2>1. Len(q) \in Nat \ {0}
    BY <1>2, EmptySeq
  <2>2. Len(q) = 1
    <3>1. PICK n \in Nat : n = Len(q) /\ n # 0
      BY <2>1
    <3>2. n <= 1
      BY <3>1
    <3>3. n = 1
      BY <3>1, <3>2
    <3> QED
      BY <3>1, <3>3
  <2>3. DOMAIN q = {1}
    BY <2>2, LenProperties
  <2>4. ToSet(q) = {q[1]}
    BY <2>3 DEF ToSet
  <2>5. Head(q) = q[1]
    BY <1>2
  <2>6. Tail(q) \in Seq(S) /\ Len(Tail(q)) = 0
    BY <1>2, <2>2, HeadTailProperties
  <2>7. Tail(q) = <<>>
    BY <2>6, EmptySeq
  <2> QED
    BY <1>2, <2>4, <2>5, <2>7
<1> QED
  BY <1>1, <1>2

LEMMA ReconnectAgree ==
  ASSUME NEW u, NEW ids, Agree(u, ids), u.connecting > 0, u.disconWs # <<>>, Len(u.disconWs) <= 1,
         NEW w \in Ws \ u.open
  PROVE  Agree(OnConnection(u, w), ids)
<1>1. PICK up : up = [u EXCEPT !.open = @ \cup {w}, !.connecting = @ - 1]
  OBVIOUS
<1>2. Up(u, up, w) /\ u \in Books /\ u.disconWs \in Seq(Ws)
  BY <1>1 DEF Up, Agree, Good, Books
<1>3. /\ up \in Books /\ Good(up) /\ up.symbol2con = u.symbol2con /\ up.con2symbol = u.con2symbol
      /\ up.allWs = u.allWs /\ up.counts = u.counts /\ up.disconWs = u.disconWs /\ up.subs = u.subs
      /\ up.open = u.open \cup {w} /\ Within(up, ids)
  BY <1>2, UpFields
<1>4. u.disconWs # <<>> /\ Tail(u.disconWs) = <<>> /\ ToSet(u.disconWs) = {Head(u.disconWs)}
  BY <1>2, OneAtMost
<1>5. OnConnection(u, w) = Reconnect(up, w)
  BY <1>1, <1>4 DEF OnConnection
<1>6. PICK lost, temp, pointed, sent, left : Replaced(up, w, lost, temp, pointed, sent, left)
  BY <1>3, <1>4, ReconnectParts
<1>7. NoneNew(up, pointed) /\ Good(left) /\ lost \in Ws /\ temp \in SUBSET Key
  BY <1>3, <1>4, <1>6, ReplacedNoneNew DEF NoneNew
<1>8. /\ left \in Books /\ left.counts = up.counts /\ left.open = up.open
      /\ left.disconWs = Tail(up.disconWs) /\ left.connecting = up.connecting /\ left.subId = up.subId
      /\ left.subs = up.subs \cup ({w} \X temp)
      /\ \A a \in left.asked : a \in up.asked \/ (a[2] = up.subId /\ up.subId \notin {0, 2})
      /\ left.symbol2con = pointed.symbol2con /\ left.con2symbol = pointed.con2symbol
      /\ left.allWs = [pointed.allWs EXCEPT ![lost] = None]
  <2>1. w \in up.open /\ up.disconWs # <<>>
    BY <1>3, <1>4
  <2>2. Good(up) /\ Replaced(up, w, lost, temp, pointed, sent, left)
    BY <1>3, <1>6
  <2>3. Moved(up, w, lost, temp, pointed, left)
    BY <2>1, <2>2, ReplacedFields
  <2> QED
    BY <2>3 DEF Moved
<1>9. Within(left, ids)
  BY <1>3, <1>8 DEF Within
<1>10. lost = Head(u.disconWs) /\ temp = u.con2symbol[lost] /\ TakenOver(up, pointed, lost, w)
  BY <1>3, <1>6 DEF Replaced
<1>11. PICK P : P = IF u.allWs[w] = None /\ temp # {} THEN Null ELSE u.allWs[w]
  OBVIOUS
<1>12. /\ pointed.allWs = [u.allWs EXCEPT ![w] = P]
       /\ pointed.con2symbol = [[u.con2symbol EXCEPT ![lost] = {}] EXCEPT ![w] = temp]
       /\ pointed.symbol2con = [k \in Key |-> IF k \in temp THEN pointed.allWs[w] ELSE u.symbol2con[k]]
  BY <1>3, <1>10, <1>11 DEF TakenOver
<1>13. u.allWs \in [Ws -> Con \cup {None, Null}] /\ u.con2symbol \in [Ws -> SUBSET Key]
  BY <1>2 DEF Books
<1>14. \A a \in Ws : pointed.allWs[a] = IF a = w THEN P ELSE u.allWs[a]
  BY <1>12, <1>13
<1>15. \A a \in Ws : left.allWs[a] = IF a = lost THEN None ELSE IF a = w THEN P ELSE u.allWs[a]
  <2>1. pointed.allWs \in [Ws -> Con \cup {None, Null}]
    BY <1>7 DEF NoneNew, Good, Books
  <2> QED
    BY <1>8, <1>14, <2>1
<1>16. \A a \in Ws : left.con2symbol[a] = IF a = w THEN temp ELSE IF a = lost THEN {} ELSE u.con2symbol[a]
  <2>1. PICK f : f = [u.con2symbol EXCEPT ![lost] = {}]
    OBVIOUS
  <2>2. DOMAIN f = Ws /\ \A a \in Ws : f[a] = IF a = lost THEN {} ELSE u.con2symbol[a]
    BY <1>13, <2>1
  <2>3. left.con2symbol = [f EXCEPT ![w] = temp]
    BY <1>8, <1>12, <2>1
  <2> QED
    BY <2>2, <2>3
<1>17. \A k \in Key : left.symbol2con[k] = IF k \in temp THEN P ELSE u.symbol2con[k]
  BY <1>8, <1>12, <1>14
<1>18. /\ MapsGood(left, {w}) /\ Served(left)
       /\ left.con2symbol[w] = temp /\ \E b \in {0, 1} : HeldBy(left, <<w, b>>) = {}
  <2>1. ToSet(u.disconWs) = {lost}
    BY <1>4, <1>10
  <2>2. /\ left.disconWs = <<>> /\ left.open = u.open \cup {w} /\ left.counts = u.counts
        /\ left.subs = u.subs \cup ({w} \X temp)
    BY <1>3, <1>4, <1>8
  <2>3. Follows(u, left, lost, w, temp, P)
    BY <1>10, <1>11, <1>15, <1>16, <1>17, <2>1, <2>2 DEF Follows
  <2>4. Good(left) /\ lost \in Ws
    BY <1>7
  <2> QED
    BY <2>3, <2>4, ReplacedAgree
<1>19. Cardinality(temp) \in Nat
  BY <1>7, SymbolsCount
<1>20. Agree(Insert(left, w, Cardinality(temp)), ids)
  <2>1. w \in left.open /\ Cardinality(left.con2symbol[w]) <= Cardinality(temp)
    BY <1>3, <1>8, <1>18, <1>19
  <2> QED
    BY <1>9, <1>18, <1>19, <2>1, InsertAgree
<1> QED
  BY <1>5, <1>6, <1>20 DEF Replaced

LEMMA OnConnectionAgree ==
  ASSUME NEW u, NEW ids, Agree(u, ids), u.connecting > 0, Len(u.disconWs) <= 1, NEW w \in Ws \ u.open
  PROVE  Agree(OnConnection(u, w), ids)
BY FirstConnectAgree, ReconnectAgree

LEMMA FirstConnectFields ==
  ASSUME NEW u \in Books, u.disconWs = <<>>, NEW w \in Ws, NEW v, v = OnConnection(u, w)
  PROVE  v.open = u.open \cup {w} /\ v.disconWs = <<>> /\ v.connecting = u.connecting - 1
<1>1. PICK n, open : n = u.connecting - 1 /\ open = u.open \cup {w}
  OBVIOUS
<1>2. PICK up : up = [u EXCEPT !.open = open, !.connecting = n]
  OBVIOUS
<1>3. up = [u EXCEPT !.open = @ \cup {w}, !.connecting = @ - 1]
  BY <1>1, <1>2
<1>4. v = FirstConnect(up, w)
  BY <1>3 DEF OnConnection
<1>5. /\ up.open = open /\ up.connecting = n /\ up.disconWs = <<>>
      /\ DOMAIN up = DOMAIN u
  BY <1>2 DEF Books
<1>6. v.open = up.open /\ v.connecting = up.connecting /\ v.disconWs = up.disconWs
  <2>1. PICK c : c = NewCon(up, w)
    OBVIOUS
  <2>2. v \in {[up EXCEPT !.queryWs = w], up, [up EXCEPT !.allWs[w] = c, !.counts[c] = 0]}
    BY <1>4, <2>1 DEF FirstConnect, Insert
  <2>3. /\ [up EXCEPT !.queryWs = w].open = up.open
        /\ [up EXCEPT !.queryWs = w].connecting = up.connecting
        /\ [up EXCEPT !.queryWs = w].disconWs = up.disconWs
    BY <1>2, <1>5 DEF Books
  <2>4. /\ [up EXCEPT !.allWs[w] = c, !.counts[c] = 0].open = up.open
        /\ [up EXCEPT !.allWs[w] = c, !.counts[c] = 0].connecting = up.connecting
        /\ [up EXCEPT !.allWs[w] = c, !.counts[c] = 0].disconWs = up.disconWs
    BY <1>2, <1>5 DEF Books
  <2> QED
    BY <2>2, <2>3, <2>4
<1> QED
  BY <1>1, <1>5, <1>6

LEMMA NoTablesAgree ==
  ASSUME NEW ids
  PROVE  Agree(NoTables, ids)
<1>1. Good(NoTables)
  BY NoTablesGood
<1>2. Pointing(NoTables)
  BY DEF NoTables, Pointing
<1>3. Counted(NoTables)
  <2>1. ASSUME NEW c \in Con PROVE Cardinality(HeldBy(NoTables, c)) <= NoTables.counts[c]
    <3>1. HeldBy(NoTables, c) = {}
      BY UwsAssumption DEF NoTables, HeldBy
    <3>2. NoTables.counts[c] = 0
      BY DEF NoTables
    <3>3. Cardinality({}) = 0
      BY FS_EmptySet
    <3> QED
      BY <3>1, <3>2, <3>3
  <2>2. \A w \in Ws : Cardinality(NoTables.con2symbol[w]) <= PER_WS_CODE_NUMS
    BY FS_EmptySet, UwsAssumption DEF NoTables
  <2>3. \A w \in Ws : NoTables.allWs[w] = None
    BY DEF NoTables
  <2> QED
    BY <2>1, <2>2, <2>3 DEF Counted
<1>4. Served(NoTables)
  BY DEF NoTables, Served, Serving
<1>5. PlacedBut(NoTables, {})
  <2>1. ToSet(NoTables.disconWs) = {}
    BY DEF NoTables, ToSet
  <2>2. \A w \in Ws : NoTables.con2symbol[w] = {} /\ NoTables.allWs[w] = None
    BY DEF NoTables
  <2> QED
    BY <2>1, <2>2 DEF PlacedBut
<1>6. Within(NoTables, ids)
  BY UwsAssumption DEF NoTables, Within
<1> QED
  BY <1>1, <1>2, <1>3, <1>4, <1>5, <1>6 DEF Agree

\* The first i connections are up.
FirstUp(u, i, ids) ==
  Agree(u, ids) /\ u.open = 1..i /\ u.disconWs = <<>> /\ u.connecting = WS_SIZE - i

LEMMA StartedAgree ==
  ASSUME NEW n \in 0..WS_SIZE, NEW ids
  PROVE  FirstUp(Started(n), n, ids)
<1> DEFINE A == {v \in Books : NoneNew(NoTables, v)}
<1>1. \A v \in A : \A w \in Ws : OnConnection(v, w) \in A
  <2> SUFFICES ASSUME NEW v \in A, NEW w \in Ws PROVE OnConnection(v, w) \in A
    OBVIOUS
  <2>1. NoneNew(v, OnConnection(v, w))
    BY OnConnectionNoneNew DEF NoneNew
  <2>2. NoneNew(NoTables, OnConnection(v, w))
    BY <2>1, NoneNewTwice
  <2> QED
    BY <2>2 DEF NoneNew, Good
<1>2. NoTables \in A
  BY NoTablesGood DEF NoneNew, Good
<1> HIDE DEF A
<1>3. PICK v : v[0] = NoTables /\ v[n] = Started(n) /\ \A i \in 1..n : v[i] = OnConnection(v[i - 1], i)
  BY <1>1, <1>2, StartedRun
<1> DEFINE G == {i \in 0..n : FirstUp(v[i], i, ids)}
<1>4. n \in Nat /\ WS_SIZE \in Nat /\ n <= WS_SIZE
  BY UwsAssumption
<1>5. 0 \in G
  <2>1. FirstUp(NoTables, 0, ids)
    <3>1. NoTables.open = 1..0 /\ NoTables.disconWs = <<>> /\ NoTables.connecting = WS_SIZE - 0
      BY <1>4 DEF NoTables
    <3> QED
      BY <3>1, NoTablesAgree DEF FirstUp
  <2> QED
    BY <1>3, <1>4, <2>1
<1>6. ASSUME NEW i \in 1..n, i - 1 \in G PROVE i \in G
  <2>1. PICK a, b : a = v[i - 1] /\ b = v[i]
    OBVIOUS
  <2>2. Agree(a, ids) /\ a.open = 1..i - 1 /\ a.disconWs = <<>> /\ a.connecting = WS_SIZE - (i - 1)
    BY <1>6, <2>1 DEF FirstUp
  <2>3. b = OnConnection(a, i)
    BY <1>3, <2>1
  <2>4. i \in Ws \ a.open /\ a.connecting > 0 /\ a \in Books
    <3>1. i \in Ws
      BY <1>4, UwsAssumption DEF Ws
    <3>2. i \notin 1..i - 1
      OBVIOUS
    <3>3. a.connecting > 0
      BY <1>4, <2>2
    <3> QED
      BY <2>2, <3>1, <3>2, <3>3 DEF Agree, Good
  <2>5. Agree(b, ids)
    BY <2>2, <2>3, <2>4, FirstConnectAgree
  <2>6. b.open = a.open \cup {i} /\ b.disconWs = <<>> /\ b.connecting = a.connecting - 1
    BY <2>2, <2>3, <2>4, FirstConnectFields
  <2>7. b.open = 1..i
    <3>1. (1..i - 1) \cup {i} = 1..i
      OBVIOUS
    <3> QED
      BY <2>2, <2>6, <3>1
  <2>8. b.connecting = WS_SIZE - i
    BY <1>4, <2>2, <2>6
  <2>9. FirstUp(v[i], i, ids)
    BY <2>1, <2>5, <2>6, <2>7, <2>8 DEF FirstUp
  <2> QED
    BY <2>9
<1>7. n \in G
  <2> HIDE DEF G
  <2>1. \A i \in 0..n : i \in G
    BY <1>4, <1>5, <1>6, UpTo
  <2> QED
    BY <1>4, <2>1
<1> QED
  BY <1>3, <1>7

\* The ids that have been given out.
Issued == {3} \cup (REQ_ID_START + 1 .. reqId)

LoopTypes ==
  /\ setup \in Setups /\ faults \in 0..setup.faults
  /\ reqId \in REQ_ID_START .. REQ_ID_START + MaxReqs /\ resQue \in Seq(Issued)
  /\ isLive \in [Ctx -> BOOLEAN \cup {None}]
  /\ vecPos \in 0..Markets /\ walked \in {"no", "asked", "ready"}

\* No more than one connection is lost.
OneLost == Len(uws.disconWs) <= 1

ServerInv == LoopTypes /\ Agree(uws, Issued)

LEMMA ServerInit ==
  ASSUME Init
  PROVE  ServerInv
<1>1. setup \in Setups /\ setup.up \in 0..WS_SIZE /\ setup.faults \in Nat
  BY ConvertAssumption DEF Init, Setup
<1>2. Agree(uws, Issued)
  BY <1>1, StartedAgree DEF Init, FirstUp
<1>3. resQue \in Seq(Issued)
  <2>1. <<>> \in Seq(Issued)
    BY EmptySeq
  <2> QED
    BY <2>1 DEF Init
<1>4. LoopTypes
  BY <1>1, <1>3, ConvertAssumption DEF Init, LoopTypes
<1> QED
  BY <1>2, <1>4 DEF ServerInv

LEMMA SeqMore ==
  ASSUME NEW S, NEW T, S \subseteq T, NEW s \in Seq(S)
  PROVE  s \in Seq(T)
<1>1. Len(s) \in Nat /\ s \in [1..Len(s) -> S]
  BY LenProperties
<1>2. s \in [1..Len(s) -> T]
  BY <1>1
<1> QED
  BY <1>1, <1>2

\* A request takes the next ids.
LEMMA RequestIds ==
  ASSUME LoopTypes, NEW x, NEW n \in Nat, Request(x, n)
  PROVE  /\ reqId' \in REQ_ID_START .. REQ_ID_START + MaxReqs
         /\ Issued \subseteq Issued' /\ \A j \in 1..n : reqId + j \in Issued'
<1>1. setup.reqs \in 0..MaxReqs /\ MaxReqs \in Nat /\ REQ_ID_START \in Nat
  BY ConvertAssumption DEF LoopTypes, Setup
<1>2. reqId \in Nat /\ reqId >= REQ_ID_START /\ reqId' = reqId + n /\ reqId + n <= REQ_ID_START + setup.reqs
  BY <1>1 DEF LoopTypes, Request
<1>3. reqId' \in REQ_ID_START .. REQ_ID_START + MaxReqs
  BY <1>1, <1>2
<1>4. Issued \subseteq Issued'
  BY <1>1, <1>2 DEF Issued
<1>5. \A j \in 1..n : reqId + j \in Issued'
  BY <1>1, <1>2 DEF Issued
<1> QED
  BY <1>3, <1>4, <1>5

LEMMA IssuedAre ==
  ASSUME LoopTypes
  PROVE  Issued \subseteq Nat /\ 3 \in Issued
BY ConvertAssumption DEF LoopTypes, Issued

LEMMA LoopTypesStep ==
  ASSUME LoopTypes, Within(uws, Issued), [Next]_vars
  PROVE  LoopTypes'
<1> DEFINE Kept == UNCHANGED <<reqId, resQue, isLive, vecPos, walked>>
<1>1. CASE UNCHANGED vars
  BY <1>1 DEF vars, LoopTypes, Issued, envVars, walkVars
<1>2. ASSUME UNCHANGED setup, UNCHANGED faults, Kept PROVE LoopTypes'
  BY <1>2 DEF LoopTypes, Issued
<1>3. ASSUME UNCHANGED setup, NEW x \in Ctx, NEW n \in Nat, Request(x, n),
             UNCHANGED <<resQue, vecPos, walked, faults>>, isLive' \in [Ctx -> BOOLEAN \cup {None}]
      PROVE  LoopTypes'
  <2>1. reqId' \in REQ_ID_START .. REQ_ID_START + MaxReqs /\ Issued \subseteq Issued'
    BY <1>3, RequestIds
  <2>2. resQue' \in Seq(Issued')
    BY <1>3, <2>1, SeqMore DEF LoopTypes
  <2> QED
    BY <1>3, <2>1, <2>2 DEF LoopTypes
<1>4. ASSUME UNCHANGED setup, ClientStep PROVE LoopTypes'
  <2>1. ASSUME NEW x \in Ctx, NEW c \in Client, OnLevAccept(x, c) PROVE LoopTypes'
    BY <1>4, <2>1 DEF OnLevAccept, LoopTypes, Issued, walkVars
  <2>2. ASSUME NEW x \in Ctx, NEW keys \in SUBSET Key, Sub(x, keys) \/ Unsub(x, keys) PROVE LoopTypes'
    <3>1. PICK n \in Nat : Request(x, n)
      BY <2>2 DEF Sub, Unsub
    <3>2. UNCHANGED <<resQue, vecPos, walked, faults, isLive>>
      BY <2>2 DEF Sub, Unsub, walkVars, envVars
    <3> QED
      BY <1>3, <1>4, <3>1, <3>2 DEF LoopTypes
  <2>3. ASSUME NEW x \in Ctx, Query(x) \/ Heartbeat(x) \/ Local(x) PROVE LoopTypes'
    <3>1. Request(x, 1)
      BY <2>3 DEF Query, Heartbeat, Local
    <3>2. UNCHANGED <<resQue, vecPos, walked, faults>>
      BY <2>3 DEF Query, Heartbeat, Local, walkVars
    <3>3. isLive' \in [Ctx -> BOOLEAN \cup {None}]
      BY <2>3 DEF Query, Heartbeat, Local, envVars, LoopTypes
    <3> QED
      BY <1>3, <1>4, <3>1, <3>2, <3>3
  <2>4. ASSUME NEW x \in Ctx, OnLevDisConnect(x) PROVE LoopTypes'
    BY <1>2, <1>4, <2>4 DEF OnLevDisConnect, walkVars
  <2> QED
    BY <1>4, <2>1, <2>2, <2>3, <2>4 DEF ClientStep
<1>5. ASSUME UNCHANGED setup, HubStep PROVE LoopTypes'
  <2>1. CASE Answer
    <3>1. PICK a \in uws.asked : resQue' = Append(resQue, a[2])
      BY <2>1 DEF Answer
    <3>2. a[2] \in Issued
      BY DEF Within
    <3>3. UNCHANGED <<reqId, isLive, vecPos, walked, faults>>
      BY <2>1 DEF Answer, walkVars, envVars
    <3>4. resQue' \in Seq(Issued)
      BY <3>1, <3>2 DEF LoopTypes
    <3> QED
      BY <1>5, <3>3, <3>4 DEF LoopTypes, Issued
  <2>2. CASE Connect
    BY <1>2, <1>5, <2>2 DEF Connect, hubUnchanged, walkVars, envVars
  <2>3. CASE ConnectFails \/ Disconnect
    <3>1. Kept /\ faults < setup.faults /\ faults' = faults + 1
      BY <2>3 DEF ConnectFails, Disconnect, Fault, hubUnchanged, walkVars, envVars
    <3>2. faults' \in 0..setup.faults
      <4>1. setup.faults \in Nat
        BY ConvertAssumption DEF LoopTypes, Setup
      <4> QED
        BY <3>1, <4>1 DEF LoopTypes
    <3> QED
      BY <1>5, <3>1, <3>2 DEF LoopTypes, Issued
  <2> QED
    BY <1>5, <2>1, <2>2, <2>3 DEF HubStep
<1>6. ASSUME UNCHANGED setup, LoopStep PROVE LoopTypes'
  <2>1. CASE CheckClientAlive
    BY <1>6, <2>1 DEF CheckClientAlive, walkVars, LoopTypes, Issued
  <2>2. CASE ResubTimer
    BY <1>2, <1>6, <2>2 DEF ResubTimer, walkVars, envVars
  <2>3. CASE OnQueryInsInfoTimer
    BY <1>6, <2>3 DEF OnQueryInsInfoTimer, envVars, LoopTypes, Issued
  <2>4. CASE ProcessRes
    <3>1. UNCHANGED <<reqId, isLive, faults>> /\ resQue # <<>> /\ resQue' = Tail(resQue)
      BY <2>4 DEF ProcessRes, envVars
    <3>2. resQue' \in Seq(Issued)
      BY <3>1 DEF LoopTypes
    <3>3. vecPos' \in 0..Markets /\ walked' \in {"no", "asked", "ready"}
      BY <2>4, ConvertAssumption DEF ProcessRes, Walk, walkVars, LoopTypes
    <3> QED
      BY <1>6, <3>1, <3>2, <3>3 DEF LoopTypes, Issued
  <2> QED
    BY <1>6, <2>1, <2>2, <2>3, <2>4 DEF LoopStep
<1> QED
  BY <1>1, <1>4, <1>5, <1>6 DEF Next

LEMMA AgreeMore ==
  ASSUME NEW u, NEW ids, Agree(u, ids), NEW more, ids \subseteq more
  PROVE  Agree(u, more)
BY DEF Agree, Within

LEMMA SubAgree ==
  ASSUME ServerInv, UpstreamInv, ~uws.crashed, NEW x \in Ctx, NEW keys \in SUBSET Key, Sub(x, keys)
  PROVE  Agree(uws', Issued')
<1> DEFINE quote == keys \cap QuoteKeys # {}
           fresh == {k \in keys : type2ctxs[k] = None}
<1>1. PICK u, ids : u = (IF quote THEN SendQuery(uws, reqId + 2) ELSE uws) /\ ids = Issued'
  OBVIOUS
<1>2. PICK n \in Nat : n = (IF quote THEN 2 ELSE 1) /\ Request(x, n)
  BY DEF Sub
<1>3. Issued \subseteq ids /\ (\A j \in 1..n : reqId + j \in ids) /\ reqId' \in REQ_ID_START .. REQ_ID_START + MaxReqs
  BY <1>1, <1>2, RequestIds DEF ServerInv
<1>4. ids \subseteq Nat
  BY <1>1, <1>3, ConvertAssumption DEF Issued
<1>5. Agree(uws, ids)
  BY <1>3, AgreeMore DEF ServerInv
<1>6. reqId + 1 \in ids /\ (quote => reqId + 2 \in ids)
  BY <1>2, <1>3
<1>7. Agree(u, ids)
  BY <1>1, <1>4, <1>5, <1>6, SendQueryAgree
<1>8. NoneNew(uws, u)
  <2>1. Good(uws)
    BY DEF UpstreamInv
  <2>2. NoneNew(uws, uws)
    BY <2>1 DEF NoneNew
  <2>3. quote => NoneNew(uws, SendQuery(uws, reqId + 2))
    BY <1>4, <1>6, <2>1, SendQueryNoneNew
  <2> QED
    BY <1>1, <2>2, <2>3
<1>9. \A k \in fresh : \A w \in Ws : k \notin u.con2symbol[w]
  BY <1>8, FreshNowhere
<1>10. uws' \in SendSub(u, fresh, reqId + 1)
  BY <1>1 DEF Sub
<1>11. fresh \in SUBSET Key
  OBVIOUS
<1> HIDE DEF fresh
<1>12. Agree(uws', ids)
  BY <1>4, <1>6, <1>7, <1>9, <1>10, <1>11, SendSubAgree
<1> QED
  BY <1>1, <1>12

LEMMA UnsubAgree ==
  ASSUME ServerInv, NEW x \in Ctx, NEW keys \in SUBSET Key, Unsub(x, keys)
  PROVE  Agree(uws', Issued')
<1> DEFINE mine == {k \in keys : type2ctxs[k] # None /\ x \in type2ctxs[k]}
           last == {k \in mine : type2ctxs[k] = {x}}
<1>1. PICK ids : ids = Issued'
  OBVIOUS
<1>2. Issued \subseteq ids /\ reqId + 1 \in ids /\ reqId' \in REQ_ID_START .. REQ_ID_START + MaxReqs
  <2>1. Request(x, 1)
    BY DEF Unsub
  <2> QED
    BY <1>1, <2>1, RequestIds DEF ServerInv
<1>3. ids \subseteq Nat
  BY <1>1, <1>2, ConvertAssumption DEF Issued
<1>4. Agree(uws, ids)
  BY <1>2, AgreeMore DEF ServerInv
<1>5. uws' = SendUnsub(uws, last, reqId + 1) /\ last \in SUBSET Key
  BY DEF Unsub
<1> HIDE DEF last
<1>6. Agree(uws', ids)
  BY <1>2, <1>3, <1>4, <1>5, SendUnsubAgree
<1> QED
  BY <1>1, <1>6

\* The symbols that clients leave behind are ended under the id 2.
LEMMA LeaveAgree ==
  ASSUME ServerInv, ProxyInv, NEW xs \in SUBSET Ctx
  PROVE  Agree(Ended(xs), Issued)
<1> DEFINE ends == {k \in Held(xs) : Left(xs)[k] = {}}
<1>1. ends \in SUBSET Key
  BY DEF Held, ProxyInv, ClientsInv, ClientTypes
<1>2. Ended(xs) = SendUnsub(uws, ends, 2)
  BY DEF Ended
<1>3. Issued \subseteq Nat
  BY IssuedAre DEF ServerInv
<1> HIDE DEF ends
<1> QED
  BY <1>1, <1>2, <1>3, SendUnsubAgree DEF ServerInv

LEMMA AgreeStep ==
  ASSUME ServerInv, UpstreamInv, ProxyInv, OneLost, [Next]_vars
  PROVE  Agree(uws', Issued')
<1>1. Agree(uws, Issued) /\ Issued \subseteq Nat /\ 3 \in Issued
  BY IssuedAre DEF ServerInv
<1>2. ASSUME UNCHANGED reqId, Agree(uws', Issued) PROVE Agree(uws', Issued')
  <2>1. Issued' = Issued
    BY <1>2 DEF Issued
  <2> QED
    BY <1>2, <2>1
<1>3. ASSUME UNCHANGED <<reqId, uws>> PROVE Agree(uws', Issued')
  <2>1. Agree(uws', Issued)
    BY <1>1, <1>3
  <2> QED
    BY <1>2, <1>3, <2>1
<1>4. ASSUME ~uws.crashed, ClientStep PROVE Agree(uws', Issued')
  <2>1. CASE \E x \in Ctx, c \in Client : OnLevAccept(x, c)
    BY <1>3, <2>1 DEF OnLevAccept
  <2>2. CASE \E x \in Ctx, keys \in SUBSET Key \ {{}} : Sub(x, keys) \/ Unsub(x, keys)
    <3>1. PICK x \in Ctx, keys \in SUBSET Key : Sub(x, keys) \/ Unsub(x, keys)
      BY <2>2
    <3> QED
      BY <1>4, <3>1, SubAgree, UnsubAgree
  <2>3. ASSUME NEW x \in Ctx, Query(x) \/ Heartbeat(x) \/ Local(x) PROVE Agree(uws', Issued')
    <3>1. PICK ids : ids = Issued'
      OBVIOUS
    <3>2. Issued \subseteq ids /\ reqId + 1 \in ids /\ reqId' \in REQ_ID_START .. REQ_ID_START + MaxReqs
      <4>1. Request(x, 1)
        BY <2>3 DEF Query, Heartbeat, Local
      <4> QED
        BY <3>1, <4>1, RequestIds DEF ServerInv
    <3>3. ids \subseteq Nat
      BY <3>1, <3>2, ConvertAssumption DEF Issued
    <3>4. Agree(uws, ids)
      BY <1>1, <3>2, AgreeMore
    <3>5. uws' = uws \/ uws' = SendQuery(uws, reqId + 1)
      BY <2>3 DEF Query, Heartbeat, Local
    <3>6. Agree(uws', ids)
      BY <3>2, <3>3, <3>4, <3>5, SendQueryAgree
    <3> QED
      BY <3>1, <3>6
  <2>4. ASSUME NEW x \in Ctx, OnLevDisConnect(x) PROVE Agree(uws', Issued')
    <3>1. uws' = Ended({x}) /\ UNCHANGED reqId /\ {x} \in SUBSET Ctx
      BY <2>4 DEF OnLevDisConnect
    <3>2. Agree(Ended({x}), Issued)
      BY <3>1, LeaveAgree
    <3> QED
      BY <1>2, <3>1, <3>2
  <2> QED
    BY <1>4, <2>1, <2>2, <2>3, <2>4 DEF ClientStep
<1>5. ASSUME HubStep PROVE Agree(uws', Issued')
  <2>1. UNCHANGED reqId
    BY <1>5 DEF HubStep, Answer, Connect, ConnectFails, Disconnect, hubUnchanged
  <2>2. CASE Answer
    <3>1. PICK a \in uws.asked : uws' = [uws EXCEPT !.asked = @ \ {a}]
      BY <2>2 DEF Answer
    <3>2. Agree([uws EXCEPT !.asked = @ \ {a}], Issued)
      BY <1>1, AnsweredAgree
    <3> QED
      BY <1>2, <2>1, <3>1, <3>2
  <2>3. CASE Connect
    <3>1. PICK w \in Ws \ uws.open : uws' = OnConnection(uws, w)
      BY <2>3 DEF Connect
    <3>2. uws.connecting > 0
      BY <2>3 DEF Connect
    <3>3. Agree(OnConnection(uws, w), Issued)
      BY <1>1, <3>2, OnConnectionAgree DEF OneLost
    <3> QED
      BY <1>2, <2>1, <3>1, <3>3
  <2>4. CASE ConnectFails
    <3>1. uws' = OnError(uws) /\ uws.connecting > 0
      BY <2>4 DEF ConnectFails
    <3>2. Agree(OnError(uws), Issued)
      BY <1>1, <3>1, OnErrorAgree
    <3> QED
      BY <1>2, <2>1, <3>1, <3>2
  <2>5. CASE Disconnect
    <3>1. PICK w \in uws.open : uws' = OnDisconnection(uws, w)
      BY <2>5 DEF Disconnect
    <3>2. Agree(OnDisconnection(uws, w), Issued)
      BY <1>1, OnDisconnectionAgree
    <3> QED
      BY <1>2, <2>1, <3>1, <3>2
  <2> QED
    BY <1>5, <2>2, <2>3, <2>4, <2>5 DEF HubStep
<1>6. ASSUME LoopStep PROVE Agree(uws', Issued')
  <2>1. CASE CheckClientAlive
    <3>1. PICK dead \in SUBSET Ctx : uws' = SendHeartbeat(Ended(dead))
      BY <2>1 DEF CheckClientAlive
    <3>2. Agree(Ended(dead), Issued)
      BY LeaveAgree
    <3>3. Agree(SendHeartbeat(Ended(dead)), Issued)
      BY <3>2, SendHeartbeatAgree
    <3>4. UNCHANGED reqId
      BY <2>1 DEF CheckClientAlive
    <3> QED
      BY <1>2, <3>1, <3>3, <3>4
  <2>2. CASE ResubTimer
    <3>1. uws' = Resub(uws) /\ UNCHANGED reqId
      BY <2>2 DEF ResubTimer
    <3>2. Agree(Resub(uws), Issued)
      BY <1>1, ResubAgree
    <3> QED
      BY <1>2, <3>1, <3>2
  <2>3. CASE OnQueryInsInfoTimer \/ ProcessRes
    <3>1. uws' = SendQuery(uws, 3) \/ uws' = uws
      BY <2>3 DEF OnQueryInsInfoTimer, ProcessRes, Walk
    <3>2. UNCHANGED reqId
      BY <2>3 DEF OnQueryInsInfoTimer, ProcessRes
    <3>3. Agree(SendQuery(uws, 3), Issued)
      BY <1>1, SendQueryAgree
    <3> QED
      BY <1>1, <1>2, <3>1, <3>2, <3>3
  <2> QED
    BY <1>6, <2>1, <2>2, <2>3 DEF LoopStep
<1>7. CASE UNCHANGED vars
  BY <1>3, <1>7 DEF vars
<1> QED
  BY <1>4, <1>5, <1>6, <1>7 DEF Next

LEMMA ServerInvStep ==
  ASSUME ServerInv, UpstreamInv, ProxyInv, OneLost, [Next]_vars
  PROVE  ServerInv'
<1>1. LoopTypes'
  BY LoopTypesStep DEF ServerInv, Agree
<1>2. Agree(uws', Issued')
  BY AgreeStep
<1> QED
  BY <1>1, <1>2 DEF ServerInv

-----------------------------------------------------------------------------
(* How many connections are lost: no more than have failed                 *)

SameLost(u, v) == v.disconWs = u.disconWs

LEMMA UnsubOneLost ==
  ASSUME NEW u \in Books, NEW k, NEW id
  PROVE  SameLost(u, UnsubOne(u, k, id))
<1>1. SameLost(u, u) /\ SameLost(u, Crash(u))
  BY DEF SameLost, Crash, Books
<1>2. PICK con, counts, symbol2con, con2symbol :
         /\ con = u.symbol2con[k] /\ counts = [u.counts EXCEPT ![con] = @ - 1]
         /\ symbol2con = [u.symbol2con EXCEPT ![k] = None]
         /\ con2symbol = [u.con2symbol EXCEPT ![con[1]] = @ \ {k}]
  OBVIOUS
<1>3. PICK v : v = [u EXCEPT !.counts = counts, !.symbol2con = symbol2con, !.con2symbol = con2symbol]
  OBVIOUS
<1>4. v = [u EXCEPT !.counts[con] = @ - 1, !.symbol2con[k] = None, !.con2symbol[con[1]] = @ \ {k}]
  BY <1>2, <1>3 DEF Books
<1>5. SameLost(u, v) /\ SameLost(u, ServerUnsub(v, con[1], k, id))
  <2>1. PICK s, a : s = v.subs \ {<<con[1], k>>} /\ a = Asked(v, con[1], id)
    OBVIOUS
  <2>2. ServerUnsub(v, con[1], k, id) \in {v, [v EXCEPT !.subs = s, !.asked = a]}
    BY <2>1 DEF ServerUnsub
  <2>3. v.disconWs = u.disconWs /\ [v EXCEPT !.subs = s, !.asked = a].disconWs = u.disconWs
    BY <1>3 DEF Books
  <2> QED
    BY <2>2, <2>3 DEF SameLost
<1>6. UnsubOne(u, k, id) \in {u, Crash(u), ServerUnsub(v, con[1], k, id)}
  BY <1>2, <1>4 DEF UnsubOne
<1> QED
  BY <1>1, <1>5, <1>6

LEMMA SendUnsubLost ==
  ASSUME NEW u, Good(u), NEW keys \in SUBSET Key, NEW id \in Nat
  PROVE  SameLost(u, SendUnsub(u, keys, id))
<1> DEFINE A == {v \in Books : Carried(v) /\ SameLost(u, v)}
<1>1. u \in A
  BY DEF Good, SameLost
<1>2. \A v \in A : \A k \in keys : UnsubOne(v, k, id) \in A
  <2> SUFFICES ASSUME NEW v \in A, NEW k \in keys PROVE UnsubOne(v, k, id) \in A
    OBVIOUS
  <2>1. Unsubbed(v, UnsubOne(v, k, id), k)
    BY UnsubOneGood DEF Good
  <2>2. SameLost(v, UnsubOne(v, k, id))
    BY UnsubOneLost
  <2> QED
    BY <2>1, <2>2 DEF Unsubbed, Good, SameLost
<1>3. SendUnsub(u, keys, id) \in A
  <2> HIDE DEF A
  <2> QED
    BY <1>1, <1>2, SendUnsubRun
<1> QED
  BY <1>3

LEMMA SubRoundLost ==
  ASSUME NEW x \in Books, NEW left, NEW acc, acc = [u |-> x, left |-> left], NEW w, NEW id
  PROVE  SameLost(x, SubRound(acc, w, id).u)
<1>1. PICK con, n : con = x.allWs[w] /\ n = IF Room(con, x) < Len(left) THEN Room(con, x) ELSE Len(left)
  OBVIOUS
<1>2. PICK now : now = {left[i] : i \in 1..n}
  OBVIOUS
<1>3. PICK counts, symbol2con, con2symbol :
         /\ counts = [x.counts EXCEPT ![con] = @ + n]
         /\ symbol2con = [k \in Key |-> IF k \in now THEN con ELSE x.symbol2con[k]]
         /\ con2symbol = [x.con2symbol EXCEPT ![w] = @ \cup now]
  OBVIOUS
<1>4. PICK v : v = [x EXCEPT !.counts = counts, !.symbol2con = symbol2con, !.con2symbol = con2symbol, !.subId = id]
  OBVIOUS
<1>5. v = Given(x, w, con, now, n, id)
  BY <1>3, <1>4 DEF Books, Given
<1>6. PICK z, rest : z = (IF n = 0 THEN x ELSE ServerSub(v, w, now, id)) /\ rest = SubSeq(left, n + 1, Len(left))
  OBVIOUS
<1>7. SubRound(acc, w, id) \in {acc, [acc EXCEPT !.u = Crash(x)], [u |-> z, left |-> rest]}
  BY <1>1, <1>2, <1>5, <1>6 DEF SubRound, Given
<1>8. SubRound(acc, w, id).u \in {x, Crash(x), z}
  BY <1>7
<1>9. SameLost(x, z)
  <2>1. PICK s, a : s = v.subs \cup ({w} \X now) /\ a = Asked(v, w, id)
    OBVIOUS
  <2>2. z \in {x, v, [v EXCEPT !.subs = s, !.asked = a]}
    BY <1>6, <2>1 DEF ServerSub
  <2>3. v.disconWs = x.disconWs /\ [v EXCEPT !.subs = s, !.asked = a].disconWs = x.disconWs
    BY <1>4 DEF Books
  <2> QED
    BY <2>2, <2>3 DEF SameLost
<1>10. SameLost(x, x) /\ SameLost(x, Crash(x))
  BY DEF SameLost, Crash, Books
<1> QED
  BY <1>8, <1>9, <1>10

LEMMA SendSubLost ==
  ASSUME NEW u \in Books, Good(u), NEW keys \in SUBSET Key, NEW id \in Nat,
         \A k \in keys : \A w \in Ws : k \notin u.con2symbol[w],
         NEW x \in SendSub(u, keys, id)
  PROVE  SameLost(u, x)
<1> DEFINE A == {acc \in [u : Books, left : Seq(keys)] : Subscribing(u, acc, keys) /\ SameLost(u, acc.u)}
<1>1. SubKept(u, id, A)
  <2> SUFFICES ASSUME NEW acc \in A, NEW w \in Registered(u) PROVE SubRound(acc, w, id) \in A
    BY DEF SubKept
  <2>1. Subscribing(u, SubRound(acc, w, id), keys)
    BY SubRoundKeeps
  <2>2. acc = [u |-> acc.u, left |-> acc.left] /\ acc.u \in Books
    OBVIOUS
  <2>3. SameLost(acc.u, SubRound(acc, w, id).u)
    BY <2>2, SubRoundLost
  <2> QED
    BY <2>1, <2>3 DEF Subscribing, SameLost
<1>2. ASSUME NEW m \in Nat, NEW ks \in [1..m -> keys], \A i, j \in 1..m : i # j => ks[i] # ks[j]
      PROVE  [u |-> u, left |-> ks] \in A
  <2>1. ks \in Seq(keys) /\ Len(ks) = m
    OBVIOUS
  <2>2. PICK first : first = [u |-> u, left |-> ks]
    OBVIOUS
  <2>3. first \in [u : Books, left : Seq(keys)] /\ first.u = u /\ first.left = ks
    BY <2>1, <2>2
  <2>4. \A i \in 1..m : \A w \in Ws : ks[i] \notin u.con2symbol[w]
    OBVIOUS
  <2>5. Subscribing(u, first, keys)
    BY <1>2, <2>1, <2>3, <2>4 DEF Subscribing, Good
  <2> QED
    BY <2>2, <2>3, <2>5 DEF SameLost
<1> HIDE DEF A
<1>3. \E acc \in A : x = acc.u
  <2>1. SubFirst(u, keys, A)
    BY <1>2 DEF SubFirst
  <2> QED
    BY <1>1, <2>1, SendSubRun
<1> QED
  BY <1>3 DEF A

LEMMA SendQueryLost ==
  ASSUME NEW u \in Books, NEW id
  PROVE  SameLost(u, SendQuery(u, id))
<1>1. PICK v, a : a = Asked(u, u.queryWs, id) /\ v = [u EXCEPT !.asked = a]
  OBVIOUS
<1>2. SendQuery(u, id) \in {u, v}
  BY <1>1 DEF SendQuery
<1>3. v.disconWs = u.disconWs
  BY <1>1 DEF Books
<1> QED
  BY <1>2, <1>3 DEF SameLost

LEMMA SendHeartbeatLost ==
  ASSUME NEW u \in Books
  PROVE  SameLost(u, SendHeartbeat(u))
BY DEF SendHeartbeat, SameLost, Crash, Books

LEMMA ResubLost ==
  ASSUME NEW u \in Books
  PROVE  SameLost(u, Resub(u))
<1> DEFINE held == {k \in Key : u.symbol2con[k] # None}
<1>1. PICK v, s : /\ s = u.subs \cup {<<u.symbol2con[k][1], k>> : k \in {j \in held : u.symbol2con[j][1] \in u.open}}
                  /\ v = [u EXCEPT !.subs = s]
  OBVIOUS
<1>2. Resub(u) \in {Crash(u), v}
  BY <1>1 DEF Resub
<1>3. v.disconWs = u.disconWs /\ Crash(u).disconWs = u.disconWs
  BY <1>1 DEF Books, Crash
<1> QED
  BY <1>2, <1>3 DEF SameLost

LEMMA OnErrorLost ==
  ASSUME NEW u \in Books
  PROVE  SameLost(u, OnError(u))
<1>1. PICK n : n = u.connecting - 1
  OBVIOUS
<1>2. OnError(u) = [u EXCEPT !.connecting = n]
  BY <1>1 DEF OnError
<1> QED
  BY <1>2 DEF SameLost, Books

LEMMA AnsweredLost ==
  ASSUME NEW u \in Books, NEW a
  PROVE  SameLost(u, [u EXCEPT !.asked = @ \ {a}])
BY DEF SameLost, Books

LEMMA InsertLost ==
  ASSUME NEW u \in Books, NEW w, NEW n
  PROVE  SameLost(u, Insert(u, w, n))
<1>1. PICK c, all, counts : /\ c = NewCon(u, w) /\ all = [u.allWs EXCEPT ![w] = c]
                            /\ counts = [u.counts EXCEPT ![c] = n]
  OBVIOUS
<1>2. PICK v : v = [u EXCEPT !.allWs = all, !.counts = counts]
  OBVIOUS
<1>3. v = [u EXCEPT !.allWs[w] = c, !.counts[c] = n]
  BY <1>1, <1>2 DEF Books
<1>4. Insert(u, w, n) \in {u, v}
  BY <1>1, <1>3 DEF Insert
<1>5. v.disconWs = u.disconWs
  BY <1>2 DEF Books
<1> QED
  BY <1>4, <1>5 DEF SameLost

LEMMA TailShorter ==
  ASSUME NEW S, NEW q \in Seq(S), q # <<>>, NEW n \in Nat, Len(q) <= n
  PROVE  Len(Tail(q)) <= n
<1>1. Len(q) \in Nat /\ Len(Tail(q)) = Len(q) - 1
  BY HeadTailProperties, LenProperties
<1>2. PICK m \in Nat : m = Len(q)
  BY <1>1
<1> QED
  BY <1>1, <1>2

LEMMA AppendLonger ==
  ASSUME NEW S, NEW q \in Seq(S), NEW e \in S, NEW n \in Nat, Len(q) <= n
  PROVE  Len(Append(q, e)) <= n + 1
<1>1. Len(q) \in Nat /\ Len(Append(q, e)) = Len(q) + 1
  BY AppendProperties, LenProperties
<1>2. PICK m \in Nat : m = Len(q)
  BY <1>1
<1> QED
  BY <1>1, <1>2

\* A connection that comes takes the place of a lost one, if there is one.
LEMMA OnConnectionLost ==
  ASSUME NEW u, NEW ids, Agree(u, ids), u.connecting > 0, NEW w \in Ws \ u.open,
         NEW n \in Nat, Len(u.disconWs) <= n
  PROVE  Len(OnConnection(u, w).disconWs) <= n
<1>1. u \in Books /\ u.disconWs \in Seq(Ws)
  BY DEF Agree, Good, Books
<1>2. CASE u.disconWs = <<>>
  <2>1. OnConnection(u, w).disconWs = u.disconWs
    BY <1>1, <1>2, FirstConnectFields
  <2> QED
    BY <2>1
<1>3. CASE u.disconWs # <<>>
  <2>1. PICK up : up = [u EXCEPT !.open = @ \cup {w}, !.connecting = @ - 1]
    OBVIOUS
  <2>2. Up(u, up, w)
    BY <2>1 DEF Up
  <2>3. Good(up) /\ up.disconWs = u.disconWs /\ up.open = u.open \cup {w}
    BY <2>2, UpFields
  <2>4. OnConnection(u, w) = Reconnect(up, w)
    BY <1>3, <2>1 DEF OnConnection
  <2>5. w \in up.open /\ up.disconWs # <<>>
    BY <1>3, <2>3
  <2>6. PICK lost, temp, pointed, sent, left : Replaced(up, w, lost, temp, pointed, sent, left)
    BY <2>3, <2>5, ReconnectParts
  <2>7. Moved(up, w, lost, temp, pointed, left)
    BY <2>3, <2>5, <2>6, ReplacedFields
  <2>8. left \in Books /\ left.disconWs = Tail(u.disconWs)
    BY <2>3, <2>7 DEF Moved
  <2>9. Reconnect(up, w) = Insert(left, w, Cardinality(temp))
    BY <2>6 DEF Replaced
  <2>10. OnConnection(u, w).disconWs = Tail(u.disconWs)
    BY <2>4, <2>8, <2>9, InsertLost DEF SameLost
  <2>11. Len(Tail(u.disconWs)) <= n
    <3>1. PICK q \in Seq(Ws) : q = u.disconWs
      BY <1>1
    <3>2. Len(Tail(q)) <= n
      BY <1>3, <3>1, TailShorter
    <3> QED
      BY <3>1, <3>2
  <2> QED
    BY <2>10, <2>11
<1> QED
  BY <1>2, <1>3

LEMMA OnDisconnectionLost ==
  ASSUME NEW u \in Books, NEW w \in u.open, NEW n \in Nat, Len(u.disconWs) <= n
  PROVE  Len(OnDisconnection(u, w).disconWs) <= n + 1
<1>1. PICK open, discon, connecting, subs, asked :
         /\ open = u.open \ {w} /\ discon = Append(u.disconWs, w) /\ connecting = u.connecting + 1
         /\ subs = {s \in u.subs : s[1] # w} /\ asked = {a \in u.asked : a[1] # w}
  OBVIOUS
<1>2. PICK v : v = [u EXCEPT !.open = open, !.disconWs = discon, !.connecting = connecting,
                             !.subs = subs, !.asked = asked]
  OBVIOUS
<1>3. v = OnDisconnection(u, w)
  BY <1>1, <1>2 DEF OnDisconnection, Books
<1>4. v.disconWs = discon
  BY <1>2 DEF Books
<1>5. PICK q \in Seq(Ws) : q = u.disconWs /\ w \in Ws
  BY DEF Books
<1>6. Len(Append(q, w)) <= n + 1
  BY <1>5, AppendLonger
<1> QED
  BY <1>1, <1>3, <1>4, <1>5, <1>6

LostFew == Len(uws.disconWs) <= faults

LEMMA LostFewInit ==
  ASSUME Init
  PROVE  LostFew
<1>1. setup.up \in 0..WS_SIZE
  BY ConvertAssumption DEF Init, Setup
<1>2. uws.disconWs = <<>>
  BY <1>1, StartedAgree DEF Init, FirstUp
<1>3. Len(<<>>) = 0
  OBVIOUS
<1> QED
  BY <1>2, <1>3 DEF Init, LostFew

LEMMA SubLost ==
  ASSUME ServerInv, UpstreamInv, ~uws.crashed, NEW x \in Ctx, NEW keys \in SUBSET Key, Sub(x, keys)
  PROVE  SameLost(uws, uws')
<1> DEFINE quote == keys \cap QuoteKeys # {}
           fresh == {k \in keys : type2ctxs[k] = None}
<1>1. PICK u : u = (IF quote THEN SendQuery(uws, reqId + 2) ELSE uws)
  OBVIOUS
<1>2. reqId + 1 \in Nat /\ reqId + 2 \in Nat
  BY ConvertAssumption DEF ServerInv, LoopTypes
<1>3. Good(uws) /\ uws \in Books
  BY DEF UpstreamInv, Good
<1>4. NoneNew(uws, u)
  <2>1. NoneNew(uws, uws)
    BY <1>3 DEF NoneNew
  <2>2. NoneNew(uws, SendQuery(uws, reqId + 2))
    BY <1>2, <1>3, SendQueryNoneNew
  <2> QED
    BY <1>1, <2>1, <2>2
<1>5. SameLost(uws, u)
  BY <1>1, <1>3, SendQueryLost DEF SameLost
<1>6. \A k \in fresh : \A w \in Ws : k \notin u.con2symbol[w]
  BY <1>4, FreshNowhere
<1>7. uws' \in SendSub(u, fresh, reqId + 1) /\ fresh \in SUBSET Key
  BY <1>1 DEF Sub
<1>8. Good(u) /\ u \in Books
  BY <1>4 DEF NoneNew, Good
<1> HIDE DEF fresh
<1>9. SameLost(u, uws')
  BY <1>2, <1>6, <1>7, <1>8, SendSubLost
<1> QED
  BY <1>5, <1>9 DEF SameLost

LEMMA EndedLost ==
  ASSUME UpstreamInv, ProxyInv, NEW xs \in SUBSET Ctx
  PROVE  SameLost(uws, Ended(xs))
<1> DEFINE ends == {k \in Held(xs) : Left(xs)[k] = {}}
<1>1. ends \in SUBSET Key
  BY DEF Held, ProxyInv, ClientsInv, ClientTypes
<1>2. Ended(xs) = SendUnsub(uws, ends, 2)
  BY DEF Ended
<1> HIDE DEF ends
<1> QED
  BY <1>1, <1>2, SendUnsubLost DEF UpstreamInv

LEMMA LostFewStep ==
  ASSUME LostFew, ServerInv, UpstreamInv, ProxyInv, [Next]_vars
  PROVE  LostFew'
<1>1. Good(uws) /\ uws \in Books /\ Agree(uws, Issued) /\ faults \in Nat /\ reqId + 1 \in Nat
  BY ConvertAssumption DEF UpstreamInv, Good, ServerInv, LoopTypes
<1>2. ASSUME SameLost(uws, uws'), UNCHANGED faults PROVE LostFew'
  BY <1>2 DEF SameLost, LostFew
<1>3. ASSUME UNCHANGED <<uws, faults>> PROVE LostFew'
  BY <1>3 DEF LostFew
<1>4. ASSUME ~uws.crashed, ClientStep PROVE LostFew'
  <2>1. UNCHANGED faults
    BY <1>4 DEF ClientStep, OnLevAccept, Sub, Unsub, Query, Heartbeat, Local, OnLevDisConnect
  <2>2. CASE \E x \in Ctx, c \in Client : OnLevAccept(x, c)
    BY <1>3, <2>1, <2>2 DEF OnLevAccept
  <2>3. CASE \E x \in Ctx, keys \in SUBSET Key \ {{}} : Sub(x, keys) \/ Unsub(x, keys)
    <3>1. PICK x \in Ctx, keys \in SUBSET Key : Sub(x, keys) \/ Unsub(x, keys)
      BY <2>3
    <3>2. CASE Sub(x, keys)
      BY <1>2, <1>4, <2>1, <3>2, SubLost
    <3>3. CASE Unsub(x, keys)
      <4>1. PICK last \in SUBSET Key : uws' = SendUnsub(uws, last, reqId + 1)
        <5> DEFINE mine == {k \in keys : type2ctxs[k] # None /\ x \in type2ctxs[k]}
                   last == {k \in mine : type2ctxs[k] = {x}}
        <5>1. uws' = SendUnsub(uws, last, reqId + 1) /\ last \in SUBSET Key
          BY <3>3 DEF Unsub
        <5> HIDE DEF last
        <5> QED
          BY <5>1
      <4>2. SameLost(uws, uws')
        BY <1>1, <4>1, SendUnsubLost
      <4> QED
        BY <1>2, <2>1, <4>2
    <3> QED
      BY <3>1, <3>2, <3>3
  <2>4. ASSUME NEW x \in Ctx, Query(x) \/ Heartbeat(x) \/ Local(x) PROVE LostFew'
    <3>1. uws' = uws \/ uws' = SendQuery(uws, reqId + 1)
      BY <2>4 DEF Query, Heartbeat, Local
    <3>2. SameLost(uws, uws')
      BY <1>1, <3>1, SendQueryLost DEF SameLost
    <3> QED
      BY <1>2, <2>1, <3>2
  <2>5. ASSUME NEW x \in Ctx, OnLevDisConnect(x) PROVE LostFew'
    <3>1. uws' = Ended({x}) /\ {x} \in SUBSET Ctx
      BY <2>5 DEF OnLevDisConnect
    <3>2. SameLost(uws, Ended({x}))
      BY <3>1, EndedLost
    <3> QED
      BY <1>2, <2>1, <3>1, <3>2
  <2> QED
    BY <1>4, <2>2, <2>3, <2>4, <2>5 DEF ClientStep
<1>5. ASSUME HubStep PROVE LostFew'
  <2>1. CASE Answer
    <3>1. PICK a \in uws.asked : uws' = [uws EXCEPT !.asked = @ \ {a}]
      BY <2>1 DEF Answer
    <3>2. SameLost(uws, uws') /\ UNCHANGED faults
      BY <1>1, <2>1, <3>1, AnsweredLost DEF Answer, envVars, histVars
    <3> QED
      BY <1>2, <3>2
  <2>2. CASE Connect
    <3>1. PICK w \in Ws \ uws.open : uws' = OnConnection(uws, w)
      BY <2>2 DEF Connect
    <3>2. uws.connecting > 0 /\ UNCHANGED faults
      BY <2>2 DEF Connect
    <3>3. Len(OnConnection(uws, w).disconWs) <= faults
      BY <1>1, <3>2, OnConnectionLost DEF LostFew
    <3> QED
      BY <3>1, <3>2, <3>3 DEF LostFew
  <2>3. CASE ConnectFails
    <3>1. uws' = OnError(uws) /\ faults' = faults + 1
      BY <2>3 DEF ConnectFails, Fault
    <3>2. SameLost(uws, OnError(uws))
      BY <1>1, OnErrorLost
    <3>3. uws'.disconWs = uws.disconWs
      BY <3>1, <3>2 DEF SameLost
    <3>4. Len(uws.disconWs) \in Nat
      <4>1. PICK q \in Seq(Ws) : q = uws.disconWs
        BY <1>1 DEF Books
      <4> QED
        BY <4>1, LenProperties
    <3>5. Len(uws.disconWs) <= faults + 1
      <4>1. PICK n \in Nat : n = Len(uws.disconWs)
        BY <3>4
      <4> QED
        BY <1>1, <4>1 DEF LostFew
    <3> QED
      BY <3>1, <3>3, <3>5 DEF LostFew
  <2>4. CASE Disconnect
    <3>1. PICK w \in uws.open : uws' = OnDisconnection(uws, w)
      BY <2>4 DEF Disconnect
    <3>2. faults' = faults + 1
      BY <2>4 DEF Disconnect, Fault
    <3>3. Len(OnDisconnection(uws, w).disconWs) <= faults + 1
      BY <1>1, OnDisconnectionLost DEF LostFew
    <3> QED
      BY <3>1, <3>2, <3>3 DEF LostFew
  <2> QED
    BY <1>5, <2>1, <2>2, <2>3, <2>4 DEF HubStep
<1>6. ASSUME LoopStep PROVE LostFew'
  <2>1. CASE CheckClientAlive
    <3>1. PICK dead \in SUBSET Ctx : uws' = SendHeartbeat(Ended(dead))
      BY <2>1 DEF CheckClientAlive
    <3>2. SameLost(uws, Ended(dead))
      BY EndedLost
    <3>3. Ended(dead) \in Books
      BY LeaveAgree DEF ServerInv, Agree, Good
    <3>4. SameLost(uws, uws')
      BY <3>1, <3>2, <3>3, SendHeartbeatLost DEF SameLost
    <3>5. UNCHANGED faults
      BY <2>1 DEF CheckClientAlive
    <3> QED
      BY <1>2, <3>4, <3>5
  <2>2. CASE ResubTimer
    <3>1. uws' = Resub(uws) /\ UNCHANGED faults
      BY <2>2 DEF ResubTimer
    <3> QED
      BY <1>1, <1>2, <3>1, ResubLost
  <2>3. CASE OnQueryInsInfoTimer \/ ProcessRes
    <3>1. uws' = SendQuery(uws, 3) \/ uws' = uws
      BY <2>3 DEF OnQueryInsInfoTimer, ProcessRes, Walk
    <3>2. UNCHANGED faults
      BY <2>3 DEF OnQueryInsInfoTimer, ProcessRes
    <3>3. SameLost(uws, uws')
      BY <1>1, <3>1, SendQueryLost DEF SameLost
    <3> QED
      BY <1>2, <3>2, <3>3
  <2> QED
    BY <1>6, <2>1, <2>2, <2>3 DEF LoopStep
<1>7. CASE UNCHANGED vars
  BY <1>3, <1>7 DEF vars
<1> QED
  BY <1>4, <1>5, <1>6, <1>7 DEF Next

\* What the invariant says of the tables, in the words of the property.
LEMMA TablesTyped ==
  ASSUME NEW u, NEW ids, Agree(u, ids)
  PROVE  u \in Tables
<1>1. u \in Books /\ u.connecting \in Nat
  BY DEF Agree, Good, Within
<1>2. u.counts \in [Con -> Nat]
  <2>1. ASSUME NEW con \in Con PROVE u.counts[con] \in Nat
    <3>1. Cardinality(HeldBy(u, con)) \in Nat /\ Cardinality(HeldBy(u, con)) <= u.counts[con]
      BY SymbolsCount DEF Agree, Counted, HeldBy
    <3>2. u.counts[con] \in Int
      BY <1>1 DEF Books
    <3> QED
      BY <3>1, <3>2
  <2>2. u.counts \in [Con -> Int]
    BY <1>1 DEF Books
  <2> QED
    BY <2>1, <2>2
<1> QED
  BY <1>1, <1>2 DEF Books, Tables

LEMMA TypesAgree ==
  ASSUME ServerInv, ProxyInv
  PROVE  TypeOK
<1>1. uws \in Tables
  BY TablesTyped DEF ServerInv
<1>2. ToSet(resQue) \subseteq {3} \cup REQ_ID_START + 1 .. reqId
  <2>1. resQue \in Seq(Issued)
    BY DEF ServerInv, LoopTypes
  <2>2. ToSet(resQue) \subseteq Issued
    BY <2>1 DEF ToSet
  <2> QED
    BY <2>2 DEF Issued
<1>3. /\ setup \in Setups /\ reqId \in REQ_ID_START .. REQ_ID_START + MaxReqs
      /\ isLive \in [Ctx -> BOOLEAN \cup {None}]
      /\ vecPos \in 0..Markets /\ walked \in {"no", "asked", "ready"} /\ faults \in 0..setup.faults
  BY DEF ServerInv, LoopTypes
<1>4. /\ type2ctxs \in [Key -> {None} \cup SUBSET Ctx] /\ ctx2type \in [Ctx -> SUBSET Key]
      /\ client \in [Ctx -> Client \cup {None}] /\ gone \subseteq Client
      /\ wants \in [Client -> SUBSET Key]
  BY DEF ProxyInv, ClientsInv, ClientTypes
<1>5. /\ id2ctx \in [Id -> Ctx \cup {None}] /\ asker \in [Id -> Client \cup {None}]
      /\ replies \in [Id -> Nat]
  BY DEF ProxyInv, RequestTypes
<1> QED
  BY <1>1, <1>2, <1>3, <1>4, <1>5 DEF TypeOK

LEMMA ServerInvAgrees ==
  ASSUME ServerInv, ProxyInv
  PROVE  ServerAgrees
<1>1. Agree(uws, Issued) /\ uws \in Books
  BY DEF ServerInv, Agree, Good
<1>2. uws.subs = {s \in uws.open \X Key : s[2] \in uws.con2symbol[s[1]]}
  BY <1>1 DEF Agree, Served, Serving
<1>3. ASSUME NEW w \in Ws PROVE Cardinality({k \in Key : <<w, k>> \in uws.subs}) <= PER_WS_CODE_NUMS
  <2>1. PICK K, C : K = {k \in Key : <<w, k>> \in uws.subs} /\ C = uws.con2symbol[w]
    OBVIOUS
  <2>2. C \in SUBSET Key
    BY <1>1, <2>1 DEF Books
  <2>3. K \subseteq C
    BY <1>2, <2>1
  <2>4. IsFiniteSet(C) /\ Cardinality(K) <= Cardinality(C)
    BY <2>2, <2>3, UwsAssumption, FS_Subset
  <2>5. Cardinality(C) <= PER_WS_CODE_NUMS
    BY <1>1, <2>1 DEF Agree, Counted
  <2>6. Cardinality(K) \in Nat /\ Cardinality(C) \in Nat /\ PER_WS_CODE_NUMS \in Nat
    BY <2>2, <2>3, UwsAssumption, SymbolsCount
  <2>7. Cardinality(K) <= PER_WS_CODE_NUMS
    BY <2>4, <2>5, <2>6
  <2> QED
    BY <2>1, <2>7
<1>4. ASSUME NEW k \in Key, uws.symbol2con[k] \notin {None, Null}
      PROVE  k \in uws.con2symbol[uws.symbol2con[k][1]]
  BY <1>1, <1>4 DEF Agree, Pointing
<1> QED
  BY <1>2, <1>3, <1>4, TypesAgree DEF ServerAgrees

-----------------------------------------------------------------------------
(* The theorems                                                            *)

LEMMA ProxyAlways == Spec => []ProxyInv
  <1>1. Init => ProxyInv  BY ClientsInit, IdsInit DEF ProxyInv
  <1>2. ProxyInv /\ [Next]_vars => ProxyInv'  BY ClientsStep, IdsStep DEF ProxyInv
  <1> QED  BY <1>1, <1>2, PTL DEF Spec

\* A push reaches the clients that have subscribed its symbol and no others: a context
\* that serves another client later (OnLevAccept) is in no set of m_type2ctxsMap, because
\* the Close of its last client went over all the symbols m_ctx2typeMap has kept.
THEOREM RoutingAlways == Spec => []Routing
  <1>1. ProxyInv => Routing
    <2> SUFFICES ASSUME ProxyInv, NEW k \in Key
                 PROVE  Receivers(k) = {c \in Connected : k \in wants[c]}
      BY DEF Routing
    <2> USE DEF ProxyInv, ClientsInv
    <2>1. ASSUME NEW x \in Ctx, Serves(k, x)
          PROVE  client[x] \in Connected /\ k \in wants[client[x]]
      BY <2>1 DEF MapsAgree, Connected
    <2>2. ASSUME NEW x \in Ctx, client[x] # None, k \in wants[client[x]]
          PROVE  Serves(k, x)
      BY <2>2 DEF MapsAgree
    <2>3. ASSUME NEW c PROVE c \in Receivers(k) <=>
                               \E x \in Ctx : Serves(k, x) /\ c = client[x] /\ c # None
      BY DEF Receivers, Serves, ClientTypes
    <2>4. ASSUME NEW c PROVE c \in Connected <=>
                               \E x \in Ctx : c = client[x] /\ c # None
      BY DEF Connected
    <2>5. ASSUME NEW c PROVE c \in Receivers(k) <=> c \in Connected /\ k \in wants[c]
      BY <2>1, <2>2, <2>3, <2>4
    <2> QED  BY <2>5
  <1> QED  BY <1>1, ProxyAlways, PTL

\* An answer is forwarded once (ProcessRes takes its id out of m_id2ctxMap), and an id that
\* waits stands for the client that asked while that one is connected.
THEOREM RepliesAlways == Spec => []Replies
  <1>1. ProxyInv => Replies  BY DEF ProxyInv, IdsAgree, Replies
  <1> QED  BY <1>1, ProxyAlways, PTL

\* The proxy keeps upstream what a client has subscribed and nothing else: the Unsub or Close
\* of the last subscriber ends a symbol before the next handler runs, and a connection that
\* is lost and replaced, at whatever address and with others lost at the time, takes no
\* symbol of another connection over.
THEOREM UpstreamWantedAlways == Spec => []UpstreamWanted
  <1>1. Init => UpstreamInv  BY UpstreamInit
  <1>2. UpstreamInv /\ ProxyInv /\ [Next]_vars => UpstreamInv'  BY UpstreamStep
  <1>3. UpstreamInv /\ ProxyInv => UpstreamWanted
    <2> SUFFICES ASSUME UpstreamInv, ProxyInv, ~uws.crashed
                 PROVE  (\A k \in Key : uws.symbol2con[k] # None => Receivers(k) # {}) /\ Carried(uws)
      BY DEF UpstreamWanted
    <2>1. ASSUME NEW k \in Key, uws.symbol2con[k] # None PROVE Receivers(k) # {}
      <3>1. PICK x \in Ctx : Serves(k, x)
        BY <2>1 DEF UpstreamInv
      <3>2. client[x] # None
        BY <3>1 DEF ProxyInv, ClientsInv, MapsAgree
      <3>3. client[x] \in Receivers(k)
        BY <3>1, <3>2 DEF Receivers, Serves
      <3> QED
        BY <3>3
    <2> QED
      BY <2>1 DEF UpstreamInv, Good
  <1> QED  BY <1>1, <1>2, <1>3, ProxyAlways, PTL DEF Spec
\* The three accounts of a subscription (the server's, m_con2symbolMap and m_symbol2conMap)
\* agree and no connection carries more than PER_WS_CODE_NUMS symbols, through any number of
\* faults, as long as no connection is lost while another is: then the address of the new one
\* (onConnection) is that of the lost one, or has left nothing in the maps.
THEOREM ServerAgreesOneLost == Spec /\ []OneLost => []ServerAgrees
  <1>1. Init => ServerInv /\ UpstreamInv  BY ServerInit, UpstreamInit
  <1>2. UpstreamInv /\ ProxyInv /\ [Next]_vars => UpstreamInv'  BY UpstreamStep
  <1>3. ServerInv /\ UpstreamInv /\ ProxyInv /\ OneLost /\ [Next]_vars => ServerInv'  BY ServerInvStep
  <1>4. ServerInv /\ ProxyInv => ServerAgrees  BY ServerInvAgrees
  <1> QED  BY <1>1, <1>2, <1>3, <1>4, ProxyAlways, PTL DEF Spec

\* With one fault (Disconnect or ConnectFails), as in the runs, that is every behaviour: a
\* connection is in disconWsQue only after its onDisconnection.
THEOREM ServerAgreesAlways ==
  ASSUME \A s \in Setups : s.faults <= 1
  PROVE  Spec => []ServerAgrees
  <1>1. Init => ServerInv /\ UpstreamInv /\ LostFew  BY ServerInit, UpstreamInit, LostFewInit
  <1>2. UpstreamInv /\ ProxyInv /\ [Next]_vars => UpstreamInv'  BY UpstreamStep
  <1>3. ServerInv /\ LostFew /\ UpstreamInv => OneLost
    <2> SUFFICES ASSUME ServerInv, LostFew, UpstreamInv PROVE OneLost
      OBVIOUS
    <2>1. setup.faults \in Nat /\ setup.faults <= 1 /\ faults \in 0..setup.faults
      BY ConvertAssumption DEF ServerInv, LoopTypes, Setup
    <2>2. PICK q \in Seq(Ws) : q = uws.disconWs
      BY DEF UpstreamInv, Good, Books
    <2>3. PICK n \in Nat : n = Len(q)
      BY <2>2, LenProperties
    <2>4. n <= faults
      BY <2>2, <2>3 DEF LostFew
    <2>5. n <= 1
      BY <2>1, <2>3, <2>4
    <2> QED  BY <2>2, <2>3, <2>5 DEF OneLost
  <1>4. ServerInv /\ UpstreamInv /\ ProxyInv /\ OneLost /\ [Next]_vars => ServerInv'  BY ServerInvStep
  <1>5. LostFew /\ ServerInv /\ UpstreamInv /\ ProxyInv /\ [Next]_vars => LostFew'  BY LostFewStep
  <1>6. ServerInv /\ ProxyInv => ServerAgrees  BY ServerInvAgrees
  <1> QED  BY <1>1, <1>2, <1>3, <1>4, <1>5, <1>6, ProxyAlways, PTL DEF Spec
=============================================================================
