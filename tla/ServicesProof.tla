---------------------------- MODULE ServicesProof ----------------------------
(***************************************************************************)
(* What the wrappers and servers promise, each for any number of its       *)
(* processes, messages, commands, reads or clients and any faults; then    *)
(* the safety properties of Services, which are theirs together.           *)
(***************************************************************************)
EXTENDS Services, SequenceTheorems, FiniteSetTheorems, NaturalsInduction, TLAPS

-----------------------------------------------------------------------------
(* Kafka: the inductive invariant                                          *)

Report == [data : Nat, err : BOOLEAN, msg : Nat]

Producer == [st : {"new", "running", "flushing", "closed"}, keeps : BOOLEAN,
             out : Seq(Nat), done : Seq(Report)]
Consumer == [st : {"new", "running"}, next : Nat, committed : Nat, starts : Nat]

KafkaTypes ==
    /\ producer \in Producer /\ consumer \in Consumer
    /\ buffer \in Seq(Nat) /\ topic \in Seq(Nat)
    /\ reports \in Seq(Report) /\ consumed \in Seq(Nat)

\* The reports made and those that wait for the poll; a message has one or is waiting.
Reports == reports \o producer.done
OneAccount ==
    /\ \A i \in DOMAIN Reports : Reports[i].data \in DOMAIN buffer
    /\ \A i, j \in DOMAIN Reports : Reports[i].data = Reports[j].data => i = j
    /\ \A i \in DOMAIN producer.out : producer.out[i] \in DOMAIN buffer
    /\ \A i, j \in DOMAIN producer.out : producer.out[i] = producer.out[j] => i = j
    /\ \A i \in DOMAIN producer.out, j \in DOMAIN Reports : producer.out[i] # Reports[j].data
    /\ producer.st # "closed" =>
           \A n \in DOMAIN buffer : \/ \E i \in DOMAIN producer.out : producer.out[i] = n
                                    \/ \E i \in DOMAIN Reports : Reports[i].data = n

\* All messages before n were consumed.
Passed(n) == n = 1 \/ \E j \in DOMAIN consumed : consumed[j] >= n - 1

KafkaInv ==
    /\ KafkaTypes /\ OneAccount
    /\ Passed(consumer.next) /\ Passed(consumer.committed) /\ NoneSkipped

-----------------------------------------------------------------------------
(* ZooKeeper: the inductive invariant                                      *)

CreateReq(level) == [kind |-> "create", level |-> level]
ChildrenReq == [kind |-> "children", level |-> 0]
Request == {CreateReq(level) : level \in 1 .. Levels} \cup {ChildrenReq}
SessionMsg == [kind |-> "session"]
ChildMsg == [kind |-> "child"]
CreateMsg(rc) == [kind |-> "create", rc |-> rc]
ChildrenMsg(list) == [kind |-> "children", list |-> list]
\* No level is ever asked for before the one above it exists: no answer is ZNONODE.
Msg == {SessionMsg, ChildMsg} \cup {CreateMsg(rc) : rc \in {"ZOK", "ZNODEEXISTS"}}
       \cup {ChildrenMsg(list) : list \in SUBSET Process}

Contender == [running : BOOLEAN, handle : {"null", "connecting", "connected"}, session : Nat,
              created : 0 .. Levels, all : BOOLEAN, mode : {"none", "MASTER", "SLAVE"},
              timer : BOOLEAN, signals : BOOLEAN, out : Seq(Request), in : Seq(Msg)]
Ensemble == [dirs : 0 .. Levels - 1, owner : [Process -> Nat], live : SUBSET Nat, last : Nat,
             watch : SUBSET Nat]

Has(s, kinds) == \E i \in DOMAIN s : s[i].kind \in kinds
\* The newest list among the answers, when there is one.
Newest(s, list) ==
    \A i \in DOMAIN s :
        /\ s[i].kind = "children"
        /\ \A j \in DOMAIN s : j > i => s[j].kind # "children"
        => s[i].list = list

\* Where a connected contender is: its session was told to it, it creates the levels of
\* the path one by one, or its own node was asked for.
Begins(w) == w.in = <<SessionMsg>> /\ w.out = <<>>
Climbs(w, s) ==
    /\ w.created \in 1 .. Levels - 1
    /\ \/ w.in = <<>> /\ w.out = <<CreateReq(w.created)>> /\ w.created <= s.dirs + 1
       \/ /\ w.out = <<>> /\ w.created <= s.dirs
          /\ \E rc \in {"ZOK", "ZNODEEXISTS"} : w.in = <<CreateMsg(rc)>>
TopOnly(out) == \A i \in DOMAIN out : out[i].kind = "create" => out[i].level = Levels
OnTop(w, s) ==
    /\ w.created = Levels /\ s.dirs = Levels - 1
    /\ ~Has(w.in, {"session"}) /\ TopOnly(w.out)

\* A contender and the server: what it does not have before its node was created; that
\* it asks again whenever it has no watch; and what it knows when it has one.
Silent(w, s) ==
    ~w.all => /\ w.mode = "none" /\ w.session \notin s.watch
              /\ ~Has(w.in, {"children", "child"}) /\ ~Has(w.out, {"children"})
Asks(w, s) ==
    w.all /\ w.session \notin s.watch => w.out # <<>> \/ Has(w.in, {"session", "create", "child"})
Knows(p, w, s) ==
    w.session \in s.watch =>
        /\ Newest(w.in, Children(s))
        /\ ~Has(w.in, {"children"}) =>
               IF s.owner[p] = 0 THEN Has(w.out, {"create"})
               ELSE w.mode # "none" /\ (w.mode = "MASTER" <=> First(Children(s)) = p)
Contends(p, w, s) ==
    /\ Silent(w, s)
    /\ w.handle # "connected" => w.session = 0 /\ w.out = <<>> /\ w.in = <<>>
    /\ w.handle = "connected" =>
           /\ \/ (Begins(w) \/ Climbs(w, s)) /\ w.session \notin s.watch
              \/ OnTop(w, s)
           /\ Asks(w, s) /\ Knows(p, w, s)

\* Sessions belong to one contender, and nodes to sessions that live.
Sessions(ws, s) ==
    /\ s.live \subseteq 1 .. s.last /\ s.watch \subseteq 1 .. s.last
    /\ \A p \in Process : s.owner[p] # 0 => s.owner[p] \in s.live
    /\ \A p \in Process : ws[p].handle = "connected" => ws[p].session \in s.live
    /\ \A p, q \in Process : /\ ws[p].handle = "connected" /\ ws[q].handle = "connected"
                             /\ ws[p].session = ws[q].session
                             => p = q
    /\ \A p, q \in Process :
           ws[q].handle = "connected" /\ s.owner[p] = ws[q].session => p = q

ZkInv ==
    /\ wrapper \in [Process -> Contender] /\ server \in Ensemble /\ Sessions(wrapper, server)
    /\ \A p \in Process : Contends(p, wrapper[p], server)

-----------------------------------------------------------------------------
(* The servers: the inductive invariant                                    *)

Descriptor == Clients \cup {Listen}
Server == [mode : Modes, pieces : 1 .. MaxPieces, fds : Seq(Clients),
           edges : SUBSET Descriptor, todo : Seq(Descriptor)]
Link == [st : {"new", "open", "closed"}, in : Seq(Nat), sent : Nat, eof : BOOLEAN,
         read : Seq(Nat), reply : Seq(Nat), echoed : Seq(Seq(Nat))]
Network == [backlog : Seq(Clients), conn : [Clients -> Link]]

Distinct(s) == \A i, j \in DOMAIN s : s[i] = s[j] => i = j
Signalled(m) == m.edges \cup ToSet(m.todo)

\* A connection waits or is watched, once; events are about what is watched, and there
\* is a connection for every event of the listening socket.
Places(m, n) ==
    /\ Distinct(m.fds) /\ Distinct(n.backlog) /\ Distinct(m.todo)
    /\ ToSet(n.backlog) \cap ToSet(m.fds) = {}
    /\ \A c \in ToSet(n.backlog) \cup ToSet(m.fds) : n.conn[c].st = "open"
    /\ Signalled(m) \subseteq ToSet(m.fds) \cup {Listen}
    /\ m.mode \notin {"epoll", "rpc"} => m.edges = {}
    /\ Listen \in Signalled(m) => Len(n.backlog) >= 1
    /\ Listen \in m.edges /\ Listen \in ToSet(m.todo) => Len(n.backlog) >= 2

\* What epoll told once is still at hand until it was read.
TellsAll(m, n) ==
    m.mode \in {"epoll", "rpc"} =>
        \A c \in ToSet(m.fds) : n.conn[c].in # <<>> \/ n.conn[c].eof => c \in Signalled(m)

\* What is read and what is on its way are all that was sent, in that order.
Books(m, k) ==
    /\ \A i \in DOMAIN k.read : k.read[i] = i
    /\ k.st # "closed" => /\ Len(k.read) + Len(k.in) = k.sent
                          /\ \A i \in DOMAIN k.in : k.in[i] = Len(k.read) + i
    /\ m.mode # "rpc" => k.st # "closed"

\* Where a request of one piece and its answer are; the server is told of it once.
Exchange(m, c, k) ==
    m.mode = "rpc" /\ m.pieces = 1 =>
        /\ \A i \in DOMAIN k.echoed : k.echoed[i] = <<i>>
        /\ \/ k.sent = Len(k.echoed) /\ k.in = <<>> /\ k.reply = <<>>
           \/ /\ k.sent = Len(k.echoed) + 1 /\ ~k.eof
              /\ \/ k.in = <<k.sent>> /\ k.reply = <<>>
                 \/ k.in = <<>> /\ k.reply = <<k.sent>>
        /\ c \in Signalled(m) => k.in # <<>> \/ k.eof
        /\ c \notin m.edges \cap ToSet(m.todo)

MuxInv ==
    /\ mux \in Server /\ net \in Network /\ Places(mux, net) /\ TellsAll(mux, net)
    /\ \A c \in Clients : Books(mux, net.conn[c]) /\ Exchange(mux, c, net.conn[c])

-----------------------------------------------------------------------------
(* ZeroMQ: the inductive invariant                                         *)

Part == Nat \X Nat
Sock == [st : {"new", "running", "joining", "closed"}, made : Nat, ring : BOOLEAN,
         sending : BOOLEAN, queue : Seq(Seq(Part)), pc : {"idle", "dequeue", "recv"},
         left : Seq(Part), open : BOOLEAN, drop : BOOLEAN, building : Seq(Part),
         inbox : Seq(Seq(Part)), signal : BOOLEAN, got : Seq(Part)]

\* The last parts of one message, and its number.
Rest(s) ==
    /\ Len(s) <= Parts
    /\ \A i \in DOMAIN s : s[i] = <<s[1][1], Parts - Len(s) + i>>
    /\ s # <<>> => s[1][1] > 0
Number(s) == s[1][1]

\* What is left to send without the address, and a message as the callback gets it.
Unaddressed(s) == IF s # <<>> /\ s[1] = RoutingID THEN Tail(s) ELSE s
Body(w, m) == IF w = "ROUTER" THEN Tail(m) ELSE m

\* The messages taken out of the queue so far; those in it are the ones after them.
TakenOut(r) == r.made - Len(r.queue)
Queued(w, r) ==
    /\ TakenOut(r) >= 0
    /\ \A i \in DOMAIN r.queue : \E routed \in BOOLEAN :
           r.queue[i] = Message(w, TakenOut(r) + i, routed)

\* The parts the socket has begun to take, followed by what is left, are the end of a message.
Leaving(w, r) ==
    /\ Rest(r.building \o Unaddressed(r.left))
    /\ r.left # <<>> => Unaddressed(r.left) # <<>>
    /\ r.open => r.left # <<>> /\ r.left[1] # RoutingID
    /\ ~r.open => r.building = <<>>
    /\ r.left # <<>> /\ r.left[1] = RoutingID => w = "ROUTER"

\* What has come in, and what the callback was given, is in order.
Arriving(w, r) ==
    /\ \A i \in DOMAIN r.inbox :
           r.inbox[i] # <<>> /\ Rest(Body(w, r.inbox[i])) /\ Body(w, r.inbox[i]) # <<>>
    /\ \A i, j \in DOMAIN r.inbox :
           i < j => Number(Body(w, r.inbox[i])) < Number(Body(w, r.inbox[j]))
    /\ \A i \in DOMAIN r.got, j \in DOMAIN r.inbox : r.got[i][1] < Number(Body(w, r.inbox[j]))
    /\ \A i \in DOMAIN r.got :
           /\ r.got[i][2] <= Parts
           /\ r.got[i][2] < Parts => /\ i < Len(r.got)
                                     /\ r.got[i + 1] = <<r.got[i][1], r.got[i][2] + 1>>
           /\ i < Len(r.got) /\ r.got[i][2] = Parts => r.got[i + 1][1] > r.got[i][1]

\* What has arrived at v comes before what its sender r has left to send.
Numbers(v, q) == {q.got[i][1] : i \in DOMAIN q.got}
                 \cup {Number(Body(v, q.inbox[i])) : i \in DOMAIN q.inbox}
Ahead(r, v, q) ==
    /\ \A n \in Numbers(v, q) : n <= TakenOut(r)
    /\ r.left # <<>> => /\ Number(Unaddressed(r.left)) <= TakenOut(r)
                        /\ \A n \in Numbers(v, q) : n < Number(Unaddressed(r.left))

ZmqInv ==
    /\ zmq \in [Wrapper -> Sock] /\ SendsTaken
    /\ \A w \in Wrapper :
           /\ Queued(w, zmq[w]) /\ Leaving(w, zmq[w]) /\ Arriving(w, zmq[w])
           /\ Ahead(zmq[w], Peer(w), zmq[Peer(w)])

-----------------------------------------------------------------------------
(* Redis: the inductive invariant                                          *)

Context == [st : {"connecting", "connected", "error", "freed"}, data : BOOLEAN, waiting : Seq(Nat)]

Members == [st : {"new", "running", "destroyed"}, isConn : BOOLEAN, ctx : Nat, made : Nat]

RedisTypes ==
    /\ redis \in Members
    /\ ctxs \in Seq(Context) /\ called \in Seq(Nat) /\ slow \in BOOLEAN
    /\ redis.ctx <= Len(ctxs)
    /\ redis.st = "new" => ctxs = <<>> /\ ~redis.isConn
    /\ redis.st = "running" => \A c \in DOMAIN ctxs : ctxs[c].st # "error" => ctxs[c].data

\* One context is alive at a time, and what waits in it was asked for after all that
\* has been answered.
InTurn ==
    /\ \A c, d \in DOMAIN ctxs : Live(c) /\ Live(d) => c = d
    /\ \A i \in DOMAIN called : called[i] <= redis.made
    /\ \A c \in DOMAIN ctxs : Live(c) =>
           /\ \A i \in DOMAIN ctxs[c].waiting :
                  /\ ctxs[c].waiting[i] <= redis.made
                  /\ \A j \in DOMAIN called : called[j] < ctxs[c].waiting[i]
           /\ \A i, j \in DOMAIN ctxs[c].waiting :
                  i < j => ctxs[c].waiting[i] < ctxs[c].waiting[j]

RedisInv == RedisTypes /\ (~slow => InTurn) /\ FlagIsTrue /\ RepliesInOrder

-----------------------------------------------------------------------------
(* RocksDB: the inductive invariant                                        *)

States == [DbKeys -> Nat]
Reply == [read : Nat, values : {Result(c, s) : c \in Commands, s \in States}]
Asked == [cmd : Commands, states : Nat]
DbMembers == [st : {"new", "open", "releasing", "joining", "closed", "terminated"},
              inner : BOOLEAN, isOpen : BOOLEAN, posts : Nat, waiters : Nat, cmds : Seq(Nat),
              results : Seq(Reply), ring : BOOLEAN, asking : BOOLEAN]
DbThread == [pc : {"none", "dequeue", "enterWait", "semWait", "read", "notify", "ended"},
             hand : Seq(Nat)]

DbTypes ==
    /\ db \in DbMembers /\ cmd \in DbThread
    /\ store \in Seq(States) /\ store # <<>>
    /\ reads \in Seq(Asked) /\ got \in Seq(Reply)
    /\ db.waiters = IF cmd.pc = "semWait" THEN 1 ELSE 0
    /\ db.st = "new" => cmd.pc = "none" /\ db.results = <<>>

AllResults == got \o db.results
InHand == IF cmd.pc = "read" THEN 1 ELSE 0

\* The results, the command at hand and those in the queue are the reads, in order; a
\* command that the destructor lets drop is the last one the thread takes.
ReadsInOrder ==
    /\ Len(AllResults) + InHand + Len(db.cmds) <= Len(reads)
    /\ cmd.pc = "read" => cmd.hand # <<>> /\ cmd.hand[1] = Len(AllResults) + 1
    /\ cmd.pc = "ended" \/ \A i \in DOMAIN db.cmds : db.cmds[i] = Len(AllResults) + InHand + i
    /\ cmd.pc # "ended" => Len(AllResults) + InHand + Len(db.cmds) = Len(reads)
    /\ \A i \in DOMAIN reads : reads[i].states \in 1 .. Len(store)

\* ReadsFresh, in terms of AllResults.
AllFresh ==
    \A i \in DOMAIN AllResults :
        /\ AllResults[i].read = i
        /\ \E n \in reads[i].states .. Len(store) :
              AllResults[i].values = Result(reads[i].cmd, store[n])

\* The thread that is about to wait has been posted for when there is something to do.
PostedFor ==
    db.st = "open" /\ cmd.pc \in {"enterWait", "semWait"} /\ db.cmds # <<>> => db.posts > 0 \/ db.asking

DbInv == DbTypes /\ ReadsInOrder /\ PostedFor /\ AllFresh /\ ReadsAnswered

-----------------------------------------------------------------------------
(* Kafka: every step keeps the invariant                                   *)

\* What is asked of the messages does not change when a report moves from the library to
\* the callback, or a consumer reads.
LEMMA AccountKept ==
  ASSUME OneAccount, Reports' = Reports, producer'.out = producer.out, buffer' = buffer,
         producer.st = "closed" => producer'.st = "closed"
  PROVE  OneAccount'
  BY DEF OneAccount

LEMMA PassedKept ==
  ASSUME consumed' = consumed, NEW n, Passed(n)
  PROVE  Passed(n)'
  BY DEF Passed

LEMMA ConcatAppend ==
  ASSUME NEW S, NEW a \in Seq(S), NEW b \in Seq(S), NEW e \in S
  PROVE  a \o Append(b, e) = Append(a \o b, e)
  <1>1. <<e>> \in Seq(S) /\ Append(b, e) = b \o <<e>>  BY AppendIsConcat
  <1>2. a \o (b \o <<e>>) = (a \o b) \o <<e>>  BY <1>1, ConcatAssociative
  <1>3. a \o b \in Seq(S)  BY ConcatProperties
  <1>4. Append(a \o b, e) = (a \o b) \o <<e>>  BY <1>3, AppendIsConcat
  <1> QED  BY <1>1, <1>2, <1>4

LEMMA ProducerMsgStep == ASSUME KafkaInv, ProducerMsg PROVE KafkaInv'
  <1> DEFINE n == Len(buffer) + 1
  <1>1. /\ producer.st = "running" /\ buffer' = Append(buffer, n)
        /\ producer' = [producer EXCEPT !.out = Append(@, n)]
        /\ topic' = topic /\ consumer' = consumer /\ reports' = reports /\ consumed' = consumed
    BY DEF ProducerMsg
  <1>2. /\ buffer \in Seq(Nat) /\ producer.out \in Seq(Nat) /\ n \in Nat
        /\ producer'.out = Append(producer.out, n) /\ producer'.done = producer.done
        /\ producer'.st = "running"
    BY <1>1 DEF KafkaInv, KafkaTypes, Producer, Consumer
  <1>3. KafkaTypes'
    <2>1. producer'.out \in Seq(Nat) /\ buffer' \in Seq(Nat)
      BY <1>1, <1>2, AppendProperties
    <2>2. producer' \in Producer
      BY <1>1, <1>2, <2>1 DEF KafkaInv, KafkaTypes, Producer, Consumer
    <2> QED  BY <1>1, <2>1, <2>2 DEF KafkaInv, KafkaTypes
  <1>4. /\ DOMAIN buffer = 1 .. Len(buffer) /\ DOMAIN buffer' = 1 .. n
        /\ DOMAIN producer.out = 1 .. Len(producer.out)
        /\ DOMAIN producer'.out = 1 .. Len(producer.out) + 1
        /\ \A i \in 1 .. Len(producer.out) : producer'.out[i] = producer.out[i]
        /\ producer'.out[Len(producer.out) + 1] = n
    BY <1>1, <1>2, AppendProperties
  <1>5. Reports' = Reports
    BY <1>1, <1>2 DEF Reports
  <1>6. OneAccount'
    <2> USE DEF KafkaInv, OneAccount
    <2>0. \A i \in DOMAIN Reports : Reports[i].data \in 1 .. Len(buffer)
      BY <1>4
    <2>1. \A i \in DOMAIN Reports' : Reports'[i].data \in DOMAIN buffer'
      BY <1>2, <1>4, <1>5
    <2>2. \A i, j \in DOMAIN Reports' : Reports'[i].data = Reports'[j].data => i = j
      BY <1>5
    <2>3. \A i \in DOMAIN producer'.out : producer'.out[i] \in DOMAIN buffer'
      BY <1>2, <1>4
    <2>4. \A i, j \in DOMAIN producer'.out : producer'.out[i] = producer'.out[j] => i = j
      <3>1. PICK l \in Nat : l = Len(producer.out)  BY <1>2, LenProperties
      <3>2. \A i \in 1 .. l + 1 : i \in 1 .. l \/ i = l + 1  BY <3>1
      <3>3. \A i \in 1 .. l : producer'.out[i] = producer.out[i] /\ producer.out[i] \in DOMAIN buffer
        BY <3>1, <1>4
      <3>4. \A i \in 1 .. l : producer'.out[i] # n  BY <3>3, <1>2, <1>4, LenProperties
      <3>5. \A i, j \in 1 .. l : producer.out[i] = producer.out[j] => i = j  BY <3>1, <1>4
      <3> QED  BY <3>1, <3>2, <3>3, <3>4, <3>5, <1>4
    <2>5. \A i \in DOMAIN producer'.out, j \in DOMAIN Reports' : producer'.out[i] # Reports'[j].data
      BY <1>2, <1>4, <1>5, <2>0
    <2>6. \A k \in DOMAIN buffer' : \/ \E i \in DOMAIN producer'.out : producer'.out[i] = k
                                    \/ \E i \in DOMAIN Reports' : Reports'[i].data = k
      <3> TAKE k \in DOMAIN buffer'
      <3>1. CASE k = n
        <4>1. Len(producer.out) + 1 \in DOMAIN producer'.out  BY <1>2, <1>4
        <4> QED  BY <1>4, <3>1, <4>1
      <3>2. CASE k # n
        <4>1. k \in DOMAIN buffer  BY <1>2, <1>4, <3>2
        <4>2. CASE \E i \in DOMAIN producer.out : producer.out[i] = k  BY <1>2, <1>4, <4>2
        <4>3. CASE \E i \in DOMAIN Reports : Reports[i].data = k  BY <1>5, <4>3
        <4> QED  BY <1>1, <4>1, <4>2, <4>3
      <3> QED  BY <3>1, <3>2
    <2> QED  BY <2>1, <2>2, <2>3, <2>4, <2>5, <2>6
  <1>7. Passed(consumer.next)' /\ Passed(consumer.committed)' /\ NoneSkipped'
    BY <1>1 DEF KafkaInv, Passed, NoneSkipped
  <1> QED  BY <1>3, <1>6, <1>7 DEF KafkaInv

\* A message leaves the library and its report waits.
LEMMA TransmitStep == ASSUME KafkaInv, Transmit PROVE KafkaInv'
  <1>1. PICK r \in Report :
        /\ producer.out # <<>> /\ r.data = Head(producer.out)
        /\ producer' = [producer EXCEPT !.out = Tail(@), !.done = Append(@, r)]
        /\ topic' = topic \/ topic' = Append(topic, buffer[Head(producer.out)])
        /\ buffer' = buffer /\ consumer' = consumer /\ reports' = reports /\ consumed' = consumed
    <2> DEFINE n == Head(producer.out)
               rep(err) == [data |-> n, err |-> err, msg |-> buffer[n]]
    <2>1. producer.out # <<>>  BY DEF Transmit
    <2>2. n = producer.out[1] /\ 1 \in DOMAIN producer.out
      BY <2>1 DEF KafkaInv, KafkaTypes, Producer, Consumer
    <2>3. n \in Nat /\ buffer[n] \in Nat
      BY <2>2 DEF KafkaInv, KafkaTypes, Producer, Consumer, OneAccount
    <2>4. rep(TRUE) \in Report /\ rep(FALSE) \in Report
      BY <2>3 DEF Report
    <2> QED  BY <2>1, <2>4 DEF Transmit
  <1> DEFINE n == Head(producer.out)
  <1> PICK m \in Nat : m = Len(producer.out)
    BY DEF KafkaInv, KafkaTypes, Producer, Consumer
  <1>2. /\ producer.out \in Seq(Nat) /\ m # 0 /\ n = producer.out[1]
        /\ producer'.out \in Seq(Nat) /\ producer'.out = Tail(producer.out)
        /\ DOMAIN producer.out = 1 .. m /\ DOMAIN producer'.out = 1 .. m - 1
        /\ \A i \in 1 .. m - 1 : producer'.out[i] = producer.out[i + 1]
        /\ producer'.done = Append(producer.done, r) /\ producer'.st = producer.st
    BY <1>1, HeadTailProperties DEF KafkaInv, KafkaTypes, Producer, Consumer
  <1>3. n \in DOMAIN buffer /\ buffer[n] \in Nat /\ n \in Nat
    <2>1. n \in DOMAIN buffer  BY <1>2 DEF KafkaInv, OneAccount
    <2>2. buffer \in Seq(Nat)  BY DEF KafkaInv, KafkaTypes
    <2> QED  BY <2>1, <2>2
  <1>4. KafkaTypes'
    <2>1. producer.done \in Seq(Report)
      BY DEF KafkaInv, KafkaTypes, Producer
    <2>2. producer'.done \in Seq(Report)
      BY <1>2, <2>1, AppendProperties
    <2>3. producer' \in Producer
      BY <1>1, <1>2, <2>2 DEF KafkaInv, KafkaTypes, Producer
    <2>4. topic' \in Seq(Nat)
      <3>1. topic \in Seq(Nat)  BY DEF KafkaInv, KafkaTypes
      <3>2. Append(topic, buffer[n]) \in Seq(Nat)  BY <1>3, <3>1, AppendProperties
      <3> QED  BY <1>1, <3>1, <3>2
    <2> QED  BY <1>1, <2>3, <2>4 DEF KafkaInv, KafkaTypes
  <1>5. /\ reports \in Seq(Report) /\ producer.done \in Seq(Report) /\ Reports \in Seq(Report)
    BY DEF KafkaInv, KafkaTypes, Producer, Consumer, Reports
  <1>6. Reports' = Append(Reports, r)
    <2>1. reports' = reports /\ producer'.done = Append(producer.done, r)  BY <1>1, <1>2
    <2>2. reports \o Append(producer.done, r) = Append(reports \o producer.done, r)
      BY <1>5, ConcatAppend
    <2> QED  BY <2>1, <2>2 DEF Reports
  <1> PICK k \in Nat : k = Len(Reports)
    BY <1>5
  <1>7. /\ DOMAIN Reports = 1 .. k /\ DOMAIN Reports' = 1 .. k + 1
        /\ \A i \in 1 .. k : Reports'[i] = Reports[i]
        /\ Reports'[k + 1] = r
    BY <1>5, <1>6, AppendProperties
  <1>8. OneAccount'
    <2> USE DEF KafkaInv, OneAccount
    <2>0. \A i \in 1 .. k : Reports[i].data # n
      <3>1. 1 \in DOMAIN producer.out /\ producer.out[1] = n  BY <1>2
      <3> QED  BY <1>7, <3>1
    <2>1. \A i \in DOMAIN Reports' : Reports'[i].data \in DOMAIN buffer'
      BY <1>1, <1>3, <1>7
    <2>2. \A i, j \in DOMAIN Reports' : Reports'[i].data = Reports'[j].data => i = j
      BY <1>1, <1>7, <2>0
    <2>a. ASSUME NEW i \in DOMAIN producer'.out
          PROVE  i + 1 \in DOMAIN producer.out /\ producer'.out[i] = producer.out[i + 1] /\ i \in Nat \ {0}
      BY <1>2
    <2>3. \A i \in DOMAIN producer'.out : producer'.out[i] \in DOMAIN buffer'
      BY <1>1, <2>a
    <2>4. \A i, j \in DOMAIN producer'.out : producer'.out[i] = producer'.out[j] => i = j
      BY <2>a
    <2>b. \A i \in DOMAIN producer'.out : producer'.out[i] # n
      <3> TAKE i \in DOMAIN producer'.out
      <3>1. 1 \in DOMAIN producer.out /\ i + 1 # 1  BY <1>2, <2>a
      <3>2. i + 1 \in DOMAIN producer.out /\ producer'.out[i] = producer.out[i + 1]  BY <2>a
      <3>3. producer.out[i + 1] # producer.out[1]  BY <3>1, <3>2
      <3> QED  BY <1>2, <3>2, <3>3
    <2>5. \A i \in DOMAIN producer'.out, j \in DOMAIN Reports' : producer'.out[i] # Reports'[j].data
      <3> TAKE i \in DOMAIN producer'.out, j \in DOMAIN Reports'
      <3>1. CASE j = k + 1  BY <1>1, <1>7, <2>b, <3>1
      <3>2. CASE j # k + 1
        <4>1. j \in DOMAIN Reports /\ Reports'[j] = Reports[j]  BY <1>7, <3>2
        <4> QED  BY <2>a, <4>1
      <3> QED  BY <3>1, <3>2
    <2>6. ASSUME producer'.st # "closed", NEW b \in DOMAIN buffer'
          PROVE  \/ \E i \in DOMAIN producer'.out : producer'.out[i] = b
                 \/ \E i \in DOMAIN Reports' : Reports'[i].data = b
      <3>1. CASE b = n  BY <1>1, <1>7, <3>1
      <3>2. CASE b # n /\ \E i \in DOMAIN producer.out : producer.out[i] = b
        <4>1. PICK i \in 1 .. m : producer.out[i] = b  BY <1>2, <3>2
        <4>2. i # 1 /\ i - 1 \in 1 .. m - 1  BY <1>2, <3>2, <4>1
        <4>3. producer'.out[i - 1] = producer.out[i - 1 + 1] /\ i - 1 + 1 = i  BY <1>2, <4>2
        <4> QED  BY <1>2, <4>1, <4>2, <4>3
      <3>3. CASE \E i \in DOMAIN Reports : Reports[i].data = b  BY <1>7, <3>3
      <3> QED  BY <1>1, <1>2, <2>6, <3>1, <3>2, <3>3
    <2> QED  BY <2>1, <2>2, <2>3, <2>4, <2>5, <2>6
  <1>9. Passed(consumer.next)' /\ Passed(consumer.committed)' /\ NoneSkipped'
    BY <1>1 DEF KafkaInv, Passed, NoneSkipped
  <1> QED  BY <1>4, <1>8, <1>9 DEF KafkaInv

\* The poll of the timer or of the destructor hands over the reports; a flush that takes
\* too long gives up what is left.
LEMMA PollStep == ASSUME KafkaInv, PollProducer \/ Flush PROVE KafkaInv'
  <1>1. /\ reports' = reports \o producer.done /\ buffer' = buffer
        /\ topic' = topic /\ consumer' = consumer /\ consumed' = consumed
        /\ \/ producer' = [producer EXCEPT !.done = <<>>] /\ producer.st # "closed"
           \/ producer' = [producer EXCEPT !.st = "closed", !.done = <<>>, !.out = <<>>]
    BY DEF PollProducer, Flush
  <1>2. KafkaTypes'
    <2>1. reports' \in Seq(Report)
      <3>1. reports \in Seq(Report) /\ producer.done \in Seq(Report)
        BY DEF KafkaInv, KafkaTypes, Producer
      <3> QED  BY <1>1, <3>1, ConcatProperties
    <2>2. producer' \in Producer
      BY <1>1, EmptySeq DEF KafkaInv, KafkaTypes, Producer
    <2> QED  BY <1>1, <2>1, <2>2 DEF KafkaInv, KafkaTypes
  <1>3. Reports' = Reports
    <2>1. producer'.done = <<>>
      BY <1>1 DEF KafkaInv, KafkaTypes, Producer
    <2>2. reports' \in Seq(Report) /\ reports' = Reports
      BY <1>1, <1>2 DEF KafkaTypes, Reports
    <2>3. reports' \o <<>> = reports'
      BY <2>2, ConcatEmptySeq
    <2> QED  BY <2>1, <2>2, <2>3 DEF Reports
  <1>4. OneAccount'
    <2>1. CASE producer' = [producer EXCEPT !.done = <<>>] /\ producer.st # "closed"
      <3>1. producer'.out = producer.out /\ producer'.st = producer.st
        BY <2>1 DEF KafkaInv, KafkaTypes, Producer, Consumer
      <3> QED  BY <1>1, <1>3, <2>1, <3>1, AccountKept DEF KafkaInv
    <2>2. CASE producer' = [producer EXCEPT !.st = "closed", !.done = <<>>, !.out = <<>>]
      <3>1. producer'.st = "closed" /\ producer'.out = <<>>
        BY <2>2 DEF KafkaInv, KafkaTypes, Producer, Consumer
      <3> QED  BY <1>1, <1>3, <3>1 DEF KafkaInv, OneAccount
    <2> QED  BY <1>1, <2>1, <2>2
  <1>5. Passed(consumer.next)' /\ Passed(consumer.committed)' /\ NoneSkipped'
    BY <1>1 DEF KafkaInv, Passed, NoneSkipped
  <1> QED  BY <1>2, <1>4, <1>5 DEF KafkaInv

LEMMA ConsumerStep ==
  ASSUME KafkaInv, Subscribe \/ Consume \/ Commit \/ StopConsumer
  PROVE  KafkaInv'
  <1>1. /\ producer' = producer /\ buffer' = buffer /\ topic' = topic /\ reports' = reports
    BY DEF Subscribe, Consume, Commit, StopConsumer
  <1>2. OneAccount'
    BY <1>1, AccountKept DEF KafkaInv, Reports
  <1>3. CASE Consume
    <2>1. /\ consumed' = Append(consumed, consumer.next)
          /\ consumer' = [consumer EXCEPT !.next = @ + 1]
      BY <1>3 DEF Consume
    <2>2. /\ consumed \in Seq(Nat) /\ consumer.next \in Nat /\ consumer.committed \in Nat
          /\ consumer'.next = consumer.next + 1 /\ consumer'.committed = consumer.committed
      BY <2>1 DEF KafkaInv, KafkaTypes, Producer, Consumer
    <2> PICK n \in Nat : n = Len(consumed)  BY <2>2
    <2>3. /\ DOMAIN consumed = 1 .. n /\ DOMAIN consumed' = 1 .. n + 1
          /\ \A i \in 1 .. n : consumed'[i] = consumed[i]
          /\ consumed'[n + 1] = consumer.next
      BY <2>1, <2>2, AppendProperties
    <2>4. KafkaTypes'
      <3>1. consumed' \in Seq(Nat)  BY <2>1, <2>2, AppendProperties
      <3>2. consumer \in Consumer /\ consumer.next + 1 \in Nat
        BY <2>2 DEF KafkaInv, KafkaTypes
      <3>3. consumer' \in Consumer  BY <2>1, <3>2 DEF Consumer
      <3> QED  BY <1>1, <3>1, <3>3 DEF KafkaInv, KafkaTypes
    <2>5. Passed(consumer.next)' /\ Passed(consumer.committed)'
      <3>1. n + 1 \in DOMAIN consumed' /\ consumed'[n + 1] >= consumer'.next - 1
        BY <2>2, <2>3
      <3>2. Passed(consumer.next)'  BY <3>1 DEF Passed
      <3>3. \A i \in DOMAIN consumed : i \in DOMAIN consumed' /\ consumed'[i] = consumed[i]
        BY <2>3
      <3>4. Passed(consumer.committed)'  BY <2>2, <3>3 DEF KafkaInv, Passed
      <3> QED  BY <3>2, <3>4
    <2>6. NoneSkipped'
      <3> SUFFICES ASSUME NEW i \in 1 .. n + 1
                   PROVE  consumed'[i] = 1 \/ \E j \in 1 .. i - 1 : consumed'[j] >= consumed'[i] - 1
        BY <2>3 DEF NoneSkipped
      <3>1. CASE i = n + 1
        BY <2>2, <2>3, <3>1 DEF KafkaInv, Passed
      <3>2. CASE i # n + 1
        <4>1. i \in 1 .. n /\ \A j \in 1 .. i - 1 : j \in 1 .. n  BY <3>2
        <4> QED  BY <2>3, <4>1 DEF KafkaInv, NoneSkipped
      <3> QED  BY <3>1, <3>2
    <2> QED  BY <1>2, <2>4, <2>5, <2>6 DEF KafkaInv
  <1>4. CASE Subscribe \/ Commit \/ StopConsumer
    <2>0. consumer \in Consumer  BY DEF KafkaInv, KafkaTypes
    <2>1. /\ consumed' = consumed
          /\ consumer'.next \in {consumer.next, consumer.committed}
          /\ consumer'.committed \in {consumer.next, consumer.committed}
          /\ consumer' \in Consumer
      <3>0. consumer.starts \in Nat /\ consumer.starts + 1 \in Nat  BY <2>0 DEF Consumer
      <3>1. CASE Subscribe  BY <2>0, <3>0, <3>1 DEF Subscribe, Consumer
      <3>2. CASE Commit  BY <2>0, <3>2 DEF Commit, Consumer
      <3>3. CASE StopConsumer  BY <2>0, <3>3 DEF StopConsumer, Consumer
      <3> QED  BY <1>4, <3>1, <3>2, <3>3
    <2>3. KafkaTypes'  BY <1>1, <2>1 DEF KafkaInv, KafkaTypes
    <2>2. Passed(consumer.next)' /\ Passed(consumer.committed)' /\ NoneSkipped'
      BY <2>1 DEF KafkaInv, Passed, NoneSkipped
    <2> QED  BY <1>2, <2>2, <2>3 DEF KafkaInv
  <1> QED  BY <1>3, <1>4

LEMMA KafkaStep == ASSUME KafkaInv, [KafkaNext]_kafkaVars PROVE KafkaInv'
  <1>1. CASE InitProducer \/ DestroyProducer
    <2>1. /\ KafkaTypes' /\ Reports' = Reports /\ producer'.out = producer.out
          /\ producer'.st # "closed" /\ buffer' = buffer
          /\ consumer' = consumer /\ consumed' = consumed
      BY <1>1 DEF InitProducer, DestroyProducer, KafkaInv, KafkaTypes, Producer, Consumer, Reports
    <2>2. producer.st # "closed"
      BY <1>1 DEF InitProducer, DestroyProducer
    <2>3. OneAccount'
      BY <2>1, <2>2, AccountKept DEF KafkaInv
    <2> QED  BY <2>1, <2>3 DEF KafkaInv, Passed, NoneSkipped
  <1>2. ASSUME NEW n \in DOMAIN buffer, ReuseBuffer(n) PROVE KafkaInv'
    <2>1. /\ buffer' = [buffer EXCEPT ![n] = 0] /\ producer' = producer /\ topic' = topic
          /\ consumer' = consumer /\ reports' = reports /\ consumed' = consumed
      BY <1>2 DEF ReuseBuffer
    <2>2. buffer' \in Seq(Nat) /\ DOMAIN buffer' = DOMAIN buffer
      BY <1>2, <2>1, ExceptSeq DEF KafkaInv, KafkaTypes
    <2>3. KafkaTypes'  BY <2>1, <2>2 DEF KafkaInv, KafkaTypes
    <2>4. OneAccount'
      <3>1. Reports' = Reports  BY <2>1 DEF Reports
      <3>2. OneAccount  BY DEF KafkaInv
      <3> QED  BY <2>1, <2>2, <3>1, <3>2 DEF OneAccount
    <2> QED  BY <2>1, <2>3, <2>4 DEF KafkaInv, Passed, NoneSkipped
  <1>3. CASE UNCHANGED kafkaVars
    <2>1. KafkaTypes'  BY <1>3 DEF kafkaVars, KafkaInv, KafkaTypes
    <2>2. OneAccount'  BY <1>3 DEF kafkaVars, KafkaInv, OneAccount, Reports
    <2> QED  BY <1>3, <2>1, <2>2 DEF kafkaVars, KafkaInv, Passed, NoneSkipped
  <1> QED
    BY <1>1, <1>2, <1>3, ProducerMsgStep, TransmitStep, PollStep, ConsumerStep DEF KafkaNext

\* The counting in OneReport: a sequence of reports of different messages has as many
\* elements as messages.
LEMMA OneEach ==
  ASSUME NEW S, NEW s \in Seq(S), \A i, j \in DOMAIN s : s[i] = s[j] => i = j
  PROVE  Cardinality(ToSet(s)) = Len(s) /\ IsFiniteSet(ToSet(s))
  <1> DEFINE f == [i \in 1 .. Len(s) |-> s[i]]
  <1> PICK n \in Nat : n = Len(s)  OBVIOUS
  <1>1. DOMAIN s = 1 .. n  OBVIOUS
  <1>2. f \in Bijection(1 .. n, ToSet(s))
    BY <1>1 DEF Bijection, Injection, Surjection, IsInjective, ToSet
  <1>3. ExistsBijection(1 .. n, ToSet(s))
    BY <1>2 DEF ExistsBijection
  <1> QED  BY <1>3, FS_NatBijection, FS_CountingElements

LEMMA KafkaReports == ASSUME KafkaInv PROVE OneReport
  <1> DEFINE told == {r.data : r \in ToSet(Reports)}
             ids == [i \in 1 .. Len(Reports) |-> Reports[i].data]
  <1>1. /\ Reports \in Seq(Report) /\ producer.out \in Seq(Nat) /\ buffer \in Seq(Nat)
    BY DEF KafkaInv, KafkaTypes, Producer, Reports
  <1> PICK n \in Nat : n = Len(Reports)
    BY <1>1
  <1>2. /\ DOMAIN Reports = 1 .. n /\ \A i \in 1 .. n : Reports[i].data \in Nat
        /\ \A i \in 1 .. n : Reports[i].data \in DOMAIN buffer
    <2>1. DOMAIN Reports = 1 .. n /\ \A i \in 1 .. n : Reports[i] \in Report
      BY <1>1
    <2> QED  BY <2>1 DEF Report, KafkaInv, OneAccount
  <1>3. ids \in Seq(Nat) /\ Len(ids) = n /\ DOMAIN ids = 1 .. n
        /\ \A i \in 1 .. n : ids[i] = Reports[i].data
    BY <1>2
  <1>4. \A i, j \in DOMAIN ids : ids[i] = ids[j] => i = j
    BY <1>2, <1>3 DEF KafkaInv, OneAccount
  <1>5. ToSet(ids) = told
    BY <1>2, <1>3 DEF ToSet
  <1>6. Cardinality(told) = n
    BY <1>3, <1>4, <1>5, OneEach
  <1>7. told = {i \in DOMAIN buffer : \E r \in ToSet(Reports) : r.data = i}
    BY <1>2 DEF ToSet
  <1>8. producer.st # "closed" => ToSet(producer.out) = DOMAIN buffer \ told
    <2> HAVE producer.st # "closed"
    <2>1. ASSUME NEW b PROVE b \in told <=> \E i \in DOMAIN Reports : Reports[i].data = b
      BY DEF ToSet
    <2>2. ASSUME NEW b PROVE b \in ToSet(producer.out) <=> \E i \in DOMAIN producer.out : producer.out[i] = b
      BY DEF ToSet
    <2> HIDE DEF told
    <2>3. ASSUME NEW b PROVE b \in ToSet(producer.out) <=> b \in DOMAIN buffer /\ b \notin told
      <3>1. CASE b \in ToSet(producer.out)
        BY <2>1, <2>2, <3>1 DEF KafkaInv, OneAccount
      <3>2. CASE b \in DOMAIN buffer /\ b \notin told
        BY <2>1, <2>2, <3>2 DEF KafkaInv, OneAccount
      <3> QED  BY <3>1, <3>2
    <2> QED  BY <2>3
  <1> QED  BY <1>6, <1>7, <1>8 DEF OneReport, Reports

LEMMA KafkaInitial == ASSUME KafkaInit PROVE KafkaInv
  <1>1. /\ producer \in Producer /\ producer.out = <<>> /\ producer.done = <<>>
    BY KafkaAssumption, EmptySeq DEF KafkaInit, Producer
  <1>2. consumer \in Consumer /\ consumer.next = 1 /\ consumer.committed = 1
    BY DEF KafkaInit, Consumer
  <1>3. KafkaTypes
    BY <1>1, <1>2, EmptySeq DEF KafkaInit, KafkaTypes
  <1>4. Reports = <<>>
    BY <1>1 DEF KafkaInit, Reports
  <1>5. OneAccount
    BY <1>1, <1>4 DEF KafkaInit, OneAccount
  <1> QED  BY <1>2, <1>3, <1>5 DEF KafkaInit, KafkaInv, Passed, NoneSkipped

-----------------------------------------------------------------------------
(* Redis: every step keeps the invariant                                   *)

LEMMA RedisInitial == ASSUME RedisInit PROVE RedisInv
  <1>1. RedisTypes
    BY RedisAssumption, EmptySeq DEF RedisInit, RedisTypes, Members
  <1>2. InTurn /\ FlagIsTrue /\ RepliesInOrder
    BY DEF RedisInit, InTurn, FlagIsTrue, RepliesInOrder
  <1> QED  BY <1>1, <1>2 DEF RedisInv

\* When the timer connects again, no context is alive; the new one has nothing to answer.
LEMMA ConnectStep == ASSUME RedisInv, Connect \/ OnReconTimer PROVE RedisInv'
  <1> PICK n \in Nat : n = Len(ctxs)
    BY DEF RedisInv, RedisTypes
  <1>1. PICK st \in {"connecting", "error"} :
        /\ ctxs' = Append(ctxs, NewContext(st))
        /\ redis' = [redis EXCEPT !.st = "running", !.ctx = n + 1]
        /\ called' = called /\ slow' = slow
    <2>1. redis \in Members
      BY DEF RedisInv, RedisTypes
    <2>2. CASE Connect
      <3>1. /\ Connect2Redis([redis EXCEPT !.st = "running"]) /\ called' = called /\ slow' = slow
        BY <2>2 DEF Connect
      <3>2. [[redis EXCEPT !.st = "running"] EXCEPT !.ctx = n + 1]
                = [redis EXCEPT !.st = "running", !.ctx = n + 1]
        BY <2>1 DEF Members
      <3> QED  BY <3>1, <3>2 DEF Connect2Redis
    <2>3. CASE OnReconTimer
      <3>1. Connect2Redis(redis) /\ redis.st = "running" /\ called' = called /\ slow' = slow
        BY <2>3 DEF OnReconTimer
      <3>2. [redis EXCEPT !.ctx = n + 1] = [redis EXCEPT !.st = "running", !.ctx = n + 1]
        BY <2>1, <3>1 DEF Members
      <3> QED  BY <3>1, <3>2 DEF Connect2Redis
    <2> QED  BY <2>2, <2>3
  <1>2. /\ ~redis.isConn
        /\ ~slow => \A c \in 1 .. n : ~Live(c)
    <2>1. DOMAIN ctxs = 1 .. n  BY DEF RedisInv, RedisTypes
    <2>2. CASE Connect
      BY <2>1, <2>2 DEF Connect, RedisInv, RedisTypes
    <2>3. CASE OnReconTimer
      BY <2>1, <2>3 DEF OnReconTimer, RedisInv, FlagIsTrue, Live
    <2> QED  BY <2>2, <2>3
  <1>3. /\ redis'.st = "running" /\ redis'.ctx = n + 1 /\ redis'.isConn = redis.isConn
        /\ redis'.made = redis.made
        /\ redis' \in Members
    <2>1. redis \in Members /\ n + 1 \in Nat  BY DEF RedisInv, RedisTypes
    <2> QED  BY <1>1, <2>1 DEF Members
  <1>4. NewContext(st) \in Context /\ NewContext(st).waiting = <<>> /\ NewContext(st).st = st
        /\ (st # "error" => NewContext(st).data)
    BY EmptySeq DEF NewContext, Context
  <1>5. /\ ctxs' \in Seq(Context) /\ Len(ctxs') = n + 1 /\ DOMAIN ctxs = 1 .. n /\ DOMAIN ctxs' = 1 .. n + 1
        /\ \A c \in 1 .. n : ctxs'[c] = ctxs[c]
        /\ ctxs'[n + 1] = NewContext(st)
    BY <1>1, <1>4, AppendProperties DEF RedisInv, RedisTypes
  <1>6. RedisTypes'
    <2>1. ASSUME NEW c \in 1 .. n + 1, ctxs'[c].st # "error" PROVE ctxs'[c].data
      <3>1. CASE c = n + 1  BY <1>4, <1>5, <2>1, <3>1
      <3>2. CASE c # n + 1
        <4>1. c \in 1 .. n  BY <3>2
        <4>2. redis.st = "running"
          BY <4>1 DEF Connect, OnReconTimer, RedisInv, RedisTypes
        <4> QED  BY <1>5, <2>1, <4>1, <4>2 DEF RedisInv, RedisTypes
      <3> QED  BY <3>1, <3>2
    <2> QED  BY <1>1, <1>3, <1>5, <2>1 DEF RedisInv, RedisTypes
  <1>7. ASSUME ~slow PROVE \A c \in 1 .. n + 1 : Live(c)' => c = n + 1
    <2>1. \A c \in 1 .. n : Live(c)' <=> Live(c)  BY <1>5 DEF Live
    <2> QED  BY <1>2, <1>7, <2>1
  <1>8. ~slow => InTurn' /\ FlagIsTrue' /\ RepliesInOrder'
    <2> HAVE ~slow
    <2>1. \A c \in 1 .. n + 1 : Live(c)' => c = n + 1 /\ ctxs'[c].waiting = <<>>
      BY <1>4, <1>5, <1>7
    <2>2. InTurn'
      BY <1>1, <1>3, <1>5, <2>1 DEF RedisInv, InTurn
    <2>3. FlagIsTrue'
      <3>1. ctxs'[n + 1].st # "connected"  BY <1>4, <1>5
      <3> QED  BY <1>2, <1>3, <1>5, <1>7, <3>1 DEF FlagIsTrue
    <2> QED  BY <1>1, <2>2, <2>3 DEF RedisInv, RepliesInOrder
  <1> QED  BY <1>1, <1>6, <1>8 DEF RedisInv, FlagIsTrue, RepliesInOrder

\* A command waits behind all that were asked for before.
LEMMA CommandStep == ASSUME RedisInv, Command PROVE RedisInv'
  <1> DEFINE k == redis.ctx
             m == redis.made + 1
  <1>1. /\ redis.st = "running" /\ k # 0
        /\ redis' = [redis EXCEPT !.made = m]
        /\ ctxs' = [ctxs EXCEPT ![k].waiting = Append(@, m)]
        /\ called' = called /\ slow' = slow
    BY DEF Command
  <1>2. /\ redis \in Members
        /\ ctxs \in Seq(Context) /\ k <= Len(ctxs) /\ called \in Seq(Nat)
    BY DEF RedisInv, RedisTypes
  <1>3. k \in DOMAIN ctxs /\ ctxs[k] \in Context /\ m \in Nat /\ redis.made \in Nat
    <2>1. k \in Nat /\ redis.made \in Nat  BY <1>2 DEF Members
    <2> QED  BY <1>1, <1>2, <2>1
  <1>4. ctxs[k].waiting \in Seq(Nat)
    BY <1>3 DEF Context
  <1> PICK w \in Nat : w = Len(ctxs[k].waiting)
    BY <1>4
  <1>5. /\ ctxs'[k].waiting = Append(ctxs[k].waiting, m)
        /\ ctxs'[k].waiting \in Seq(Nat)
        /\ DOMAIN ctxs[k].waiting = 1 .. w /\ DOMAIN ctxs'[k].waiting = 1 .. w + 1
        /\ \A i \in 1 .. w : ctxs'[k].waiting[i] = ctxs[k].waiting[i]
        /\ ctxs'[k].waiting[w + 1] = m
    <2>1. ctxs'[k].waiting = Append(ctxs[k].waiting, m)
      BY <1>1, <1>3 DEF Context
    <2> QED  BY <1>3, <1>4, <2>1, AppendProperties
  <1>6. /\ \A c \in DOMAIN ctxs : c # k => ctxs'[c] = ctxs[c]
        /\ ctxs'[k].st = ctxs[k].st /\ ctxs'[k].data = ctxs[k].data /\ ctxs'[k] \in Context
        /\ DOMAIN ctxs' = DOMAIN ctxs
    BY <1>1, <1>3, <1>4, <1>5 DEF Context
  <1>7. ctxs' \in Seq(Context) /\ Len(ctxs') = Len(ctxs)
    <2>1. ctxs' = [ctxs EXCEPT ![k] = ctxs'[k]]  BY <1>1, <1>3
    <2>2. PICK y \in Context : y = ctxs'[k]  BY <1>6
    <2>3. [ctxs EXCEPT ![k] = y] \in Seq(Context) /\ Len([ctxs EXCEPT ![k] = y]) = Len(ctxs)
      BY <1>2, <1>3, ExceptSeq
    <2> QED  BY <2>1, <2>2, <2>3
  <1>8. /\ redis'.made = m /\ redis'.st = redis.st /\ redis'.ctx = k /\ redis'.isConn = redis.isConn
        /\ redis' \in Members
    BY <1>1, <1>2, <1>3 DEF Members
  <1>9. RedisTypes'
    BY <1>1, <1>2, <1>6, <1>7, <1>8 DEF RedisInv, RedisTypes
  <1>10. \A c \in DOMAIN ctxs : Live(c)' <=> Live(c)
    BY <1>6 DEF Live
  <1>11. ASSUME ~slow PROVE InTurn'
    <2>1. InTurn  BY <1>11 DEF RedisInv
    <2>2. \A i \in DOMAIN called : called[i] \in Nat /\ called[i] <= redis.made
      BY <1>2, <2>1 DEF InTurn
    <2>3. ASSUME NEW c \in DOMAIN ctxs, NEW i \in DOMAIN ctxs[c].waiting
          PROVE  ctxs[c].waiting[i] \in Nat
      <3>1. ctxs[c] \in Context  BY <1>2
      <3>2. ctxs[c].waiting \in Seq(Nat)  BY <3>1 DEF Context
      <3> QED  BY <3>2
    <2>4. ASSUME NEW c \in DOMAIN ctxs, Live(c)
          PROVE  /\ \A i \in DOMAIN ctxs'[c].waiting :
                        /\ ctxs'[c].waiting[i] <= m
                        /\ \A j \in DOMAIN called : called[j] < ctxs'[c].waiting[i]
                 /\ \A i, j \in DOMAIN ctxs'[c].waiting :
                        i < j => ctxs'[c].waiting[i] < ctxs'[c].waiting[j]
      <3>1. /\ \A i \in DOMAIN ctxs[c].waiting :
                  /\ ctxs[c].waiting[i] <= redis.made
                  /\ \A j \in DOMAIN called : called[j] < ctxs[c].waiting[i]
            /\ \A i, j \in DOMAIN ctxs[c].waiting :
                  i < j => ctxs[c].waiting[i] < ctxs[c].waiting[j]
        BY <2>1, <2>4 DEF InTurn
      <3>2. CASE c # k
        <4>1. ctxs'[c] = ctxs[c]  BY <1>6, <3>2
        <4> QED  BY <1>3, <2>3, <3>1, <4>1
      <3>3. CASE c = k
        <4>1. \A i \in 1 .. w : ctxs[k].waiting[i] \in Nat /\ ctxs[k].waiting[i] <= redis.made
          BY <1>5, <2>3, <3>1, <3>3
        <4>2. \A i \in 1 .. w + 1 : ctxs'[k].waiting[i] <= m
          BY <1>3, <1>5, <4>1
        <4>3. \A i \in 1 .. w + 1, j \in DOMAIN called : called[j] < ctxs'[k].waiting[i]
          BY <1>3, <1>5, <2>2, <3>1, <3>3
        <4>4. \A i, j \in 1 .. w + 1 : i < j => ctxs'[k].waiting[i] < ctxs'[k].waiting[j]
          <5> TAKE i, j \in 1 .. w + 1
          <5> HAVE i < j
          <5>1. i \in 1 .. w /\ (j \in 1 .. w \/ j = w + 1)  OBVIOUS
          <5>2. CASE j \in 1 .. w  BY <1>5, <3>1, <3>3, <5>1, <5>2
          <5>3. CASE j = w + 1  BY <1>3, <1>5, <4>1, <5>1, <5>3
          <5> QED  BY <5>1, <5>2, <5>3
        <4> QED  BY <1>5, <3>3, <4>2, <4>3, <4>4
      <3> QED  BY <3>2, <3>3
    <2>5. \A i \in DOMAIN called : called[i] <= m
      BY <1>3, <2>2
    <2> QED  BY <1>1, <1>6, <1>8, <1>10, <2>1, <2>4, <2>5 DEF InTurn
  <1>12. FlagIsTrue'
    BY <1>1, <1>6, <1>8, <1>10 DEF RedisInv, FlagIsTrue
  <1> QED  BY <1>1, <1>9, <1>11, <1>12 DEF RedisInv, RepliesInOrder

\* What becomes of one context when its callback runs.
LEMMA ContextChange ==
  ASSUME RedisInv, NEW c \in DOMAIN ctxs, NEW x \in Context, ctxs' = [ctxs EXCEPT ![c] = x]
  PROVE  /\ ctxs' \in Seq(Context) /\ Len(ctxs') = Len(ctxs) /\ DOMAIN ctxs' = DOMAIN ctxs
         /\ ctxs'[c] = x /\ \A d \in DOMAIN ctxs : d # c => ctxs'[d] = ctxs[d]
  BY ExceptSeq DEF RedisInv, RedisTypes

LEMMA CallbackStep ==
  ASSUME RedisInv, NEW c \in DOMAIN ctxs, OnConnected(c) \/ ConnectFailed(c) \/ OnDisConnect(c)
  PROVE  RedisInv'
  <1> PICK st \in {"connected", "freed"} :
        /\ Live(c)
        /\ \/ OnConnected(c) /\ st = "connected" /\ ctxs' = [ctxs EXCEPT ![c].st = st]
           \/ (ConnectFailed(c) \/ OnDisConnect(c))
              /\ st = "freed" /\ ctxs' = [ctxs EXCEPT ![c].st = st, ![c].waiting = <<>>]
    BY DEF OnConnected, ConnectFailed, OnDisConnect, Live
  <1> DEFINE x == [ctxs[c] EXCEPT !.st = st, !.waiting = IF st = "freed" THEN <<>> ELSE @]
  <1>1. ctxs[c] \in Context  BY DEF RedisInv, RedisTypes
  <1>2. x \in Context /\ x.st = st /\ x.data = ctxs[c].data
        /\ x.waiting = IF st = "freed" THEN <<>> ELSE ctxs[c].waiting
    BY <1>1, EmptySeq DEF Context
  <1>3. ctxs' = [ctxs EXCEPT ![c] = x]
    BY <1>1 DEF Context
  <1> HIDE DEF x
  <1>4. /\ ctxs' \in Seq(Context) /\ Len(ctxs') = Len(ctxs) /\ DOMAIN ctxs' = DOMAIN ctxs
        /\ ctxs'[c] = x /\ \A d \in DOMAIN ctxs : d # c => ctxs'[d] = ctxs[d]
    BY <1>2, <1>3, ContextChange
  <1>5. /\ redis'.st = redis.st /\ redis'.ctx = redis.ctx /\ redis'.made = redis.made
        /\ redis' \in Members
        /\ called' = called /\ slow' = slow
        /\ redis'.isConn = IF ConnectFailed(c) \/ ~ctxs[c].data THEN redis.isConn ELSE st = "connected"
    <2>1. redis \in Members  BY DEF RedisInv, RedisTypes
    <2>2. CASE OnConnected(c)
      BY <2>1, <2>2 DEF OnConnected, ConnectFailed, OnDisConnect, Members
    <2>3. CASE ConnectFailed(c)
      BY <2>1, <2>3 DEF OnConnected, ConnectFailed, OnDisConnect, Members
    <2>4. CASE OnDisConnect(c)
      BY <2>1, <2>4 DEF OnConnected, ConnectFailed, OnDisConnect, Members
    <2> QED  BY <2>2, <2>3, <2>4
  <1>6. RedisTypes'
    <2>1. ASSUME redis.st = "running", NEW d \in DOMAIN ctxs', ctxs'[d].st # "error"
          PROVE  ctxs'[d].data
      BY <1>2, <1>4, <2>1 DEF RedisInv, RedisTypes, Live
    <2>2. redis.st # "new"  BY DEF RedisInv, RedisTypes
    <2> QED  BY <1>4, <1>5, <2>1, <2>2 DEF RedisInv, RedisTypes
  <1>7. /\ \A d \in DOMAIN ctxs' : Live(d)' => Live(d)
        /\ \A d \in DOMAIN ctxs' : Live(d)' => ctxs'[d].waiting = ctxs[d].waiting
    BY <1>2, <1>4 DEF Live
  <1>8. ~slow => InTurn'
    BY <1>4, <1>5, <1>7 DEF RedisInv, InTurn
  <1>9. FlagIsTrue'
    <2> SUFFICES ASSUME redis.st = "running", ~slow
                 PROVE  /\ \A d \in DOMAIN ctxs' : Live(d)' => d = redis.ctx
                        /\ redis'.isConn <=> redis.ctx # 0 /\ ctxs'[redis.ctx].st = "connected"
      BY <1>5 DEF FlagIsTrue
    <2>1. /\ \A d \in DOMAIN ctxs : Live(d) => d = redis.ctx
          /\ redis.isConn <=> redis.ctx # 0 /\ ctxs[redis.ctx].st = "connected"
      BY DEF RedisInv, FlagIsTrue
    <2>2. c = redis.ctx /\ c # 0 /\ ctxs'[c].st = st
      BY <1>2, <1>4, <2>1 DEF RedisInv, RedisTypes
    <2>3. ctxs[c].data
      BY DEF RedisInv, RedisTypes, Live
    <2>4. ConnectFailed(c) => ~redis.isConn /\ st = "freed"
      <3> HAVE ConnectFailed(c)
      <3>1. ctxs[c].st = "connecting"  BY DEF ConnectFailed
      <3>2. ~redis.isConn  BY <2>1, <2>2, <3>1
      <3>3. ctxs'[c].st = "freed"  BY <1>1 DEF ConnectFailed, Context
      <3> QED  BY <2>2, <3>2, <3>3
    <2>5. redis'.isConn <=> st = "connected"
      BY <1>5, <2>3, <2>4 DEF RedisInv, RedisTypes
    <2> QED  BY <1>4, <1>7, <2>1, <2>2, <2>5
  <1> QED  BY <1>5, <1>6, <1>8, <1>9 DEF RedisInv, RepliesInOrder

LEMMA ReplyStep == ASSUME RedisInv, NEW c \in DOMAIN ctxs, OnCommandReplay(c) PROVE RedisInv'
  <1> DEFINE q == ctxs[c].waiting
  <1>1. /\ ctxs[c].st = "connected" /\ q # <<>> /\ redis' = redis /\ slow' = slow
        /\ ctxs' = [ctxs EXCEPT ![c].waiting = Tail(@)]
        /\ called' = called \/ called' = Append(called, Head(q))
    BY DEF OnCommandReplay
  <1>2. ctxs[c] \in Context /\ q \in Seq(Nat) /\ called \in Seq(Nat) /\ redis \in Members
    <2>1. ctxs[c] \in Context  BY DEF RedisInv, RedisTypes
    <2> QED  BY <2>1 DEF RedisInv, RedisTypes, Context
  <1> PICK n \in Nat : n = Len(q)
    BY <1>2
  <1> PICK m \in Nat : m = Len(called)
    BY <1>2
  <1>3. /\ n > 0 /\ Tail(q) \in Seq(Nat) /\ Len(Tail(q)) = n - 1 /\ Head(q) = q[1] /\ q[1] \in Nat
        /\ DOMAIN q = 1 .. n /\ DOMAIN Tail(q) = 1 .. n - 1 /\ DOMAIN called = 1 .. m
        /\ \A i \in 1 .. n - 1 : Tail(q)[i] = q[i + 1]
        /\ \A i \in 1 .. n : q[i] \in Nat
        /\ \A i \in 1 .. m : called[i] \in Nat
    <2>1. n > 0  BY <1>1, <1>2, EmptySeq
    <2>2. DOMAIN q = 1 .. n /\ DOMAIN called = 1 .. m  BY <1>2, LenProperties
    <2>3. Tail(q) \in Seq(Nat) /\ Len(Tail(q)) = n - 1 /\ Head(q) = q[1]
          /\ \A i \in 1 .. n - 1 : Tail(q)[i] = q[i + 1]
      BY <1>1, <1>2, HeadTailProperties
    <2>4. DOMAIN Tail(q) = 1 .. n - 1  BY <2>3, LenProperties
    <2>5. (\A i \in 1 .. n : q[i] \in Nat) /\ (\A i \in 1 .. m : called[i] \in Nat)
      BY <1>2, <2>2, ElementOfSeq
    <2>6. 1 \in 1 .. n  BY <2>1
    <2> QED  BY <2>1, <2>2, <2>3, <2>4, <2>5, <2>6
  <1> DEFINE x == [ctxs[c] EXCEPT !.waiting = Tail(q)]
  <1>4. x \in Context /\ x.st = ctxs[c].st /\ x.data = ctxs[c].data /\ x.waiting = Tail(q)
    BY <1>2, <1>3 DEF Context
  <1>5. ctxs' = [ctxs EXCEPT ![c] = x]
    BY <1>1, <1>2 DEF Context
  <1> HIDE DEF x
  <1>6. /\ ctxs' \in Seq(Context) /\ Len(ctxs') = Len(ctxs) /\ DOMAIN ctxs' = DOMAIN ctxs
        /\ ctxs'[c] = x /\ \A d \in DOMAIN ctxs : d # c => ctxs'[d] = ctxs[d]
    BY <1>4, <1>5, ContextChange
  <1>7. \A d \in DOMAIN ctxs : ctxs'[d].st = ctxs[d].st /\ ctxs'[d].data = ctxs[d].data
    BY <1>4, <1>6
  <1>8. /\ called' \in Seq(Nat)
        /\ \/ called' = called
           \/ /\ DOMAIN called' = 1 .. m + 1 /\ called'[m + 1] = q[1]
              /\ \A i \in 1 .. m : called'[i] = called[i]
    <2>1. CASE called' = called  BY <1>2, <2>1
    <2>2. CASE called' = Append(called, q[1])
      BY <1>2, <1>3, <2>2, AppendProperties
    <2> QED  BY <1>1, <1>3, <2>1, <2>2
  <1>9. RedisTypes'
    BY <1>1, <1>6, <1>7, <1>8 DEF RedisInv, RedisTypes
  <1>10. FlagIsTrue'
    BY <1>1, <1>2, <1>6, <1>7 DEF RedisInv, RedisTypes, FlagIsTrue, Live, Members
  <1>11. ASSUME ~slow PROVE InTurn' /\ RepliesInOrder'
    <2>1. /\ InTurn /\ Live(c)
          /\ \A i, j \in 1 .. m : i < j => called[i] < called[j]
      BY <1>1, <1>3, <1>11 DEF RedisInv, RepliesInOrder, Live
    <2>2. /\ \A i \in 1 .. n : q[i] <= redis.made /\ \A j \in 1 .. m : called[j] < q[i]
          /\ \A i, j \in 1 .. n : i < j => q[i] < q[j]
      BY <1>3, <2>1 DEF InTurn
    <2>3. \A d \in DOMAIN ctxs' : Live(d)' => d = c
      <3> TAKE d \in DOMAIN ctxs'
      <3> HAVE Live(d)'
      <3>1. Live(d)  BY <1>6, <1>7 DEF Live
      <3> QED  BY <1>6, <2>1, <3>1 DEF InTurn
    <2>4. 1 \in 1 .. n /\ \A i \in 1 .. n - 1 : i + 1 \in 1 .. n /\ Tail(q)[i] = q[i + 1] /\ q[1] < q[i + 1]
      BY <1>3, <2>2
    <2>5. \A i \in DOMAIN called' : called'[i] <= redis.made
      <3>1. \A i \in 1 .. m : called[i] <= redis.made  BY <1>3, <2>1 DEF InTurn
      <3>2. q[1] <= redis.made  BY <2>2, <2>4
      <3>3. CASE called' = called  BY <1>3, <3>1, <3>3
      <3>4. CASE /\ DOMAIN called' = 1 .. m + 1 /\ called'[m + 1] = q[1]
                 /\ \A k \in 1 .. m : called'[k] = called[k]
        <4> TAKE i \in DOMAIN called'
        <4>1. i \in 1 .. m \/ i = m + 1  BY <3>4
        <4> QED  BY <3>1, <3>2, <3>4, <4>1
      <3> QED  BY <1>8, <3>3, <3>4
    <2>6. \A i \in 1 .. n - 1, j \in DOMAIN called' : called'[j] < Tail(q)[i]
      <3> TAKE i \in 1 .. n - 1, j \in DOMAIN called'
      <3>1. CASE j \in 1 .. m /\ called'[j] = called[j]
        BY <2>2, <2>4, <3>1
      <3>2. CASE called'[j] = q[1]
        BY <2>4, <3>2
      <3>3. CASE called' = called  BY <1>3, <3>1, <3>3
      <3>4. CASE /\ DOMAIN called' = 1 .. m + 1 /\ called'[m + 1] = q[1]
                 /\ \A k \in 1 .. m : called'[k] = called[k]
        <4>1. j \in 1 .. m \/ j = m + 1  BY <3>4
        <4> QED  BY <3>1, <3>2, <3>4, <4>1
      <3> QED  BY <1>8, <3>3, <3>4
    <2>7. \A i \in 1 .. n - 1 : Tail(q)[i] <= redis.made
      BY <2>2, <2>4
    <2>8. \A i, j \in 1 .. n - 1 : i < j => Tail(q)[i] < Tail(q)[j]
      BY <2>2, <2>4
    <2>9. InTurn'
      <3>1. ctxs'[c].waiting = Tail(q)  BY <1>4, <1>6
      <3>2. \A d \in DOMAIN ctxs', e \in DOMAIN ctxs' : Live(d)' /\ Live(e)' => d = e
        BY <2>3
      <3>3. \A i \in DOMAIN called' : called'[i] <= redis'.made  BY <1>1, <2>5
      <3>4. ASSUME NEW d \in DOMAIN ctxs', Live(d)'
            PROVE  /\ \A i \in DOMAIN ctxs'[d].waiting :
                          /\ ctxs'[d].waiting[i] <= redis'.made
                          /\ \A j \in DOMAIN called' : called'[j] < ctxs'[d].waiting[i]
                   /\ \A i, j \in DOMAIN ctxs'[d].waiting :
                          i < j => ctxs'[d].waiting[i] < ctxs'[d].waiting[j]
        <4>1. d = c /\ ctxs'[d].waiting = Tail(q)  BY <2>3, <3>1, <3>4
        <4> QED  BY <1>1, <1>3, <2>6, <2>7, <2>8, <4>1
      <3> QED  BY <3>2, <3>3, <3>4 DEF InTurn
    <2>10. RepliesInOrder'
      <3>1. \A i, j \in DOMAIN called' : i < j => called'[i] < called'[j]
        <4> TAKE i, j \in DOMAIN called'
        <4> HAVE i < j
        <4>1. CASE called' = called  BY <1>3, <2>1, <4>1
        <4>2. CASE /\ DOMAIN called' = 1 .. m + 1 /\ called'[m + 1] = q[1]
                   /\ \A k \in 1 .. m : called'[k] = called[k]
          <5>1. i \in 1 .. m /\ (j \in 1 .. m \/ j = m + 1)  BY <4>2
          <5>2. called[i] < q[1]  BY <2>2, <2>4, <5>1
          <5> QED  BY <2>1, <4>2, <5>1, <5>2
        <4> QED  BY <1>8, <4>1, <4>2
      <3> QED  BY <3>1 DEF RepliesInOrder
    <2> QED  BY <2>9, <2>10
  <1> QED  BY <1>1, <1>9, <1>10, <1>11 DEF RedisInv, RepliesInOrder

LEMMA DestroyStep == ASSUME RedisInv, DestroyRedis PROVE RedisInv'
  <1> DEFINE k == redis.ctx
  <1>1. redis \in Members /\ ctxs \in Seq(Context) /\ k \in Nat /\ k <= Len(ctxs)
    BY DEF RedisInv, RedisTypes, Members
  <1>2. /\ redis'.st = "destroyed" /\ redis'.ctx = 0 /\ redis'.made = redis.made /\ redis' \in Members
        /\ called' = called /\ slow' = slow
    BY <1>1 DEF DestroyRedis, Members
  <1>3. /\ ctxs' \in Seq(Context) /\ DOMAIN ctxs' = DOMAIN ctxs
        /\ \A d \in DOMAIN ctxs : Live(d)' => Live(d) /\ ctxs'[d].waiting = ctxs[d].waiting
    <2>1. CASE k = 0
      BY <1>1, <2>1 DEF DestroyRedis, Live
    <2>2. CASE k # 0
      <3> DEFINE x == IF redis.isConn THEN [ctxs[k] EXCEPT !.data = FALSE]
                      ELSE [ctxs[k] EXCEPT !.data = FALSE, !.st = "freed", !.waiting = <<>>]
      <3>1. k \in DOMAIN ctxs /\ ctxs[k] \in Context
        BY <1>1, <2>2
      <3>2. x \in Context /\ (x.st = "freed" \/ (x.st = ctxs[k].st /\ x.waiting = ctxs[k].waiting))
        <4>1. CASE redis.isConn  BY <3>1, <4>1 DEF Context
        <4>2. CASE ~redis.isConn
          <5>1. x = [ctxs[k] EXCEPT !.data = FALSE, !.st = "freed", !.waiting = <<>>]  BY <4>2
          <5>2. <<>> \in Seq(Nat)  OBVIOUS
          <5> QED  BY <3>1, <5>1, <5>2 DEF Context
        <4> QED  BY <4>1, <4>2
      <3>3. ctxs' = [ctxs EXCEPT ![k] = x]
        BY <2>2, <3>1 DEF DestroyRedis, Context
      <3> HIDE DEF x
      <3>4. /\ ctxs' \in Seq(Context) /\ DOMAIN ctxs' = DOMAIN ctxs
            /\ ctxs'[k] = x /\ \A d \in DOMAIN ctxs : d # k => ctxs'[d] = ctxs[d]
        BY <3>1, <3>2, <3>3, ContextChange
      <3> QED  BY <3>2, <3>4 DEF Live
    <2> QED  BY <2>1, <2>2
  <1>4. RedisTypes'
    <2>1. redis'.ctx <= Len(ctxs')  BY <1>2, <1>3
    <2> QED  BY <1>2, <1>3, <2>1 DEF RedisInv, RedisTypes
  <1>5. ~slow => InTurn'
    BY <1>2, <1>3 DEF RedisInv, InTurn
  <1> QED  BY <1>2, <1>4, <1>5 DEF RedisInv, FlagIsTrue, RepliesInOrder

LEMMA RedisStep == ASSUME RedisInv, [RedisNext]_redisVars PROVE RedisInv'
  <1>1. CASE Connect \/ OnReconTimer  BY <1>1, ConnectStep
  <1>2. CASE Command  BY <1>2, CommandStep
  <1>3. CASE DestroyRedis  BY <1>3, DestroyStep
  <1>4. ASSUME NEW c \in DOMAIN ctxs, OnConnected(c) \/ ConnectFailed(c) \/ OnDisConnect(c)
        PROVE  RedisInv'
    BY <1>4, CallbackStep
  <1>5. ASSUME NEW c \in DOMAIN ctxs, OnCommandReplay(c) PROVE RedisInv'
    BY <1>5, ReplyStep
  <1>6. CASE UNCHANGED redisVars
    BY <1>6 DEF redisVars, RedisInv, RedisTypes, InTurn, FlagIsTrue, RepliesInOrder, Live
  <1> QED  BY <1>1, <1>2, <1>3, <1>4, <1>5, <1>6 DEF RedisNext

-----------------------------------------------------------------------------
(* RocksDB: every step keeps the invariant                                 *)

LEMMA DbInitial == ASSUME DbInit PROVE DbInv
  <1>1. db \in DbMembers /\ db.st = "new" /\ db.cmds = <<>> /\ db.results = <<>> /\ db.waiters = 0
    BY DbAssumption, EmptySeq DEF DbInit, DbMembers
  <1>2. cmd \in DbThread /\ cmd.pc = "none"
    BY EmptySeq DEF DbInit, DbThread
  <1>3. store \in Seq(States) /\ store # <<>> /\ reads = <<>> /\ got = <<>>
    BY DEF DbInit, States
  <1>4. DbTypes
    BY <1>1, <1>2, <1>3, EmptySeq DEF DbTypes
  <1>5. AllResults = <<>>
    BY <1>1, <1>3 DEF AllResults
  <1>6. ReadsInOrder /\ AllFresh
    BY <1>1, <1>2, <1>3, <1>5 DEF ReadsInOrder, AllFresh, InHand
  <1> QED  BY <1>1, <1>4, <1>6 DEF DbInv, PostedFor, ReadsAnswered

\* A step that neither asks, takes, reads nor hands over leaves the order of the reads.
LEMMA QuietStep ==
  ASSUME DbInv, db'.cmds = db.cmds, db'.results = db.results,
         got' = got, reads' = reads, store' = store,
         cmd' = cmd \/ (cmd.pc \notin {"read", "ended"} /\ cmd'.pc # "read")
  PROVE  ReadsInOrder' /\ AllFresh'
  <1>1. AllResults' = AllResults  BY DEF AllResults
  <1>2. InHand' = InHand /\ (cmd.pc = "ended" => cmd'.pc = "ended")
        /\ (cmd'.pc = "read" => cmd' = cmd)
    BY DEF InHand
  <1>3. ReadsInOrder'
    BY <1>1, <1>2 DEF DbInv, ReadsInOrder
  <1>4. AllFresh'
    BY <1>1 DEF DbInv, AllFresh
  <1> QED  BY <1>3, <1>4

LEMMA DbQuietStep ==
  ASSUME DbInv,
         \/ Open \/ CloseDb \/ AskRelease \/ EnterWait \/ SemWait \/ NotifyResult
         \/ ReleaseAll \/ JoinCmd
  PROVE  DbInv'
  <1> USE DEF DbInv, DbTypes
  <1>1. CASE Open
    <2>1. db' \in DbMembers /\ cmd' \in DbThread
      BY <1>1 DEF Open, DbMembers, DbThread
    <2>2. /\ db'.st = "open" /\ db'.cmds = db.cmds /\ db'.results = <<>> /\ db.results = <<>>
          /\ db'.waiters = db.waiters /\ cmd.pc = "none" /\ cmd'.pc = "dequeue"
          /\ got' = got /\ reads' = reads /\ store' = store
      BY <1>1 DEF Open, DbMembers, DbThread
    <2>3. ReadsInOrder' /\ AllFresh'
      BY <2>2, QuietStep
    <2> QED  BY <2>1, <2>2, <2>3 DEF PostedFor, ReadsAnswered
  <1>2. CASE CloseDb \/ ReleaseAll \/ JoinCmd
    <2>1. /\ db' \in DbMembers /\ db'.st \notin {"new", "open"} /\ cmd' = cmd
          /\ db'.cmds = db.cmds /\ db'.results = db.results /\ db'.waiters = db.waiters
          /\ got' = got /\ reads' = reads /\ store' = store
      <3>1. CASE CloseDb  BY <3>1 DEF CloseDb, DbMembers
      <3>2. CASE ReleaseAll
        <4>1. CASE db.waiters # 0  BY <3>2, <4>1 DEF ReleaseAll, DbMembers
        <4>2. CASE db.waiters = 0  BY <3>2, <4>2 DEF ReleaseAll, DbMembers
        <4> QED  BY <4>1, <4>2
      <3>3. CASE JoinCmd
        <4>1. CASE db.inner  BY <3>3, <4>1 DEF JoinCmd, DbMembers
        <4>2. CASE ~db.inner  BY <3>3, <4>2 DEF JoinCmd, DbMembers
        <4> QED  BY <4>1, <4>2
      <3> QED  BY <1>2, <3>1, <3>2, <3>3
    <2>2. ReadsInOrder' /\ AllFresh'
      BY <2>1, QuietStep
    <2> QED  BY <2>1, <2>2 DEF PostedFor, ReadsAnswered
  <1>3. CASE AskRelease
    <2>1. /\ db' \in DbMembers /\ db'.st = db.st /\ cmd' = cmd
          /\ db'.cmds = db.cmds /\ db'.results = db.results /\ db'.waiters = db.waiters
          /\ db'.ring = db.ring /\ db'.posts = db.posts + 1 /\ db.posts \in Nat
          /\ got' = got /\ reads' = reads /\ store' = store
      <3>1. db.posts \in Nat /\ db.posts + 1 \in Nat  BY DEF DbMembers
      <3> QED  BY <1>3, <3>1 DEF AskRelease, DbMembers
    <2>2. ReadsInOrder' /\ AllFresh'
      BY <2>1, QuietStep
    <2> QED  BY <2>1, <2>2 DEF PostedFor, ReadsAnswered
  <1>4. CASE EnterWait
    <2>1. /\ db' \in DbMembers /\ db'.st = db.st /\ cmd' \in DbThread
          /\ cmd.pc = "enterWait" /\ cmd'.pc = "semWait"
          /\ db'.cmds = db.cmds /\ db'.results = db.results /\ db'.waiters = 1 /\ db'.asking = db.asking
          /\ db'.ring = db.ring /\ db'.posts = db.posts
          /\ got' = got /\ reads' = reads /\ store' = store
      <3>1. db.waiters = 0 /\ db' = [db EXCEPT !.waiters = 1] /\ cmd' = [cmd EXCEPT !.pc = "semWait"]
        <4>1. db.waiters = 0  BY <1>4 DEF EnterWait
        <4>2. db.waiters + 1 = 1  BY <4>1
        <4> QED  BY <1>4, <4>1, <4>2 DEF EnterWait
      <3>2. db' \in DbMembers /\ cmd' \in DbThread  BY <3>1 DEF DbMembers, DbThread
      <3> QED  BY <1>4, <3>1, <3>2 DEF EnterWait, DbMembers, DbThread
    <2>2. ReadsInOrder' /\ AllFresh'
      BY <2>1, QuietStep
    <2> QED  BY <2>1, <2>2 DEF PostedFor, ReadsAnswered
  <1>5. CASE SemWait
    <2>1. /\ db' \in DbMembers /\ db'.st = db.st /\ cmd' \in DbThread
          /\ cmd.pc = "semWait" /\ cmd'.pc = "dequeue"
          /\ db'.cmds = db.cmds /\ db'.results = db.results /\ db'.waiters = 0
          /\ db'.ring = db.ring
          /\ got' = got /\ reads' = reads /\ store' = store
      <3>1. db.posts - 1 \in Nat  BY <1>5 DEF SemWait, DbMembers
      <3>2. db.waiters = 1  BY <1>5 DEF SemWait
      <3>3. /\ db' = [db EXCEPT !.posts = db.posts - 1, !.waiters = 0]
            /\ cmd' = [cmd EXCEPT !.pc = "dequeue"]
        BY <1>5, <3>2 DEF SemWait
      <3>4. db' \in DbMembers /\ cmd' \in DbThread  BY <3>1, <3>3 DEF DbMembers, DbThread
      <3> QED  BY <1>5, <3>3, <3>4 DEF SemWait, DbMembers, DbThread
    <2>2. ReadsInOrder' /\ AllFresh'
      BY <2>1, QuietStep
    <2> QED  BY <2>1, <2>2 DEF PostedFor, ReadsAnswered
  <1>6. CASE NotifyResult
    <2>1. /\ db' \in DbMembers /\ db'.st = db.st /\ cmd' \in DbThread
          /\ cmd.pc = "notify" /\ cmd'.pc = "dequeue"
          /\ db'.cmds = db.cmds /\ db'.results = db.results /\ db'.waiters = db.waiters
          /\ db'.ring = TRUE
          /\ got' = got /\ reads' = reads /\ store' = store
      BY <1>6, EmptySeq DEF NotifyResult, DbMembers, DbThread
    <2>2. ReadsInOrder' /\ AllFresh'
      BY <2>1, QuietStep
    <2> QED  BY <2>1, <2>2 DEF PostedFor, ReadsAnswered
  <1> QED  BY <1>1, <1>2, <1>3, <1>4, <1>5, <1>6

LEMMA WriteStep == ASSUME DbInv, NEW K, Put(K) \/ Delete(K) PROVE DbInv'
  <1> PICK n \in Nat : n = Len(store)
    BY DEF DbInv, DbTypes
  <1>1. /\ store \in Seq(States) /\ n > 0 /\ Last(store) = store[n] /\ store[n] \in States
        /\ DOMAIN store = 1 .. n
    BY DEF DbInv, DbTypes, Last
  <1>2. PICK s \in States : store' = Append(store, s)
    <2>1. PICK v \in Nat : store' = Append(store, [k \in DbKeys |-> IF k \in K THEN v ELSE Last(store)[k]])
      BY DEF Put, Delete, Write
    <2>2. [k \in DbKeys |-> IF k \in K THEN v ELSE Last(store)[k]] \in States
      BY <1>1 DEF States
    <2> QED  BY <2>1, <2>2
  <1>3. db' = db /\ cmd' = cmd /\ reads' = reads /\ got' = got
    BY DEF Put, Delete, Write
  <1>4. /\ store' \in Seq(States) /\ Len(store') = n + 1 /\ store' # <<>>
        /\ \A i \in 1 .. n : store'[i] = store[i]
    BY <1>1, <1>2, AppendProperties
  <1>5. DbTypes'
    BY <1>3, <1>4 DEF DbInv, DbTypes
  <1>6. \A i \in DOMAIN reads : reads[i].states \in 1 .. n /\ reads[i].states \in 1 .. n + 1
    BY DEF DbInv, ReadsInOrder
  <1>7. AllResults' = AllResults /\ InHand' = InHand
    BY <1>3 DEF AllResults, InHand
  <1>8. ReadsInOrder'
    BY <1>3, <1>4, <1>6, <1>7 DEF DbInv, ReadsInOrder
  <1>9. AllFresh'
    <2> SUFFICES ASSUME NEW i \in DOMAIN AllResults
                 PROVE  /\ AllResults[i].read = i
                        /\ \E m \in reads[i].states .. n + 1 :
                              AllResults[i].values = Result(reads[i].cmd, store'[m])
      BY <1>3, <1>4, <1>7 DEF AllFresh
    <2>1. AllResults \in Seq(Reply)
      BY DEF DbInv, DbTypes, DbMembers, AllResults
    <2>2. i \in DOMAIN reads
      BY <2>1 DEF DbInv, DbTypes, DbMembers, ReadsInOrder, InHand
    <2>3. AllResults[i].read = i
      BY DEF DbInv, AllFresh
    <2>4. PICK m \in reads[i].states .. n : AllResults[i].values = Result(reads[i].cmd, store[m])
      BY DEF DbInv, AllFresh
    <2>5. m \in 1 .. n /\ m \in reads[i].states .. n + 1
      BY <1>6, <2>2
    <2>6. store'[m] = store[m]
      BY <1>4, <2>5
    <2> QED  BY <2>3, <2>4, <2>5, <2>6
  <1> QED  BY <1>3, <1>5, <1>8, <1>9 DEF DbInv, PostedFor, ReadsAnswered

\* The new read is the last of the queue.
LEMMA AskStep == ASSUME DbInv, NEW c \in Commands, Ask(c) PROVE DbInv'
  <1> PICK n \in Nat : n = Len(reads)
    BY DEF DbInv, DbTypes
  <1> PICK q \in Nat : q = Len(db.cmds)
    BY DEF DbInv, DbTypes, DbMembers
  <1> PICK m \in Nat : m = Len(AllResults) + InHand
    BY DEF DbInv, DbTypes, DbMembers, AllResults, InHand
  <1> PICK k \in Nat : k = Len(store)
    BY DEF DbInv, DbTypes
  <1>1. /\ db.st = "open" /\ reads' = Append(reads, [cmd |-> c, states |-> k])
        /\ db' = [db EXCEPT !.cmds = Append(db.cmds, n + 1), !.asking = TRUE]
        /\ cmd' = cmd /\ store' = store /\ got' = got
    BY DEF Ask
  <1>2. db.cmds \in Seq(Nat) /\ db \in DbMembers /\ k > 0 /\ n + 1 \in Nat
    BY DEF DbInv, DbTypes, DbMembers
  <1>3. /\ Append(db.cmds, n + 1) \in Seq(Nat) /\ Len(Append(db.cmds, n + 1)) = q + 1
        /\ \A i \in 1 .. q : Append(db.cmds, n + 1)[i] = db.cmds[i]
        /\ Append(db.cmds, n + 1)[q + 1] = n + 1 /\ DOMAIN db.cmds = 1 .. q
        /\ DOMAIN Append(db.cmds, n + 1) = 1 .. q + 1
    BY <1>2, AppendProperties
  <1>4. /\ db' \in DbMembers /\ db'.st = "open" /\ db'.cmds = Append(db.cmds, n + 1) /\ db'.asking
        /\ db'.results = db.results /\ db'.waiters = db.waiters /\ db'.ring = db.ring
    <2> DEFINE x == Append(db.cmds, n + 1)
    <2>1. x \in Seq(Nat)  BY <1>3
    <2> HIDE DEF x
    <2>2. db' = [db EXCEPT !.cmds = x, !.asking = TRUE]  BY <1>1 DEF x
    <2> QED  BY <1>1, <1>2, <2>1, <2>2 DEF DbMembers, x
  <1>5. /\ reads' \in Seq(Asked) /\ Len(reads') = n + 1
        /\ DOMAIN reads' = 1 .. n + 1 /\ DOMAIN reads = 1 .. n
        /\ \A i \in 1 .. n : reads'[i] = reads[i]
        /\ reads'[n + 1].states = k
    <2>1. [cmd |-> c, states |-> k] \in Asked  BY DEF Asked
    <2> QED  BY <1>1, <2>1, AppendProperties DEF DbInv, DbTypes
  <1>6. DbTypes'
    BY <1>1, <1>4, <1>5 DEF DbInv, DbTypes
  <1>7. AllResults' = AllResults /\ InHand' = InHand
    BY <1>1, <1>4 DEF AllResults, InHand
  <1>8. ReadsInOrder'
    <2>1. /\ m + q <= n
          /\ cmd.pc = "read" => cmd.hand # <<>> /\ cmd.hand[1] = Len(AllResults) + 1
          /\ cmd.pc = "ended" \/ \A i \in 1 .. q : db.cmds[i] = m + i
          /\ cmd.pc # "ended" => m + q = n
          /\ \A i \in 1 .. n : reads[i].states \in 1 .. k
      BY <1>3, <1>5 DEF DbInv, ReadsInOrder
    <2>2. cmd.pc = "ended" \/ \A i \in 1 .. q + 1 : Append(db.cmds, n + 1)[i] = m + i
      <3> SUFFICES ASSUME cmd.pc # "ended", NEW i \in 1 .. q + 1
                   PROVE  Append(db.cmds, n + 1)[i] = m + i
        OBVIOUS
      <3>1. CASE i \in 1 .. q  BY <1>3, <2>1, <3>1
      <3>2. CASE i = q + 1
        <4>1. m + q = n /\ m \in Nat /\ q \in Nat  BY <2>1
        <4>2. \A a, b \in Nat : a + b + 1 = a + (b + 1)  OBVIOUS
        <4> QED  BY <1>3, <3>2, <4>1, <4>2
      <3> QED  BY <3>1, <3>2
    <2>3. \A i \in 1 .. n + 1 : reads'[i].states \in 1 .. k
      <3> TAKE i \in 1 .. n + 1
      <3>1. CASE i \in 1 .. n  BY <1>5, <2>1, <3>1
      <3>2. CASE i = n + 1  BY <1>2, <1>5, <3>2
      <3> QED  BY <3>1, <3>2
    <2>4. m + (q + 1) <= n + 1 /\ (cmd.pc # "ended" => m + (q + 1) = n + 1)
      BY <2>1
    <2>5. Len(AllResults)' + InHand' = m /\ Len(db'.cmds) = q + 1 /\ Len(store') = k
      BY <1>1, <1>3, <1>4, <1>7
    <2>6. DOMAIN db'.cmds = 1 .. q + 1 /\ DOMAIN reads' = 1 .. n + 1 /\ Len(reads') = n + 1
          /\ Len(AllResults') + InHand' = m /\ Len(AllResults') = Len(AllResults)
      BY <1>3, <1>4, <1>5, <1>7, <2>5
    <2>7. Len(AllResults') + InHand' + Len(db'.cmds) = m + (q + 1)  BY <2>5, <2>6
    <2>8. cmd'.pc = cmd.pc /\ cmd'.hand = cmd.hand /\ db'.cmds = Append(db.cmds, n + 1)
      BY <1>1, <1>4
    <2>9. cmd'.pc = "ended" \/ \A i \in DOMAIN db'.cmds : db'.cmds[i] = Len(AllResults') + InHand' + i
      BY <2>2, <2>6, <2>8
    <2>10. \A i \in DOMAIN reads' : reads'[i].states \in 1 .. Len(store')
      BY <2>3, <2>5, <2>6
    <2> QED  BY <2>1, <2>4, <2>6, <2>7, <2>8, <2>9, <2>10 DEF ReadsInOrder
  <1>9. AllFresh'
    <2> SUFFICES ASSUME NEW i \in DOMAIN AllResults
                 PROVE  /\ AllResults[i].read = i
                        /\ \E j \in reads'[i].states .. k :
                              AllResults[i].values = Result(reads'[i].cmd, store[j])
      BY <1>1, <1>7 DEF AllFresh
    <2>1. AllResults \in Seq(Reply)
      BY DEF DbInv, DbTypes, DbMembers, AllResults
    <2>2. i \in 1 .. n
      BY <2>1 DEF DbInv, DbTypes, DbMembers, ReadsInOrder, InHand
    <2>3. reads'[i] = reads[i]  BY <1>5, <2>2
    <2> QED  BY <2>3 DEF DbInv, AllFresh
  <1> QED  BY <1>1, <1>4, <1>6, <1>8, <1>9 DEF DbInv, PostedFor, ReadsAnswered

LEMMA OnResultStep == ASSUME DbInv, OnResult PROVE DbInv'
  <1>1. /\ db.st = "open" /\ got' = got \o db.results
        /\ db' = [db EXCEPT !.ring = FALSE, !.results = <<>>]
        /\ cmd' = cmd /\ store' = store /\ reads' = reads
        /\ db \in DbMembers /\ got \in Seq(Reply) /\ db.results \in Seq(Reply)
    BY DEF OnResult, DbInv, DbTypes, DbMembers
  <1>2. /\ db' \in DbMembers /\ db'.st = "open" /\ db'.results = <<>> /\ db'.cmds = db.cmds
        /\ db'.waiters = db.waiters /\ db'.posts = db.posts /\ db'.asking = db.asking
    <2>1. <<>> \in Seq(Reply)  OBVIOUS
    <2> QED  BY <1>1, <2>1 DEF DbMembers
  <1>3. AllResults' = AllResults /\ InHand' = InHand /\ got' \in Seq(Reply)
    BY <1>1, <1>2 DEF AllResults, InHand
  <1>4. DbTypes'
    BY <1>1, <1>2, <1>3 DEF DbInv, DbTypes
  <1>5. ReadsInOrder'
    BY <1>1, <1>2, <1>3 DEF DbInv, ReadsInOrder
  <1>6. AllFresh'
    BY <1>1, <1>3 DEF DbInv, AllFresh
  <1> QED  BY <1>1, <1>2, <1>4, <1>5, <1>6 DEF DbInv, PostedFor, ReadsAnswered

\* The thread takes the first command, or goes to sleep, or ends.
LEMMA TryDequeueStep == ASSUME DbInv, TryDequeue PROVE DbInv'
  <1>1. /\ cmd.pc = "dequeue" /\ store' = store /\ reads' = reads /\ got' = got
        /\ db \in DbMembers /\ cmd \in DbThread /\ db.cmds \in Seq(Nat)
    BY DEF TryDequeue, DbInv, DbTypes, DbMembers
  <1>2. CASE db.cmds = <<>>
    <2>1. /\ db' = db /\ cmd' \in DbThread /\ cmd'.pc \in {"enterWait", "ended"}
          /\ cmd'.pc = "ended" => ~db.isOpen
      BY <1>1, <1>2 DEF TryDequeue, DbThread
    <2>2. ReadsInOrder' /\ AllFresh'
      BY <1>1, <2>1, QuietStep
    <2> QED  BY <1>1, <1>2, <2>1, <2>2 DEF DbInv, DbTypes, PostedFor, ReadsAnswered
  <1>3. CASE db.cmds # <<>>
    <2> PICK q \in Nat : q = Len(db.cmds)
      BY <1>1
    <2> DEFINE h == Head(db.cmds)
               t == Tail(db.cmds)
    <2>1. /\ q > 0 /\ t \in Seq(Nat) /\ Len(t) = q - 1 /\ h = db.cmds[1] /\ h \in Nat
          /\ DOMAIN db.cmds = 1 .. q /\ DOMAIN t = 1 .. q - 1
          /\ \A i \in 1 .. q - 1 : t[i] = db.cmds[i + 1]
      BY <1>1, <1>3, HeadTailProperties
    <2>2. db' = [db EXCEPT !.cmds = t]
      BY <1>3 DEF TryDequeue
    <2>3. cmd' = [pc |-> "read", hand |-> <<h>>] \/ cmd' = [cmd EXCEPT !.pc = "ended"]
      BY <1>3 DEF TryDequeue
    <2> HIDE DEF h, t
    <2>4. /\ db' \in DbMembers /\ db'.cmds = t /\ db'.results = db.results /\ db'.st = db.st
          /\ db'.waiters = db.waiters /\ db'.ring = db.ring
      BY <1>1, <2>1, <2>2 DEF DbMembers
    <2>5. /\ cmd' \in DbThread
          /\ \/ cmd'.pc = "read" /\ cmd'.hand # <<>> /\ cmd'.hand[1] = h
             \/ cmd'.pc = "ended"
      <3>1. <<h>> \in Seq(Nat) /\ <<h>> # <<>> /\ <<h>>[1] = h  BY <2>1
      <3>2. CASE cmd' = [pc |-> "read", hand |-> <<h>>]  BY <3>1, <3>2 DEF DbThread
      <3>3. CASE cmd' = [cmd EXCEPT !.pc = "ended"]  BY <1>1, <3>3 DEF DbThread
      <3> QED  BY <2>3, <3>2, <3>3
    <2>6. DbTypes'
      BY <1>1, <2>4, <2>5 DEF DbInv, DbTypes
    <2>7. AllResults' = AllResults  BY <1>1, <2>4 DEF AllResults
    <2>8. ReadsInOrder'
      <3> PICK m \in Nat : m = Len(AllResults)
        BY DEF DbInv, DbTypes, DbMembers, AllResults
      <3>1. /\ \A i \in 1 .. q : db.cmds[i] = m + i /\ m + q = Len(reads)
            /\ \A i \in DOMAIN reads : reads[i].states \in 1 .. Len(store)
        <4>1. InHand = 0  BY <1>1 DEF InHand
        <4>2. m + 0 + q = m + q /\ \A i \in 1 .. q : m + 0 + i = m + i  OBVIOUS
        <4> QED  BY <1>1, <2>1, <4>1, <4>2 DEF DbInv, ReadsInOrder
      <3>2. h = m + 1 /\ \A i \in 1 .. q - 1 : t[i] = m + 1 + i
        <4>1. 1 \in 1 .. q /\ \A i \in 1 .. q - 1 : i + 1 \in 1 .. q  BY <2>1
        <4> QED  BY <2>1, <3>1, <4>1
      <3>3. m + q = Len(reads)  BY <2>1, <3>1
      <3>4. CASE cmd'.pc = "read"
        <4>1. InHand' = 1  BY <3>4 DEF InHand
        <4>2. cmd'.hand # <<>> /\ cmd'.hand[1] = m + 1  BY <2>5, <3>2, <3>4
        <4>3. m + 1 + (q - 1) = Len(reads) /\ m + 1 + (q - 1) <= Len(reads)
          <5>1. \A a, b \in Nat : a + 1 + (b - 1) = a + b /\ a + b <= a + b  OBVIOUS
          <5> QED  BY <3>3, <5>1
        <4> QED  BY <1>1, <2>1, <2>4, <2>7, <3>1, <3>2, <3>4, <4>1, <4>2, <4>3 DEF ReadsInOrder
      <3>5. CASE cmd'.pc = "ended"
        <4>1. InHand' = 0  BY <3>5 DEF InHand
        <4> QED  BY <1>1, <2>1, <2>4, <2>7, <3>1, <3>3, <3>5, <4>1 DEF ReadsInOrder
      <3> QED  BY <2>5, <3>4, <3>5
    <2>9. AllFresh'
      BY <1>1, <2>7 DEF DbInv, AllFresh
    <2> QED  BY <1>1, <2>4, <2>5, <2>6, <2>8, <2>9 DEF DbInv, PostedFor, ReadsAnswered
  <1> QED  BY <1>2, <1>3

LEMMA ReadStep == ASSUME DbInv, Read PROVE DbInv'
  <1> DEFINE i == cmd.hand[1]
             k == Len(store)
             x == [read |-> i, values |-> Result(reads[i].cmd, Last(store))]
  <1> PICK m \in Nat : m = Len(AllResults)
    BY DEF DbInv, DbTypes, DbMembers, AllResults
  <1>1. /\ cmd.pc = "read" /\ cmd'.pc = "notify" /\ store' = store /\ reads' = reads /\ got' = got
        /\ db' = [db EXCEPT !.results = Append(db.results, x)]
        /\ db \in DbMembers /\ cmd' \in DbThread
        /\ got \in Seq(Reply) /\ db.results \in Seq(Reply) /\ db.cmds \in Seq(Nat)
    BY DEF Read, DbInv, DbTypes, DbMembers, DbThread
  <1>2. /\ i = m + 1 /\ m + 1 + Len(db.cmds) = Len(reads)
        /\ \A j \in DOMAIN db.cmds : db.cmds[j] = m + 1 + j
        /\ \A j \in DOMAIN reads : reads[j].states \in 1 .. k
    BY <1>1 DEF DbInv, ReadsInOrder, InHand
  <1>3. i \in DOMAIN reads /\ reads[i].cmd \in Commands
    <2>1. Len(db.cmds) \in Nat  BY <1>1
    <2>2. reads \in Seq(Asked) /\ Len(reads) \in Nat
          /\ DOMAIN reads = 1 .. Len(reads)
      BY DEF DbInv, DbTypes
    <2>3. \A a, b, c \in Nat : a + 1 + b = c => a + 1 \in 1 .. c  OBVIOUS
    <2>4. i \in DOMAIN reads  BY <1>2, <2>1, <2>2, <2>3
    <2>5. ASSUME NEW j \in DOMAIN reads PROVE reads[j].cmd \in Commands
      <3>1. reads[j] \in Asked  BY DEF DbInv, DbTypes
      <3> QED  BY <3>1 DEF Asked
    <2> QED  BY <2>4, <2>5
  <1>4. k \in Nat /\ k > 0 /\ Last(store) = store[k] /\ store[k] \in States
    BY DEF DbInv, DbTypes, Last
  <1>5. x \in Reply /\ x.read = m + 1 /\ x.values = Result(reads[i].cmd, store[k])
    BY <1>2, <1>3, <1>4 DEF Reply
  <1> HIDE DEF x
  <1>6. Append(db.results, x) \in Seq(Reply)
    BY <1>1, <1>5
  <1>7. /\ db' \in DbMembers /\ db'.results = Append(db.results, x) /\ db'.cmds = db.cmds
        /\ db'.st = db.st /\ db'.waiters = db.waiters
    <2> DEFINE y == Append(db.results, x)
    <2>1. db' = [db EXCEPT !.results = y] /\ y \in Seq(Reply)  BY <1>1, <1>6
    <2> HIDE DEF y
    <2>2. db' \in DbMembers /\ db'.results = y /\ db'.cmds = db.cmds
          /\ db'.st = db.st /\ db'.waiters = db.waiters
      BY <1>1, <2>1 DEF DbMembers
    <2> QED  BY <2>2 DEF y
  <1>8. DbTypes'
    <2>1. db.st # "new"  BY <1>1 DEF DbInv, DbTypes
    <2> QED  BY <1>1, <1>7, <2>1 DEF DbInv, DbTypes
  <1>9. /\ AllResults' = Append(AllResults, x) /\ AllResults \in Seq(Reply)
        /\ Len(AllResults') = m + 1 /\ DOMAIN AllResults = 1 .. m /\ DOMAIN AllResults' = 1 .. m + 1
        /\ \A j \in 1 .. m : AllResults'[j] = AllResults[j]
        /\ AllResults'[m + 1] = x
    <2>1. AllResults \in Seq(Reply)  BY <1>1 DEF AllResults
    <2>2. AllResults' = Append(AllResults, x)
      <3>1. got' = got /\ db'.results = Append(db.results, x)  BY <1>1, <1>7
      <3>2. got \o Append(db.results, x) = Append(got \o db.results, x)
        BY <1>1, <1>5, ConcatAppend
      <3> QED  BY <3>1, <3>2 DEF AllResults
    <2> QED  BY <1>5, <2>1, <2>2, AppendProperties
  <1>10. ReadsInOrder'
    <2>1. InHand' = 0  BY <1>1 DEF InHand
    <2>2. m + 1 + 0 = m + 1 /\ Len(db.cmds) \in Nat  BY <1>1
    <2>3. m + 1 + 0 + Len(db.cmds) = Len(reads) /\ m + 1 + 0 + Len(db.cmds) <= Len(reads)
      <3> PICK q \in Nat : q = Len(db.cmds)  BY <2>2
      <3>1. m + 1 + 0 + q = m + 1 + q /\ m + 1 + q <= m + 1 + q  OBVIOUS
      <3> QED  BY <1>2, <3>1
    <2>4. \A j \in DOMAIN db.cmds : db.cmds[j] = m + 1 + 0 + j  BY <1>2, <2>2
    <2> QED  BY <1>1, <1>2, <1>7, <1>9, <2>1, <2>3, <2>4 DEF ReadsInOrder
  <1>11. AllFresh'
    <2> SUFFICES ASSUME NEW j \in 1 .. m + 1
                 PROVE  /\ AllResults'[j].read = j
                        /\ \E n \in reads[j].states .. k :
                              AllResults'[j].values = Result(reads[j].cmd, store[n])
      <3>1. store' = store /\ reads' = reads /\ DOMAIN AllResults' = 1 .. m + 1  BY <1>1, <1>9
      <3> QED  BY <3>1 DEF AllFresh
    <2>1. CASE j = m + 1
      <3>1. reads[i].states \in 1 .. k  BY <1>2, <1>3
      <3>2. k \in reads[i].states .. k  BY <1>4, <3>1
      <3> QED  BY <1>2, <1>5, <1>9, <2>1, <3>2
    <2>2. CASE j \in 1 .. m
      BY <1>9, <2>2 DEF DbInv, AllFresh
    <2> QED  BY <2>1, <2>2
  <1> QED  BY <1>1, <1>7, <1>8, <1>10, <1>11 DEF DbInv, PostedFor, ReadsAnswered

LEMMA DbStepKeeps == ASSUME DbInv, [DbNext]_dbVars PROVE DbInv'
  <1>1. CASE Open \/ CloseDb \/ AskRelease \/ EnterWait \/ SemWait \/ NotifyResult \/ ReleaseAll \/ JoinCmd
    BY <1>1, DbQuietStep
  <1>2. ASSUME NEW K \in Writes, Put(K) \/ Delete(K) PROVE DbInv'
    BY <1>2, WriteStep
  <1>3. CASE Get \/ Seek
    BY <1>3, AskStep DEF Get, Seek
  <1>4. CASE TryDequeue  BY <1>4, TryDequeueStep
  <1>5. CASE Read  BY <1>5, ReadStep
  <1>6. CASE OnResult  BY <1>6, OnResultStep
  <1>7. CASE UNCHANGED dbVars
    BY <1>7 DEF dbVars, DbInv, DbTypes, ReadsInOrder, InHand, AllResults, PostedFor, AllFresh,
                ReadsAnswered
  <1> QED  BY <1>1, <1>2, <1>3, <1>4, <1>5, <1>6, <1>7 DEF DbNext, DbStep

LEMMA DbFresh == ASSUME DbInv PROVE ReadsFresh /\ ReadsAnswered
  BY DEF DbInv, AllFresh, AllResults, ReadsFresh

-----------------------------------------------------------------------------
(* ZeroMQ: every step keeps the invariant                                  *)

LEMMA PeerIs ==
  ASSUME NEW w \in Wrapper
  PROVE  /\ Peer(w) \in Wrapper /\ Peer(w) # w /\ Peer(Peer(w)) = w
         /\ \A v \in Wrapper : v = w \/ v = Peer(w)
         /\ w = "ROUTER" <=> Peer(w) = "DEALER"
  <1>1. \A u \in Wrapper : \E v \in Wrapper : v # u
    BY DEF Wrapper
  <1>2. \A u \in Wrapper : Peer(u) \in Wrapper /\ Peer(u) # u
    BY <1>1 DEF Peer
  <1> QED  BY <1>2 DEF Wrapper

\* What a message is made of.
LEMMA MessageIs ==
  ASSUME NEW w \in Wrapper, NEW n \in Nat, n > 0, NEW routed \in BOOLEAN, NEW m,
         m = Message(w, n, routed)
  PROVE  /\ m \in Seq(Part) /\ m # <<>> /\ (m[1] = RoutingID => w = "ROUTER")
         /\ Unaddressed(m) \in Seq(Part) /\ Unaddressed(m) # <<>>
         /\ Rest(Unaddressed(m)) /\ Number(Unaddressed(m)) = n
  <1> DEFINE b == [i \in 1 .. Parts |-> <<n, i>>]
  <1>0. Parts \in Nat /\ Parts > 0
    BY ZmqAssumption
  <1>1. /\ b \in Seq(Part) /\ Len(b) = Parts /\ b # <<>> /\ DOMAIN b = 1 .. Parts
        /\ \A i \in 1 .. Parts : b[i] = <<n, i>>
    <2>1. \A i \in 1 .. Parts : <<n, i>> \in Part  BY DEF Part
    <2> QED  BY <1>0, <2>1
  <1>2. Rest(b) /\ b[1] = <<n, 1>> /\ Number(b) = n
    <2>1. b[1] = <<n, 1>>  BY <1>0, <1>1
    <2>2. b[1][1] = n  BY <2>1
    <2>3. \A i \in 1 .. Parts : Parts - Parts + i = i  BY <1>0
    <2> HIDE DEF b
    <2> QED  BY <1>0, <1>1, <2>1, <2>2, <2>3 DEF Rest, Number
  <1>3. b[1] # RoutingID
    BY <1>2 DEF RoutingID
  <1>4. m = (IF w = "ROUTER" /\ routed THEN <<RoutingID>> ELSE <<>>) \o b
    BY DEF Message
  <1> HIDE DEF b
  <1>5. CASE w = "ROUTER" /\ routed
    <2>1. <<RoutingID>> \in Seq(Part) /\ Len(<<RoutingID>>) = 1 /\ <<RoutingID>>[1] = RoutingID
      BY DEF Part, RoutingID
    <2>2. m = <<RoutingID>> \o b  BY <1>4, <1>5
    <2>3. m \in Seq(Part) /\ Len(m) = 1 + Parts /\ m[1] = RoutingID
          /\ \A i \in 1 .. Parts : m[i + 1] = b[i]
      <3>1. /\ m \in Seq(Part) /\ Len(m) = Len(<<RoutingID>>) + Len(b)
            /\ \A i \in 1 .. Len(<<RoutingID>>) + Len(b) :
                   m[i] = IF i <= Len(<<RoutingID>>) THEN <<RoutingID>>[i]
                                                     ELSE b[i - Len(<<RoutingID>>)]
        BY <1>1, <2>1, <2>2, ConcatProperties
      <3> HIDE DEF RoutingID
      <3>2. \A i \in 1 .. 1 + Parts : m[i] = IF i <= 1 THEN <<RoutingID>>[i] ELSE b[i - 1]
        BY <1>1, <2>1, <3>1
      <3>3. \A i \in 1 .. Parts : i + 1 \in 1 .. 1 + Parts /\ ~(i + 1 <= 1) /\ i + 1 - 1 = i
        BY <1>0
      <3> QED  BY <1>0, <1>1, <2>1, <3>1, <3>2, <3>3
    <2>4. Tail(m) = b
      <3>1. m # <<>>  BY <1>0, <2>3
      <3>2. /\ Tail(m) \in Seq(Part) /\ Len(Tail(m)) = Parts
            /\ \A i \in 1 .. Parts : Tail(m)[i] = m[i + 1]
        BY <1>0, <2>3, <3>1, HeadTailProperties
      <3> QED  BY <1>1, <2>3, <3>2, SeqEqual
    <2>5. m # <<>>  BY <1>0, <2>3
    <2>6. Unaddressed(m) = b  BY <2>3, <2>4, <2>5 DEF Unaddressed
    <2> QED  BY <1>1, <1>2, <1>5, <2>3, <2>5, <2>6
  <1>6. CASE ~(w = "ROUTER" /\ routed)
    <2>1. m = b  BY <1>1, <1>4, <1>6, ConcatEmptySeq
    <2>2. Unaddressed(m) = b  BY <1>3, <2>1 DEF Unaddressed
    <2> QED  BY <1>1, <1>2, <1>3, <2>1, <2>2
  <1> QED  BY <1>5, <1>6

LEMMA RestTail ==
  ASSUME NEW s \in Seq(Part), Rest(s), s # <<>>
  PROVE  /\ Tail(s) \in Seq(Part) /\ Rest(Tail(s))
         /\ Tail(s) # <<>> => Number(Tail(s)) = Number(s)
         /\ Number(s) \in Nat /\ s[1] # RoutingID
         /\ \A i \in DOMAIN s : s[i][1] = Number(s)
  <1>0. Parts \in Nat  BY ZmqAssumption
  <1> PICK n \in Nat : n = Len(s)  OBVIOUS
  <1>1. /\ n > 0 /\ n <= Parts /\ s[1] \in Part /\ s[1][1] > 0 /\ DOMAIN s = 1 .. n
        /\ \A i \in 1 .. n : s[i] = <<s[1][1], Parts - n + i>>
    BY DEF Rest
  <1>2. s[1][1] \in Nat /\ s[1] # RoutingID
    BY <1>1 DEF Part, RoutingID
  <1>3. \A i \in 1 .. n : s[i][1] = s[1][1]
    BY <1>1
  <1>4. /\ Tail(s) \in Seq(Part) /\ Len(Tail(s)) = n - 1 /\ DOMAIN Tail(s) = 1 .. n - 1
        /\ \A i \in 1 .. n - 1 : Tail(s)[i] = s[i + 1]
    BY HeadTailProperties
  <1>5. \A i \in 1 .. n - 1 : Tail(s)[i] = <<s[1][1], Parts - (n - 1) + i>>
    <2> TAKE i \in 1 .. n - 1
    <2>1. \A a, b \in Nat : \A c \in 1 .. b - 1 :
              c + 1 \in 1 .. b /\ a - b + (c + 1) = a - (b - 1) + c
      OBVIOUS
    <2>2. i + 1 \in 1 .. n /\ Parts - n + (i + 1) = Parts - (n - 1) + i  BY <1>0, <2>1
    <2> QED  BY <1>1, <1>4, <2>2
  <1>6. Tail(s) # <<>> => 1 \in 1 .. n - 1 /\ Tail(s)[1][1] = s[1][1]
    <2> HAVE Tail(s) # <<>>
    <2>1. 1 \in 1 .. n - 1  BY <1>4
    <2>2. Tail(s)[1] = s[2]  BY <1>4, <2>1
    <2>3. 2 \in 1 .. n  BY <2>1
    <2> QED  BY <1>3, <2>1, <2>2, <2>3
  <1>7. Rest(Tail(s))
    <2>1. n - 1 <= Parts  BY <1>0, <1>1
    <2>2. CASE Tail(s) = <<>>  BY <1>4, <2>1, <2>2 DEF Rest
    <2>3. CASE Tail(s) # <<>>  BY <1>1, <1>4, <1>5, <1>6, <2>1, <2>3 DEF Rest
    <2> QED  BY <2>2, <2>3
  <1> QED  BY <1>1, <1>2, <1>3, <1>4, <1>6, <1>7 DEF Number

\* A part that moves from what is left to what was taken changes nothing about both.
LEMMA PartMoves ==
  ASSUME NEW b \in Seq(Part), NEW l \in Seq(Part), l # <<>>
  PROVE  Append(b, l[1]) \o Tail(l) = b \o l /\ Append(b, l[1]) \in Seq(Part)
  <1>1. l[1] \in Part /\ Tail(l) \in Seq(Part) /\ Len(Tail(l)) = Len(l) - 1
        /\ \A i \in 1 .. Len(l) - 1 : Tail(l)[i] = l[i + 1]
    BY HeadTailProperties
  <1> PICK n \in Nat : n = Len(l)  OBVIOUS
  <1> PICK k \in Nat : k = Len(b)  OBVIOUS
  <1> DEFINE a == Append(b, l[1])
  <1>2. a \in Seq(Part) /\ Len(a) = k + 1 /\ a[k + 1] = l[1] /\ \A i \in 1 .. k : a[i] = b[i]
    BY <1>1, AppendProperties
  <1> HIDE DEF a
  <1>3. /\ a \o Tail(l) \in Seq(Part) /\ Len(a \o Tail(l)) = k + 1 + (n - 1)
        /\ \A i \in 1 .. k + 1 + (n - 1) :
               (a \o Tail(l))[i] = IF i <= k + 1 THEN a[i] ELSE Tail(l)[i - (k + 1)]
    <2>1. Len(Tail(l)) = n - 1 /\ Len(a) = k + 1  BY <1>1, <1>2
    <2>2. /\ a \o Tail(l) \in Seq(Part) /\ Len(a \o Tail(l)) = Len(a) + Len(Tail(l))
          /\ \A i \in 1 .. Len(a) + Len(Tail(l)) :
                 (a \o Tail(l))[i] = IF i <= Len(a) THEN a[i] ELSE Tail(l)[i - Len(a)]
      BY <1>1, <1>2, ConcatProperties
    <2> QED  BY <2>1, <2>2
  <1>4. /\ b \o l \in Seq(Part) /\ Len(b \o l) = k + n
        /\ \A i \in 1 .. k + n : (b \o l)[i] = IF i <= k THEN b[i] ELSE l[i - k]
    BY ConcatProperties
  <1>5. n > 0 /\ k + 1 + (n - 1) = k + n
    <2>1. \A x, y \in Nat : x + 1 + (y - 1) = x + y  OBVIOUS
    <2> QED  BY <2>1
  <1>6. ASSUME NEW i \in 1 .. k + n PROVE (a \o Tail(l))[i] = (b \o l)[i]
    <2>1. CASE i <= k
      BY <1>2, <1>3, <1>4, <1>5, <2>1
    <2>2. CASE i = k + 1
      <3>1. i - k = 1 /\ ~(i <= k) /\ i <= k + 1  BY <2>2
      <3> QED  BY <1>2, <1>3, <1>4, <1>5, <2>2, <3>1
    <2>3. CASE i > k + 1
      <3>1. /\ i - (k + 1) \in 1 .. n - 1 /\ i - (k + 1) + 1 = i - k
            /\ ~(i <= k + 1) /\ ~(i <= k)
        BY <2>3
      <3>2. (a \o Tail(l))[i] = Tail(l)[i - (k + 1)]  BY <1>3, <1>5, <3>1
      <3>3. (b \o l)[i] = l[i - k]  BY <1>4, <3>1
      <3> QED  BY <1>1, <3>1, <3>2, <3>3
    <2>4. i <= k \/ i = k + 1 \/ i > k + 1  OBVIOUS
    <2> QED  BY <2>1, <2>2, <2>3, <2>4
  <1>7. a \o Tail(l) = b \o l
    BY <1>3, <1>4, <1>5, <1>6, SeqEqual
  <1> QED  BY <1>2, <1>7 DEF a

\* A step that leaves queues, parts and deliveries alone, but for what a lost connection
\* takes away.
LEMMA ZmqQuietStep ==
  ASSUME ZmqInv, zmq' \in [Wrapper -> Sock], SendsTaken',
         \A w \in Wrapper :
            /\ zmq'[w].made = zmq[w].made /\ zmq'[w].queue = zmq[w].queue
            /\ zmq'[w].left = zmq[w].left /\ zmq'[w].open = zmq[w].open
            /\ zmq'[w].building = zmq[w].building /\ zmq'[w].got = zmq[w].got
            /\ zmq'[w].inbox = zmq[w].inbox \/ zmq'[w].inbox = <<>>
  PROVE  ZmqInv'
  <1> SUFFICES ASSUME NEW w \in Wrapper
               PROVE  /\ Queued(w, zmq'[w]) /\ Leaving(w, zmq'[w]) /\ Arriving(w, zmq'[w])
                      /\ Ahead(zmq'[w], Peer(w), zmq'[Peer(w)])
    BY DEF ZmqInv
  <1>1. /\ Queued(w, zmq[w]) /\ Leaving(w, zmq[w]) /\ Arriving(w, zmq[w])
        /\ Ahead(zmq[w], Peer(w), zmq[Peer(w)]) /\ Peer(w) \in Wrapper
    BY PeerIs DEF ZmqInv
  <1>2. TakenOut(zmq'[w]) = TakenOut(zmq[w])
    BY DEF TakenOut
  <1>3. Queued(w, zmq'[w])
    BY <1>1, <1>2 DEF Queued
  <1>4. Leaving(w, zmq'[w])
    BY <1>1 DEF Leaving
  <1>5. Arriving(w, zmq'[w])
    BY <1>1 DEF Arriving
  <1>6. Numbers(Peer(w), zmq'[Peer(w)]) \subseteq Numbers(Peer(w), zmq[Peer(w)])
    BY <1>1 DEF Numbers
  <1>7. Ahead(zmq'[w], Peer(w), zmq'[Peer(w)])
    BY <1>1, <1>2, <1>6 DEF Ahead
  <1> QED  BY <1>3, <1>4, <1>5, <1>7

\* What one wrapper does to itself.
LEMMA OneWrapper ==
  ASSUME NEW w \in Wrapper, NEW x \in Sock, zmq \in [Wrapper -> Sock],
         zmq' = [zmq EXCEPT ![w] = x]
  PROVE  /\ zmq' \in [Wrapper -> Sock] /\ zmq'[w] = x
         /\ \A v \in Wrapper : v # w => zmq'[v] = zmq[v]
  OBVIOUS

LEMMA DisconnectedIs ==
  ASSUME zmq \in [Wrapper -> Sock], NEW w \in Wrapper
  PROVE  /\ Disconnected \in [Wrapper -> Sock]
         /\ Disconnected[w] = [zmq[w] EXCEPT !.inbox = <<>>, !.drop = zmq[w].open]
         /\ Disconnected[w].inbox = <<>>
         /\ \A f \in {"st", "made", "ring", "sending", "queue", "pc", "left", "open", "building",
                      "signal", "got"} : Disconnected[w][f] = zmq[w][f]
  <1>1. <<>> \in Seq(Seq(Part))  OBVIOUS
  <1>2. ASSUME NEW v \in Wrapper PROVE [zmq[v] EXCEPT !.inbox = <<>>, !.drop = zmq[v].open] \in Sock
    <2>1. PICK r \in Sock : r = zmq[v]  OBVIOUS
    <2>2. PICK b \in BOOLEAN : b = r.open  BY DEF Sock
    <2>3. [r EXCEPT !.inbox = <<>>, !.drop = b] \in Sock  BY <1>1 DEF Sock
    <2> QED  BY <2>1, <2>2, <2>3
  <1>3. Disconnected \in [Wrapper -> Sock]
        /\ Disconnected[w] = [zmq[w] EXCEPT !.inbox = <<>>, !.drop = zmq[w].open]
    BY <1>2 DEF Disconnected
  <1>4. zmq[w] \in Sock  OBVIOUS
  <1> QED  BY <1>3, <1>4 DEF Sock

\* The steps that only set flags.
LEMMA ZmqFlagsStep ==
  ASSUME ZmqInv, NEW w \in Wrapper,
         InitWrapper(w) \/ SendNotify(w) \/ Destroy(w) \/ OnNotify(w) \/ OnRead(w)
  PROVE  ZmqInv'
  <1>1. zmq \in [Wrapper -> Sock] /\ zmq[w] \in Sock
    BY DEF ZmqInv
  <1>2. PICK x \in Sock :
          /\ zmq' = [zmq EXCEPT ![w] = x]
          /\ x.made = zmq[w].made /\ x.queue = zmq[w].queue /\ x.left = zmq[w].left
          /\ x.open = zmq[w].open /\ x.building = zmq[w].building /\ x.got = zmq[w].got
          /\ x.inbox = zmq[w].inbox
          /\ \/ x.pc = "dequeue" \/ x.ring \/ x.sending \/ x.st \in {"joining", "closed"}
             \/ x.pc = zmq[w].pc /\ x.ring = zmq[w].ring /\ x.sending = zmq[w].sending
                /\ zmq[w].st \notin {"joining", "closed"}
             \/ x.ring = zmq[w].ring /\ x.sending = zmq[w].sending /\ zmq[w].pc # "dequeue"
                /\ zmq[w].st \notin {"joining", "closed"}
    <2>1. CASE InitWrapper(w)
      <3> DEFINE x == [zmq[w] EXCEPT !.st = "running"]
      <3>1. x \in Sock  BY <1>1 DEF Sock
      <3>2. zmq' = [zmq EXCEPT ![w] = x]  BY <2>1 DEF InitWrapper, Zmq_
      <3> QED  BY <1>1, <2>1, <3>1, <3>2 DEF InitWrapper, Sock
    <2>2. CASE SendNotify(w)
      <3> DEFINE x == [zmq[w] EXCEPT !.sending = FALSE, !.ring = TRUE]
      <3>1. x \in Sock  BY <1>1 DEF Sock
      <3>2. zmq' = [zmq EXCEPT ![w] = x]  BY <2>2 DEF SendNotify, Zmq_
      <3> QED  BY <1>1, <2>2, <3>1, <3>2 DEF SendNotify, Sock
    <2>3. CASE Destroy(w)
      <3> DEFINE x == [zmq[w] EXCEPT !.st = "joining"]
      <3>1. x \in Sock  BY <1>1 DEF Sock
      <3>2. zmq' = [zmq EXCEPT ![w] = x]  BY <2>3 DEF Destroy, Zmq_
      <3> QED  BY <1>1, <2>3, <3>1, <3>2 DEF Destroy, Sock
    <2>4. CASE OnNotify(w)
      <3> DEFINE x == [zmq[w] EXCEPT !.pc = "dequeue", !.ring = FALSE]
      <3>1. x \in Sock  BY <1>1 DEF Sock
      <3>2. zmq' = [zmq EXCEPT ![w] = x]  BY <2>4 DEF OnNotify, Zmq_
      <3> QED  BY <1>1, <2>4, <3>1, <3>2 DEF OnNotify, Sock
    <2>5. CASE OnRead(w)
      <3> DEFINE x == [zmq[w] EXCEPT !.pc = "recv", !.signal = FALSE]
      <3>1. x \in Sock  BY <1>1 DEF Sock
      <3>2. zmq' = [zmq EXCEPT ![w] = x]  BY <2>5 DEF OnRead, Zmq_
      <3> QED  BY <1>1, <2>5, <3>1, <3>2 DEF OnRead, Sock
    <2> QED  BY <2>1, <2>2, <2>3, <2>4, <2>5
  <1>3. /\ zmq' \in [Wrapper -> Sock] /\ zmq'[w] = x
        /\ \A v \in Wrapper : v # w => zmq'[v] = zmq[v]
    BY <1>1, <1>2, OneWrapper
  <1>4. SendsTaken'
    <2> SUFFICES ASSUME NEW v \in Wrapper, zmq'[v].queue # <<>>
                 PROVE  \/ zmq'[v].pc = "dequeue" \/ zmq'[v].ring \/ zmq'[v].sending
                        \/ zmq'[v].st \in {"joining", "closed"}
      BY DEF SendsTaken
    <2>1. CASE v = w  BY <1>2, <1>3, <2>1 DEF ZmqInv, SendsTaken
    <2>2. CASE v # w  BY <1>3, <2>2 DEF ZmqInv, SendsTaken
    <2> QED  BY <2>1, <2>2
  <1> QED  BY <1>2, <1>3, <1>4, ZmqQuietStep

LEMMA FlipStep == ASSUME ZmqInv, Flip PROVE ZmqInv'
  <1>1. zmq \in [Wrapper -> Sock]
    BY DEF ZmqInv
  <1>2. /\ zmq' \in [Wrapper -> Sock]
        /\ \A w \in Wrapper : \A f \in {"st", "made", "ring", "sending", "queue", "pc", "left", "open",
                                        "building", "signal", "got"} : zmq'[w][f] = zmq[w][f]
        /\ \A w \in Wrapper : zmq'[w].inbox = zmq[w].inbox \/ zmq'[w].inbox = <<>>
    <2>1. CASE link
      <3>1. zmq' = Disconnected  BY <2>1 DEF Flip
      <3> DEFINE D == Disconnected
      <3>2. /\ D \in [Wrapper -> Sock]
            /\ \A w \in Wrapper : \A f \in {"st", "made", "ring", "sending", "queue", "pc", "left",
                                            "open", "building", "signal", "got"} : D[w][f] = zmq[w][f]
            /\ \A w \in Wrapper : D[w].inbox = <<>>
        <4>1. Disconnected \in [Wrapper -> Sock]  BY <1>1, DisconnectedIs, PeerIs DEF Wrapper
        <4>2. ASSUME NEW w \in Wrapper
              PROVE  /\ \A f \in {"st", "made", "ring", "sending", "queue", "pc", "left", "open",
                                   "building", "signal", "got"} : D[w][f] = zmq[w][f]
                     /\ D[w].inbox = <<>>
          BY <1>1, DisconnectedIs
        <4> QED  BY <4>1, <4>2
      <3> HIDE DEF D
      <3> QED  BY <3>1, <3>2 DEF D
    <2>2. CASE ~link  BY <1>1, <2>2 DEF Flip
    <2> QED  BY <2>1, <2>2
  <1>3. SendsTaken'
    BY <1>2 DEF ZmqInv, SendsTaken
  <1> QED  BY <1>2, <1>3, ZmqQuietStep

LEMMA JoinThreadStep == ASSUME ZmqInv, NEW w \in Wrapper, JoinThread(w) PROVE ZmqInv'
  <1>1. zmq \in [Wrapper -> Sock]
    BY DEF ZmqInv
  <1> DEFINE D == Disconnected
  <1>2. zmq' = [D EXCEPT ![w].st = "closed"]
    BY DEF JoinThread
  <1>3. /\ D \in [Wrapper -> Sock]
        /\ \A v \in Wrapper : \A f \in {"st", "made", "ring", "sending", "queue", "pc", "left", "open",
                                        "building", "signal", "got"} : D[v][f] = zmq[v][f]
        /\ \A v \in Wrapper : D[v].inbox = <<>>
    BY <1>1, DisconnectedIs
  <1> HIDE DEF D
  <1>4. D[w] \in Sock  BY <1>3
  <1>5. /\ zmq' \in [Wrapper -> Sock] /\ zmq'[w].st = "closed"
        /\ \A f \in {"made", "ring", "sending", "queue", "pc", "left", "open", "building",
                     "signal", "got", "inbox"} : zmq'[w][f] = D[w][f]
        /\ \A v \in Wrapper : v # w => zmq'[v] = D[v]
    <2>1. [D[w] EXCEPT !.st = "closed"] \in Sock  BY <1>4 DEF Sock
    <2>2. zmq' = [D EXCEPT ![w] = [D[w] EXCEPT !.st = "closed"]]  BY <1>2, <1>3
    <2>3. zmq' \in [Wrapper -> Sock] /\ zmq'[w] = [D[w] EXCEPT !.st = "closed"]
          /\ \A v \in Wrapper : v # w => zmq'[v] = D[v]
      BY <1>3, <2>1, <2>2
    <2> QED  BY <1>4, <2>3 DEF Sock
  <1>6. \A v \in Wrapper : /\ zmq'[v].made = zmq[v].made /\ zmq'[v].queue = zmq[v].queue
            /\ zmq'[v].left = zmq[v].left /\ zmq'[v].open = zmq[v].open
            /\ zmq'[v].building = zmq[v].building /\ zmq'[v].got = zmq[v].got
            /\ zmq'[v].inbox = <<>>
    <2> TAKE v \in Wrapper
    <2>1. CASE v = w  BY <1>3, <1>5, <2>1
    <2>2. CASE v # w  BY <1>3, <1>5, <2>2
    <2> QED  BY <2>1, <2>2
  <1>7. SendsTaken'
    <2> SUFFICES ASSUME NEW v \in Wrapper, zmq'[v].queue # <<>>
                 PROVE  \/ zmq'[v].pc = "dequeue" \/ zmq'[v].ring \/ zmq'[v].sending
                        \/ zmq'[v].st \in {"joining", "closed"}
      BY DEF SendsTaken
    <2>1. CASE v = w  BY <1>5, <2>1
    <2>2. CASE v # w  BY <1>3, <1>5, <2>2 DEF ZmqInv, SendsTaken
    <2> QED  BY <2>1, <2>2
  <1> QED  BY <1>5, <1>6, <1>7, ZmqQuietStep

\* A step of w that changes w to x and its peer to y.
LEMMA ZmqTwoStep ==
  ASSUME ZmqInv, NEW w \in Wrapper, NEW x \in Sock, NEW y \in Sock,
         zmq' = [zmq EXCEPT ![w] = x, ![Peer(w)] = y],
         x.queue # <<>> => x.pc = "dequeue" \/ x.ring \/ x.sending \/ x.st \in {"joining", "closed"},
         y.queue = zmq[Peer(w)].queue, y.pc = zmq[Peer(w)].pc, y.ring = zmq[Peer(w)].ring,
         y.sending = zmq[Peer(w)].sending, y.st = zmq[Peer(w)].st,
         Queued(w, x), Leaving(w, x), Arriving(w, x), Arriving(Peer(w), y),
         y.made = zmq[Peer(w)].made, y.left = zmq[Peer(w)].left,
         y.open = zmq[Peer(w)].open, y.building = zmq[Peer(w)].building,
         Ahead(x, Peer(w), y), Ahead(y, w, x)
  PROVE  ZmqInv'
  <1> DEFINE p == Peer(w)
  <1>1. /\ zmq \in [Wrapper -> Sock] /\ p \in Wrapper /\ p # w /\ Peer(p) = w
        /\ \A v \in Wrapper : v = w \/ v = p
    BY PeerIs DEF ZmqInv
  <1> HIDE DEF p
  <1>2. zmq' \in [Wrapper -> Sock] /\ zmq'[w] = x /\ zmq'[p] = y
    BY <1>1 DEF p
  <1>3. Queued(p, y) /\ Leaving(p, y)
    <2>1. Queued(p, zmq[p]) /\ Leaving(p, zmq[p])  BY <1>1 DEF ZmqInv
    <2>2. TakenOut(y) = TakenOut(zmq[p])  BY DEF TakenOut, p
    <2> QED  BY <2>1, <2>2 DEF Queued, Leaving, p
  <1>4. SendsTaken'
    <2>1. y.queue # <<>> => y.pc = "dequeue" \/ y.ring \/ y.sending \/ y.st \in {"joining", "closed"}
      BY <1>1 DEF ZmqInv, SendsTaken, p
    <2> SUFFICES ASSUME NEW v \in Wrapper, zmq'[v].queue # <<>>
                 PROVE  \/ zmq'[v].pc = "dequeue" \/ zmq'[v].ring \/ zmq'[v].sending
                        \/ zmq'[v].st \in {"joining", "closed"}
      BY DEF SendsTaken
    <2> QED  BY <1>1, <1>2, <2>1
  <1>5. ASSUME NEW v \in Wrapper
        PROVE  /\ Queued(v, zmq'[v]) /\ Leaving(v, zmq'[v]) /\ Arriving(v, zmq'[v])
               /\ Ahead(zmq'[v], Peer(v), zmq'[Peer(v)])
    <2>1. CASE v = w  BY <1>1, <1>2, <2>1 DEF p
    <2>2. CASE v = p  BY <1>1, <1>2, <1>3, <2>2 DEF p
    <2> QED  BY <1>1, <2>1, <2>2
  <1> QED  BY <1>2, <1>4, <1>5 DEF ZmqInv

LEMMA ZmqOneStep ==
  ASSUME ZmqInv, NEW w \in Wrapper, NEW x \in Sock, zmq' = [zmq EXCEPT ![w] = x],
         x.queue # <<>> => x.pc = "dequeue" \/ x.ring \/ x.sending \/ x.st \in {"joining", "closed"},
         Queued(w, x), Leaving(w, x), Arriving(w, x),
         Ahead(x, Peer(w), zmq[Peer(w)]), Ahead(zmq[Peer(w)], w, x)
  PROVE  ZmqInv'
  <1> DEFINE p == Peer(w)
  <1>1. zmq \in [Wrapper -> Sock] /\ p \in Wrapper /\ p # w
    BY PeerIs DEF ZmqInv
  <1> DEFINE y == zmq[p]
  <1>2. y \in Sock /\ Arriving(p, y)
    BY <1>1 DEF ZmqInv
  <1>3. zmq' = [zmq EXCEPT ![w] = x, ![p] = y]
    BY <1>1
  <1> QED  BY <1>2, <1>3, ZmqTwoStep

\* What the steps of one wrapper find.
LEMMA ZmqPair ==
  ASSUME ZmqInv, NEW w \in Wrapper
  PROVE  /\ zmq \in [Wrapper -> Sock] /\ zmq[w] \in Sock /\ Peer(w) \in Wrapper
         /\ Queued(w, zmq[w]) /\ Leaving(w, zmq[w]) /\ Arriving(w, zmq[w])
         /\ Ahead(zmq[w], Peer(w), zmq[Peer(w)]) /\ Ahead(zmq[Peer(w)], w, zmq[w])
         /\ zmq[w].queue # <<>> => \/ zmq[w].pc = "dequeue" \/ zmq[w].ring \/ zmq[w].sending
                                   \/ zmq[w].st \in {"joining", "closed"}
         /\ zmq[w].made \in Nat /\ zmq[w].queue \in Seq(Seq(Part)) /\ zmq[w].left \in Seq(Part)
         /\ zmq[w].building \in Seq(Part) /\ zmq[w].inbox \in Seq(Seq(Part)) /\ zmq[w].got \in Seq(Part)
  <1>1. zmq \in [Wrapper -> Sock] /\ zmq[w] \in Sock /\ Peer(w) \in Wrapper /\ Peer(Peer(w)) = w
    BY PeerIs DEF ZmqInv
  <1> QED  BY <1>1 DEF ZmqInv, SendsTaken, Sock

LEMMA SendStep == ASSUME ZmqInv, NEW w \in Wrapper, NEW routed \in BOOLEAN, Send(w, routed) PROVE ZmqInv'
  <1> DEFINE r == zmq[w]
             m == Message(w, r.made + 1, routed)
             x == [r EXCEPT !.made = r.made + 1, !.sending = TRUE, !.queue = Append(r.queue, m)]
             t == TakenOut(r)
  <1>1. /\ r \in Sock /\ r.made \in Nat /\ r.queue \in Seq(Seq(Part)) /\ t >= 0
        /\ Queued(w, r) /\ Leaving(w, r) /\ Arriving(w, r)
        /\ Ahead(r, Peer(w), zmq[Peer(w)]) /\ Ahead(zmq[Peer(w)], w, r)
    BY ZmqPair DEF Queued
  <1>2. zmq' = [zmq EXCEPT ![w] = x]
    BY DEF Send, Zmq_
  <1>3. m \in Seq(Part)
    <2>1. r.made + 1 \in Nat /\ r.made + 1 > 0  BY <1>1
    <2> HIDE DEF r
    <2> QED  BY <2>1, MessageIs
  <1> PICK n \in Nat : n = Len(r.queue)
    BY <1>1
  <1>4. /\ Append(r.queue, m) \in Seq(Seq(Part)) /\ Len(Append(r.queue, m)) = n + 1
        /\ \A i \in 1 .. n : Append(r.queue, m)[i] = r.queue[i]
        /\ Append(r.queue, m)[n + 1] = m
    <2> HIDE DEF m, r
    <2> QED  BY <1>1, <1>3, AppendProperties
  <1>5. /\ x \in Sock /\ x.made = r.made + 1 /\ x.sending /\ x.queue = Append(r.queue, m)
        /\ x.left = r.left /\ x.open = r.open /\ x.building = r.building
        /\ x.inbox = r.inbox /\ x.got = r.got
    <2> DEFINE q == Append(r.queue, m)
    <2>1. q \in Seq(Seq(Part)) /\ r.made + 1 \in Nat  BY <1>1, <1>4
    <2> HIDE DEF q, m, r
    <2> QED  BY <1>1, <2>1 DEF Sock, q
  <1> HIDE DEF x
  <1>6. TakenOut(x) = t /\ t \in Int /\ t = r.made - n
    <2>1. t \in Int /\ t = r.made - n  BY <1>1 DEF TakenOut
    <2>2. \A a, b \in Nat : (a + 1) - (b + 1) = a - b  OBVIOUS
    <2> QED  BY <1>1, <1>4, <1>5, <2>1, <2>2 DEF TakenOut
  <1>7. Queued(w, x)
    <2> SUFFICES ASSUME NEW i \in 1 .. n + 1
                 PROVE  \E b \in BOOLEAN : Append(r.queue, m)[i] = Message(w, t + i, b)
      <3>1. DOMAIN x.queue = 1 .. n + 1 /\ x.queue = Append(r.queue, m)
        BY <1>4, <1>5, LenProperties
      <3> HIDE DEF m, r, t
      <3> QED  BY <1>1, <1>6, <3>1 DEF Queued
    <2>1. CASE i \in 1 .. n  BY <1>1, <1>4, <2>1 DEF Queued
    <2>2. CASE i = n + 1
      <3>0. \A a, b \in Nat : (a - b) + (b + 1) = a + 1  OBVIOUS
      <3>1. t + i = r.made + 1  BY <1>1, <1>6, <2>2, <3>0
      <3> QED  BY <1>4, <2>2, <3>1
    <2> QED  BY <2>1, <2>2
  <1>8. Leaving(w, x) /\ Arriving(w, x)
    BY <1>1, <1>5 DEF Leaving, Arriving
  <1>9. Ahead(x, Peer(w), zmq[Peer(w)]) /\ Ahead(zmq[Peer(w)], w, x)
    BY <1>1, <1>5, <1>6 DEF Ahead, Numbers
  <1> QED  BY <1>2, <1>5, <1>7, <1>8, <1>9, ZmqOneStep

LEMMA DequeueMsgStep == ASSUME ZmqInv, NEW w \in Wrapper, DequeueMsg(w) PROVE ZmqInv'
  <1> DEFINE r == zmq[w]
             t == TakenOut(r)
  <1>1. /\ r \in Sock /\ r.made \in Nat /\ r.queue \in Seq(Seq(Part)) /\ t >= 0
        /\ Queued(w, r) /\ Leaving(w, r) /\ Arriving(w, r)
        /\ Ahead(r, Peer(w), zmq[Peer(w)]) /\ Ahead(zmq[Peer(w)], w, r)
    BY ZmqPair DEF Queued
  <1>2. r.pc = "dequeue" /\ r.left = <<>>
    BY DEF DequeueMsg
  <1> HIDE DEF t
  <1>3. CASE r.queue = <<>>
    <2> DEFINE x == [r EXCEPT !.pc = "idle"]
    <2>1. zmq' = [zmq EXCEPT ![w] = x]  BY <1>3 DEF DequeueMsg, Zmq_
    <2> HIDE DEF r
    <2>2. /\ x \in Sock /\ x.made = r.made /\ x.queue = <<>>
          /\ x.left = r.left /\ x.open = r.open /\ x.building = r.building
          /\ x.inbox = r.inbox /\ x.got = r.got
      BY <1>1, <1>3 DEF Sock
    <2> HIDE DEF x
    <2>3. TakenOut(x) = TakenOut(r)  BY <1>3, <2>2 DEF TakenOut
    <2>4. Queued(w, x) /\ Leaving(w, x) /\ Arriving(w, x)
      BY <1>1, <1>3, <2>2, <2>3 DEF Queued, Leaving, Arriving
    <2>5. Ahead(x, Peer(w), zmq[Peer(w)]) /\ Ahead(zmq[Peer(w)], w, x)
      BY <1>1, <2>2, <2>3 DEF Ahead, Numbers
    <2> QED  BY <2>1, <2>2, <2>4, <2>5, ZmqOneStep
  <1>4. CASE r.queue # <<>>
    <2> DEFINE m == Head(r.queue)
               x == [r EXCEPT !.queue = Tail(r.queue), !.left = m]
    <2>1. zmq' = [zmq EXCEPT ![w] = x]  BY <1>4 DEF DequeueMsg, Zmq_
    <2> HIDE DEF r
    <2> PICK n \in Nat : n = Len(r.queue)
      BY <1>1
    <2>2. /\ n > 0 /\ m = r.queue[1] /\ m \in Seq(Part) /\ 1 \in 1 .. n
          /\ Tail(r.queue) \in Seq(Seq(Part)) /\ Len(Tail(r.queue)) = n - 1
          /\ DOMAIN Tail(r.queue) = 1 .. n - 1
          /\ \A i \in 1 .. n - 1 : Tail(r.queue)[i] = r.queue[i + 1]
      BY <1>1, <1>4, HeadTailProperties
    <2>3. t \in Nat /\ t = r.made - n
      BY <1>1 DEF TakenOut, t
    <2>4. \A i \in 1 .. n : \E b \in BOOLEAN : r.queue[i] = Message(w, t + i, b)
      BY <1>1 DEF Queued, t
    <2> PICK b \in BOOLEAN : m = Message(w, t + 1, b)
      BY <2>2, <2>4
    <2> HIDE DEF m
    <2>5. /\ x \in Sock /\ x.made = r.made /\ x.queue = Tail(r.queue) /\ x.pc = "dequeue"
          /\ x.left = m /\ x.open = r.open /\ x.building = r.building
          /\ x.inbox = r.inbox /\ x.got = r.got
      BY <1>1, <1>2, <2>2 DEF Sock
    <2> HIDE DEF x
    <2>6. TakenOut(x) = t + 1
      <3>1. \A c, d \in Nat : c - (d - 1) = (c - d) + 1  OBVIOUS
      <3> QED  BY <1>1, <2>2, <2>3, <2>5, <3>1 DEF TakenOut
    <2>7. /\ m # <<>> /\ (m[1] = RoutingID => w = "ROUTER")
          /\ Unaddressed(m) \in Seq(Part) /\ Unaddressed(m) # <<>>
          /\ Rest(Unaddressed(m)) /\ Number(Unaddressed(m)) = t + 1
      <3>1. t + 1 \in Nat /\ t + 1 > 0  BY <2>3
      <3> QED  BY <3>1, MessageIs
    <2>8. Queued(w, x)
      <3>1. ASSUME NEW i \in 1 .. n - 1
            PROVE  \E c \in BOOLEAN : Tail(r.queue)[i] = Message(w, t + 1 + i, c)
        <4>1. i + 1 \in 1 .. n /\ t + (i + 1) = t + 1 + i  BY <2>3
        <4> QED  BY <2>2, <2>4, <4>1
      <3>2. t + 1 >= 0  BY <2>3
      <3> QED  BY <2>2, <2>5, <2>6, <3>1, <3>2 DEF Queued
    <2>9. ~r.open /\ r.building = <<>>
      BY <1>1, <1>2 DEF Leaving
    <2>10. Leaving(w, x)
      <3>1. <<>> \o Unaddressed(m) = Unaddressed(m)  BY <2>7, ConcatEmptySeq
      <3> QED  BY <2>5, <2>7, <2>9, <3>1 DEF Leaving
    <2>11. Arriving(w, x)
      BY <1>1, <2>5 DEF Arriving
    <2>12. Numbers(Peer(w), zmq[Peer(w)]) \subseteq Int
      <3> DEFINE q == zmq[Peer(w)]
      <3>1. Peer(w) \in Wrapper /\ Arriving(Peer(w), q) /\ q.got \in Seq(Part) /\ q.inbox \in Seq(Seq(Part))
        BY PeerIs, ZmqPair
      <3> HIDE DEF q
      <3>2. \A i \in DOMAIN q.got : q.got[i][1] \in Nat  BY <3>1 DEF Part
      <3>3. ASSUME NEW i \in DOMAIN q.inbox PROVE Number(Body(Peer(w), q.inbox[i])) \in Nat
        <4>1. q.inbox[i] \in Seq(Part) /\ q.inbox[i] # <<>>  BY <3>1 DEF Arriving
        <4>2. Body(Peer(w), q.inbox[i]) \in Seq(Part)
          BY <4>1, HeadTailProperties DEF Body
        <4> QED  BY <3>1, <4>2, RestTail DEF Arriving
      <3> QED  BY <3>2, <3>3 DEF Numbers, q
    <2>13. Ahead(x, Peer(w), zmq[Peer(w)])
      BY <1>1, <2>3, <2>5, <2>6, <2>7, <2>12 DEF Ahead, t
    <2>14. Ahead(zmq[Peer(w)], w, x)
      BY <1>1, <2>5 DEF Ahead, Numbers
    <2> QED  BY <2>1, <2>5, <2>8, <2>10, <2>11, <2>13, <2>14, ZmqOneStep
  <1> QED  BY <1>3, <1>4

\* The parts of a message are given to the callback together.
LEMMA RecvMsgStep == ASSUME ZmqInv, NEW w \in Wrapper, RecvMsg(w) PROVE ZmqInv'
  <1> DEFINE r == zmq[w]
  <1>1. /\ r \in Sock /\ r.inbox \in Seq(Seq(Part)) /\ r.got \in Seq(Part)
        /\ Queued(w, r) /\ Leaving(w, r) /\ Arriving(w, r)
        /\ Ahead(r, Peer(w), zmq[Peer(w)]) /\ Ahead(zmq[Peer(w)], w, r)
        /\ r.queue # <<>> => r.pc = "dequeue" \/ r.ring \/ r.sending \/ r.st \in {"joining", "closed"}
    BY ZmqPair
  <1>2. r.pc = "recv"
    BY DEF RecvMsg
  <1>3. CASE r.inbox = <<>>
    <2> DEFINE x == [r EXCEPT !.pc = "idle"]
    <2>1. zmq' = [zmq EXCEPT ![w] = x]  BY <1>3 DEF RecvMsg, Zmq_
    <2> HIDE DEF r
    <2>2. /\ x \in Sock /\ x.made = r.made /\ x.queue = r.queue /\ x.ring = r.ring
          /\ x.sending = r.sending /\ x.st = r.st
          /\ x.left = r.left /\ x.open = r.open /\ x.building = r.building
          /\ x.inbox = r.inbox /\ x.got = r.got
      BY <1>1 DEF Sock
    <2> HIDE DEF x
    <2>3. TakenOut(x) = TakenOut(r)  BY <2>2 DEF TakenOut
    <2>4. Queued(w, x) /\ Leaving(w, x) /\ Arriving(w, x)
      BY <1>1, <2>2, <2>3 DEF Queued, Leaving, Arriving
    <2>5. Ahead(x, Peer(w), zmq[Peer(w)]) /\ Ahead(zmq[Peer(w)], w, x)
      BY <1>1, <2>2, <2>3 DEF Ahead, Numbers
    <2> QED  BY <1>1, <1>2, <2>1, <2>2, <2>4, <2>5, ZmqOneStep
  <1>4. CASE r.inbox # <<>>
    <2> DEFINE m == Head(r.inbox)
               b == Body(w, m)
               N == Number(b)
               x == [r EXCEPT !.inbox = Tail(r.inbox), !.got = r.got \o b]
    <2>1. zmq' = [zmq EXCEPT ![w] = x]
      BY <1>4 DEF RecvMsg, Zmq_, Body
    <2> HIDE DEF r
    <2> PICK n \in Nat : n = Len(r.inbox)
      BY <1>1
    <2> PICK g \in Nat : g = Len(r.got)
      BY <1>1
    <2>2. /\ n > 0 /\ m = r.inbox[1] /\ m \in Seq(Part) /\ 1 \in 1 .. n
          /\ DOMAIN r.inbox = 1 .. n /\ DOMAIN r.got = 1 .. g
          /\ Tail(r.inbox) \in Seq(Seq(Part)) /\ Len(Tail(r.inbox)) = n - 1
          /\ DOMAIN Tail(r.inbox) = 1 .. n - 1
          /\ \A i \in 1 .. n - 1 : Tail(r.inbox)[i] = r.inbox[i + 1] /\ i + 1 \in 1 .. n /\ 1 < i + 1
      BY <1>1, <1>4, HeadTailProperties
    <2>3. m # <<>> /\ Rest(b) /\ b # <<>>
      BY <1>1, <2>2 DEF Arriving
    <2>4. b \in Seq(Part)
      BY <2>2, <2>3, HeadTailProperties DEF Body
    <2>5. N = Number(Body(w, r.inbox[1]))
      BY <2>2
    <2> HIDE DEF m, b
    <2> PICK k \in Nat : k = Len(b)
      BY <2>4
    <2>6. /\ k > 0 /\ k <= Parts /\ N \in Nat /\ DOMAIN b = 1 .. k
          /\ \A i \in 1 .. k : b[i] = <<N, Parts - k + i>>
      <3>1. k > 0 /\ DOMAIN b = 1 .. k  BY <2>3, <2>4, EmptySeq, LenProperties
      <3>2. 1 \in 1 .. k /\ b[1] \in Part  BY <3>1, <2>4
      <3>3. N = b[1][1] /\ N \in Nat  BY <3>2 DEF Number, Part
      <3>4. k <= Parts /\ \A i \in 1 .. k : b[i] = <<b[1][1], Parts - k + i>>
        BY <2>3, <3>1 DEF Rest
      <3> QED  BY <3>1, <3>3, <3>4
    <2> HIDE DEF N
    <2>7. /\ r.got \o b \in Seq(Part) /\ Len(r.got \o b) = g + k /\ DOMAIN (r.got \o b) = 1 .. g + k
          /\ \A i \in 1 .. g + k : (r.got \o b)[i] = IF i <= g THEN r.got[i] ELSE b[i - g]
      BY <1>1, <2>4, ConcatProperties
    <2> DEFINE a == r.got \o b
    <2>8. /\ \A i \in 1 .. g : a[i] = r.got[i]
          /\ \A i \in 1 .. g + k : i > g => a[i] = <<N, Parts - k + (i - g)>>
      <3>1. ASSUME NEW i \in 1 .. g PROVE a[i] = r.got[i]
        <4>1. i \in 1 .. g + k /\ i <= g  OBVIOUS
        <4> QED  BY <2>7, <4>1
      <3>2. ASSUME NEW i \in 1 .. g + k, i > g PROVE a[i] = <<N, Parts - k + (i - g)>>
        <4>1. i - g \in 1 .. k /\ ~(i <= g)  BY <3>2
        <4> QED  BY <2>6, <2>7, <4>1
      <3> QED  BY <3>1, <3>2
    <2> HIDE DEF a
    <2>9. /\ x \in Sock /\ x.made = r.made /\ x.queue = r.queue /\ x.ring = r.ring
          /\ x.sending = r.sending /\ x.st = r.st /\ x.pc = r.pc
          /\ x.left = r.left /\ x.open = r.open /\ x.building = r.building
          /\ x.inbox = Tail(r.inbox) /\ x.got = a
      BY <1>1, <2>2, <2>7 DEF Sock, a
    <2> HIDE DEF x
    <2>10. TakenOut(x) = TakenOut(r)  BY <2>9 DEF TakenOut
    <2>11. Queued(w, x) /\ Leaving(w, x)
      BY <1>1, <2>9, <2>10 DEF Queued, Leaving
    <2>12. /\ \A i \in 1 .. n : r.inbox[i] # <<>> /\ Rest(Body(w, r.inbox[i])) /\ Body(w, r.inbox[i]) # <<>>
           /\ \A i, j \in 1 .. n :
                  i < j => Number(Body(w, r.inbox[i])) < Number(Body(w, r.inbox[j]))
           /\ \A i \in 1 .. g, j \in 1 .. n : r.got[i][1] < Number(Body(w, r.inbox[j]))
           /\ \A i \in 1 .. g :
                 /\ r.got[i][2] <= Parts
                 /\ r.got[i][2] < Parts => i < g /\ r.got[i + 1] = <<r.got[i][1], r.got[i][2] + 1>>
                 /\ i < g /\ r.got[i][2] = Parts => r.got[i + 1][1] > r.got[i][1]
      BY <1>1, <2>2 DEF Arriving
    <2>13. Parts \in Nat /\ \A i \in 1 .. g : r.got[i][1] \in Nat /\ r.got[i][2] \in Nat
      <3>1. \A i \in 1 .. g : r.got[i] \in Part  BY <1>1, <2>2, ElementOfSeq
      <3>2. \A e \in Part : e[1] \in Nat /\ e[2] \in Nat  BY DEF Part
      <3> QED  BY <3>1, <3>2, ZmqAssumption
    <2>14. ASSUME NEW i \in 1 .. g + k
           PROVE  /\ a[i][2] <= Parts
                  /\ a[i][2] < Parts => i < g + k /\ a[i + 1] = <<a[i][1], a[i][2] + 1>>
                  /\ i < g + k /\ a[i][2] = Parts => a[i + 1][1] > a[i][1]
      <3>1. CASE i < g
        <4>1. i \in 1 .. g /\ i + 1 \in 1 .. g /\ i < g + k  BY <3>1
        <4> QED  BY <2>8, <2>12, <3>1, <4>1
      <3>2. CASE i = g
        <4>1. i \in 1 .. g /\ i + 1 \in 1 .. g + k /\ i + 1 > g  BY <2>6, <3>2
        <4>2. a[i] = r.got[i] /\ a[i][2] = Parts
          <5>1. r.got[i][2] <= Parts /\ (r.got[i][2] < Parts => i < g) /\ r.got[i][2] \in Nat
            BY <2>12, <2>13, <4>1
          <5>2. \A c, d \in Nat : c <= d /\ ~(c < d) => c = d  OBVIOUS
          <5> QED  BY <2>8, <2>13, <3>2, <4>1, <5>1, <5>2
        <4>3. a[i + 1][1] = N  BY <2>8, <4>1
        <4>4. r.got[i][1] < N  BY <2>2, <2>5, <2>12, <4>1
        <4> QED  BY <2>13, <4>1, <4>2, <4>3, <4>4, <2>6
      <3>3. CASE i > g
        <4>1. a[i] = <<N, Parts - k + (i - g)>>  BY <2>8, <3>3
        <4>2. Parts - k + (i - g) \in Int /\ Parts - k + (i - g) <= Parts
              /\ (Parts - k + (i - g) < Parts => i < g + k)
              /\ (Parts - k + (i - g) = Parts => ~(i < g + k))
          <5>1. \A c, d, e \in Nat : \A f \in 1 .. d + e :
                   f > d /\ e <= c => /\ c - e + (f - d) \in Int /\ c - e + (f - d) <= c
                                      /\ (c - e + (f - d) < c => f < d + e)
                                      /\ (c - e + (f - d) = c => ~(f < d + e))
            OBVIOUS
          <5> QED  BY <2>6, <2>13, <3>3, <5>1
        <4>3. i < g + k => a[i + 1] = <<N, Parts - k + (i - g) + 1>>
          <5> HAVE i < g + k
          <5>1. i \in Nat /\ i + 1 \in 1 .. g + k /\ i + 1 > g  BY <3>3
          <5>2. \A c, d, e, f \in Nat : c - d + (e + 1 - f) = c - d + (e - f) + 1  OBVIOUS
          <5>3. Parts \in Nat /\ k \in Nat /\ g \in Nat  BY <2>6, <2>13
          <5>4. PICK j \in 1 .. g + k : j = i + 1 /\ j > g  BY <5>1
          <5>5. a[j] = <<N, Parts - k + (j - g)>>  BY <2>8, <5>4
          <5>6. Parts - k + (j - g) = Parts - k + (i - g) + 1  BY <5>1, <5>2, <5>3, <5>4
          <5> QED  BY <5>4, <5>5, <5>6
        <4> QED  BY <4>1, <4>2, <4>3
      <3>4. i < g \/ i = g \/ i > g  OBVIOUS
      <3> QED  BY <3>1, <3>2, <3>3, <3>4
    <2>15. ASSUME NEW i \in 1 .. g + k, NEW j \in 1 .. n - 1
           PROVE  a[i][1] < Number(Body(w, Tail(r.inbox)[j]))
      <3>1. j + 1 \in 1 .. n /\ 1 < j + 1 /\ Tail(r.inbox)[j] = r.inbox[j + 1]  BY <2>2
      <3>2. CASE i \in 1 .. g  BY <2>8, <2>12, <3>1, <3>2
      <3>3. CASE i > g
        <4>1. a[i][1] = N  BY <2>8, <3>3
        <4> QED  BY <2>2, <2>5, <2>12, <3>1, <4>1
      <3>4. i \in 1 .. g \/ i > g  OBVIOUS
      <3> QED  BY <3>2, <3>3, <3>4
    <2>16. /\ \A i \in 1 .. n - 1 : /\ Tail(r.inbox)[i] # <<>> /\ Rest(Body(w, Tail(r.inbox)[i]))
                                    /\ Body(w, Tail(r.inbox)[i]) # <<>>
           /\ \A i, j \in 1 .. n - 1 :
                  i < j => Number(Body(w, Tail(r.inbox)[i])) < Number(Body(w, Tail(r.inbox)[j]))
      BY <2>2, <2>12
    <2>17. Arriving(w, x)
      <3>1. DOMAIN x.inbox = 1 .. n - 1 /\ x.inbox = Tail(r.inbox)  BY <2>2, <2>9
      <3>2. DOMAIN x.got = 1 .. g + k /\ Len(x.got) = g + k /\ x.got = a  BY <2>7, <2>9 DEF a
      <3> QED  BY <3>1, <3>2, <2>14, <2>15, <2>16 DEF Arriving
    <2>18. Numbers(w, x) \subseteq Numbers(w, r)
      <3> SUFFICES ASSUME NEW c \in Numbers(w, x) PROVE c \in Numbers(w, r)
        OBVIOUS
      <3>1. \/ \E i \in 1 .. g + k : c = a[i][1]
            \/ \E i \in 1 .. n - 1 : c = Number(Body(w, Tail(r.inbox)[i]))
        BY <2>2, <2>7, <2>9 DEF Numbers, a
      <3>2. ASSUME NEW i \in 1 .. g + k, c = a[i][1] PROVE c \in Numbers(w, r)
        <4>1. CASE i \in 1 .. g  BY <2>2, <2>8, <3>2, <4>1 DEF Numbers
        <4>2. CASE i > g
          <5>1. c = N  BY <2>8, <3>2, <4>2
          <5> QED  BY <2>2, <2>5, <5>1 DEF Numbers
        <4>3. i \in 1 .. g \/ i > g  OBVIOUS
        <4> QED  BY <4>1, <4>2, <4>3
      <3>3. ASSUME NEW i \in 1 .. n - 1, c = Number(Body(w, Tail(r.inbox)[i])) PROVE c \in Numbers(w, r)
        BY <2>2, <3>3 DEF Numbers
      <3> QED  BY <3>1, <3>2, <3>3
    <2>19. Ahead(x, Peer(w), zmq[Peer(w)]) /\ Ahead(zmq[Peer(w)], w, x)
      BY <1>1, <2>9, <2>10, <2>18 DEF Ahead
    <2> QED  BY <1>1, <1>2, <2>1, <2>9, <2>11, <2>17, <2>19, ZmqOneStep
  <1> QED  BY <1>3, <1>4

LEMMA Addressed ==
  ASSUME NEW s \in Seq(Part)
  PROVE  /\ <<RoutingID>> \o s \in Seq(Part) /\ <<RoutingID>> \o s # <<>>
         /\ Tail(<<RoutingID>> \o s) = s
  <1> DEFINE a == <<RoutingID>>
             m == a \o s
  <1>1. a \in Seq(Part) /\ Len(a) = 1
    BY DEF Part, RoutingID
  <1> HIDE DEF a
  <1> PICK n \in Nat : n = Len(s)  OBVIOUS
  <1>2. /\ m \in Seq(Part) /\ Len(m) = 1 + n
        /\ \A i \in 1 .. 1 + n : m[i] = IF i <= 1 THEN a[i] ELSE s[i - 1]
    <2>1. /\ m \in Seq(Part) /\ Len(m) = Len(a) + Len(s)
          /\ \A i \in 1 .. Len(a) + Len(s) : m[i] = IF i <= Len(a) THEN a[i] ELSE s[i - Len(a)]
      BY <1>1, ConcatProperties
    <2> QED  BY <1>1, <2>1
  <1> HIDE DEF m
  <1>3. m # <<>>  BY <1>2
  <1>4. /\ Tail(m) \in Seq(Part) /\ Len(Tail(m)) = n
        /\ \A i \in 1 .. n : Tail(m)[i] = m[i + 1]
    BY <1>2, <1>3, HeadTailProperties
  <1>5. \A i \in 1 .. n : i + 1 \in 1 .. 1 + n /\ ~(i + 1 <= 1) /\ i + 1 - 1 = i
    OBVIOUS
  <1>6. \A i \in 1 .. n : Tail(m)[i] = s[i]
    BY <1>2, <1>4, <1>5
  <1>7. Tail(m) = s
    BY <1>4, <1>6, SeqEqual
  <1> QED  BY <1>2, <1>3, <1>7 DEF m, a

\* Parts that are left of a message all have its number.
LEMMA LeftParts ==
  ASSUME NEW b \in Seq(Part), NEW l \in Seq(Part), l # <<>>, Rest(b \o l)
  PROVE  /\ \A i \in DOMAIN l : l[i][1] = Number(b \o l) /\ l[i] # RoutingID
         /\ b \o l # <<>> /\ Number(b \o l) \in Nat
  <1> DEFINE u == b \o l
  <1> PICK n \in Nat : n = Len(l)  OBVIOUS
  <1> PICK k \in Nat : k = Len(b)  OBVIOUS
  <1>1. /\ u \in Seq(Part) /\ Len(u) = k + n /\ n > 0
        /\ \A i \in 1 .. k + n : u[i] = IF i <= k THEN b[i] ELSE l[i - k]
    BY ConcatProperties
  <1> HIDE DEF u
  <1>2. u # <<>> /\ DOMAIN u = 1 .. k + n  BY <1>1
  <1>3. /\ Number(u) \in Nat /\ Number(u) > 0
        /\ \A i \in 1 .. k + n : u[i][1] = Number(u)
    BY <1>1, <1>2, RestTail DEF u, Rest, Number
  <1>4. ASSUME NEW i \in 1 .. n PROVE l[i][1] = Number(u) /\ l[i] # RoutingID
    <2>1. i + k \in 1 .. k + n /\ ~(i + k <= k) /\ i + k - k = i  OBVIOUS
    <2>2. l[i] = u[i + k]  BY <1>1, <2>1
    <2>3. l[i][1] = Number(u)  BY <1>3, <2>1, <2>2
    <2> QED  BY <1>3, <2>3 DEF RoutingID
  <1> QED  BY <1>2, <1>3, <1>4 DEF u

\* The next part goes; the rest is still the end of the same message.
LEMMA LeaveOne ==
  ASSUME NEW w, NEW r \in Sock, NEW x \in Sock, Leaving(w, r), r.left # <<>>,
         x.left = Tail(r.left),
         \/ ~r.open /\ x.building = <<>> /\ (x.open => Len(r.left) > 1)
         \/ /\ r.left[1] # RoutingID /\ (x.open <=> Len(r.left) > 1)
            /\ x.building = IF Len(r.left) > 1 THEN Append(r.building, r.left[1]) ELSE <<>>
  PROVE  /\ Leaving(w, x)
         /\ x.left # <<>> => Number(Unaddressed(x.left)) = Number(Unaddressed(r.left))
  <1> DEFINE l == r.left
             t == Tail(r.left)
             b == r.building
  <1>1. l \in Seq(Part) /\ b \in Seq(Part) /\ l # <<>>
    BY DEF Sock
  <1> PICK n \in Nat : n = Len(l)
    BY <1>1
  <1>2. /\ n > 0 /\ t \in Seq(Part) /\ Len(t) = n - 1 /\ l[1] \in Part /\ 1 \in DOMAIN l
        /\ (t # <<>> => 1 \in DOMAIN t /\ 2 \in DOMAIN l /\ t[1] = l[2])
        /\ (t = <<>> <=> ~(n > 1))
    <2>1. n > 0 /\ t \in Seq(Part) /\ Len(t) = n - 1 /\ DOMAIN l = 1 .. n /\ DOMAIN t = 1 .. n - 1
          /\ \A i \in 1 .. n - 1 : t[i] = l[i + 1]
      BY <1>1, HeadTailProperties
    <2> HIDE DEF t
    <2>2. t # <<>> <=> n - 1 > 0  BY <2>1
    <2>3. n > 1 <=> n - 1 > 0  OBVIOUS
    <2>4. t # <<>> => 1 \in 1 .. n - 1 /\ 1 + 1 \in 1 .. n /\ t[1] = l[1 + 1]
      BY <2>1, <2>2
    <2>5. l[1] \in Part /\ 1 \in 1 .. n  BY <1>1, <2>1
    <2> QED  BY <2>1, <2>2, <2>3, <2>4, <2>5 DEF t
  <1>3. CASE l[1] = RoutingID
    <2>1. ~r.open /\ b = <<>> /\ x.building = <<>> /\ (x.open => n > 1) /\ w = "ROUTER"
      BY <1>1, <1>3 DEF Leaving
    <2>2. Unaddressed(l) = t /\ t # <<>> /\ Rest(b \o t)
      BY <1>1, <1>3 DEF Unaddressed, Leaving
    <2> HIDE DEF t, l, b
    <2>3. b \o t = t  BY <1>2, <2>1, ConcatEmptySeq
    <2>4. Rest(t)  BY <2>2, <2>3
    <2>5. t[1] # RoutingID  BY <1>2, <2>2, <2>4, RestTail
    <2>6. Unaddressed(t) = t  BY <2>5 DEF Unaddressed
    <2> QED  BY <1>2, <2>1, <2>2, <2>3, <2>4, <2>5, <2>6 DEF Leaving, l, t, b
  <1>4. CASE l[1] # RoutingID
    <2>1. Unaddressed(l) = l /\ Rest(b \o l)
      BY <1>4 DEF Unaddressed, Leaving
    <2> HIDE DEF l, b
    <2>2. /\ \A i \in DOMAIN l : l[i][1] = Number(b \o l) /\ l[i] # RoutingID
          /\ b \o l # <<>>
      BY <1>1, <2>1, LeftParts
    <2>3. t # <<>> => t[1] # RoutingID /\ Number(t) = Number(l)
      BY <1>2, <2>2 DEF Number
    <2> HIDE DEF t
    <2>4. Unaddressed(t) = t  BY <2>3 DEF Unaddressed
    <2>5. Rest(x.building \o t)
      <3>1. CASE t = <<>> /\ x.building = <<>>
        <4>1. x.building \o t = <<>>  BY <3>1, ConcatEmptySeq
        <4>2. Len(<<>>) = 0 /\ DOMAIN <<>> = {}  OBVIOUS
        <4> QED  BY <4>1, <4>2, ZmqAssumption DEF Rest
      <3>2. CASE ~r.open /\ x.building = <<>>
        <4>1. b = <<>>  BY <3>2 DEF Leaving, b
        <4>2. b \o l = l /\ <<>> \o t = t  BY <1>1, <1>2, <4>1, ConcatEmptySeq
        <4>3. Rest(t)  BY <1>1, <2>1, <4>2, RestTail DEF t, l
        <4> QED  BY <3>2, <4>2, <4>3
      <3>3. CASE t # <<>> /\ x.building = Append(b, l[1])
        <4>1. x.building \o t = b \o l  BY <1>1, <3>3, PartMoves DEF t, l
        <4> QED  BY <2>1, <4>1
      <3> QED  BY <1>2, <3>1, <3>2, <3>3 DEF b, l
    <2>6. (x.open => t # <<>>) /\ (~x.open => x.building = <<>>)
      BY <1>2 DEF l, t
    <2> QED  BY <2>1, <2>3, <2>4, <2>5, <2>6 DEF Leaving, l, t
  <1> QED  BY <1>3, <1>4

\* A message that is complete is delivered behind all that its receiver has got.
LEMMA Deliver ==
  ASSUME NEW w \in Wrapper, NEW q \in Sock, NEW y \in Sock, NEW m \in Seq(Part), Arriving(w, q),
         m # <<>>, Rest(Body(w, m)), Body(w, m) # <<>>,
         \A n \in Numbers(w, q) : n < Number(Body(w, m)),
         y.inbox = Append(q.inbox, m), y.got = q.got
  PROVE  Arriving(w, y) /\ Numbers(w, y) = Numbers(w, q) \cup {Number(Body(w, m))}
  <1>1. q.inbox \in Seq(Seq(Part)) /\ q.got \in Seq(Part)
    BY DEF Sock
  <1> PICK n \in Nat : n = Len(q.inbox)
    BY <1>1
  <1> PICK g \in Nat : g = Len(q.got)
    BY <1>1
  <1> DEFINE a == Append(q.inbox, m)
  <1>2. /\ DOMAIN q.inbox = 1 .. n /\ DOMAIN a = 1 .. n + 1 /\ DOMAIN q.got = 1 .. g
        /\ \A i \in 1 .. n : a[i] = q.inbox[i]
        /\ a[n + 1] = m
    BY <1>1, AppendProperties
  <1> HIDE DEF a
  <1>3. \A i \in 1 .. n + 1 : i \in 1 .. n \/ i = n + 1
    OBVIOUS
  <1> DEFINE N(i) == Number(Body(w, a[i]))
  <1>4. /\ \A i \in 1 .. n : N(i) \in Numbers(w, q) /\ N(i) < N(n + 1)
        /\ \A i \in 1 .. g : q.got[i][1] \in Numbers(w, q) /\ q.got[i][1] < N(n + 1)
    BY <1>2 DEF Numbers
  <1>5. /\ \A i \in 1 .. n + 1 : a[i] # <<>> /\ Rest(Body(w, a[i])) /\ Body(w, a[i]) # <<>>
    BY <1>2, <1>3 DEF Arriving
  <1>6. \A i, j \in 1 .. n + 1 : i < j => N(i) < N(j)
    <2> TAKE i, j \in 1 .. n + 1
    <2> HAVE i < j
    <2>1. i \in 1 .. n  OBVIOUS
    <2>2. CASE j \in 1 .. n  BY <1>2, <2>1, <2>2 DEF Arriving
    <2>3. CASE j = n + 1  BY <1>4, <2>1, <2>3
    <2> QED  BY <1>3, <2>2, <2>3
  <1>7. \A i \in 1 .. g, j \in 1 .. n + 1 : q.got[i][1] < N(j)
    BY <1>2, <1>3, <1>4 DEF Arriving
  <1>8. Arriving(w, y)
    BY <1>2, <1>5, <1>6, <1>7 DEF Arriving, a
  <1>9. Numbers(w, y) = Numbers(w, q) \cup {N(n + 1)}
    <2>1. Numbers(w, y) = {q.got[i][1] : i \in 1 .. g} \cup {N(i) : i \in 1 .. n + 1}
      BY <1>2 DEF Numbers, a
    <2>2. Numbers(w, q) = {q.got[i][1] : i \in 1 .. g} \cup {N(i) : i \in 1 .. n}
      BY <1>2 DEF Numbers
    <2> HIDE DEF N
    <2>3. {N(i) : i \in 1 .. n + 1} = {N(i) : i \in 1 .. n} \cup {N(n + 1)}
      BY <1>3
    <2> QED  BY <2>1, <2>2, <2>3
  <1> QED  BY <1>2, <1>8, <1>9

LEMMA NumbersAreInts ==
  ASSUME NEW w \in Wrapper, NEW q \in Sock, Arriving(w, q)
  PROVE  Numbers(w, q) \subseteq Int
  <1>1. q.got \in Seq(Part) /\ q.inbox \in Seq(Seq(Part))
    BY DEF Sock
  <1>2. \A i \in DOMAIN q.got : q.got[i][1] \in Nat
    BY <1>1 DEF Part
  <1>3. ASSUME NEW i \in DOMAIN q.inbox PROVE Number(Body(w, q.inbox[i])) \in Nat
    <2>1. q.inbox[i] \in Seq(Part) /\ q.inbox[i] # <<>>  BY <1>1 DEF Arriving
    <2>2. Body(w, q.inbox[i]) \in Seq(Part)
      BY <2>1, HeadTailProperties DEF Body
    <2> QED  BY <2>2, RestTail DEF Arriving
  <1> QED  BY <1>2, <1>3 DEF Numbers

\* What a part of a message does: it goes, or is lost, or completes the message.
LEMMA SendPartIs ==
  ASSUME ZmqInv, NEW w \in Wrapper, SendPart(w)
  PROVE  \E x \in Sock, y \in Sock :
            LET r == zmq[w]
                q == zmq[Peer(w)]
            IN  /\ zmq' = [zmq EXCEPT ![w] = x, ![Peer(w)] = y]
                /\ r.left # <<>> /\ x.left = Tail(r.left)
                /\ x.made = r.made /\ x.queue = r.queue /\ x.pc = "dequeue"
                /\ x.inbox = r.inbox /\ x.got = r.got
                /\ \A f \in {"st", "made", "ring", "sending", "queue", "pc", "left", "open",
                             "building", "drop", "got"} : y[f] = q[f]
                /\ \/ /\ ~r.open /\ x.building = <<>> /\ (x.open => Len(r.left) > 1)
                      /\ y.inbox = q.inbox
                   \/ /\ r.left[1] # RoutingID /\ (x.open <=> Len(r.left) > 1)
                      /\ x.building = IF Len(r.left) > 1 THEN Append(r.building, r.left[1]) ELSE <<>>
                      /\ \/ y.inbox = q.inbox
                         \/ /\ ~(Len(r.left) > 1)
                            /\ \E m \in Seq(Part) :
                                  /\ m # <<>> /\ Body(Peer(w), m) = Append(r.building, r.left[1])
                                  /\ y.inbox = Append(q.inbox, m)
  <1> DEFINE r == zmq[w]
             p == Peer(w)
             q == zmq[p]
             part == r.left[1]
             more == Len(r.left) > 1
             address == ~r.open /\ w = "ROUTER"
             drop == IF r.open THEN r.drop ELSE address /\ ~(part = RoutingID /\ link)
             whole == IF address THEN <<>> ELSE Append(r.building, part)
             kept == [r EXCEPT !.signal = FALSE, !.open = more, !.drop = drop /\ more,
                               !.building = IF more THEN whole ELSE <<>>]
             m == IF w = "DEALER" THEN <<RoutingID>> \o whole ELSE whole
             sent == ZmqSend(w, part, more)
             t == Tail(r.left)
  <1>1. /\ r \in Sock /\ q \in Sock /\ zmq \in [Wrapper -> Sock] /\ Leaving(w, r)
        /\ p \in Wrapper /\ p # w /\ (w = "ROUTER" <=> p = "DEALER") /\ (w = "DEALER" <=> p = "ROUTER")
    <2>1. p \in Wrapper /\ p # w /\ (w = "ROUTER" <=> p = "DEALER") /\ (w = "DEALER" <=> p = "ROUTER")
      BY PeerIs DEF Wrapper
    <2> QED  BY <2>1, ZmqPair
  <1>2. /\ r.pc = "dequeue" /\ r.left # <<>> /\ r.left \in Seq(Part) /\ r.building \in Seq(Part)
        /\ part \in Part /\ t \in Seq(Part)
    <2>1. r.left \in Seq(Part) /\ r.building \in Seq(Part)  BY <1>1 DEF Sock
    <2>2. r.pc = "dequeue" /\ r.left # <<>>  BY DEF SendPart
    <2> QED  BY <2>1, <2>2, HeadTailProperties
  <1>3. part = RoutingID => w = "ROUTER" /\ ~r.open
    BY <1>1, <1>2 DEF Leaving
  <1>4. zmq' = [sent EXCEPT ![w].left = t]
    <2>1. zmq' = [sent EXCEPT ![w].left = IF part = RoutingID /\ ~Taken(w, r) THEN <<>> ELSE Tail(@)]
      BY DEF SendPart
    <2>2. ~(part = RoutingID /\ ~Taken(w, r))  BY <1>3 DEF Taken
    <2>3. zmq' = [sent EXCEPT ![w].left = Tail(@)]  BY <2>1, <2>2
    <2>4. sent[w].left = r.left
      <3>1. sent[w] = kept \/ sent[w] = [r EXCEPT !.signal = FALSE]
        BY <1>1 DEF ZmqSend
      <3> QED  BY <1>1, <3>1 DEF Sock
    <2> QED  BY <2>3, <2>4
  <1>5. /\ ~Taken(w, r) => sent = [zmq EXCEPT ![w] = [r EXCEPT !.signal = FALSE]]
        /\ Taken(w, r) /\ (more \/ drop \/ m = <<>>) => sent = [zmq EXCEPT ![w] = kept]
        /\ Taken(w, r) /\ ~(more \/ drop \/ m = <<>>)
              => sent = [zmq EXCEPT ![w] = kept,
                                    ![p] = [q EXCEPT !.inbox = Append(q.inbox, m), !.signal = TRUE]]
    BY <1>1 DEF ZmqSend
  <1>6. whole \in Seq(Part) /\ (~address => whole # <<>> /\ whole = Append(r.building, part))
    <2>1. Append(r.building, part) \in Seq(Part) /\ Append(r.building, part) # <<>>
      BY <1>2, AppendProperties
    <2> QED  BY <2>1
  <1>7. m \in Seq(Part) /\ (w = "DEALER" => m # <<>> /\ Tail(m) = whole)
    BY <1>6, Addressed
  <1>8. more \in BOOLEAN /\ drop \in BOOLEAN
    <2>1. r.drop \in BOOLEAN  BY <1>1 DEF Sock
    <2>2. CASE r.open  BY <2>1, <2>2
    <2>3. CASE ~r.open  BY <2>3
    <2> QED  BY <2>2, <2>3
  <1> HIDE DEF sent, m, whole, drop, t
  <1>9. CASE ~Taken(w, r)
    <2> DEFINE x == [r EXCEPT !.signal = FALSE, !.left = t]
    <2>1. ~r.open /\ r.building = <<>>
      BY <1>1, <1>9 DEF Taken, Leaving
    <2>2. zmq' = [zmq EXCEPT ![w] = x, ![p] = q]
      BY <1>1, <1>4, <1>5, <1>9
    <2>3. /\ x \in Sock /\ x.left = t
          /\ x.made = r.made /\ x.queue = r.queue /\ x.pc = "dequeue"
          /\ x.inbox = r.inbox /\ x.got = r.got /\ x.building = <<>> /\ ~x.open
      BY <1>1, <1>2, <2>1 DEF Sock
    <2> HIDE DEF x
    <2> QED  BY <1>1, <1>2, <2>1, <2>2, <2>3 DEF t
  <1> DEFINE x == [kept EXCEPT !.left = t]
  <1>10. /\ kept \in Sock /\ x \in Sock /\ x.left = t /\ (x.open <=> more)
         /\ x.made = r.made /\ x.queue = r.queue /\ x.pc = "dequeue"
         /\ x.inbox = r.inbox /\ x.got = r.got
         /\ x.building = IF more THEN whole ELSE <<>>
    <2> DEFINE b == IF more THEN whole ELSE <<>>
               d == drop /\ more
    <2>1. b \in Seq(Part) /\ d \in BOOLEAN /\ more \in BOOLEAN  BY <1>6, <1>8
    <2>2. kept = [r EXCEPT !.signal = FALSE, !.open = more, !.drop = d, !.building = b]
      OBVIOUS
    <2> HIDE DEF b, d
    <2>a. \A y \in Sock, e \in BOOLEAN, f \in BOOLEAN, u \in Seq(Part) :
             [y EXCEPT !.signal = FALSE, !.open = e, !.drop = f, !.building = u] \in Sock
      BY DEF Sock
    <2>b. \A y \in Sock, u \in Seq(Part) : [y EXCEPT !.left = u] \in Sock  BY DEF Sock
    <2>c. kept \in Sock
      <3>1. PICK y \in Sock : y = r  BY <1>1
      <3>2. PICK e \in BOOLEAN : e = more  BY <2>1
      <3>3. [y EXCEPT !.signal = FALSE, !.open = e, !.drop = d, !.building = b] \in Sock
        BY <2>1, <2>a
      <3>4. kept = [y EXCEPT !.signal = FALSE, !.open = e, !.drop = d, !.building = b]
        BY <2>2, <3>1, <3>2
      <3> QED  BY <3>3, <3>4
    <2>3. kept \in Sock /\ x \in Sock  BY <1>2, <2>b, <2>c
    <2>4. /\ x.left = t /\ x.open = more /\ x.made = r.made /\ x.queue = r.queue /\ x.pc = r.pc
          /\ x.inbox = r.inbox /\ x.got = r.got /\ x.building = b
      BY <1>1, <1>2, <2>1, <2>2 DEF Sock
    <2> QED  BY <1>2, <2>3, <2>4 DEF b
  <1> HIDE DEF kept
  <1>11. address => x.building = <<>>
    BY <1>10 DEF whole
  <1>12. ~address => part # RoutingID /\ x.building = IF more THEN Append(r.building, part) ELSE <<>>
    BY <1>3, <1>6, <1>10
  <1>13. CASE Taken(w, r) /\ (more \/ drop \/ m = <<>>)
    <2>1. zmq' = [zmq EXCEPT ![w] = x, ![p] = q]
      BY <1>1, <1>4, <1>5, <1>13
    <2> HIDE DEF x
    <2>2. CASE address
      BY <1>1, <1>2, <1>10, <1>11, <2>1, <2>2 DEF t
    <2>3. CASE ~address
      BY <1>1, <1>2, <1>10, <1>12, <2>1, <2>3 DEF t
    <2> QED  BY <2>2, <2>3
  <1>14. CASE Taken(w, r) /\ ~(more \/ drop \/ m = <<>>)
    <2> DEFINE a == Append(q.inbox, m)
               y == [q EXCEPT !.inbox = a, !.signal = TRUE]
    <2>1. zmq' = [zmq EXCEPT ![w] = x, ![p] = y]
      BY <1>1, <1>4, <1>5, <1>14
    <2>2. ~address
      BY <1>14 DEF m, whole
    <2>3. Body(p, m) = Append(r.building, part)
      <3>1. CASE w = "DEALER"  BY <1>1, <1>6, <1>7, <2>2, <3>1 DEF Body
      <3>2. CASE w # "DEALER"  BY <1>1, <1>6, <2>2, <3>2 DEF Body, m, Wrapper
      <3> QED  BY <3>1, <3>2
    <2>4. a \in Seq(Seq(Part))
      BY <1>1, <1>7 DEF Sock
    <2> HIDE DEF a, x
    <2>5. /\ y \in Sock /\ y.inbox = a
          /\ \A f \in {"st", "made", "ring", "sending", "queue", "pc", "left", "open",
                       "building", "drop", "got"} : y[f] = q[f]
      BY <1>1, <2>4 DEF Sock
    <2> HIDE DEF y
    <2> QED  BY <1>1, <1>2, <1>7, <1>10, <1>12, <1>14, <2>1, <2>2, <2>3, <2>5 DEF t, a
  <1> QED  BY <1>9, <1>13, <1>14

LEMMA SendPartStep == ASSUME ZmqInv, NEW w \in Wrapper, SendPart(w) PROVE ZmqInv'
  <1> DEFINE r == zmq[w]
             p == Peer(w)
             q == zmq[p]
             u == r.building \o r.left
  <1>1. /\ r \in Sock /\ q \in Sock /\ p \in Wrapper /\ Leaving(w, r) /\ Queued(w, r)
        /\ Arriving(w, r) /\ Arriving(p, q) /\ Ahead(r, p, q) /\ Ahead(q, w, r)
        /\ r.left \in Seq(Part) /\ r.building \in Seq(Part) /\ TakenOut(r) \in Int
    <2>1. r.made \in Nat /\ r.queue \in Seq(Seq(Part))  BY ZmqPair
    <2>2. TakenOut(r) \in Int  BY <2>1 DEF TakenOut
    <2> QED  BY <2>2, ZmqPair
  <1>2. PICK x \in Sock, y \in Sock :
                /\ zmq' = [zmq EXCEPT ![w] = x, ![p] = y]
                /\ r.left # <<>> /\ x.left = Tail(r.left)
                /\ x.made = r.made /\ x.queue = r.queue /\ x.pc = "dequeue"
                /\ x.inbox = r.inbox /\ x.got = r.got
                /\ \A f \in {"st", "made", "ring", "sending", "queue", "pc", "left", "open",
                             "building", "drop", "got"} : y[f] = q[f]
                /\ \/ /\ ~r.open /\ x.building = <<>> /\ (x.open => Len(r.left) > 1)
                      /\ y.inbox = q.inbox
                   \/ /\ r.left[1] # RoutingID /\ (x.open <=> Len(r.left) > 1)
                      /\ x.building = IF Len(r.left) > 1 THEN Append(r.building, r.left[1]) ELSE <<>>
                      /\ \/ y.inbox = q.inbox
                         \/ /\ ~(Len(r.left) > 1)
                            /\ \E m \in Seq(Part) :
                                  /\ m # <<>> /\ Body(p, m) = Append(r.building, r.left[1])
                                  /\ y.inbox = Append(q.inbox, m)
    BY SendPartIs
  <1> HIDE DEF r, q, p
  <1>3. Leaving(w, x) /\ (x.left # <<>> => Number(Unaddressed(x.left)) = Number(Unaddressed(r.left)))
    <2>1. \/ ~r.open /\ x.building = <<>> /\ (x.open => Len(r.left) > 1)
          \/ /\ r.left[1] # RoutingID /\ (x.open <=> Len(r.left) > 1)
             /\ x.building = IF Len(r.left) > 1 THEN Append(r.building, r.left[1]) ELSE <<>>
      BY <1>2
    <2>2. r.left # <<>> /\ x.left = Tail(r.left)  BY <1>2
    <2> QED  BY <1>1, <2>1, <2>2, LeaveOne
  <1>4. TakenOut(x) = TakenOut(r) /\ TakenOut(y) = TakenOut(q)
    BY <1>2 DEF TakenOut
  <1>5. Queued(w, x) /\ Arriving(w, x)
    BY <1>1, <1>2, <1>4 DEF Queued, Arriving
  <1>6. Ahead(y, w, x)
    BY <1>1, <1>2, <1>4 DEF Ahead, Numbers
  <1>7. Arriving(p, y) /\ Ahead(x, p, y)
    <2>1. CASE y.inbox = q.inbox
      <3>1. Arriving(p, y) /\ Numbers(p, y) = Numbers(p, q)
        BY <1>1, <1>2, <2>1 DEF Arriving, Numbers
      <3> QED  BY <1>1, <1>2, <1>3, <1>4, <3>1 DEF Ahead
    <2>2. ASSUME r.left[1] # RoutingID, ~(Len(r.left) > 1), NEW m \in Seq(Part),
                 m # <<>>, Body(p, m) = Append(r.building, r.left[1]), y.inbox = Append(q.inbox, m)
          PROVE  Arriving(p, y) /\ Ahead(x, p, y)
      <3>1. Unaddressed(r.left) = r.left /\ Rest(u)
        BY <1>1, <2>2 DEF Unaddressed, Leaving
      <3>2. u # <<>> /\ Number(u) = Number(r.left) /\ Number(u) \in Nat
        <4>1. 1 \in DOMAIN r.left  BY <1>1, <1>2
        <4> QED  BY <1>1, <1>2, <3>1, <4>1, LeftParts DEF Number
      <3>3. Tail(r.left) = <<>>
        <4>1. Len(Tail(r.left)) = Len(r.left) - 1 /\ Tail(r.left) \in Seq(Part) /\ Len(r.left) \in Nat
              /\ Len(r.left) > 0
          BY <1>1, <1>2, HeadTailProperties
        <4> QED  BY <2>2, <4>1
      <3>4. Body(p, m) = u
        <4>1. /\ Append(r.building, r.left[1]) \o Tail(r.left) = u
              /\ Append(r.building, r.left[1]) \in Seq(Part)
          BY <1>1, <1>2, PartMoves
        <4>2. Append(r.building, r.left[1]) \o <<>> = Append(r.building, r.left[1])
          BY <4>1, ConcatEmptySeq
        <4> QED  BY <2>2, <3>3, <4>1, <4>2
      <3>5. \A n \in Numbers(p, q) : n < Number(Body(p, m))
        BY <1>1, <1>2, <3>1, <3>2, <3>4 DEF Ahead
      <3>6. Arriving(p, y) /\ Numbers(p, y) = Numbers(p, q) \cup {Number(u)}
        <4>1. Rest(Body(p, m)) /\ Body(p, m) # <<>>  BY <3>1, <3>2, <3>4
        <4>2. y.got = q.got  BY <1>2
        <4>3. Arriving(p, y) /\ Numbers(p, y) = Numbers(p, q) \cup {Number(Body(p, m))}
          <5>1. p \in Wrapper /\ Arriving(p, q) /\ m # <<>> /\ y.inbox = Append(q.inbox, m)
                /\ q \in Sock
            BY <1>1, <2>2
          <5> HIDE DEF u
          <5> QED  BY <3>5, <4>1, <4>2, <5>1, Deliver
        <4> QED  BY <3>4, <4>3
      <3>7. x.left = <<>> /\ Number(u) <= TakenOut(r)
        BY <1>1, <1>2, <3>1, <3>2, <3>3 DEF Ahead
      <3> QED  BY <1>1, <1>4, <3>6, <3>7 DEF Ahead
    <2> QED  BY <1>2, <2>1, <2>2
  <1> QED  BY <1>1, <1>2, <1>3, <1>5, <1>6, <1>7, ZmqTwoStep DEF p, q, r

LEMMA ZmqInitial == ASSUME ZmqInit PROVE ZmqInv
  <1> SUFFICES ASSUME NEW w \in Wrapper
               PROVE  /\ zmq[w] \in Sock /\ zmq \in [Wrapper -> Sock]
                      /\ Queued(w, zmq[w]) /\ Leaving(w, zmq[w]) /\ Arriving(w, zmq[w])
                      /\ Ahead(zmq[w], Peer(w), zmq[Peer(w)]) /\ zmq[w].queue = <<>>
    <2>1. \E w \in Wrapper : TRUE  BY DEF Wrapper
    <2> QED  BY <2>1 DEF ZmqInv, SendsTaken
  <1> DEFINE r == [st |-> "new", made |-> 0, ring |-> FALSE, sending |-> FALSE, queue |-> <<>>,
                   pc |-> "idle", left |-> <<>>, open |-> FALSE, drop |-> FALSE, building |-> <<>>,
                   inbox |-> <<>>, signal |-> FALSE, got |-> <<>>]
  <1>1. /\ r \in Sock /\ r.made = 0 /\ r.queue = <<>> /\ r.left = <<>> /\ ~r.open /\ r.building = <<>>
        /\ r.inbox = <<>> /\ r.got = <<>>
    BY EmptySeq DEF Sock
  <1>2. zmq = [v \in Wrapper |-> r]
    BY DEF ZmqInit
  <1> HIDE DEF r
  <1>3. zmq[w] = r /\ zmq[Peer(w)] = r /\ zmq \in [Wrapper -> Sock]
    BY <1>1, <1>2, PeerIs
  <1>4. Len(<<>>) = 0 /\ DOMAIN <<>> = {}
    OBVIOUS
  <1>5. Rest(<<>>) /\ <<>> \o <<>> = <<>> /\ Unaddressed(<<>>) = <<>>
    BY <1>4, ZmqAssumption DEF Rest, Unaddressed
  <1>6. TakenOut(r) = 0 /\ Queued(w, r)
    <2>0. 0 - 0 = 0  OBVIOUS
    <2>1. TakenOut(r) = 0  BY <1>1, <1>4, <2>0 DEF TakenOut
    <2> QED  BY <1>1, <1>4, <2>1 DEF Queued
  <1>7. Leaving(w, r)
    BY <1>1, <1>5 DEF Leaving
  <1>8. Arriving(w, r)
    BY <1>1, <1>4 DEF Arriving
  <1>9. Ahead(r, Peer(w), r)
    BY <1>1, <1>4 DEF Ahead, Numbers
  <1> QED  BY <1>1, <1>3, <1>6, <1>7, <1>8, <1>9

LEMMA ZmqStep == ASSUME ZmqInv, [ZmqNext]_zmqVars PROVE ZmqInv'
  <1>1. CASE Flip  BY <1>1, FlipStep
  <1>2. ASSUME NEW w \in Wrapper,
               InitWrapper(w) \/ SendNotify(w) \/ Destroy(w) \/ OnNotify(w) \/ OnRead(w)
        PROVE  ZmqInv'
    BY <1>2, ZmqFlagsStep
  <1>3. ASSUME NEW w \in Wrapper, JoinThread(w) PROVE ZmqInv'
    BY <1>3, JoinThreadStep
  <1>4. ASSUME NEW w \in Wrapper, NEW routed \in BOOLEAN, Send(w, routed) PROVE ZmqInv'
    BY <1>4, SendStep
  <1>5. ASSUME NEW w \in Wrapper, DequeueMsg(w) PROVE ZmqInv'
    BY <1>5, DequeueMsgStep
  <1>6. ASSUME NEW w \in Wrapper, SendPart(w) PROVE ZmqInv'
    BY <1>6, SendPartStep
  <1>7. ASSUME NEW w \in Wrapper, RecvMsg(w) PROVE ZmqInv'
    BY <1>7, RecvMsgStep
  <1>8. CASE UNCHANGED zmqVars
    BY <1>8 DEF zmqVars, ZmqInv, SendsTaken
  <1> QED  BY <1>1, <1>2, <1>3, <1>4, <1>5, <1>6, <1>7, <1>8 DEF ZmqNext, Loop

LEMMA ZmqInOrder == ASSUME ZmqInv PROVE InOrderToTheEnd /\ SendsTaken
  BY DEF ZmqInv, Arriving, InOrderToTheEnd

-----------------------------------------------------------------------------
(* ZooKeeper: every step keeps the invariant                               *)

LEMMA MessageKinds ==
    /\ SessionMsg \in Msg /\ ChildMsg \in Msg /\ SessionMsg.kind = "session" /\ ChildMsg.kind = "child"
    /\ \A rc \in {"ZOK", "ZNODEEXISTS"} : /\ CreateMsg(rc) \in Msg
                                          /\ CreateMsg(rc).kind = "create" /\ CreateMsg(rc).rc = rc
    /\ \A list \in SUBSET Process : /\ ChildrenMsg(list) \in Msg
                                    /\ ChildrenMsg(list).kind = "children"
                                    /\ ChildrenMsg(list).list = list
    /\ \A m \in Msg : /\ m.kind \in {"session", "child", "create", "children"}
                      /\ m.kind = "create" => m.rc \in {"ZOK", "ZNODEEXISTS"} /\ m = CreateMsg(m.rc)
                      /\ m.kind = "children" => m.list \in SUBSET Process /\ m = ChildrenMsg(m.list)
                      /\ m.kind = "session" => m = SessionMsg
                      /\ m.kind = "child" => m = ChildMsg
<1>1. /\ SessionMsg \in Msg /\ ChildMsg \in Msg
      /\ SessionMsg.kind = "session" /\ ChildMsg.kind = "child"
  BY DEF Msg, SessionMsg, ChildMsg
<1>2. \A rc \in {"ZOK", "ZNODEEXISTS"} : /\ CreateMsg(rc) \in Msg
                                         /\ CreateMsg(rc).kind = "create" /\ CreateMsg(rc).rc = rc
  BY DEF Msg, CreateMsg
<1>3. \A list \in SUBSET Process : /\ ChildrenMsg(list) \in Msg
                                   /\ ChildrenMsg(list).kind = "children"
                                   /\ ChildrenMsg(list).list = list
  BY DEF Msg, ChildrenMsg
<1>4. ASSUME NEW m \in Msg
      PROVE  /\ m.kind \in {"session", "child", "create", "children"}
             /\ m.kind = "create" => m.rc \in {"ZOK", "ZNODEEXISTS"} /\ m = CreateMsg(m.rc)
             /\ m.kind = "children" => m.list \in SUBSET Process /\ m = ChildrenMsg(m.list)
             /\ m.kind = "session" => m = SessionMsg
             /\ m.kind = "child" => m = ChildMsg
  <2>1. \/ m = SessionMsg \/ m = ChildMsg
        \/ \E rc \in {"ZOK", "ZNODEEXISTS"} : m = CreateMsg(rc)
        \/ \E list \in SUBSET Process : m = ChildrenMsg(list)
    BY DEF Msg
  <2> QED
    BY <2>1, <1>1, <1>2, <1>3
<1> QED
  BY <1>1, <1>2, <1>3, <1>4

LEMMA RequestKinds ==
    /\ ChildrenReq \in Request /\ ChildrenReq.kind = "children"
    /\ \A level \in 1 .. Levels : /\ CreateReq(level) \in Request
                                  /\ CreateReq(level).kind = "create"
                                  /\ CreateReq(level).level = level
    /\ \A r \in Request : /\ r.kind \in {"create", "children"}
                          /\ r.kind = "create" => r.level \in 1 .. Levels /\ r = CreateReq(r.level)
                          /\ r.kind = "children" => r = ChildrenReq
  BY DEF Request, ChildrenReq, CreateReq

LEMMA HasAppend ==
    ASSUME NEW S, NEW q \in Seq(S), NEW m \in S, NEW kinds
    PROVE  Has(Append(q, m), kinds) <=> Has(q, kinds) \/ m.kind \in kinds
<1>1. PICK n \in Nat : n = Len(q)
  BY LenProperties
<1>2. /\ Append(q, m) \in Seq(S) /\ Len(Append(q, m)) = n + 1 /\ Append(q, m)[n + 1] = m
      /\ \A i \in 1 .. n : Append(q, m)[i] = q[i]
  BY <1>1, AppendProperties
<1>3. DOMAIN q = 1 .. n /\ DOMAIN Append(q, m) = 1 .. n + 1
  BY <1>1, <1>2, LenProperties
<1> QED
  BY <1>2, <1>3 DEF Has

LEMMA HasTail ==
    ASSUME NEW S, NEW q \in Seq(S), q # <<>>, NEW kinds
    PROVE  Has(q, kinds) <=> Head(q).kind \in kinds \/ Has(Tail(q), kinds)
<1>1. PICK n \in Nat : n = Len(q) /\ n # 0
  BY LenProperties, EmptySeq
<1>2. /\ Tail(q) \in Seq(S) /\ Len(Tail(q)) = n - 1 /\ Head(q) = q[1]
      /\ \A i \in 1 .. Len(Tail(q)) : Tail(q)[i] = q[i + 1]
  BY <1>1, HeadTailProperties
<1>3. DOMAIN q = 1 .. n /\ DOMAIN Tail(q) = 1 .. n - 1
  BY <1>1, <1>2, LenProperties
<1>4. ASSUME Has(q, kinds) PROVE Head(q).kind \in kinds \/ Has(Tail(q), kinds)
  <2>1. PICK i \in 1 .. n : q[i].kind \in kinds
    BY <1>3, <1>4 DEF Has
  <2>2. CASE i = 1
    BY <2>1, <2>2, <1>2
  <2>3. CASE i # 1
    <3>1. i - 1 \in 1 .. n - 1 /\ (i - 1) + 1 = i
      BY <2>3, <1>1
    <3> QED
      BY <3>1, <2>1, <1>2, <1>3 DEF Has
  <2> QED
    BY <2>2, <2>3
<1>5. ASSUME Head(q).kind \in kinds PROVE Has(q, kinds)
  <2>1. 1 \in DOMAIN q
    BY <1>1, <1>3
  <2> QED
    BY <2>1, <1>2, <1>5 DEF Has
<1>6. ASSUME Has(Tail(q), kinds) PROVE Has(q, kinds)
  <2>1. PICK i \in 1 .. n - 1 : Tail(q)[i].kind \in kinds
    BY <1>3, <1>6 DEF Has
  <2>2. i + 1 \in 1 .. n /\ q[i + 1].kind \in kinds
    BY <2>1, <1>1, <1>2
  <2> QED
    BY <2>2, <1>3 DEF Has
<1> QED
  BY <1>4, <1>5, <1>6

LEMMA HasNone == \A kinds : ~Has(<<>>, kinds)
  BY DEF Has

LEMMA HasOne == \A m, kinds : Has(<<m>>, kinds) <=> m.kind \in kinds
  BY DEF Has

LEMMA NewestAppend ==
    ASSUME NEW S, NEW q \in Seq(S), NEW m \in S, NEW list,
           \/ m.kind = "children" /\ m.list = list
           \/ m.kind # "children" /\ Newest(q, list)
    PROVE  Newest(Append(q, m), list)
<1>1. PICK n \in Nat : n = Len(q)
  BY LenProperties
<1>2. /\ Append(q, m) \in Seq(S) /\ Len(Append(q, m)) = n + 1 /\ Append(q, m)[n + 1] = m
      /\ \A i \in 1 .. n : Append(q, m)[i] = q[i]
  BY <1>1, AppendProperties
<1>3. DOMAIN q = 1 .. n /\ DOMAIN Append(q, m) = 1 .. n + 1
  BY <1>1, <1>2, LenProperties
<1> DEFINE a == Append(q, m)
<1>4. SUFFICES ASSUME NEW i \in 1 .. n + 1, a[i].kind = "children",
                      \A j \in 1 .. n + 1 : j > i => a[j].kind # "children"
               PROVE  a[i].list = list
  BY <1>3 DEF Newest
<1> HIDE DEF a
<1>5. CASE i = n + 1
  <2>1. a[i] = m
    BY <1>2, <1>5 DEF a
  <2> QED
    BY <2>1, <1>4
<1>6. CASE i # n + 1
  <2>1. i \in 1 .. n /\ n + 1 \in 1 .. n + 1 /\ n + 1 > i
    BY <1>6
  <2>2. m.kind # "children" /\ a[i] = q[i] /\ \A j \in 1 .. n : a[j] = q[j]
    BY <2>1, <1>2, <1>4 DEF a
  <2>3. \A j \in 1 .. n : j > i => q[j].kind # "children"
    BY <2>2, <1>4
  <2> QED
    BY <2>1, <2>2, <2>3, <1>3, <1>4 DEF Newest
<1> QED
  BY <1>5, <1>6

LEMMA NewestTail ==
    ASSUME NEW S, NEW q \in Seq(S), q # <<>>, NEW list, Newest(q, list)
    PROVE  /\ Newest(Tail(q), list)
           /\ Head(q).kind = "children" /\ ~Has(Tail(q), {"children"}) => Head(q).list = list
<1>1. PICK n \in Nat : n = Len(q) /\ n # 0
  BY LenProperties, EmptySeq
<1>2. /\ Tail(q) \in Seq(S) /\ Len(Tail(q)) = n - 1 /\ Head(q) = q[1]
      /\ \A i \in 1 .. Len(Tail(q)) : Tail(q)[i] = q[i + 1]
  BY <1>1, HeadTailProperties
<1>3. DOMAIN q = 1 .. n /\ DOMAIN Tail(q) = 1 .. n - 1
  BY <1>1, <1>2, LenProperties
<1>a. \A i \in 1 .. n - 1 : Tail(q)[i] = q[i + 1]
  BY <1>2
<1>4. Newest(Tail(q), list)
  <2>1. SUFFICES ASSUME NEW i \in 1 .. n - 1, Tail(q)[i].kind = "children",
                        \A j \in 1 .. n - 1 : j > i => Tail(q)[j].kind # "children"
                 PROVE  Tail(q)[i].list = list
    BY <1>3 DEF Newest
  <2>2. i + 1 \in 1 .. n /\ q[i + 1].kind = "children"
    BY <2>1, <1>a, <1>1
  <2>3. ASSUME NEW j \in 1 .. n, j > i + 1 PROVE q[j].kind # "children"
    <3>1. j - 1 \in 1 .. n - 1 /\ j - 1 > i /\ (j - 1) + 1 = j
      BY <2>3, <1>1
    <3> QED
      BY <3>1, <2>1, <1>a
  <2> QED
    BY <2>2, <2>3, <1>a, <1>3 DEF Newest
<1>5. ASSUME Head(q).kind = "children", ~Has(Tail(q), {"children"}) PROVE Head(q).list = list
  <2>1. 1 \in 1 .. n /\ q[1].kind = "children"
    BY <1>5, <1>1, <1>2
  <2>2. ASSUME NEW j \in 1 .. n, j > 1 PROVE q[j].kind # "children"
    <3>1. j - 1 \in 1 .. n - 1 /\ (j - 1) + 1 = j
      BY <2>2, <1>1
    <3> QED
      BY <3>1, <1>5, <1>a, <1>3 DEF Has
  <2> QED
    BY <2>1, <2>2, <1>2, <1>3 DEF Newest
<1> QED
  BY <1>4, <1>5

\* What a contender's library has after the watches of fired were triggered.
Told(w, fired) == IF w.handle = "connected" /\ w.session \in fired
                  THEN [w EXCEPT !.in = Append(@, ChildMsg)] ELSE w

LEMMA NotifyIs ==
    ASSUME NEW ws, NEW fired
    PROVE  Notify(ws, fired) = [p \in Process |-> Told(ws[p], fired)]
  BY DEF Notify, Told, ChildMsg

LEMMA ToldIs ==
    ASSUME NEW w \in Contender, NEW fired
    PROVE  /\ Told(w, fired) \in Contender
           /\ \A f \in {"running", "handle", "session", "created", "all", "mode", "timer",
                        "signals", "out"} : Told(w, fired)[f] = w[f]
           /\ Told(w, fired).in = IF w.handle = "connected" /\ w.session \in fired
                                  THEN Append(w.in, ChildMsg) ELSE w.in
<1>1. w.in \in Seq(Msg) /\ ChildMsg \in Msg
  BY MessageKinds DEF Contender
<1>2. Append(w.in, ChildMsg) \in Seq(Msg)
  BY <1>1, AppendProperties
<1> HIDE DEF Msg
<1> QED
  BY <1>2 DEF Told, Contender

\* What a change of the server must not do behind the back of a contender.
Noticed(w, s, t, fired) ==
    w.handle = "connected" =>
        /\ w.session \in t.watch => w.session \in s.watch /\ Children(t) = Children(s)
        /\ w.session \in s.watch => w.session \in t.watch \/ w.session \in fired
        /\ w.session \in fired => w.session \in s.watch

LEMMA Notified ==
    ASSUME NEW q \in Process, NEW w \in Contender, NEW s \in Ensemble, NEW t \in Ensemble,
           NEW fired, Contends(q, w, s), t.dirs >= s.dirs, 0 \notin t.watch,
           Noticed(w, s, t, fired)
    PROVE  Contends(q, Told(w, fired), t)
<1> DEFINE v == Told(w, fired)
<1>1. /\ v \in Contender
      /\ v.handle = w.handle /\ v.session = w.session /\ v.created = w.created /\ v.all = w.all
      /\ v.mode = w.mode /\ v.out = w.out
      /\ v.in = IF w.handle = "connected" /\ w.session \in fired
                THEN Append(w.in, ChildMsg) ELSE w.in
  BY ToldIs
<1>2. w.in \in Seq(Msg) /\ ChildMsg \in Msg /\ ChildMsg.kind = "child"
  BY MessageKinds DEF Contender
<1>3. \A kinds : Has(Append(w.in, ChildMsg), kinds) <=> Has(w.in, kinds) \/ "child" \in kinds
  BY <1>2, HasAppend
<1>4. \A list : Newest(w.in, list) => Newest(Append(w.in, ChildMsg), list)
  BY <1>2, NewestAppend
<1>5. s.dirs \in 0 .. Levels - 1 /\ t.dirs \in 0 .. Levels - 1 /\ Levels \in Nat \ {0}
  BY ZkAssumption DEF Ensemble
<1> HIDE DEF v
<1>6. CASE w.handle # "connected"
  <2>1. v.in = w.in
    BY <1>6, <1>1
  <2>2. w.session = 0 /\ w.out = <<>> /\ w.in = <<>> /\ Silent(w, s)
    BY <1>6 DEF Contends
  <2>3. v.session = 0 /\ v.out = <<>> /\ v.in = <<>> /\ v.handle # "connected"
    BY <1>6, <1>1, <2>1, <2>2
  <2>4. v.all \/ v.mode = "none"
    BY <1>1, <2>2 DEF Silent
  <2>5. Silent(v, t)
    BY <2>3, <2>4, HasNone DEF Silent
  <2>6. Contends(q, v, t)
    BY <2>3, <2>5 DEF Contends
  <2> QED
    BY <2>6 DEF v
<1>7. CASE w.handle = "connected"
  <2>1. /\ w.session \in t.watch => w.session \in s.watch /\ Children(t) = Children(s)
        /\ w.session \in s.watch => w.session \in t.watch \/ w.session \in fired
        /\ w.session \in fired => w.session \in s.watch
    BY <1>7 DEF Noticed
  <2>2. /\ Silent(w, s) /\ Asks(w, s) /\ Knows(q, w, s)
        /\ \/ (Begins(w) \/ Climbs(w, s)) /\ w.session \notin s.watch
           \/ OnTop(w, s)
    BY <1>7 DEF Contends
  <2>3. \A kinds : /\ Has(v.in, kinds) => Has(w.in, kinds) \/ "child" \in kinds
                   /\ Has(w.in, kinds) => Has(v.in, kinds)
    BY <1>1, <1>3
  <2>4. Silent(v, t)
    <3>1. CASE w.all
      BY <3>1, <1>1 DEF Silent
    <3>2. CASE ~w.all
      <4>1. w.session \notin s.watch /\ v.in = w.in
        BY <3>2, <2>1, <2>2, <1>1 DEF Silent
      <4> QED
        BY <4>1, <3>2, <2>1, <2>2, <1>1 DEF Silent
    <3> QED
      BY <3>1, <3>2
  <2>5. Asks(v, t)
    <3>1. SUFFICES ASSUME w.all, w.session \notin t.watch
                   PROVE  w.out # <<>> \/ Has(v.in, {"session", "create", "child"})
      BY <1>1 DEF Asks
    <3>2. CASE w.session \in s.watch
      BY <3>1, <3>2, <2>1, <1>1, <1>3, <1>7
    <3>3. CASE w.session \notin s.watch
      BY <3>1, <3>3, <2>2, <2>3 DEF Asks
    <3> QED
      BY <3>2, <3>3
  <2>6. Knows(q, v, t)
    <3>1. SUFFICES ASSUME w.session \in t.watch PROVE Knows(q, v, t)
      BY <1>1 DEF Knows
    <3>2. Children(t) = Children(s) /\ (t.owner[q] = 0 <=> s.owner[q] = 0)
      <4>1. Children(t) = Children(s)
        BY <3>1, <2>1
      <4> QED
        BY <4>1 DEF Children
    <3>3. /\ Newest(w.in, Children(s))
          /\ ~Has(w.in, {"children"}) =>
                 IF s.owner[q] = 0 THEN Has(w.out, {"create"})
                 ELSE w.mode # "none" /\ (w.mode = "MASTER" <=> First(Children(s)) = q)
      BY <3>1, <2>1, <2>2 DEF Knows
    <3>4. Newest(v.in, Children(s))
      BY <3>3, <1>1, <1>4
    <3>5. Has(v.in, {"children"}) <=> Has(w.in, {"children"})
      BY <1>1, <1>3
    <3> QED
      BY <3>2, <3>3, <3>4, <3>5, <1>1 DEF Knows
  <2>7. CASE (Begins(w) \/ Climbs(w, s)) /\ w.session \notin s.watch
    <3>1. w.session \notin t.watch /\ v.in = w.in
      BY <2>7, <2>1, <1>1
    <3>2. Begins(v) \/ Climbs(v, t)
      BY <3>1, <2>7, <1>1, <1>5 DEF Begins, Climbs
    <3>3. v.handle = "connected" /\ v.session \notin t.watch
      BY <3>1, <1>1, <1>7
    <3>4. Contends(q, v, t)
      BY <3>2, <3>3, <2>4, <2>5, <2>6 DEF Contends
    <3> QED
      BY <3>4 DEF v
  <2>8. CASE OnTop(w, s)
    <3>1. ~Has(v.in, {"session"})
      BY <2>3, <2>8 DEF OnTop
    <3>2. OnTop(v, t)
      BY <3>1, <2>8, <1>1, <1>5 DEF OnTop
    <3>3. v.handle = "connected"
      BY <1>1, <1>7
    <3>4. Contends(q, v, t)
      BY <3>2, <3>3, <2>4, <2>5, <2>6 DEF Contends
    <3> QED
      BY <3>4 DEF v
  <2> QED
    BY <2>2, <2>7, <2>8
<1> QED
  BY <1>6, <1>7

\* Sessions that go on or end, and nodes that stay, go or are created by their owner.
LEMMA SessionsKept ==
    ASSUME NEW ws, NEW vs, NEW s \in Ensemble, NEW t \in Ensemble, Sessions(ws, s),
           \A q \in Process : vs[q].handle = "connected" =>
               /\ ws[q].handle = "connected" /\ vs[q].session = ws[q].session
               /\ vs[q].session \in t.live,
           t.live \subseteq s.live, t.last = s.last, t.watch \subseteq 1 .. t.last,
           \A q \in Process : t.owner[q] # 0 =>
               /\ t.owner[q] \in t.live
               /\ \/ t.owner[q] = s.owner[q]
                  \/ ws[q].handle = "connected" /\ t.owner[q] = ws[q].session
    PROVE  Sessions(vs, t)
<1>1. s.live \subseteq 1 .. s.last /\ s.last \in Nat
  BY DEF Sessions, Ensemble
<1>2. ASSUME NEW p \in Process, NEW q \in Process,
             vs[q].handle = "connected", t.owner[p] = vs[q].session
      PROVE  p = q
  <2>1. ws[q].handle = "connected" /\ t.owner[p] = ws[q].session /\ t.owner[p] \in t.live
    BY <1>2
  <2>2. t.owner[p] # 0
    BY <2>1, <1>1
  <2> QED
    BY <2>1, <2>2 DEF Sessions
<1>3. ASSUME NEW p \in Process, NEW q \in Process,
             vs[p].handle = "connected", vs[q].handle = "connected",
             vs[p].session = vs[q].session
      PROVE  p = q
  <2>1. /\ ws[p].handle = "connected" /\ ws[q].handle = "connected"
        /\ ws[p].session = ws[q].session
    BY <1>3
  <2> QED
    BY <2>1 DEF Sessions
<1>4. t.live \subseteq 1 .. t.last
  BY <1>1
<1>5. \A p \in Process : t.owner[p] # 0 => t.owner[p] \in t.live
  OBVIOUS
<1>6. \A p \in Process : vs[p].handle = "connected" => vs[p].session \in t.live
  OBVIOUS
<1> QED
  BY <1>2, <1>3, <1>4, <1>5, <1>6 DEF Sessions

LEMMA ZeroNoSession ==
    ASSUME NEW ws, NEW s \in Ensemble, Sessions(ws, s)
    PROVE  0 \notin s.watch /\ 0 \notin s.live
<1>1. s.last \in Nat /\ s.watch \subseteq 1 .. s.last /\ s.live \subseteq 1 .. s.last
  BY DEF Sessions, Ensemble
<1> QED
  BY <1>1

\* A step of contender p, its new state before the watches of fired were triggered.
LEMMA ContenderStep ==
    ASSUME ZkInv, NEW p \in Process, NEW v \in Contender, NEW t \in Ensemble, NEW fired,
           wrapper' = Notify([wrapper EXCEPT ![p] = v], fired), server' = t,
           Sessions(wrapper', t), Contends(p, Told(v, fired), t), t.dirs >= server.dirs,
           \A q \in Process \ {p} : Noticed(wrapper[q], server, t, fired)
    PROVE  ZkInv'
<1> DEFINE vs == [wrapper EXCEPT ![p] = v]
<1>1. wrapper \in [Process -> Contender] /\ server \in Ensemble
      /\ \A q \in Process : Contends(q, wrapper[q], server)
  BY DEF ZkInv
<1>2. vs \in [Process -> Contender] /\ vs[p] = v /\ \A q \in Process \ {p} : vs[q] = wrapper[q]
  BY <1>1
<1>3. wrapper' = [q \in Process |-> Told(vs[q], fired)]
  BY NotifyIs
<1> HIDE DEF vs
<1>4. wrapper' \in [Process -> Contender]
  <2>1. \A q \in Process : Told(vs[q], fired) \in Contender
    BY <1>2, ToldIs
  <2> QED
    BY <2>1, <1>3
<1>5. 0 \notin t.watch
  BY ZeroNoSession
<1>6. ASSUME NEW q \in Process PROVE Contends(q, wrapper'[q], t)
  <2>1. CASE q = p
    BY <2>1, <1>2, <1>3
  <2>2. CASE q # p
    <3>1. wrapper'[q] = Told(wrapper[q], fired)
      BY <2>2, <1>2, <1>3
    <3>2. /\ wrapper[q] \in Contender /\ Contends(q, wrapper[q], server)
          /\ Noticed(wrapper[q], server, t, fired)
      BY <1>1, <2>2
    <3> QED
      BY <3>1, <3>2, <1>1, <1>5, Notified
  <2> QED
    BY <2>1, <2>2
<1> QED
  BY <1>4, <1>6 DEF ZkInv

\* A step of which the server knows nothing.
LEMMA OwnStep ==
    ASSUME ZkInv, NEW p \in Process, NEW v \in Contender,
           wrapper' = [wrapper EXCEPT ![p] = v], UNCHANGED server,
           v.handle = "connected" =>
               wrapper[p].handle = "connected" /\ v.session = wrapper[p].session,
           Contends(p, v, server)
    PROVE  ZkInv'
<1>1. wrapper \in [Process -> Contender] /\ server \in Ensemble /\ Sessions(wrapper, server)
      /\ \A q \in Process : Contends(q, wrapper[q], server)
  BY DEF ZkInv
<1>2. /\ wrapper' \in [Process -> Contender] /\ wrapper'[p] = v
      /\ \A q \in Process \ {p} : wrapper'[q] = wrapper[q]
  BY <1>1
<1>3. Sessions(wrapper', server)
  <2>1. \A q \in Process : wrapper'[q].handle = "connected" =>
            /\ wrapper[q].handle = "connected" /\ wrapper'[q].session = wrapper[q].session
            /\ wrapper'[q].session \in server.live
    BY <1>1, <1>2 DEF Sessions
  <2>2. /\ server.watch \subseteq 1 .. server.last
        /\ \A q \in Process : server.owner[q] # 0 => server.owner[q] \in server.live
    BY <1>1 DEF Sessions
  <2> QED
    BY <1>1, <2>1, <2>2, SessionsKept
<1> QED
  BY <1>1, <1>2, <1>3 DEF ZkInv

LEMMA UnconnectedContends ==
    ASSUME NEW p \in Process, NEW v \in Contender, NEW s \in Ensemble, 0 \notin s.watch,
           v.handle # "connected", v.session = 0, v.out = <<>>, v.in = <<>>,
           v.all \/ v.mode = "none"
    PROVE  Contends(p, v, s)
<1>1. Silent(v, s)
  BY HasNone DEF Silent
<1> QED
  BY <1>1 DEF Contends

LEMMA OffContends ==
    ASSUME NEW s \in Ensemble, 0 \notin s.watch
    PROVE  /\ Off \in Contender /\ Off.handle = "null"
           /\ \A p \in Process : Contends(p, Off, s)
<1>1. Off \in Contender
  <2>1. 0 \in 0 .. Levels
    BY ZkAssumption
  <2> QED
    BY <2>1 DEF Off, Contender
<1>2. /\ Off.handle = "null" /\ Off.session = 0 /\ Off.out = <<>> /\ Off.in = <<>>
      /\ Off.mode = "none"
  BY DEF Off
<1> QED
  BY <1>1, <1>2, UnconnectedContends

LEMMA ClosedIs ==
    ASSUME NEW w \in Contender
    PROVE  /\ Closed(w) \in Contender /\ Closed(w).handle = "null" /\ Closed(w).session = 0
           /\ Closed(w).out = <<>> /\ Closed(w).in = <<>>
           /\ Closed(w).all = w.all /\ Closed(w).mode = w.mode
<1>1. <<>> \in Seq(Msg) /\ <<>> \in Seq(Request)
  BY EmptySeq
<1> QED
  BY <1>1 DEF Closed, Contender

LEMMA CrashStep == ASSUME ZkInv, NEW p \in Process, wrapper' = [wrapper EXCEPT ![p] = Off],
                          UNCHANGED server
                   PROVE  ZkInv'
<1>1. server \in Ensemble /\ Sessions(wrapper, server)
  BY DEF ZkInv
<1>2. Off \in Contender /\ Off.handle # "connected" /\ Contends(p, Off, server)
  BY <1>1, ZeroNoSession, OffContends
<1> HIDE DEF Off
<1> QED
  BY <1>2, OwnStep

LEMMA StartWatchStep == ASSUME ZkInv, NEW p \in Process, StartWatch(p) PROVE ZkInv'
<1>1. server \in Ensemble /\ Sessions(wrapper, server) /\ 0 \notin server.watch
  BY ZeroNoSession DEF ZkInv
<1> DEFINE w == [Off EXCEPT !.running = TRUE, !.signals = TRUE]
<1>2. PICK v \in {w, PollZKInterest(w)} : wrapper' = [wrapper EXCEPT ![p] = v]
  BY DEF StartWatch
<1>3. Off \in Contender
  BY <1>1, OffContends
<1>4. /\ w \in Contender /\ w.handle = "null" /\ w.session = 0 /\ w.out = <<>> /\ w.in = <<>>
      /\ w.mode = "none"
  BY <1>3 DEF Off, Contender
<1> HIDE DEF w
<1>5. /\ v \in Contender /\ v.handle # "connected" /\ v.session = 0 /\ v.out = <<>>
      /\ v.in = <<>> /\ v.mode = "none"
  BY <1>2, <1>4 DEF PollZKInterest, Contender
<1>6. Contends(p, v, server)
  BY <1>1, <1>5, UnconnectedContends
<1> QED
  BY <1>2, <1>5, <1>6, OwnStep DEF StartWatch

LEMMA PollStepZk ==
    ASSUME ZkInv, NEW p \in Process, wrapper[p].handle = "null",
           wrapper' = [wrapper EXCEPT ![p] = PollZKInterest(@)], UNCHANGED server
    PROVE  ZkInv'
<1>1. server \in Ensemble /\ Sessions(wrapper, server) /\ 0 \notin server.watch
      /\ wrapper \in [Process -> Contender] /\ Contends(p, wrapper[p], server)
  BY ZeroNoSession DEF ZkInv
<1> DEFINE v == PollZKInterest(wrapper[p])
<1>2. wrapper' = [wrapper EXCEPT ![p] = v]
  BY <1>1
<1>3. wrapper[p] \in Contender
  BY <1>1
<1>4. /\ v \in Contender /\ v.handle = "connecting" /\ v.session = wrapper[p].session
      /\ v.out = wrapper[p].out /\ v.in = wrapper[p].in
      /\ v.all = wrapper[p].all /\ v.mode = wrapper[p].mode
  BY <1>3 DEF PollZKInterest, Contender
<1> HIDE DEF v
<1>5. /\ wrapper[p].session = 0 /\ wrapper[p].out = <<>> /\ wrapper[p].in = <<>>
      /\ (wrapper[p].all \/ wrapper[p].mode = "none")
  BY <1>1 DEF Contends, Silent
<1>6. Contends(p, v, server)
  BY <1>1, <1>4, <1>5, UnconnectedContends
<1> QED
  BY <1>2, <1>4, <1>6, OwnStep

LEMMA ConnectionLostStep == ASSUME ZkInv, NEW p \in Process, ConnectionLost(p) PROVE ZkInv'
<1>1. server \in Ensemble /\ Sessions(wrapper, server) /\ 0 \notin server.watch
      /\ wrapper \in [Process -> Contender] /\ Contends(p, wrapper[p], server)
  BY ZeroNoSession DEF ZkInv
<1> DEFINE v == Closed(wrapper[p])
<1>2. wrapper' = [wrapper EXCEPT ![p] = v] /\ UNCHANGED server
  BY <1>1 DEF ConnectionLost
<1>3. /\ v \in Contender /\ v.handle = "null" /\ v.session = 0 /\ v.out = <<>> /\ v.in = <<>>
      /\ v.all = wrapper[p].all /\ v.mode = wrapper[p].mode
  BY <1>1, ClosedIs
<1> HIDE DEF v
<1>4. wrapper[p].all \/ wrapper[p].mode = "none"
  BY <1>1 DEF Contends, Silent
<1>5. Contends(p, v, server)
  BY <1>1, <1>3, <1>4, UnconnectedContends
<1> QED
  BY <1>2, <1>3, <1>5, OwnStep

LEMMA EndSessionsIs ==
    ASSUME server \in Ensemble, Sessions(wrapper, server), NEW S
    PROVE  LET end == EndSessions(S)
           IN  /\ end.s \in Ensemble /\ end.s.dirs = server.dirs
               /\ end.s.live = server.live \ S /\ end.s.last = server.last
               /\ end.s.watch \subseteq server.watch
               /\ \A q \in Process : end.s.owner[q] # 0 =>
                      end.s.owner[q] = server.owner[q] /\ end.s.owner[q] \in end.s.live
               /\ \A w : w.session \notin S => Noticed(w, server, end.s, end.fired)
<1> DEFINE gone == {p \in Process : server.owner[p] \in S}
           fired == IF gone = {} THEN {} ELSE server.watch
           t == EndSessions(S).s
<1>1. t = [server EXCEPT !.live = @ \ S, !.watch = (@ \ S) \ fired,
                         !.owner = [p \in Process |-> IF p \in gone THEN 0 ELSE @[p]]]
      /\ EndSessions(S).fired = fired \ S
  BY DEF EndSessions
<1>2. server.owner \in [Process -> Nat] /\ server.live \in SUBSET Nat /\ server.watch \in SUBSET Nat
  BY DEF Ensemble
<1> DEFINE owner == [p \in Process |-> IF p \in gone THEN 0 ELSE server.owner[p]]
           watch == (server.watch \ S) \ fired
<1>3. owner \in [Process -> Nat] /\ watch \in SUBSET Nat /\ server.live \ S \in SUBSET Nat
  BY <1>2
<1>4. t = [server EXCEPT !.live = @ \ S, !.watch = watch, !.owner = owner]
  BY <1>1 DEF Ensemble
<1> HIDE DEF owner, watch, t
<1>5. /\ t \in Ensemble /\ t.dirs = server.dirs /\ t.last = server.last
      /\ t.live = server.live \ S /\ t.watch = watch /\ t.owner = owner
  BY <1>3, <1>4 DEF Ensemble
<1>6. ASSUME NEW q \in Process, t.owner[q] # 0
      PROVE  t.owner[q] = server.owner[q] /\ t.owner[q] \in t.live
  <2>1. q \notin gone /\ t.owner[q] = server.owner[q]
    BY <1>5, <1>6 DEF owner
  <2>2. server.owner[q] \in server.live
    BY <1>6, <2>1 DEF Sessions
  <2> QED
    BY <2>1, <2>2, <1>5
<1>7. ASSUME NEW w, w.session \notin S PROVE Noticed(w, server, t, fired \ S)
  <2>1. CASE gone = {}
    <3>1. owner = server.owner /\ watch = server.watch \ S /\ fired = {}
      BY <2>1, <1>2 DEF owner, watch
    <3>2. Children(t) = Children(server)
      BY <3>1, <1>5 DEF Children
    <3> QED
      BY <3>1, <3>2, <1>5, <1>7 DEF Noticed
  <2>2. CASE gone # {}
    <3>1. watch = {} /\ fired = server.watch
      BY <2>2 DEF watch
    <3> QED
      BY <3>1, <1>5, <1>7 DEF Noticed
  <2> QED
    BY <2>1, <2>2
<1>8. t.watch \subseteq server.watch
  BY <1>5 DEF watch
<1>9. EndSessions(S).s = t
  BY DEF t
<1> DEFINE end == EndSessions(S)
<1>10. end.s = t /\ end.fired = fired \ S
  BY <1>1, <1>9
<1>11. /\ end.s \in Ensemble /\ end.s.dirs = server.dirs
       /\ end.s.live = server.live \ S /\ end.s.last = server.last
       /\ end.s.watch \subseteq server.watch
  BY <1>5, <1>8, <1>10
<1>12. \A q \in Process : end.s.owner[q] # 0 =>
           end.s.owner[q] = server.owner[q] /\ end.s.owner[q] \in end.s.live
  BY <1>6, <1>10
<1>13. \A w : w.session \notin S => Noticed(w, server, end.s, end.fired)
  BY <1>7, <1>10
<1> QED
  BY <1>11, <1>12, <1>13

LEMMA DoStopStep ==
    ASSUME ZkInv, NEW p \in Process, NEW w \in Contender, DoStop(p, w),
           w.handle = wrapper[p].handle, w.session = wrapper[p].session,
           w.all = wrapper[p].all, w.mode = wrapper[p].mode
    PROVE  ZkInv'
<1>1. server \in Ensemble /\ Sessions(wrapper, server) /\ 0 \notin server.watch
      /\ wrapper \in [Process -> Contender] /\ Contends(p, wrapper[p], server)
      /\ 0 \notin server.live
  BY ZeroNoSession DEF ZkInv
<1> DEFINE S == {w.session} \ {0}
           t == EndSessions(S).s
           fired == EndSessions(S).fired
           v == Closed(w)
<1>2. server' = t /\ wrapper' = Notify([wrapper EXCEPT ![p] = v], fired)
  BY DEF DoStop
<1>3. /\ t \in Ensemble /\ t.dirs = server.dirs /\ t.live = server.live \ S
      /\ t.last = server.last /\ t.watch \subseteq server.watch
      /\ \A q \in Process : t.owner[q] # 0 => t.owner[q] = server.owner[q] /\ t.owner[q] \in t.live
      /\ \A u : u.session \notin S => Noticed(u, server, t, fired)
  BY <1>1, EndSessionsIs
<1>4. /\ v \in Contender /\ v.handle = "null" /\ v.session = 0 /\ v.out = <<>> /\ v.in = <<>>
      /\ v.all = w.all /\ v.mode = w.mode
  BY ClosedIs
<1> HIDE DEF v, t, fired
<1>5. w.all \/ w.mode = "none"
  BY <1>1 DEF Contends, Silent
<1>6. Contends(p, v, t)
  BY <1>1, <1>3, <1>4, <1>5, UnconnectedContends
<1>7. Told(v, fired) = v
  BY <1>4 DEF Told
<1>8. ASSUME NEW q \in Process \ {p}, wrapper[q].handle = "connected"
      PROVE  wrapper[q].session \notin S /\ wrapper[q].session \in server.live
  <2>1. wrapper[q].session \in server.live
    BY <1>1, <1>8 DEF Sessions
  <2>2. CASE wrapper[p].handle = "connected"
    BY <2>1, <2>2, <1>1, <1>8 DEF Sessions
  <2>3. CASE wrapper[p].handle # "connected"
    BY <2>1, <2>3, <1>1 DEF Contends
  <2> QED
    BY <2>1, <2>2, <2>3
<1>9. \A q \in Process \ {p} : Noticed(wrapper[q], server, t, fired)
  <2>1. ASSUME NEW q \in Process \ {p} PROVE Noticed(wrapper[q], server, t, fired)
    BY <1>3, <1>8 DEF Noticed
  <2> QED
    BY <2>1
<1>10. \A q \in Process : wrapper'[q] = Told([wrapper EXCEPT ![p] = v][q], fired)
  BY <1>2, NotifyIs
<1>11. \A q \in Process : wrapper'[q].handle = "connected" =>
           /\ wrapper[q].handle = "connected" /\ wrapper'[q].session = wrapper[q].session
           /\ wrapper'[q].session \in t.live
  <2>1. SUFFICES ASSUME NEW q \in Process, wrapper'[q].handle = "connected"
                 PROVE  /\ wrapper[q].handle = "connected"
                        /\ wrapper'[q].session = wrapper[q].session
                        /\ wrapper'[q].session \in t.live
    OBVIOUS
  <2>2. q # p
    BY <2>1, <1>1, <1>10, <1>7, <1>4
  <2>3. wrapper'[q] = Told(wrapper[q], fired) /\ wrapper[q] \in Contender
    BY <2>2, <1>1, <1>10
  <2>4. wrapper[q].handle = "connected" /\ wrapper'[q].session = wrapper[q].session
    BY <2>1, <2>3, ToldIs
  <2> QED
    BY <2>2, <2>4, <1>3, <1>8
<1>12. t.watch \subseteq 1 .. t.last
  BY <1>1, <1>3 DEF Sessions
<1>13. Sessions(wrapper', t)
  <2>1. /\ t.live \subseteq server.live /\ t.last = server.last /\ t \in Ensemble
        /\ server \in Ensemble
        /\ \A q \in Process : t.owner[q] # 0 =>
              /\ t.owner[q] \in t.live
              /\ \/ t.owner[q] = server.owner[q]
                 \/ wrapper[q].handle = "connected" /\ t.owner[q] = wrapper[q].session
    BY <1>1, <1>3
  <2> QED
    BY <2>1, <1>1, <1>11, <1>12, SessionsKept
<1>14. t.dirs >= server.dirs
  BY <1>3 DEF Ensemble
<1>15. /\ t \in Ensemble /\ v \in Contender /\ Contends(p, Told(v, fired), t)
       /\ Sessions(wrapper', t)
  BY <1>3, <1>4, <1>6, <1>7, <1>13
<1> HIDE DEF S
<1> QED
  BY <1>2, <1>9, <1>14, <1>15, ContenderStep

LEMMA ExpireStep == ASSUME ZkInv, NEW id \in 1 .. MaxSessions, Expire(id) PROVE ZkInv'
<1>1. server \in Ensemble /\ Sessions(wrapper, server) /\ 0 \notin server.watch
      /\ wrapper \in [Process -> Contender]
      /\ \A q \in Process : Contends(q, wrapper[q], server)
  BY ZeroNoSession DEF ZkInv
<1> DEFINE t == EndSessions({id}).s
           fired == EndSessions({id}).fired
<1>2. server' = t /\ wrapper' = Notify(wrapper, fired)
  BY DEF Expire
<1>3. /\ t \in Ensemble /\ t.dirs = server.dirs /\ t.live = server.live \ {id}
      /\ t.last = server.last /\ t.watch \subseteq server.watch
      /\ \A q \in Process : t.owner[q] # 0 => t.owner[q] = server.owner[q] /\ t.owner[q] \in t.live
      /\ \A u : u.session \notin {id} => Noticed(u, server, t, fired)
  BY <1>1, EndSessionsIs
<1> HIDE DEF t, fired
<1>4. \A q \in Process : wrapper[q].handle = "connected" =>
          wrapper[q].session # id /\ wrapper[q].session \in server.live
  BY <1>1 DEF Expire, Sessions
<1>5. \A q \in Process : wrapper'[q] = Told(wrapper[q], fired)
  BY <1>2, NotifyIs
<1>6. wrapper' \in [Process -> Contender]
  <2>1. wrapper' = [q \in Process |-> Told(wrapper[q], fired)]
    BY <1>2, NotifyIs
  <2>2. \A q \in Process : Told(wrapper[q], fired) \in Contender
    BY <1>1, ToldIs
  <2> QED
    BY <2>1, <2>2
<1>7. t.dirs >= server.dirs /\ 0 \notin t.watch
  BY <1>1, <1>3 DEF Ensemble
<1>8. ASSUME NEW q \in Process PROVE Contends(q, wrapper'[q], t)
  <2>1. Noticed(wrapper[q], server, t, fired)
    BY <1>3, <1>4 DEF Noticed
  <2>2. wrapper[q] \in Contender /\ Contends(q, wrapper[q], server)
    BY <1>1
  <2> QED
    BY <2>1, <2>2, <1>1, <1>3, <1>5, <1>7, Notified
<1>9. \A q \in Process : wrapper'[q].handle = "connected" =>
          /\ wrapper[q].handle = "connected" /\ wrapper'[q].session = wrapper[q].session
          /\ wrapper'[q].session \in t.live
  <2>1. \A q \in Process : wrapper'[q].handle = wrapper[q].handle
                           /\ wrapper'[q].session = wrapper[q].session
    BY <1>1, <1>5, ToldIs
  <2> QED
    BY <2>1, <1>3, <1>4
<1>10. t.watch \subseteq 1 .. t.last
  BY <1>1, <1>3 DEF Sessions
<1>11. Sessions(wrapper', t)
  <2>1. /\ t.live \subseteq server.live /\ t.last = server.last /\ t \in Ensemble
        /\ server \in Ensemble
        /\ \A q \in Process : t.owner[q] # 0 =>
              /\ t.owner[q] \in t.live
              /\ \/ t.owner[q] = server.owner[q]
                 \/ wrapper[q].handle = "connected" /\ t.owner[q] = wrapper[q].session
    BY <1>1, <1>3
  <2> QED
    BY <2>1, <1>1, <1>9, <1>10, SessionsKept
<1> QED
  BY <1>2, <1>3, <1>6, <1>8, <1>11 DEF ZkInv

LEMMA NotifyNone ==
    /\ \A w : Told(w, {}) = w
    /\ \A ws \in [Process -> Contender] : Notify(ws, {}) = ws
<1>1. \A w : Told(w, {}) = w
  BY DEF Told
<1>2. ASSUME NEW ws \in [Process -> Contender] PROVE Notify(ws, {}) = ws
  <2>1. Notify(ws, {}) = [p \in Process |-> ws[p]]
    BY <1>1, NotifyIs
  <2> QED
    BY <2>1
<1> QED
  BY <1>1, <1>2

LEMMA TopTail ==
    ASSUME NEW q \in Seq(Request), q # <<>>, TopOnly(q)
    PROVE  TopOnly(Tail(q)) /\ (Head(q).kind = "create" => Head(q).level = Levels)
<1>1. PICK n \in Nat : n = Len(q) /\ n # 0
  BY LenProperties, EmptySeq
<1>2. /\ Tail(q) \in Seq(Request) /\ Len(Tail(q)) = n - 1 /\ Head(q) = q[1]
      /\ \A i \in 1 .. Len(Tail(q)) : Tail(q)[i] = q[i + 1]
  BY <1>1, HeadTailProperties
<1>3. DOMAIN q = 1 .. n /\ DOMAIN Tail(q) = 1 .. n - 1
  BY <1>1, <1>2, LenProperties
<1>4. \A i \in 1 .. n - 1 : i + 1 \in 1 .. n
  BY <1>1
<1> HIDE DEF Request
<1> QED
  BY <1>1, <1>2, <1>3, <1>4 DEF TopOnly

LEMMA TopAppend ==
    ASSUME NEW q \in Seq(Request), NEW r \in Request, TopOnly(q),
           r.kind = "create" => r.level = Levels
    PROVE  TopOnly(Append(q, r))
<1>1. PICK n \in Nat : n = Len(q)
  BY LenProperties
<1>2. /\ Append(q, r) \in Seq(Request) /\ Len(Append(q, r)) = n + 1 /\ Append(q, r)[n + 1] = r
      /\ \A i \in 1 .. n : Append(q, r)[i] = q[i]
  BY <1>1, AppendProperties
<1>3. DOMAIN q = 1 .. n /\ DOMAIN Append(q, r) = 1 .. n + 1
  BY <1>1, <1>2, LenProperties
<1> QED
  BY <1>2, <1>3 DEF TopOnly

LEMMA ConnectedStep == ASSUME ZkInv, NEW p \in Process, Connected(p) PROVE ZkInv'
<1>1. server \in Ensemble /\ Sessions(wrapper, server) /\ wrapper \in [Process -> Contender]
      /\ Contends(p, wrapper[p], server)
  BY DEF ZkInv
<1> DEFINE id == server.last + 1
           w == wrapper[p]
           v == [w EXCEPT !.handle = "connected", !.session = id, !.in = Append(@, SessionMsg)]
           t == [server EXCEPT !.last = id, !.live = @ \cup {id}]
<1>2. wrapper' = [wrapper EXCEPT ![p] = v] /\ server' = t
  BY <1>1 DEF Connected, SessionMsg
<1>3. id \in Nat /\ id \notin server.live /\ id \notin server.watch
      /\ 1 .. server.last \subseteq 1 .. id /\ id \in 1 .. id
  BY <1>1 DEF Sessions, Ensemble
<1>4. server.live \cup {id} \in SUBSET Nat
  BY <1>1, <1>3 DEF Ensemble
<1>5. /\ w \in Contender /\ w.handle = "connecting" /\ w.session = 0 /\ w.out = <<>>
      /\ w.in = <<>> /\ (w.all \/ w.mode = "none")
  BY <1>1 DEF Connected, Contends, Silent
<1> HIDE DEF id, w
<1>6. /\ t \in Ensemble /\ t.last = id /\ t.live = server.live \cup {id}
      /\ t.watch = server.watch /\ t.owner = server.owner /\ t.dirs = server.dirs
  BY <1>1, <1>3, <1>4 DEF Ensemble
<1>7. <<SessionMsg>> \in Seq(Msg) /\ SessionMsg.kind = "session"
  BY MessageKinds
<1>8. v = [w EXCEPT !.handle = "connected", !.session = id, !.in = <<SessionMsg>>]
  BY <1>5 DEF Contender
<1> HIDE DEF t, v
<1>9. /\ v \in Contender /\ v.handle = "connected" /\ v.session = id /\ v.in = <<SessionMsg>>
      /\ v.out = <<>> /\ v.all = w.all /\ v.mode = w.mode
  BY <1>3, <1>5, <1>7, <1>8 DEF Contender
<1>10. Contends(p, v, t)
  <2>1. v.session \notin t.watch
    BY <1>3, <1>6, <1>9
  <2>2. /\ Has(v.in, {"session", "create", "child"}) /\ ~Has(v.in, {"children", "child"})
        /\ ~Has(v.out, {"children"})
    BY <1>7, <1>9, HasOne, HasNone
  <2>3. Begins(v) /\ Silent(v, t) /\ Asks(v, t) /\ Knows(p, v, t)
    BY <2>1, <2>2, <1>5, <1>9 DEF Begins, Silent, Asks, Knows
  <2> QED
    BY <2>1, <2>3, <1>9 DEF Contends
<1>11. wrapper' = Notify([wrapper EXCEPT ![p] = v], {}) /\ Told(v, {}) = v
  <2>1. [wrapper EXCEPT ![p] = v] \in [Process -> Contender]
    BY <1>1, <1>9
  <2> QED
    BY <2>1, <1>2, NotifyNone
<1>12. \A q \in Process \ {p} : Noticed(wrapper[q], server, t, {})
  <2>1. Children(t) = Children(server)
    BY <1>6 DEF Children
  <2> QED
    BY <2>1, <1>6 DEF Noticed
<1>13. Sessions(wrapper', t)
  <2>1. /\ server.live \subseteq 1 .. server.last /\ server.watch \subseteq 1 .. server.last
        /\ \A q \in Process : server.owner[q] # 0 => server.owner[q] \in server.live
        /\ \A q \in Process : wrapper[q].handle = "connected" => wrapper[q].session \in server.live
    BY <1>1 DEF Sessions
  <2>2. wrapper'[p] = v /\ \A q \in Process \ {p} : wrapper'[q] = wrapper[q]
    BY <1>1, <1>2
  <2>3. \A q \in Process : server.owner[q] # id
    BY <2>1, <1>3
  <2>4. \A q \in Process \ {p} : wrapper[q].handle = "connected" => wrapper[q].session # id
    BY <2>1, <1>3
  <2>5. /\ t.live \subseteq 1 .. t.last /\ t.watch \subseteq 1 .. t.last
        /\ \A q \in Process : t.owner[q] # 0 => t.owner[q] \in t.live
    BY <2>1, <1>3, <1>6
  <2>6. \A q \in Process : wrapper'[q].handle = "connected" => wrapper'[q].session \in t.live
    BY <2>1, <2>2, <1>6, <1>9
  <2>7. ASSUME NEW q \in Process, NEW r \in Process,
               wrapper'[q].handle = "connected", wrapper'[r].handle = "connected",
               wrapper'[q].session = wrapper'[r].session
        PROVE  q = r
    <3>1. CASE q = p \/ r = p
      BY <3>1, <2>2, <2>4, <2>7, <1>9
    <3>2. CASE q # p /\ r # p
      BY <3>2, <2>2, <2>7, <1>1 DEF Sessions
    <3> QED
      BY <3>1, <3>2
  <2>8. ASSUME NEW q \in Process, NEW r \in Process,
               wrapper'[r].handle = "connected", t.owner[q] = wrapper'[r].session
        PROVE  q = r
    <3>1. CASE r = p
      BY <3>1, <2>2, <2>3, <2>8, <1>6, <1>9
    <3>2. CASE r # p
      BY <3>2, <2>2, <2>8, <1>1, <1>6 DEF Sessions
    <3> QED
      BY <3>1, <3>2
  <2> QED
    BY <2>5, <2>6, <2>7, <2>8 DEF Sessions
<1>14. t.dirs >= server.dirs
  BY <1>1, <1>6 DEF Ensemble
<1>15. /\ t \in Ensemble /\ v \in Contender /\ Contends(p, Told(v, {}), t) /\ server' = t
       /\ wrapper' = Notify([wrapper EXCEPT ![p] = v], {})
  BY <1>2, <1>6, <1>9, <1>10, <1>11
<1> QED
  BY <1>12, <1>13, <1>14, <1>15, ContenderStep

\* The contender p after the server took its first request and answered m.
AnsweredBy(w, m) == [w EXCEPT !.out = Tail(@), !.in = Append(@, m)]

LEMMA AnsweredIs ==
    ASSUME NEW w \in Contender, NEW m \in Msg, w.out # <<>>
    PROVE  /\ AnsweredBy(w, m) \in Contender
           /\ \A f \in {"running", "handle", "session", "created", "all", "mode", "timer",
                        "signals"} : AnsweredBy(w, m)[f] = w[f]
           /\ AnsweredBy(w, m).out = Tail(w.out) /\ AnsweredBy(w, m).in = Append(w.in, m)
           /\ \A kinds : /\ Has(Append(w.in, m), kinds) <=> Has(w.in, kinds) \/ m.kind \in kinds
                         /\ Has(Tail(w.out), kinds) => Has(w.out, kinds)
<1>1. w.in \in Seq(Msg) /\ w.out \in Seq(Request)
  BY DEF Contender
<1>2. Append(w.in, m) \in Seq(Msg) /\ Tail(w.out) \in Seq(Request)
  BY <1>1, AppendProperties, HeadTailProperties
<1>3. \A kinds : /\ Has(Append(w.in, m), kinds) <=> Has(w.in, kinds) \/ m.kind \in kinds
                 /\ Has(Tail(w.out), kinds) => Has(w.out, kinds)
  BY <1>1, HasAppend, HasTail
<1> HIDE DEF Msg
<1> QED
  BY <1>2, <1>3 DEF AnsweredBy, Contender

\* An answer that changes no node and no watch but perhaps the path.
LEMMA AnswerQuietly ==
    ASSUME ZkInv, NEW p \in Process, wrapper[p].out # <<>>, wrapper[p].handle = "connected",
           NEW m \in Msg, NEW t \in Ensemble,
           wrapper' = [wrapper EXCEPT ![p] = AnsweredBy(wrapper[p], m)], server' = t,
           t.live = server.live, t.last = server.last, t.owner = server.owner,
           t.dirs >= server.dirs,
           \/ t.watch = server.watch
           \/ t.watch = server.watch \cup {wrapper[p].session},
           Contends(p, AnsweredBy(wrapper[p], m), t)
    PROVE  ZkInv'
<1>1. server \in Ensemble /\ Sessions(wrapper, server) /\ wrapper \in [Process -> Contender]
  BY DEF ZkInv
<1> DEFINE v == AnsweredBy(wrapper[p], m)
<1>2. v \in Contender /\ v.handle = wrapper[p].handle /\ v.session = wrapper[p].session
  BY <1>1, AnsweredIs
<1> HIDE DEF v
<1>3. [wrapper EXCEPT ![p] = v] \in [Process -> Contender] /\ wrapper' = [wrapper EXCEPT ![p] = v]
  BY <1>1, <1>2 DEF v
<1>4. wrapper' = Notify([wrapper EXCEPT ![p] = v], {}) /\ Told(v, {}) = v
  BY <1>3, NotifyNone
<1>5. /\ wrapper[p].session \in server.live /\ server.live \subseteq 1 .. server.last
      /\ server.watch \subseteq 1 .. server.last
      /\ \A q \in Process : wrapper[q].handle = "connected" => wrapper[q].session \in server.live
      /\ \A q \in Process : server.owner[q] # 0 => server.owner[q] \in server.live
  BY <1>1 DEF Sessions
<1>6. ASSUME NEW q \in Process \ {p} PROVE Noticed(wrapper[q], server, t, {})
  <2>1. Children(t) = Children(server)
    BY DEF Children
  <2>2. SUFFICES ASSUME wrapper[q].handle = "connected"
                 PROVE  Noticed(wrapper[q], server, t, {})
    BY DEF Noticed
  <2>3. wrapper[q].session # wrapper[p].session
    BY <2>2, <1>1 DEF Sessions
  <2> QED
    BY <2>1, <2>3 DEF Noticed
<1>7. Sessions(wrapper', t)
  <2>1. \A q \in Process : wrapper'[q].handle = "connected" =>
            /\ wrapper[q].handle = "connected" /\ wrapper'[q].session = wrapper[q].session
            /\ wrapper'[q].session \in t.live
    BY <1>1, <1>2, <1>3, <1>5
  <2>2. t.live \subseteq server.live /\ t.last = server.last /\ t.watch \subseteq 1 .. t.last
    BY <1>5
  <2>3. \A q \in Process : t.owner[q] # 0 =>
            /\ t.owner[q] \in t.live
            /\ \/ t.owner[q] = server.owner[q]
               \/ wrapper[q].handle = "connected" /\ t.owner[q] = wrapper[q].session
    BY <1>5
  <2>4. server \in Ensemble /\ t \in Ensemble /\ Sessions(wrapper, server)
    BY <1>1
  <2>5. PICK vs : vs = wrapper'
    OBVIOUS
  <2>6. \A q \in Process : vs[q].handle = "connected" =>
            /\ wrapper[q].handle = "connected" /\ vs[q].session = wrapper[q].session
            /\ vs[q].session \in t.live
    BY <2>1, <2>5
  <2>7. PICK ws : ws = wrapper
    OBVIOUS
  <2>8. /\ Sessions(ws, server)
        /\ \A q \in Process : vs[q].handle = "connected" =>
               /\ ws[q].handle = "connected" /\ vs[q].session = ws[q].session
               /\ vs[q].session \in t.live
        /\ \A q \in Process : t.owner[q] # 0 =>
               /\ t.owner[q] \in t.live
               /\ \/ t.owner[q] = server.owner[q]
                  \/ ws[q].handle = "connected" /\ t.owner[q] = ws[q].session
    BY <2>3, <2>4, <2>6, <2>7
  <2>9. Sessions(vs, t)
    BY <2>2, <2>4, <2>8, SessionsKept
  <2> QED
    BY <2>5, <2>9
<1>8. v \in Contender /\ Contends(p, Told(v, {}), t)
  BY <1>2, <1>4 DEF v
<1> QED
  BY <1>4, <1>6, <1>7, <1>8, ContenderStep

LEMMA AnswerChildren ==
    ASSUME ZkInv, NEW p \in Process, wrapper[p].out # <<>>, wrapper[p].handle = "connected",
           Head(wrapper[p].out).kind = "children",
           wrapper' = [wrapper EXCEPT ![p] = AnsweredBy(@, ChildrenMsg(Children(server)))],
           server' = [server EXCEPT !.watch = @ \cup {wrapper[p].session}]
    PROVE  ZkInv'
<1>1. server \in Ensemble /\ Sessions(wrapper, server) /\ wrapper \in [Process -> Contender]
      /\ Contends(p, wrapper[p], server)
  BY DEF ZkInv
<1> DEFINE w == wrapper[p]
           m == ChildrenMsg(Children(server))
           v == AnsweredBy(w, m)
           t == [server EXCEPT !.watch = @ \cup {w.session}]
<1>2. w \in Contender /\ w.out \in Seq(Request) /\ w.in \in Seq(Msg) /\ w.out # <<>>
      /\ w.handle = "connected" /\ w.session \in Nat
  BY <1>1 DEF Contender
<1>3. m \in Msg /\ m.kind = "children" /\ m.list = Children(server)
  <2>1. Children(server) \in SUBSET Process
    BY DEF Children
  <2> QED
    BY <2>1, MessageKinds
<1>4. /\ v \in Contender /\ v.handle = "connected" /\ v.session = w.session
      /\ v.created = w.created /\ v.all = w.all
      /\ v.mode = w.mode /\ v.out = Tail(w.out) /\ v.in = Append(w.in, m)
      /\ \A kinds : /\ Has(v.in, kinds) <=> Has(w.in, kinds) \/ "children" \in kinds
                    /\ Has(v.out, kinds) => Has(w.out, kinds)
  <2> HIDE DEF m, w
  <2>1. /\ v \in Contender
        /\ \A f \in {"running", "handle", "session", "created", "all", "mode", "timer",
                     "signals"} : v[f] = w[f]
        /\ v.out = Tail(w.out) /\ v.in = Append(w.in, m)
        /\ \A kinds : /\ Has(Append(w.in, m), kinds) <=> Has(w.in, kinds) \/ m.kind \in kinds
                      /\ Has(Tail(w.out), kinds) => Has(w.out, kinds)
    BY <1>2, <1>3, AnsweredIs
  <2> QED
    BY <2>1, <1>2, <1>3
<1>5. wrapper' = [wrapper EXCEPT ![p] = v] /\ server' = t
  BY <1>1
<1> HIDE DEF m, v
<1>6. /\ t \in Ensemble /\ t.watch = server.watch \cup {w.session}
      /\ t.live = server.live /\ t.last = server.last /\ t.owner = server.owner
      /\ t.dirs = server.dirs
  BY <1>1, <1>2 DEF Ensemble
<1>a. t.dirs >= server.dirs /\ Children(t) = Children(server)
  BY <1>1, <1>6 DEF Ensemble, Children
<1> HIDE DEF t
<1>7. Has(w.out, {"children"})
  BY <1>2, HasTail
<1>8. w.all /\ OnTop(w, server)
  <2>1. w.all
    BY <1>1, <1>7 DEF Contends, Silent
  <2>2. ~Begins(w)
    BY <1>2 DEF Begins
  <2>3. ~Climbs(w, server)
    <3>1. SUFFICES ASSUME Climbs(w, server) PROVE FALSE
      OBVIOUS
    <3>2. w.out = <<CreateReq(w.created)>> /\ w.created \in 1 .. Levels - 1
      BY <3>1, <1>2 DEF Climbs
    <3>3. w.created \in 1 .. Levels
      BY <3>2, ZkAssumption
    <3>4. CreateReq(w.created).kind = "create" /\ Head(w.out) = CreateReq(w.created)
      BY <3>2, <3>3, RequestKinds
    <3> QED
      BY <3>4
  <2> QED
    BY <2>1, <2>2, <2>3, <1>1, <1>2 DEF Contends
<1>9. OnTop(v, t)
  <2>1. TopOnly(v.out) /\ ~Has(v.in, {"session"})
    BY <1>2, <1>4, <1>8, TopTail DEF OnTop
  <2> QED
    BY <2>1, <1>4, <1>6, <1>8 DEF OnTop
<1>10. Silent(v, t) /\ Asks(v, t)
  BY <1>4, <1>6, <1>8 DEF Silent, Asks
<1>11. Knows(p, v, t)
  <2>1. Newest(v.in, Children(t))
    BY <1>2, <1>3, <1>4, <1>a, NewestAppend
  <2>2. Has(v.in, {"children"})
    BY <1>4
  <2> QED
    BY <2>1, <2>2 DEF Knows
<1>12. Contends(p, v, t)
  BY <1>4, <1>9, <1>10, <1>11 DEF Contends
<1> QED
  BY <1>1, <1>3, <1>5, <1>6, <1>12, <1>a, AnswerQuietly DEF v

\* A level on the way up, created by this contender or before.
LEMMA AnswerClimb ==
    ASSUME ZkInv, NEW p \in Process, wrapper[p].handle = "connected",
           Climbs(wrapper[p], server), wrapper[p].session \notin server.watch,
           wrapper[p].out # <<>>, NEW rc \in {"ZOK", "ZNODEEXISTS"},
           wrapper' = [wrapper EXCEPT ![p] = AnsweredBy(@, CreateMsg(rc))],
           \/ rc = "ZOK" /\ server' = [server EXCEPT !.dirs = wrapper[p].created]
           \/ rc = "ZNODEEXISTS" /\ server' = server /\ wrapper[p].created <= server.dirs,
           rc = "ZOK" => wrapper[p].created > server.dirs
    PROVE  ZkInv'
<1>1. server \in Ensemble /\ Sessions(wrapper, server) /\ wrapper \in [Process -> Contender]
      /\ Contends(p, wrapper[p], server)
  BY DEF ZkInv
<1> DEFINE w == wrapper[p]
           m == CreateMsg(rc)
           v == AnsweredBy(w, m)
<1>2. w \in Contender /\ w.out # <<>> /\ w.handle = "connected"
  BY <1>1
<1>3. m \in Msg /\ m.kind = "create"
  BY MessageKinds
<1> HIDE DEF m, w
<1>4. /\ v \in Contender
      /\ \A f \in {"running", "handle", "session", "created", "all", "mode", "timer",
                   "signals"} : v[f] = w[f]
      /\ v.out = Tail(w.out) /\ v.in = Append(w.in, m)
  BY <1>2, <1>3, AnsweredIs
<1>5. /\ w.created \in 1 .. Levels - 1 /\ w.in = <<>> /\ w.out = <<CreateReq(w.created)>>
      /\ w.created <= server.dirs + 1
  BY <1>2 DEF Climbs, w
<1>6. v.in = <<m>> /\ v.out = <<>> /\ v.handle = "connected" /\ v.session = w.session
      /\ v.created = w.created /\ v.all = w.all /\ v.mode = w.mode
  BY <1>2, <1>4, <1>5
<1>7. PICK t \in Ensemble :
          /\ server' = t /\ t.live = server.live /\ t.last = server.last
          /\ t.owner = server.owner /\ t.watch = server.watch
          /\ t.dirs >= server.dirs /\ w.created <= t.dirs
  <2>1. server.dirs \in 0 .. Levels - 1 /\ Levels \in Nat \ {0}
    BY <1>1, ZkAssumption DEF Ensemble
  <2>2. CASE rc = "ZOK"
    <3>1. server' = [server EXCEPT !.dirs = w.created] /\ w.created > server.dirs
      BY <2>2 DEF w
    <3>2. w.created \in 0 .. Levels - 1 /\ w.created >= server.dirs /\ w.created <= w.created
      BY <3>1, <1>5, <2>1
    <3> QED
      BY <3>1, <3>2, <1>1 DEF Ensemble
  <2>3. CASE rc = "ZNODEEXISTS"
    <3>1. server' = server /\ w.created <= server.dirs
      BY <2>3 DEF w
    <3> QED
      BY <3>1, <1>1, <2>1
  <2> QED
    BY <2>2, <2>3
<1> HIDE DEF v
<1>8. v.session \notin t.watch
  BY <1>6, <1>7 DEF w
<1>9. /\ Has(v.in, {"session", "create", "child"}) /\ ~Has(v.in, {"children", "child"})
      /\ ~Has(v.out, {"children"})
  BY <1>3, <1>6, HasOne, HasNone
<1>10. Silent(v, t) /\ Asks(v, t) /\ Knows(p, v, t)
  <2>1. w.all \/ w.mode = "none"
    BY <1>1 DEF Contends, Silent, w
  <2> QED
    BY <2>1, <1>6, <1>8, <1>9 DEF Silent, Asks, Knows
<1>11. Climbs(v, t)
  BY <1>5, <1>6, <1>7 DEF Climbs, m
<1>12. Contends(p, v, t)
  BY <1>6, <1>8, <1>10, <1>11 DEF Contends
<1>13. /\ wrapper' = [wrapper EXCEPT ![p] = AnsweredBy(wrapper[p], m)] /\ server' = t
       /\ Contends(p, AnsweredBy(wrapper[p], m), t) /\ wrapper[p].handle = "connected"
       /\ t.live = server.live /\ t.last = server.last /\ t.owner = server.owner
       /\ t.dirs >= server.dirs /\ t.watch = server.watch
  BY <1>1, <1>7, <1>12 DEF v, w, m
<1> QED
  BY <1>3, <1>13, AnswerQuietly

\* Its own node is there already: it or its old session created it.
LEMMA AnswerExists ==
    ASSUME ZkInv, NEW p \in Process, wrapper[p].handle = "connected",
           OnTop(wrapper[p], server), wrapper[p].out # <<>>, server.owner[p] # 0,
           wrapper' = [wrapper EXCEPT ![p] = AnsweredBy(@, CreateMsg("ZNODEEXISTS"))],
           server' = server
    PROVE  ZkInv'
<1>1. server \in Ensemble /\ Sessions(wrapper, server) /\ wrapper \in [Process -> Contender]
      /\ Contends(p, wrapper[p], server)
  BY DEF ZkInv
<1> DEFINE w == wrapper[p]
           m == CreateMsg("ZNODEEXISTS")
           v == AnsweredBy(w, m)
<1>2. w \in Contender /\ w.out # <<>> /\ w.handle = "connected" /\ w.in \in Seq(Msg)
      /\ w.out \in Seq(Request)
  BY <1>1 DEF Contender
<1>3. m \in Msg /\ m.kind = "create"
  BY MessageKinds
<1> HIDE DEF m
<1>4. /\ v \in Contender
      /\ \A f \in {"running", "handle", "session", "created", "all", "mode", "timer",
                   "signals"} : v[f] = w[f]
      /\ v.out = Tail(w.out) /\ v.in = Append(w.in, m)
      /\ \A kinds : /\ Has(Append(w.in, m), kinds) <=> Has(w.in, kinds) \/ m.kind \in kinds
                    /\ Has(Tail(w.out), kinds) => Has(w.out, kinds)
  <2> HIDE DEF w
  <2> QED
    BY <1>2, <1>3, AnsweredIs
<1> HIDE DEF v
<1>5. /\ v.handle = "connected" /\ v.session = w.session /\ v.created = w.created
      /\ v.all = w.all /\ v.mode = w.mode
      /\ \A kinds : /\ Has(v.in, kinds) <=> Has(w.in, kinds) \/ "create" \in kinds
                    /\ Has(v.out, kinds) => Has(w.out, kinds)
  BY <1>2, <1>3, <1>4
<1>6. OnTop(v, server)
  <2>1. TopOnly(v.out) /\ ~Has(v.in, {"session"})
    BY <1>2, <1>4, <1>5, TopTail DEF OnTop
  <2> QED
    BY <2>1, <1>5 DEF OnTop
<1>7. Silent(w, server) /\ Knows(p, w, server)
  BY <1>1, <1>2 DEF Contends
<1>8. Silent(v, server) /\ Asks(v, server)
  <2>1. Silent(v, server)
    BY <1>5, <1>7 DEF Silent
  <2>2. Asks(v, server)
    BY <1>5 DEF Asks
  <2> QED
    BY <2>1, <2>2
<1>9. Knows(p, v, server)
  <2>1. SUFFICES ASSUME w.session \in server.watch PROVE Knows(p, v, server)
    BY <1>5 DEF Knows
  <2>2. Newest(w.in, Children(server))
        /\ (~Has(w.in, {"children"}) =>
               w.mode # "none" /\ (w.mode = "MASTER" <=> First(Children(server)) = p))
    BY <2>1, <1>7 DEF Knows
  <2>3. Newest(v.in, Children(server))
    BY <2>2, <1>2, <1>3, <1>4, NewestAppend
  <2> QED
    BY <2>2, <2>3, <1>5 DEF Knows
<1>10. Contends(p, v, server)
  BY <1>5, <1>6, <1>8, <1>9 DEF Contends
<1>11. server.dirs >= server.dirs
  BY <1>1 DEF Ensemble
<1>12. /\ wrapper' = [wrapper EXCEPT ![p] = AnsweredBy(wrapper[p], m)]
       /\ Contends(p, AnsweredBy(wrapper[p], m), server)
  BY <1>1, <1>10 DEF v, m
<1> QED
  BY <1>1, <1>3, <1>11, <1>12, AnswerQuietly

\* Its own node is created, and the watches of all contenders fire.
LEMMA AnswerCreated ==
    ASSUME ZkInv, NEW p \in Process, wrapper[p].handle = "connected",
           OnTop(wrapper[p], server), wrapper[p].out # <<>>, server.owner[p] = 0,
           wrapper' = Notify([wrapper EXCEPT ![p] = AnsweredBy(@, CreateMsg("ZOK"))],
                             server.watch),
           server' = [server EXCEPT !.owner[p] = wrapper[p].session, !.watch = {}]
    PROVE  ZkInv'
<1>1. server \in Ensemble /\ Sessions(wrapper, server) /\ wrapper \in [Process -> Contender]
      /\ Contends(p, wrapper[p], server)
  BY DEF ZkInv
<1> DEFINE w == wrapper[p]
           m == CreateMsg("ZOK")
           v == AnsweredBy(w, m)
           fired == server.watch
           u == Told(v, fired)
           owner == [server.owner EXCEPT ![p] = w.session]
           t == [server EXCEPT !.owner = owner, !.watch = {}]
<1>2. w \in Contender /\ w.out # <<>> /\ w.handle = "connected" /\ w.in \in Seq(Msg)
      /\ w.out \in Seq(Request) /\ w.session \in Nat
  BY <1>1 DEF Contender
<1>3. m \in Msg /\ m.kind = "create"
  BY MessageKinds
<1>4. wrapper' = Notify([wrapper EXCEPT ![p] = v], fired) /\ server' = t
  BY <1>1
<1> HIDE DEF m
<1>5. /\ v \in Contender
      /\ \A f \in {"running", "handle", "session", "created", "all", "mode", "timer",
                   "signals"} : v[f] = w[f]
      /\ v.out = Tail(w.out) /\ v.in = Append(w.in, m)
      /\ \A kinds : /\ Has(Append(w.in, m), kinds) <=> Has(w.in, kinds) \/ m.kind \in kinds
                    /\ Has(Tail(w.out), kinds) => Has(w.out, kinds)
  <2> HIDE DEF w
  <2> QED
    BY <1>2, <1>3, AnsweredIs
<1> HIDE DEF v
<1>6. v.in \in Seq(Msg) /\ ChildMsg \in Msg /\ ChildMsg.kind = "child"
  BY <1>5, MessageKinds DEF Contender
<1>7. \A kinds : Has(Append(v.in, ChildMsg), kinds) <=> Has(v.in, kinds) \/ "child" \in kinds
  BY <1>6, HasAppend
<1>8. /\ u \in Contender
      /\ \A f \in {"running", "handle", "session", "created", "all", "mode", "timer",
                   "signals", "out"} : u[f] = v[f]
      /\ u.in = IF v.handle = "connected" /\ v.session \in fired
                THEN Append(v.in, ChildMsg) ELSE v.in
  <2>1. v \in Contender
    BY <1>5
  <2> HIDE DEF fired
  <2> QED
    BY <2>1, ToldIs
<1> HIDE DEF u
<1>9. /\ u.handle = "connected" /\ u.session = w.session /\ u.created = w.created
      /\ u.all = w.all /\ u.mode = w.mode /\ u.out = Tail(w.out)
      /\ \A kinds : /\ Has(u.in, kinds) => Has(w.in, kinds) \/ "create" \in kinds
                                           \/ (w.session \in fired /\ "child" \in kinds)
                    /\ "create" \in kinds => Has(u.in, kinds)
                    /\ Has(u.out, kinds) => Has(w.out, kinds)
  <2>1. /\ u.handle = "connected" /\ u.session = w.session /\ u.created = w.created
        /\ u.all = w.all /\ u.mode = w.mode /\ u.out = Tail(w.out) /\ v.session = w.session
    BY <1>2, <1>5, <1>8
  <2>2. \A kinds : Has(v.in, kinds) <=> Has(w.in, kinds) \/ "create" \in kinds
    BY <1>3, <1>5
  <2>3. \A kinds : Has(u.out, kinds) => Has(w.out, kinds)
    BY <2>1, <1>5
  <2>4. \A kinds : /\ Has(u.in, kinds) => Has(v.in, kinds)
                                          \/ (w.session \in fired /\ "child" \in kinds)
                   /\ Has(v.in, kinds) => Has(u.in, kinds)
    BY <2>1, <1>7, <1>8
  <2> QED
    BY <2>1, <2>2, <2>3, <2>4
<1>10. owner \in [Process -> Nat] /\ owner[p] = w.session
       /\ \A q \in Process \ {p} : owner[q] = server.owner[q]
  BY <1>1, <1>2 DEF Ensemble
<1> HIDE DEF owner
<1>11. /\ t \in Ensemble /\ t.owner = owner /\ t.watch = {} /\ t.live = server.live
       /\ t.last = server.last /\ t.dirs = server.dirs
  BY <1>1, <1>10 DEF Ensemble
<1> HIDE DEF t
<1>12. OnTop(u, t)
  <2>1. TopOnly(u.out) /\ ~Has(u.in, {"session"})
    BY <1>2, <1>9, TopTail DEF OnTop
  <2> QED
    BY <2>1, <1>9, <1>11 DEF OnTop
<1>13. Silent(u, t)
  <2>1. Silent(w, server)
    BY <1>1 DEF Contends
  <2> QED
    BY <2>1, <1>9, <1>11 DEF Silent
<1>14. Asks(u, t) /\ Knows(p, u, t)
  BY <1>9, <1>11 DEF Asks, Knows
<1>15. Contends(p, u, t)
  BY <1>9, <1>12, <1>13, <1>14 DEF Contends
<1>16. \A q \in Process \ {p} : Noticed(wrapper[q], server, t, fired)
  BY <1>11 DEF Noticed
<1>17. [wrapper EXCEPT ![p] = v] \in [Process -> Contender]
  BY <1>1, <1>5
<1>18. Sessions(wrapper', t)
  <2>1. PICK vs : vs = wrapper'
    OBVIOUS
  <2>2. \A q \in Process : vs[q].handle = wrapper[q].handle /\ vs[q].session = wrapper[q].session
    <3>1. SUFFICES ASSUME NEW q \in Process
                   PROVE  vs[q].handle = wrapper[q].handle /\ vs[q].session = wrapper[q].session
      OBVIOUS
    <3>2. vs[q] = Told([wrapper EXCEPT ![p] = v][q], fired)
      BY <2>1, <1>4, NotifyIs
    <3>3. CASE q = p
      BY <3>2, <3>3, <1>1, <1>2, <1>9 DEF u
    <3>4. CASE q # p
      <4>1. vs[q] = Told(wrapper[q], fired) /\ wrapper[q] \in Contender
        BY <3>2, <3>4, <1>1
      <4> QED
        BY <4>1, ToldIs
    <3> QED
      BY <3>3, <3>4
  <2>3. /\ \A q \in Process : wrapper[q].handle = "connected" => wrapper[q].session \in server.live
        /\ \A q \in Process : server.owner[q] # 0 => server.owner[q] \in server.live
    BY <1>1 DEF Sessions
  <2>4. \A q \in Process : vs[q].handle = "connected" =>
            /\ wrapper[q].handle = "connected" /\ vs[q].session = wrapper[q].session
            /\ vs[q].session \in t.live
    BY <2>2, <2>3, <1>11
  <2>5. /\ t.live \subseteq server.live /\ t.last = server.last /\ t.watch \subseteq 1 .. t.last
        /\ t \in Ensemble /\ server \in Ensemble /\ Sessions(wrapper, server)
    BY <1>1, <1>11
  <2>6. \A q \in Process : t.owner[q] # 0 =>
            /\ t.owner[q] \in t.live
            /\ \/ t.owner[q] = server.owner[q]
               \/ wrapper[q].handle = "connected" /\ t.owner[q] = wrapper[q].session
    BY <2>3, <1>2, <1>10, <1>11
  <2>7. Sessions(vs, t)
    BY <2>4, <2>5, <2>6, SessionsKept
  <2> QED
    BY <2>1, <2>7
<1>19. /\ t \in Ensemble /\ v \in Contender /\ Contends(p, Told(v, fired), t) /\ server' = t
       /\ wrapper' = Notify([wrapper EXCEPT ![p] = v], fired)
  BY <1>4, <1>5, <1>11, <1>15 DEF u
<1>20. t.dirs >= server.dirs
  BY <1>1, <1>11 DEF Ensemble
<1> HIDE DEF fired
<1> QED
  BY <1>16, <1>18, <1>19, <1>20, ContenderStep

LEMMA AnswerStep == ASSUME ZkInv, NEW p \in Process, Answer(p) PROVE ZkInv'
<1>1. server \in Ensemble /\ Sessions(wrapper, server) /\ wrapper \in [Process -> Contender]
      /\ Contends(p, wrapper[p], server) /\ server.dirs \in 0 .. Levels - 1
      /\ Levels \in Nat \ {0}
  BY ZkAssumption DEF ZkInv, Ensemble
<1> DEFINE w == wrapper[p]
           r == Head(w.out)
           rc == IF r.level > server.dirs + 1 THEN "ZNONODE"
                 ELSE IF IF r.level = Levels THEN server.owner[p] # 0 ELSE r.level <= server.dirs
                 THEN "ZNODEEXISTS" ELSE "ZOK"
           last == rc = "ZOK" /\ r.level = Levels
           reply(m) == [wrapper EXCEPT ![p] = AnsweredBy(@, m)]
<1>2. w.handle = "connected" /\ w.out # <<>> /\ w \in Contender /\ w.out \in Seq(Request)
      /\ r \in Request
  BY <1>1, HeadTailProperties DEF Answer, Contender
<1>3. \/ /\ r.kind = "create"
         /\ server' = IF last THEN [server EXCEPT !.owner[p] = w.session, !.watch = {}]
                      ELSE IF rc = "ZOK" THEN [server EXCEPT !.dirs = r.level] ELSE server
         /\ wrapper' = Notify(reply(CreateMsg(rc)), IF last THEN server.watch ELSE {})
      \/ /\ r.kind = "children"
         /\ server' = [server EXCEPT !.watch = @ \cup {w.session}]
         /\ wrapper' = reply(ChildrenMsg(Children(server)))
  BY <1>1 DEF Answer, AnsweredBy, CreateMsg, ChildrenMsg
<1>4. CASE r.kind = "children"
  BY <1>1, <1>2, <1>3, <1>4, AnswerChildren
<1>5. CASE r.kind = "create"
  <2>1. /\ server' = IF last THEN [server EXCEPT !.owner[p] = w.session, !.watch = {}]
                     ELSE IF rc = "ZOK" THEN [server EXCEPT !.dirs = r.level] ELSE server
        /\ wrapper' = Notify(reply(CreateMsg(rc)), IF last THEN server.watch ELSE {})
    BY <1>3, <1>5
  <2>2. \/ Climbs(w, server) /\ w.session \notin server.watch /\ r.level = w.created
           /\ w.created \in 1 .. Levels - 1 /\ w.created <= server.dirs + 1
        \/ OnTop(w, server) /\ r.level = Levels /\ server.dirs = Levels - 1
    <3>1. CASE OnTop(w, server)
      BY <3>1, <1>2, <1>5, TopTail DEF OnTop
    <3>2. CASE ~OnTop(w, server)
      <4>1. Climbs(w, server) /\ w.session \notin server.watch
        BY <3>2, <1>1, <1>2 DEF Contends, Begins
      <4>2. w.out = <<CreateReq(w.created)>> /\ w.created \in 1 .. Levels - 1
            /\ w.created <= server.dirs + 1
        BY <4>1, <1>2 DEF Climbs
      <4>3. w.created \in 1 .. Levels /\ r = CreateReq(w.created)
        BY <4>2, <1>1
      <4> QED
        BY <4>1, <4>2, <4>3, RequestKinds
    <3> QED
      BY <3>1, <3>2
  <2>3. CASE Climbs(w, server) /\ w.session \notin server.watch /\ r.level = w.created
             /\ w.created \in 1 .. Levels - 1 /\ w.created <= server.dirs + 1
    <3>1. ~(r.level > server.dirs + 1) /\ r.level # Levels
      BY <2>3, <1>1
    <3>2. ~last /\ rc \in {"ZOK", "ZNODEEXISTS"}
          /\ (rc = "ZNODEEXISTS" <=> w.created <= server.dirs)
      BY <3>1, <2>3
    <3>3. CreateMsg(rc) \in Msg
      BY <3>2, MessageKinds
    <3> HIDE DEF rc, last, w
    <3>4. AnsweredBy(w, CreateMsg(rc)) \in Contender
      BY <3>3, <1>2, AnsweredIs
    <3>5. wrapper' = reply(CreateMsg(rc))
      <4>1. reply(CreateMsg(rc)) \in [Process -> Contender]
        BY <3>4, <1>1 DEF w
      <4>2. wrapper' = Notify(reply(CreateMsg(rc)), {})
        BY <2>1, <3>2
      <4> HIDE DEF reply
      <4> QED
        BY <4>1, <4>2, NotifyNone
    <3>6. \/ rc = "ZOK" /\ server' = [server EXCEPT !.dirs = w.created]
          \/ rc = "ZNODEEXISTS" /\ server' = server /\ w.created <= server.dirs
      BY <2>1, <2>3, <3>2
    <3>7. rc = "ZOK" => w.created > server.dirs
      BY <2>3, <3>2, <1>1
    <3> QED
      BY <2>3, <3>2, <3>5, <3>6, <3>7, <1>2, AnswerClimb DEF w
  <2>4. CASE OnTop(w, server) /\ r.level = Levels /\ server.dirs = Levels - 1
    <3>1. ~(r.level > server.dirs + 1)
      BY <2>4, <1>1
    <3>2. CASE server.owner[p] = 0
      <4>1. rc = "ZOK" /\ last
        BY <3>1, <3>2, <2>4
      <4> HIDE DEF rc, last
      <4>2. /\ server' = [server EXCEPT !.owner[p] = w.session, !.watch = {}]
            /\ wrapper' = Notify(reply(CreateMsg("ZOK")), server.watch)
        BY <4>1, <2>1
      <4> QED
        BY <4>2, <3>2, <2>4, <1>2, AnswerCreated
    <3>3. CASE server.owner[p] # 0
      <4>1. rc = "ZNODEEXISTS" /\ ~last
        BY <3>1, <3>3, <2>4
      <4> HIDE DEF rc, last
      <4>2. server' = server /\ wrapper' = Notify(reply(CreateMsg("ZNODEEXISTS")), {})
        BY <4>1, <2>1
      <4>3. AnsweredBy(w, CreateMsg("ZNODEEXISTS")) \in Contender
        <5>1. CreateMsg("ZNODEEXISTS") \in Msg
          BY MessageKinds
        <5> QED
          BY <5>1, <1>2, AnsweredIs
      <4>4. wrapper' = reply(CreateMsg("ZNODEEXISTS"))
        <5>1. reply(CreateMsg("ZNODEEXISTS")) \in [Process -> Contender]
          BY <4>3, <1>1
        <5> HIDE DEF reply
        <5> QED
          BY <5>1, <4>2, NotifyNone
      <4> QED
        BY <4>2, <4>4, <3>3, <2>4, <1>2, AnswerExists
    <3> QED
      BY <3>2, <3>3
  <2> QED
    BY <2>2, <2>3, <2>4
<1> QED
  BY <1>3, <1>4, <1>5

LEMMA CreateZNodeIs ==
    ASSUME NEW w \in Contender, NEW dirLevel \in 0 .. Levels - 1
    PROVE  LET v == CreateZNode(w, dirLevel)
           IN  /\ v \in Contender /\ v.created = dirLevel + 1
               /\ \A f \in {"running", "handle", "session", "all", "mode", "timer", "signals",
                            "in"} : v[f] = w[f]
               /\ v.out = Append(w.out, CreateReq(dirLevel + 1))
               /\ v.out # <<>> /\ Has(v.out, {"create"})
               /\ Has(v.out, {"children"}) => Has(w.out, {"children"})
               /\ TopOnly(w.out) /\ dirLevel + 1 = Levels => TopOnly(v.out)
<1>1. dirLevel + 1 \in 1 .. Levels /\ dirLevel + 1 \in 0 .. Levels
  BY ZkAssumption
<1>2. /\ CreateReq(dirLevel + 1) \in Request /\ CreateReq(dirLevel + 1).kind = "create"
      /\ CreateReq(dirLevel + 1).level = dirLevel + 1
  BY <1>1, RequestKinds
<1>3. w.out \in Seq(Request)
  BY DEF Contender
<1> DEFINE r == CreateReq(dirLevel + 1)
           v == CreateZNode(w, dirLevel)
<1>4. v = [w EXCEPT !.created = dirLevel + 1, !.out = Append(@, r)]
  BY DEF CreateZNode, CreateReq
<1> HIDE DEF r, v
<1>5. Append(w.out, r) \in Seq(Request) /\ Append(w.out, r) # <<>>
  BY <1>2, <1>3, AppendProperties DEF r
<1>6. /\ Has(Append(w.out, r), {"create"})
      /\ Has(Append(w.out, r), {"children"}) => Has(w.out, {"children"})
  BY <1>2, <1>3, HasAppend DEF r
<1>7. TopOnly(w.out) /\ dirLevel + 1 = Levels => TopOnly(Append(w.out, r))
  BY <1>2, <1>3, TopAppend DEF r
<1> HIDE DEF Request
<1>8. /\ v \in Contender /\ v.created = dirLevel + 1
      /\ \A f \in {"running", "handle", "session", "all", "mode", "timer", "signals",
                   "in"} : v[f] = w[f]
      /\ v.out = Append(w.out, r)
  BY <1>1, <1>4, <1>5 DEF Contender
<1> QED
  BY <1>5, <1>6, <1>7, <1>8 DEF v, r

LEMMA GetChildrenListIs ==
    ASSUME NEW w \in Contender
    PROVE  LET v == GetChildrenList(w)
           IN  /\ v \in Contender
               /\ \A f \in {"running", "handle", "session", "created", "all", "mode", "timer",
                            "signals", "in"} : v[f] = w[f]
               /\ v.out # <<>>
               /\ Has(w.out, {"create"}) => Has(v.out, {"create"})
               /\ TopOnly(w.out) => TopOnly(v.out)
<1>1. w.out \in Seq(Request) /\ ChildrenReq \in Request /\ ChildrenReq.kind = "children"
  BY RequestKinds DEF Contender
<1>2. Append(w.out, ChildrenReq) \in Seq(Request) /\ Append(w.out, ChildrenReq) # <<>>
  BY <1>1, AppendProperties
<1>3. Has(w.out, {"create"}) => Has(Append(w.out, ChildrenReq), {"create"})
  BY <1>1, HasAppend
<1>4. TopOnly(w.out) => TopOnly(Append(w.out, ChildrenReq))
  BY <1>1, TopAppend
<1>5. GetChildrenList(w) = [w EXCEPT !.out = Append(@, ChildrenReq)]
  BY DEF GetChildrenList, ChildrenReq
<1> DEFINE a == Append(w.out, ChildrenReq)
<1> HIDE DEF Request
<1>6. /\ GetChildrenList(w) \in Contender
      /\ \A f \in {"running", "handle", "session", "created", "all", "mode", "timer",
                   "signals", "in"} : GetChildrenList(w)[f] = w[f]
      /\ GetChildrenList(w).out = a
  <2>1. GetChildrenList(w) = [w EXCEPT !.out = a] /\ a \in Seq(Request)
    BY <1>2, <1>5
  <2> HIDE DEF a
  <2> QED
    BY <2>1 DEF Contender
<1> QED
  BY <1>2, <1>3, <1>4, <1>6

LEMMA ReadIs ==
    ASSUME NEW w \in Contender, w.in # <<>>
    PROVE  LET v == [w EXCEPT !.in = Tail(@)]
           IN  /\ v \in Contender
               /\ \A f \in {"running", "handle", "session", "created", "all", "mode", "timer",
                            "signals", "out"} : v[f] = w[f]
               /\ v.in = Tail(w.in) /\ w.in \in Seq(Msg) /\ Head(w.in) \in Msg
               /\ \A kinds : Has(w.in, kinds) <=> Head(w.in).kind \in kinds \/ Has(v.in, kinds)
<1>1. w.in \in Seq(Msg)
  BY DEF Contender
<1>2. Tail(w.in) \in Seq(Msg) /\ Head(w.in) \in Msg
  BY <1>1, HeadTailProperties
<1>3. \A kinds : Has(w.in, kinds) <=> Head(w.in).kind \in kinds \/ Has(Tail(w.in), kinds)
  BY <1>1, HasTail
<1> HIDE DEF Msg
<1> QED
  BY <1>1, <1>2, <1>3 DEF Contender

\* A contender that asks for the list again because of a message that is no list.
LEMMA AskedAgain ==
    ASSUME NEW p \in Process, NEW w \in Contender, NEW s \in Ensemble, Contends(p, w, s),
           w.handle = "connected", OnTop(w, s), w.in # <<>>, Head(w.in).kind # "children",
           NEW v \in Contender, v.handle = "connected", v.session = w.session,
           v.created = w.created, v.mode = w.mode, v.in = Tail(w.in), v.all,
           v.out # <<>>, Has(w.out, {"create"}) => Has(v.out, {"create"}),
           TopOnly(w.out) => TopOnly(v.out)
    PROVE  Contends(p, v, s)
<1>1. /\ w.in \in Seq(Msg) /\ Head(w.in) \in Msg
      /\ \A kinds : Has(w.in, kinds) <=> Head(w.in).kind \in kinds \/ Has(v.in, kinds)
  <2> DEFINE u == [w EXCEPT !.in = Tail(@)]
  <2>1. /\ u.in = Tail(w.in) /\ w.in \in Seq(Msg) /\ Head(w.in) \in Msg
        /\ \A kinds : Has(w.in, kinds) <=> Head(w.in).kind \in kinds \/ Has(u.in, kinds)
    BY ReadIs
  <2> HIDE DEF u
  <2> QED
    BY <2>1
<1>2. OnTop(v, s) /\ Silent(v, s) /\ Asks(v, s)
  BY <1>1 DEF OnTop, Silent, Asks
<1>3. Knows(p, v, s)
  <2>1. SUFFICES ASSUME w.session \in s.watch PROVE Knows(p, v, s)
    BY DEF Knows
  <2>2. /\ Newest(w.in, Children(s))
        /\ ~Has(w.in, {"children"}) =>
               IF s.owner[p] = 0 THEN Has(w.out, {"create"})
               ELSE w.mode # "none" /\ (w.mode = "MASTER" <=> First(Children(s)) = p)
    BY <2>1 DEF Contends, Knows
  <2>3. Newest(v.in, Children(s))
    BY <2>2, <1>1, NewestTail
  <2>4. ~Has(v.in, {"children"}) => ~Has(w.in, {"children"})
    BY <1>1
  <2> QED
    BY <2>2, <2>3, <2>4 DEF Knows
<1> QED
  BY <1>2, <1>3 DEF Contends

\* The list arrives: it tells the contender its part, or that its node is gone.
LEMMA ListRead ==
    ASSUME NEW p \in Process, NEW w \in Contender, NEW s \in Ensemble, Contends(p, w, s),
           w.handle = "connected", OnTop(w, s), w.in # <<>>, Head(w.in).kind = "children"
    PROVE  LET v == ElectMaster(p, [w EXCEPT !.in = Tail(@)], Head(w.in).list)
           IN  /\ v \in Contender /\ v.handle = "connected" /\ v.session = w.session
               /\ Contends(p, v, s)
<1> DEFINE u == [w EXCEPT !.in = Tail(@)]
           list == Head(w.in).list
           v == ElectMaster(p, u, list)
<1>1. /\ u \in Contender
      /\ u.handle = "connected" /\ u.session = w.session /\ u.created = w.created
      /\ u.all = w.all /\ u.mode = w.mode /\ u.out = w.out
      /\ u.in = Tail(w.in) /\ w.in \in Seq(Msg) /\ Head(w.in) \in Msg
      /\ \A kinds : Has(w.in, kinds) <=> "children" \in kinds \/ Has(u.in, kinds)
  <2>1. /\ u \in Contender
        /\ \A f \in {"running", "handle", "session", "created", "all", "mode", "timer",
                     "signals", "out"} : u[f] = w[f]
        /\ u.in = Tail(w.in) /\ w.in \in Seq(Msg) /\ Head(w.in) \in Msg
        /\ \A kinds : Has(w.in, kinds) <=> Head(w.in).kind \in kinds \/ Has(u.in, kinds)
    BY ReadIs
  <2> HIDE DEF u
  <2> QED
    BY <2>1
<1> HIDE DEF u
<1>2. w.all /\ w.created = Levels /\ s.dirs = Levels - 1 /\ TopOnly(w.out)
      /\ ~Has(u.in, {"session"})
  BY <1>1 DEF Contends, Silent, OnTop
<1>3. w.session \in s.watch =>
          /\ Newest(u.in, Children(s))
          /\ ~Has(u.in, {"children"}) => list = Children(s)
  <2>1. SUFFICES ASSUME w.session \in s.watch
                 PROVE  /\ Newest(u.in, Children(s))
                        /\ ~Has(u.in, {"children"}) => list = Children(s)
    OBVIOUS
  <2>2. Newest(w.in, Children(s))
    BY <2>1 DEF Contends, Knows
  <2> QED
    BY <2>2, <1>1, NewestTail
<1>4. CASE p \notin list
  <2>1. v = CreateZNode(u, Levels - 1)
    BY <1>4 DEF ElectMaster
  <2>2. Levels - 1 \in 0 .. Levels - 1 /\ (Levels - 1) + 1 = Levels
    BY ZkAssumption
  <2>3. /\ v \in Contender /\ v.handle = "connected" /\ v.session = w.session
        /\ v.created = Levels /\ v.all = w.all /\ v.mode = w.mode /\ v.in = u.in
        /\ v.out # <<>> /\ Has(v.out, {"create"}) /\ TopOnly(v.out)
    <3> DEFINE x == CreateZNode(u, Levels - 1)
    <3>1. /\ x \in Contender /\ x.created = (Levels - 1) + 1
          /\ \A f \in {"running", "handle", "session", "all", "mode", "timer", "signals",
                       "in"} : x[f] = u[f]
          /\ x.out # <<>> /\ Has(x.out, {"create"})
          /\ TopOnly(u.out) /\ (Levels - 1) + 1 = Levels => TopOnly(x.out)
      BY <2>2, <1>1, CreateZNodeIs
    <3> HIDE DEF v, x
    <3>2. v = x
      BY <2>1 DEF x
    <3> QED
      BY <3>1, <3>2, <2>2, <1>1, <1>2
  <2> HIDE DEF v, list
  <2>4. OnTop(v, s) /\ Silent(v, s) /\ Asks(v, s)
    BY <2>3, <1>2 DEF OnTop, Silent, Asks
  <2>5. Knows(p, v, s)
    <3>1. SUFFICES ASSUME w.session \in s.watch PROVE Knows(p, v, s)
      BY <2>3 DEF Knows
    <3>2. ~Has(u.in, {"children"}) => s.owner[p] = 0
      BY <3>1, <1>3, <1>4 DEF Children
    <3> QED
      BY <3>1, <3>2, <2>3, <1>3 DEF Knows
  <2> QED
    BY <2>3, <2>4, <2>5 DEF Contends, v, u, list
<1>5. CASE p \in list
  <2> DEFINE mode == IF First(list) = p THEN "MASTER" ELSE "SLAVE"
  <2>1. v = [u EXCEPT !.mode = mode]
    BY <1>5 DEF ElectMaster
  <2>2. mode \in {"MASTER", "SLAVE"} /\ (mode = "MASTER" <=> First(list) = p)
    OBVIOUS
  <2> HIDE DEF mode, v, list
  <2>3. /\ v \in Contender /\ v.handle = "connected" /\ v.session = w.session
        /\ v.created = Levels /\ v.all = w.all /\ v.mode = mode /\ v.in = u.in
        /\ v.out = w.out
    BY <2>1, <2>2, <1>1, <1>2 DEF Contender
  <2>4. OnTop(v, s) /\ Silent(v, s)
    BY <2>3, <1>2 DEF OnTop, Silent
  <2>5. Asks(v, s)
    <3>1. SUFFICES ASSUME w.session \notin s.watch
                   PROVE  v.out # <<>> \/ Has(v.in, {"session", "create", "child"})
      BY <2>3 DEF Asks
    <3>2. w.out # <<>> \/ Has(w.in, {"session", "create", "child"})
      BY <3>1, <1>2 DEF Contends, Asks
    <3> QED
      BY <3>2, <2>3, <1>1
  <2>6. Knows(p, v, s)
    <3>1. SUFFICES ASSUME w.session \in s.watch PROVE Knows(p, v, s)
      BY <2>3 DEF Knows
    <3>2. ~Has(u.in, {"children"}) =>
              s.owner[p] # 0 /\ (mode = "MASTER" <=> First(Children(s)) = p)
      BY <3>1, <2>2, <1>3, <1>5 DEF Children
    <3> QED
      BY <3>1, <3>2, <2>2, <2>3, <1>3 DEF Knows
  <2> QED
    BY <2>3, <2>4, <2>5, <2>6 DEF Contends, v, u, list
<1> QED
  BY <1>4, <1>5

LEMMA ClimbsOn ==
    ASSUME NEW p \in Process, NEW u \in Contender, NEW s \in Ensemble, u.handle = "connected",
           u.session \notin s.watch, u.all \/ u.mode = "none", u.in = <<>>, u.out = <<>>,
           NEW dirLevel \in 0 .. Levels - 1, dirLevel <= s.dirs
    PROVE  LET v == CreateZNode(u, dirLevel)
           IN  /\ v \in Contender /\ v.handle = "connected" /\ v.session = u.session
               /\ Contends(p, v, s)
<1> DEFINE v == CreateZNode(u, dirLevel)
<1>1. s.dirs \in 0 .. Levels - 1 /\ Levels \in Nat \ {0}
  BY ZkAssumption DEF Ensemble
<1>2. TopOnly(u.out) /\ ~Has(u.out, {"children"}) /\ u.out \in Seq(Request)
  BY HasNone, EmptySeq DEF TopOnly
<1>3. /\ v \in Contender /\ v.created = dirLevel + 1
      /\ \A f \in {"running", "handle", "session", "all", "mode", "timer", "signals",
                   "in"} : v[f] = u[f]
      /\ v.out = Append(u.out, CreateReq(dirLevel + 1))
      /\ v.out # <<>> /\ Has(v.out, {"create"})
      /\ Has(v.out, {"children"}) => Has(u.out, {"children"})
      /\ TopOnly(u.out) /\ dirLevel + 1 = Levels => TopOnly(v.out)
  BY CreateZNodeIs
<1> HIDE DEF v
<1>4. /\ v.handle = "connected" /\ v.session = u.session /\ v.all = u.all /\ v.mode = u.mode
      /\ v.in = <<>> /\ v.out = <<CreateReq(v.created)>>
  BY <1>3
<1>5. Silent(v, s) /\ Asks(v, s) /\ Knows(p, v, s)
  BY <1>2, <1>3, <1>4, HasNone DEF Silent, Asks, Knows
<1>6. Climbs(v, s) \/ OnTop(v, s)
  <2>1. CASE dirLevel + 1 = Levels
    <3>1. s.dirs = Levels - 1 /\ v.created = Levels
      BY <2>1, <1>1, <1>3
    <3> QED
      BY <3>1, <2>1, <1>2, <1>3, <1>4, HasNone DEF OnTop
  <2>2. CASE dirLevel + 1 # Levels
    <3>1. v.created \in 1 .. Levels - 1 /\ v.created <= s.dirs + 1
      BY <2>2, <1>1, <1>3
    <3> QED
      BY <3>1, <1>4 DEF Climbs
  <2> QED
    BY <2>1, <2>2
<1>7. Contends(p, v, s)
  BY <1>4, <1>5, <1>6 DEF Contends
<1> QED
  BY <1>3, <1>4, <1>7 DEF v

LEMMA OnEventIOStep == ASSUME ZkInv, NEW p \in Process, OnEventIO(p) PROVE ZkInv'
<1>1. server \in Ensemble /\ Sessions(wrapper, server) /\ wrapper \in [Process -> Contender]
      /\ Contends(p, wrapper[p], server) /\ Levels \in Nat \ {0}
      /\ server.dirs \in 0 .. Levels - 1
  BY ZkAssumption DEF ZkInv, Ensemble
<1> DEFINE w == wrapper[p]
           m == Head(w.in)
           u == [w EXCEPT !.in = Tail(@)]
           v == IF m.kind = "create" THEN CheckZNodeCreate(u, m.rc)
                ELSE IF m.kind = "children" THEN ElectMaster(p, u, m.list)
                ELSE OnZKWatch(u, m)
<1>2. wrapper' = [wrapper EXCEPT ![p] = v] /\ UNCHANGED server /\ w.in # <<>> /\ w \in Contender
  BY <1>1 DEF OnEventIO
<1>3. /\ u \in Contender
      /\ \A f \in {"running", "handle", "session", "created", "all", "mode", "timer",
                   "signals", "out"} : u[f] = w[f]
      /\ u.in = Tail(w.in) /\ w.in \in Seq(Msg) /\ m \in Msg
      /\ \A kinds : Has(w.in, kinds) <=> m.kind \in kinds \/ Has(u.in, kinds)
  <2> HIDE DEF w
  <2> QED
    BY <1>2, ReadIs
<1>4. w.handle = "connected" /\ Silent(w, server)
      /\ \/ (Begins(w) \/ Climbs(w, server)) /\ w.session \notin server.watch
         \/ OnTop(w, server)
  BY <1>1, <1>2 DEF Contends
<1>5. w.all \/ w.mode = "none"
  BY <1>4 DEF Silent
<1> HIDE DEF u, v
<1>6. /\ u.handle = "connected" /\ u.session = w.session /\ u.created = w.created
      /\ u.all = w.all /\ u.mode = w.mode /\ u.out = w.out
  BY <1>3, <1>4
<1>7. SUFFICES v \in Contender /\ v.handle = "connected" /\ v.session = w.session
               /\ Contends(p, v, server)
  BY <1>2, <1>4, OwnStep
<1>8. CASE Begins(w) /\ w.session \notin server.watch
  <2>1. w.in = <<SessionMsg>> /\ w.out = <<>> /\ m = SessionMsg
    BY <1>8 DEF Begins
  <2>2. m.kind = "session" /\ u.in = <<>>
    BY <2>1, <1>3, MessageKinds
  <2>3. v = CreateZNode(u, 0)
    BY <2>2 DEF v, OnZKWatch
  <2>4. 0 \in 0 .. Levels - 1 /\ 0 <= server.dirs
    BY <1>1
  <2> HIDE DEF w, m
  <2> QED
    BY <2>1, <2>2, <2>3, <2>4, <1>1, <1>3, <1>5, <1>6, <1>8, ClimbsOn
<1>9. CASE Climbs(w, server) /\ w.session \notin server.watch
  <2>1. PICK rc \in {"ZOK", "ZNODEEXISTS"} :
            /\ w.in = <<CreateMsg(rc)>> /\ w.out = <<>> /\ w.created <= server.dirs
            /\ w.created \in 1 .. Levels - 1
    BY <1>2, <1>9 DEF Climbs
  <2>2. m = CreateMsg(rc) /\ u.in = <<>>
    BY <2>1, <1>3
  <2>3. m.kind = "create" /\ m.rc = rc
    BY <2>2, MessageKinds
  <2>4. w.created < Levels /\ w.created \in 0 .. Levels - 1
    BY <2>1, <1>1
  <2>5. v = CreateZNode(u, w.created)
    BY <2>3, <2>4, <1>6 DEF v, CheckZNodeCreate
  <2> HIDE DEF w, m
  <2> QED
    BY <2>1, <2>2, <2>4, <2>5, <1>1, <1>3, <1>5, <1>6, <1>9, ClimbsOn
<1>10. CASE OnTop(w, server)
  <2>1. m.kind \in {"child", "create", "children"}
    BY <1>3, <1>10, MessageKinds DEF OnTop
  <2>2. CASE m.kind = "children"
    <3>1. v = ElectMaster(p, u, m.list)
      BY <2>2 DEF v
    <3>2. LET x == ElectMaster(p, [w EXCEPT !.in = Tail(@)], Head(w.in).list)
          IN  /\ x \in Contender /\ x.handle = "connected" /\ x.session = w.session
              /\ Contends(p, x, server)
      <4> HIDE DEF w
      <4>1. Contends(p, w, server) /\ Head(w.in).kind = "children"
        BY <1>1, <2>2 DEF w
      <4> QED
        BY <4>1, <1>1, <1>2, <1>4, <1>10, ListRead
    <3> QED
      BY <3>1, <3>2 DEF u
  <2>3. CASE m.kind # "children"
    <3> DEFINE all(x) == [x EXCEPT !.all = TRUE]
    <3>1. \/ w.all /\ v = GetChildrenList(u)
          \/ v = GetChildrenList(all(u))
          \/ v = u /\ ~w.all /\ m.kind = "create"
      <4>1. CASE m.kind = "child"
        <5>1. w.all
          BY <4>1, <1>3, <1>4 DEF Silent
        <5> QED
          BY <4>1, <5>1 DEF v, OnZKWatch
      <4>2. CASE m.kind = "create"
        <5>1. m.rc \in {"ZOK", "ZNODEEXISTS"} /\ ~(u.created < Levels)
          BY <4>2, <1>1, <1>3, <1>6, <1>10, MessageKinds DEF OnTop
        <5>2. v = IF m.rc = "ZOK" THEN GetChildrenList(all(u))
                  ELSE IF u.all THEN GetChildrenList(u) ELSE u
          BY <4>2, <5>1 DEF v, CheckZNodeCreate
        <5> QED
          BY <4>2, <5>2, <1>6
      <4> QED
        BY <4>1, <4>2, <2>1, <2>3
    <3>2. CASE v = u /\ ~w.all /\ m.kind = "create"
      <4>1. OnTop(u, server) /\ Silent(u, server) /\ Asks(u, server) /\ Knows(p, u, server)
        BY <3>2, <1>3, <1>4, <1>6, <1>10 DEF OnTop, Silent, Asks, Knows
      <4>2. Contends(p, u, server)
        BY <4>1, <1>6 DEF Contends
      <4> QED
        BY <4>2, <3>2, <1>3, <1>6
    <3>3. ASSUME NEW x \in Contender, x.handle = "connected", x.session = w.session,
                 x.created = w.created, x.mode = w.mode, x.in = Tail(w.in), x.out = w.out,
                 x.all, v = GetChildrenList(x)
          PROVE  v \in Contender /\ v.handle = "connected" /\ v.session = w.session
                 /\ Contends(p, v, server)
      <4>1. /\ v \in Contender
            /\ \A f \in {"running", "handle", "session", "created", "all", "mode", "timer",
                         "signals", "in"} : v[f] = x[f]
            /\ v.out # <<>>
            /\ Has(x.out, {"create"}) => Has(v.out, {"create"})
            /\ TopOnly(x.out) => TopOnly(v.out)
        BY <3>3, GetChildrenListIs
      <4>2. /\ v.handle = "connected" /\ v.session = w.session /\ v.created = w.created
            /\ v.mode = w.mode /\ v.in = Tail(w.in) /\ v.all
            /\ Has(w.out, {"create"}) => Has(v.out, {"create"})
            /\ TopOnly(w.out) => TopOnly(v.out)
        BY <4>1, <3>3
      <4>3. Contends(p, w, server) /\ Head(w.in).kind # "children"
        BY <1>1, <2>3
      <4> HIDE DEF w
      <4>4. Contends(p, v, server)
        BY <4>1, <4>2, <4>3, <1>1, <1>2, <1>4, <1>10, AskedAgain
      <4> QED
        BY <4>1, <4>2, <4>4
    <3>4. CASE w.all /\ v = GetChildrenList(u)
      BY <3>3, <3>4, <1>3, <1>6
    <3>5. CASE v = GetChildrenList(all(u))
      <4>1. /\ all(u) \in Contender /\ all(u).handle = "connected"
            /\ all(u).session = w.session /\ all(u).created = w.created
            /\ all(u).mode = w.mode /\ all(u).in = Tail(w.in) /\ all(u).out = w.out
            /\ all(u).all
        BY <1>3, <1>6 DEF Contender
      <4> HIDE DEF all
      <4> QED
        BY <3>3, <3>5, <4>1
    <3> QED
      BY <3>1, <3>2, <3>4, <3>5
  <2> QED
    BY <2>2, <2>3
<1> QED
  BY <1>4, <1>8, <1>9, <1>10

LEMMA DoSignalStep == ASSUME ZkInv, NEW p \in Process, DoSignal(p) PROVE ZkInv'
<1>1. wrapper[p] \in Contender
  BY DEF ZkInv
<1>2. CASE wrapper[p].signals
  <2> DEFINE w == [wrapper[p] EXCEPT !.timer = FALSE]
  <2>1. DoStop(p, w)
    BY <1>2 DEF DoSignal
  <2>2. /\ w \in Contender /\ w.handle = wrapper[p].handle /\ w.session = wrapper[p].session
        /\ w.all = wrapper[p].all /\ w.mode = wrapper[p].mode
    BY <1>1 DEF Contender
  <2> HIDE DEF w
  <2> QED
    BY <2>1, <2>2, DoStopStep
<1>3. CASE ~wrapper[p].signals
  BY <1>3, CrashStep DEF DoSignal
<1> QED
  BY <1>2, <1>3

LEMMA OnInterestTimerStep == ASSUME ZkInv, NEW p \in Process, OnInterestTimer(p) PROVE ZkInv'
<1>1. wrapper[p] \in Contender
  BY DEF ZkInv
<1>2. CASE wrapper[p].handle = "null" /\ wrapper' = [wrapper EXCEPT ![p] = PollZKInterest(@)]
           /\ UNCHANGED server
  BY <1>2, PollStepZk
<1>3. CASE DoStop(p, wrapper[p])
  BY <1>1, <1>3, DoStopStep
<1> QED
  BY <1>2, <1>3 DEF OnInterestTimer

\* Every step of the contenders, the network and the server.
LEMMA ZkStepKeeps == ASSUME ZkInv, [ZkNext]_zkVars PROVE ZkInv'
<1>1. CASE UNCHANGED zkVars
  BY <1>1 DEF ZkInv, zkVars
<1>2. ASSUME NEW p \in Process, StartWatch(p) PROVE ZkInv'
  BY <1>2, StartWatchStep
<1>3. ASSUME NEW p \in Process, ZkStep(p) PROVE ZkInv'
  BY <1>3, OnInterestTimerStep, OnEventIOStep, ConnectedStep, AnswerStep DEF ZkStep
<1>4. ASSUME NEW p \in Process, ConnectionLost(p) PROVE ZkInv'
  BY <1>4, ConnectionLostStep
<1>5. ASSUME NEW p \in Process, Crash(p) PROVE ZkInv'
  BY <1>5, CrashStep DEF Crash
<1>6. ASSUME NEW p \in Process, DoSignal(p) PROVE ZkInv'
  BY <1>6, DoSignalStep
<1>7. ASSUME NEW id \in 1 .. MaxSessions, Expire(id) PROVE ZkInv'
  BY <1>7, ExpireStep
<1> QED
  BY <1>1, <1>2, <1>3, <1>4, <1>5, <1>6, <1>7 DEF ZkNext

LEMMA ZkInitial == ASSUME ZkInit PROVE ZkInv
<1>1. /\ wrapper = [p \in Process |-> Off]
      /\ server = [dirs |-> 0, owner |-> [p \in Process |-> 0], live |-> {}, last |-> 0,
                   watch |-> {}]
  BY DEF ZkInit
<1>2. [p \in Process |-> 0] \in [Process -> Nat] /\ 0 \in 0 .. Levels - 1
  BY ZkAssumption
<1>3. /\ server \in Ensemble /\ server.live = {} /\ server.watch = {}
      /\ \A p \in Process : server.owner[p] = 0
  BY <1>1, <1>2 DEF Ensemble
<1>4. Off \in Contender /\ Off.handle = "null" /\ \A p \in Process : Contends(p, Off, server)
  BY <1>3, OffContends
<1> HIDE DEF Off
<1>5. wrapper \in [Process -> Contender] /\ \A p \in Process : wrapper[p] = Off
  BY <1>1, <1>4
<1>6. Sessions(wrapper, server)
  BY <1>3, <1>4, <1>5 DEF Sessions
<1> QED
  BY <1>3, <1>4, <1>5, <1>6 DEF ZkInv

LEMMA ZkOneMaster == ASSUME ZkInv PROVE OneMaster
<1>1. server \in Ensemble /\ Sessions(wrapper, server) /\ wrapper \in [Process -> Contender]
      /\ \A p \in Process : Contends(p, wrapper[p], server)
  BY DEF ZkInv
<1>2. SUFFICES ASSUME Settled, NEW p \in Process, wrapper[p].running, wrapper[p].timer
               PROVE  \/ GaveUp(p) /\ wrapper[p].mode = "none"
                      \/ /\ server.owner[p] = wrapper[p].session
                         /\ (wrapper[p].mode = "MASTER") <=> (First(Children(server)) = p)
                         /\ wrapper[p].mode # "none"
  BY DEF OneMaster
<1> DEFINE w == wrapper[p]
<1>3. w.handle = "connected" /\ w.in = <<>> /\ w.out = <<>>
  BY <1>2 DEF Settled
<1>4. /\ Silent(w, server) /\ Asks(w, server) /\ Knows(p, w, server)
      /\ Begins(w) \/ Climbs(w, server) \/ OnTop(w, server)
  BY <1>1, <1>3 DEF Contends
<1>5. OnTop(w, server)
  <2>1. ~Begins(w)
    BY <1>3 DEF Begins
  <2>2. ~Climbs(w, server)
    BY <1>3 DEF Climbs
  <2> QED
    BY <2>1, <2>2, <1>4
<1>6. CASE ~w.all
  BY <1>4, <1>5, <1>6 DEF OnTop, Silent, GaveUp
<1>7. CASE w.all
  <2>1. w.session \in server.watch
    BY <1>3, <1>4, <1>7, HasNone DEF Asks
  <2>2. /\ server.owner[p] # 0 /\ w.mode # "none"
        /\ (w.mode = "MASTER" <=> First(Children(server)) = p)
    BY <2>1, <1>3, <1>4, HasNone DEF Knows
  <2>3. server.owner[p] \in server.live
    BY <2>2, <1>1 DEF Sessions
  <2>4. PICK q \in Process : server.owner[p] = wrapper[q].session
    BY <2>3, <1>2 DEF Settled
  <2>5. wrapper[q].handle = "connected"
    BY <2>2, <2>4, <1>1 DEF Contends
  <2>6. p = q
    BY <2>4, <2>5, <1>1 DEF Sessions
  <2> QED
    BY <2>2, <2>4, <2>6
<1> QED
  BY <1>6, <1>7

-----------------------------------------------------------------------------
(* The servers: every step keeps the invariant                             *)

LEMMA MembersAppend ==
    ASSUME NEW S, NEW q \in Seq(S), NEW e \in S
    PROVE  /\ ToSet(Append(q, e)) = ToSet(q) \cup {e}
           /\ Distinct(q) /\ e \notin ToSet(q) => Distinct(Append(q, e))
<1>1. PICK n \in Nat : n = Len(q)
  BY LenProperties
<1>2. /\ Append(q, e) \in Seq(S) /\ Len(Append(q, e)) = n + 1 /\ Append(q, e)[n + 1] = e
      /\ \A i \in 1 .. n : Append(q, e)[i] = q[i]
  BY <1>1, AppendProperties
<1>3. DOMAIN q = 1 .. n /\ DOMAIN Append(q, e) = 1 .. n + 1
  BY <1>1, <1>2, LenProperties
<1>4. \A i \in 1 .. n + 1 : i \in 1 .. n \/ i = n + 1
  BY <1>1
<1> DEFINE a == Append(q, e)
<1> HIDE DEF a
<1>5. \A i \in 1 .. n : a[i] = q[i]
  BY <1>2 DEF a
<1>6. a[n + 1] = e /\ DOMAIN a = 1 .. n + 1
  BY <1>2, <1>3 DEF a
<1>7. ToSet(a) = ToSet(q) \cup {e}
  BY <1>3, <1>4, <1>5, <1>6 DEF ToSet
<1>8. ASSUME Distinct(q), e \notin ToSet(q) PROVE Distinct(a)
  <2>1. \A i \in 1 .. n : a[i] # e
    BY <1>3, <1>5, <1>8 DEF ToSet
  <2> QED
    BY <2>1, <1>3, <1>4, <1>5, <1>6, <1>8 DEF Distinct
<1> QED
  BY <1>7, <1>8 DEF a

LEMMA MembersTail ==
    ASSUME NEW S, NEW q \in Seq(S), q # <<>>
    PROVE  /\ Head(q) \in ToSet(q) /\ ToSet(q) = ToSet(Tail(q)) \cup {Head(q)}
           /\ Distinct(q) => Distinct(Tail(q)) /\ Head(q) \notin ToSet(Tail(q))
<1>1. PICK n \in Nat : n = Len(q) /\ n # 0
  BY LenProperties, EmptySeq
<1>2. /\ Tail(q) \in Seq(S) /\ Len(Tail(q)) = n - 1 /\ Head(q) = q[1]
      /\ \A i \in 1 .. Len(Tail(q)) : Tail(q)[i] = q[i + 1]
  BY <1>1, HeadTailProperties
<1>3. DOMAIN q = 1 .. n /\ DOMAIN Tail(q) = 1 .. n - 1
  BY <1>1, <1>2, LenProperties
<1> DEFINE t == Tail(q)
<1> HIDE DEF t
<1>4. \A i \in 1 .. n - 1 : t[i] = q[i + 1] /\ i + 1 \in 1 .. n /\ i + 1 # 1
  BY <1>1, <1>2 DEF t
<1>5. \A i \in 1 .. n : i = 1 \/ (i - 1 \in 1 .. n - 1 /\ (i - 1) + 1 = i)
  BY <1>1
<1>6. 1 \in 1 .. n /\ Head(q) = q[1] /\ DOMAIN t = 1 .. n - 1
  BY <1>1, <1>2, <1>3 DEF t
<1>7. Head(q) \in ToSet(q)
  BY <1>3, <1>6 DEF ToSet
<1>8. ToSet(q) = ToSet(t) \cup {Head(q)}
  <2>1. ASSUME NEW x \in ToSet(q) PROVE x \in ToSet(t) \cup {Head(q)}
    <3>1. PICK i \in 1 .. n : x = q[i]
      BY <2>1, <1>3 DEF ToSet
    <3>2. CASE i = 1
      BY <3>1, <3>2, <1>6
    <3>3. CASE i # 1
      <4>1. i - 1 \in 1 .. n - 1 /\ t[i - 1] = x
        BY <3>1, <3>3, <1>4, <1>5
      <4> QED
        BY <4>1, <1>6 DEF ToSet
    <3> QED
      BY <3>2, <3>3
  <2>2. ASSUME NEW x \in ToSet(t) PROVE x \in ToSet(q)
    BY <2>2, <1>3, <1>4, <1>6 DEF ToSet
  <2> QED
    BY <2>1, <2>2, <1>7
<1>9. ASSUME Distinct(q) PROVE Distinct(t) /\ Head(q) \notin ToSet(t)
  <2>1. Distinct(t)
    <3>1. SUFFICES ASSUME NEW i \in 1 .. n - 1, NEW j \in 1 .. n - 1, t[i] = t[j] PROVE i = j
      BY <1>6 DEF Distinct
    <3>2. i + 1 = j + 1
      BY <3>1, <1>3, <1>4, <1>9 DEF Distinct
    <3> QED
      BY <3>2
  <2>2. Head(q) \notin ToSet(t)
    BY <1>3, <1>4, <1>6, <1>9 DEF ToSet, Distinct
  <2> QED
    BY <2>1, <2>2
<1> QED
  BY <1>7, <1>8, <1>9 DEF t

LEMMA MembersRemove ==
    ASSUME NEW S, NEW q \in Seq(S), Distinct(q), NEW e \in ToSet(q)
    PROVE  LET r == RemoveAt(q, CHOOSE i \in DOMAIN q : q[i] = e)
           IN  r \in Seq(S) /\ Distinct(r) /\ ToSet(r) = ToSet(q) \ {e}
<1>1. PICK n \in Nat : n = Len(q)
  BY LenProperties
<1>2. DOMAIN q = 1 .. n
  BY <1>1, LenProperties
<1> DEFINE k == CHOOSE i \in DOMAIN q : q[i] = e
<1>3. k \in 1 .. n /\ q[k] = e
  BY <1>2 DEF ToSet
<1> HIDE DEF k
<1> DEFINE a == SubSeq(q, 1, k - 1)
           b == SubSeq(q, k + 1, n)
           r == a \o b
<1>4. \A i \in 1 .. n : q[i] \in S
  BY <1>2
<1>5. /\ a \in Seq(S) /\ Len(a) = k - 1 /\ \A i \in 1 .. k - 1 : a[i] = q[i]
  <2>1. 1 \in Int /\ k - 1 \in Int /\ \A i \in 1 .. k - 1 : q[i] \in S
    BY <1>1, <1>3, <1>4
  <2>2. /\ a \in Seq(S) /\ Len(a) = IF 1 <= k - 1 THEN (k - 1) - 1 + 1 ELSE 0
        /\ \A i \in 1 .. (k - 1) - 1 + 1 : a[i] = q[1 + i - 1]
    BY <2>1, SubSeqProperties
  <2> HIDE DEF a
  <2>3. (IF 1 <= k - 1 THEN (k - 1) - 1 + 1 ELSE 0) = k - 1 /\ (k - 1) - 1 + 1 = k - 1
    BY <1>1, <1>3
  <2>4. \A i \in 1 .. k - 1 : 1 + i - 1 = i
    OBVIOUS
  <2> QED
    BY <2>2, <2>3, <2>4
<1>6. /\ b \in Seq(S) /\ Len(b) = n - k /\ \A i \in 1 .. n - k : b[i] = q[k + i]
  <2>1. k + 1 \in Int /\ n \in Int /\ \A i \in k + 1 .. n : q[i] \in S
    BY <1>1, <1>3, <1>4
  <2>2. /\ b \in Seq(S) /\ Len(b) = IF k + 1 <= n THEN n - (k + 1) + 1 ELSE 0
        /\ \A i \in 1 .. n - (k + 1) + 1 : b[i] = q[(k + 1) + i - 1]
    BY <2>1, SubSeqProperties
  <2> HIDE DEF b
  <2>3. (IF k + 1 <= n THEN n - (k + 1) + 1 ELSE 0) = n - k /\ n - (k + 1) + 1 = n - k
    BY <1>1, <1>3
  <2>4. \A i \in 1 .. n - k : (k + 1) + i - 1 = k + i
    BY <1>1, <1>3
  <2> QED
    BY <2>2, <2>3, <2>4
<1> HIDE DEF a, b
<1>7. /\ r \in Seq(S) /\ Len(r) = Len(a) + Len(b)
      /\ \A i \in 1 .. Len(a) + Len(b) : r[i] = IF i <= Len(a) THEN a[i] ELSE b[i - Len(a)]
  BY <1>5, <1>6, ConcatProperties
<1> HIDE DEF r
<1>8. Len(r) = n - 1 /\ DOMAIN r = 1 .. n - 1
  <2>1. (k - 1) + (n - k) = n - 1
    BY <1>1, <1>3
  <2> QED
    BY <2>1, <1>5, <1>6, <1>7, LenProperties
<1> DEFINE at(i) == IF i < k THEN i ELSE i + 1
<1>9. \A i \in 1 .. n - 1 : at(i) \in 1 .. n /\ at(i) # k /\ r[i] = q[at(i)]
  <2>1. SUFFICES ASSUME NEW i \in 1 .. n - 1
                 PROVE  at(i) \in 1 .. n /\ at(i) # k /\ r[i] = q[at(i)]
    OBVIOUS
  <2>2. at(i) \in 1 .. n /\ at(i) # k
    BY <1>1, <1>3
  <2>3. i \in 1 .. Len(a) + Len(b)
    BY <1>1, <1>3, <1>5, <1>6
  <2>4. CASE i < k
    <3>1. i <= Len(a) /\ i \in 1 .. k - 1
      BY <2>4, <1>1, <1>3, <1>5
    <3> QED
      BY <3>1, <2>2, <2>3, <2>4, <1>5, <1>7
  <2>5. CASE ~(i < k)
    <3>1. ~(i <= Len(a)) /\ i - Len(a) = i - (k - 1) /\ i - (k - 1) \in 1 .. n - k
          /\ k + (i - (k - 1)) = i + 1
      BY <2>5, <1>1, <1>3, <1>5
    <3>2. r[i] = b[i - (k - 1)]
      BY <3>1, <2>3, <1>7
    <3> QED
      BY <3>1, <3>2, <2>2, <2>5, <1>6
  <2> QED
    BY <2>4, <2>5
<1>10. \A i \in 1 .. n : i # k => \E j \in 1 .. n - 1 : at(j) = i
  <2>1. SUFFICES ASSUME NEW i \in 1 .. n, i # k PROVE \E j \in 1 .. n - 1 : at(j) = i
    OBVIOUS
  <2>2. CASE i < k
    BY <2>2, <1>1, <1>3
  <2>3. CASE i > k
    <3>1. i - 1 \in 1 .. n - 1 /\ ~(i - 1 < k) /\ (i - 1) + 1 = i
      BY <2>3, <1>1, <1>3
    <3> QED
      BY <3>1
  <2> QED
    BY <2>1, <2>2, <2>3, <1>3
<1>11. \A i, j \in 1 .. n - 1 : at(i) = at(j) => i = j
  BY <1>1, <1>3
<1> HIDE DEF at
<1>12. Distinct(r)
  BY <1>2, <1>8, <1>9, <1>11 DEF Distinct
<1>13. ToSet(r) = ToSet(q) \ {e}
  <2>1. ASSUME NEW x \in ToSet(r) PROVE x \in ToSet(q) \ {e}
    <3>1. PICK i \in 1 .. n - 1 : x = r[i]
      BY <2>1, <1>8 DEF ToSet
    <3>2. x = q[at(i)] /\ at(i) \in 1 .. n /\ at(i) # k
      BY <3>1, <1>9
    <3> QED
      BY <3>2, <1>2, <1>3 DEF ToSet, Distinct
  <2>2. ASSUME NEW x \in ToSet(q) \ {e} PROVE x \in ToSet(r)
    <3>1. PICK i \in 1 .. n : x = q[i]
      BY <2>2, <1>2 DEF ToSet
    <3>2. i # k
      BY <3>1, <2>2, <1>3
    <3>3. PICK j \in 1 .. n - 1 : at(j) = i
      BY <3>2, <1>10
    <3> QED
      BY <3>1, <3>3, <1>8, <1>9 DEF ToSet
  <2> QED
    BY <2>1, <2>2
<1> QED
  BY <1>1, <1>7, <1>12, <1>13 DEF RemoveAt, r, a, b, k

\* A sequence of a set's elements, each once, has all of them.
LEMMA EnumerationIs ==
    ASSUME NEW S, IsFiniteSet(S), NEW s \in SetToSeqs(S)
    PROVE  s \in Seq(S) /\ Distinct(s) /\ ToSet(s) = S
<1> DEFINE n == Cardinality(S)
           D == 1 .. n
<1>1. n \in Nat
  BY FS_CardinalityType
<1>2. s \in [D -> S] /\ \A i, j \in D : i # j => s[i] # s[j]
  BY DEF SetToSeqs
<1>3. IsFiniteSet(D) /\ Cardinality(D) = n
  <2>1. IsFiniteSet(D) /\ Cardinality(D) = IF 1 > n THEN 0 ELSE n - 1 + 1
    BY <1>1, FS_Interval
  <2> HIDE DEF D
  <2>2. (IF 1 > n THEN 0 ELSE n - 1 + 1) = n
    BY <1>1
  <2> QED
    BY <2>1, <2>2
<1> HIDE DEF n
<1>4. s \in Injection(D, S)
  BY <1>2 DEF Injection, IsInjective
<1>5. s \in Surjection(D, S)
  <2> HIDE DEF D
  <2> QED
    BY <1>3, <1>4, FS_Injection DEF n
<1>6. s \in Seq(S) /\ DOMAIN s = D
  BY <1>1, <1>2, SeqDef
<1>7. \A x \in S : \E i \in D : s[i] = x
  BY <1>5 DEF Surjection
<1> QED
  BY <1>2, <1>6, <1>7 DEF Distinct, ToSet

LEMMA EnumerationOf ==
    ASSUME NEW S, NEW s \in Seq(S), Distinct(s), ToSet(s) = S
    PROVE  s \in SetToSeqs(S)
<1>1. PICK n \in Nat : n = Len(s)
  BY LenProperties
<1>2. DOMAIN s = 1 .. n /\ s \in [1 .. n -> S]
  BY <1>1, LenProperties
<1>3. s \in Injection(1 .. n, S)
  BY <1>2 DEF Injection, IsInjective, Distinct
<1>4. s \in Surjection(1 .. n, S)
  BY <1>2 DEF Surjection, ToSet
<1>5. Cardinality(S) = n
  BY <1>3, <1>4, FS_CountingElements DEF ExistsBijection, Bijection
<1> QED
  BY <1>2, <1>5 DEF SetToSeqs, Distinct

\* Any part of the descriptors can be reported in their order.
LEMMA ReportExists ==
    ASSUME NEW fds \in Seq(Clients), Distinct(fds), NEW R \in SUBSET ToSet(fds), R # {}
    PROVE  \E s \in SetToSeqs(R) : InOrder(s, fds) /\ s # <<>>
<1>1. PICK len \in Nat : len = Len(fds)
  BY LenProperties
<1>2. DOMAIN fds = 1 .. len
  BY <1>1, LenProperties
<1> DEFINE Upto(n) == {x \in R : \E i \in 1 .. n : x = fds[i]}
           Listed(n) == \E s \in Seq(R) : Distinct(s) /\ ToSet(s) = Upto(n) /\ InOrder(s, fds)
           T == {n \in 0 .. len : ~Listed(n)}
<1>3. Listed(0)
  <2>1. <<>> \in Seq(R) /\ DOMAIN <<>> = {}
    BY EmptySeq
  <2>2. Distinct(<<>>) /\ ToSet(<<>>) = {} /\ InOrder(<<>>, fds)
    BY <2>1 DEF Distinct, ToSet, InOrder
  <2>3. Upto(0) = {}
    OBVIOUS
  <2> HIDE DEF Upto
  <2> QED
    BY <2>1, <2>2, <2>3
<1>4. ASSUME NEW n \in 1 .. len, Listed(n - 1) PROVE Listed(n)
  <2> HIDE DEF Upto
  <2>1. PICK s \in Seq(R) : Distinct(s) /\ ToSet(s) = Upto(n - 1) /\ InOrder(s, fds)
    BY <1>4
  <2>2. CASE fds[n] \notin R
    <3>1. Upto(n) = Upto(n - 1)
      BY <2>2, <1>1 DEF Upto
    <3> QED
      BY <2>1, <3>1
  <2>3. CASE fds[n] \in R
    <3> DEFINE e == fds[n]
               t == Append(s, e)
    <3>1. Upto(n) = Upto(n - 1) \cup {e}
      BY <2>3, <1>1 DEF Upto
    <3>2. e \notin Upto(n - 1)
      <4>1. SUFFICES ASSUME NEW i \in 1 .. n - 1, e = fds[i] PROVE FALSE
        BY DEF Upto
      <4>2. i \in 1 .. len /\ i # n
        BY <1>1
      <4> QED
        BY <4>1, <4>2, <1>2 DEF Distinct
    <3>3. Distinct(t) /\ ToSet(t) = Upto(n)
      BY <2>1, <2>3, <3>1, <3>2, MembersAppend
    <3>4. t \in Seq(R) /\ Len(t) = Len(s) + 1 /\ t[Len(s) + 1] = e
          /\ \A i \in 1 .. Len(s) : t[i] = s[i]
      BY <2>3, AppendProperties
    <3> HIDE DEF t
    <3>5. PICK m \in Nat : m = Len(s) /\ DOMAIN s = 1 .. m /\ DOMAIN t = 1 .. m + 1
      BY <3>4, LenProperties
    <3>6. InOrder(t, fds)
      <4>a. SUFFICES ASSUME NEW i \in DOMAIN t, NEW j \in DOMAIN t, i < j
                     PROVE  \E a, b \in DOMAIN fds : a < b /\ fds[a] = t[i] /\ fds[b] = t[j]
        BY DEF InOrder
      <4>1. i \in 1 .. m + 1 /\ j \in 1 .. m + 1 /\ i < j
        BY <4>a, <3>5
      <4>2. i \in 1 .. m /\ t[i] = s[i]
        BY <4>1, <3>4, <3>5
      <4>3. CASE j = m + 1
        <5>1. s[i] \in Upto(n - 1)
          BY <2>1, <4>2, <3>5 DEF ToSet
        <5>2. PICK a \in 1 .. n - 1 : fds[a] = s[i]
          BY <5>1 DEF Upto
        <5>3. a \in 1 .. len /\ a < n /\ fds[n] = t[j]
          BY <4>3, <3>4, <3>5, <1>1
        <5> QED
          BY <4>2, <5>2, <5>3, <1>2
      <4>4. CASE j # m + 1
        <5>1. j \in 1 .. m /\ t[j] = s[j]
          BY <4>4, <3>4, <3>5
        <5> QED
          BY <2>1, <4>1, <4>2, <5>1, <3>5, <1>2 DEF InOrder
      <4> QED
        BY <4>3, <4>4
    <3> QED
      BY <3>3, <3>4, <3>6
  <2> QED
    BY <2>2, <2>3
<1> HIDE DEF Listed
<1>5. Listed(len)
  <2>1. SUFFICES ASSUME len \in T PROVE FALSE
    BY <1>1
  <2>2. T \in SUBSET Nat /\ T # {}
    BY <2>1
  <2>3. PICK x \in T : \A y \in T : ~(<<y, x>> \in OpToRel(<, Nat))
    <3> HIDE DEF T
    <3> QED
      BY <2>2, NatLessThanWellFounded, WFMin
  <2>4. \A y \in T : ~(y < x)
    BY <2>2, <2>3 DEF OpToRel
  <2>5. x \in 1 .. len
    BY <1>1, <1>3
  <2>6. x - 1 \in 0 .. len /\ x - 1 < x
    BY <2>5
  <2>7. Listed(x - 1)
    BY <2>4, <2>6
  <2> QED
    BY <1>4, <2>5, <2>7
<1>6. PICK s \in Seq(R) : Distinct(s) /\ ToSet(s) = Upto(len) /\ InOrder(s, fds)
  BY <1>5 DEF Listed
<1>7. Upto(len) = R
  BY <1>2 DEF ToSet
<1> HIDE DEF Upto
<1>8. s \in SetToSeqs(R)
  BY <1>6, <1>7, EnumerationOf
<1>9. s # <<>>
  BY <1>6, <1>7 DEF ToSet
<1> QED
  BY <1>6, <1>8, <1>9

LEMMA MuxTold == ASSUME MuxInv PROVE NothingUnread /\ EchoesOwn
<1>1. mux \in Server /\ net \in Network /\ Places(mux, net) /\ TellsAll(mux, net)
  BY DEF MuxInv
<1>2. /\ mux.fds \in Seq(Clients) /\ mux.edges \in SUBSET Descriptor
      /\ net.conn \in [Clients -> Link] /\ Distinct(mux.fds) /\ mux.pieces \in 1 .. MaxPieces
  BY <1>1 DEF Server, Network, Places
<1>3. ASSUME Waiting, ~Edge PROVE net.backlog = <<>>
  <2>1. SUFFICES ASSUME net.backlog # <<>> PROVE FALSE
    OBVIOUS
  <2>2. Ready = {<<Listen>>}
    BY <1>3, <2>1 DEF Ready
  <2> QED
    BY <2>2, <1>3 DEF Waiting
<1>4. ASSUME Waiting, NEW c \in Watched, Readable(c) PROVE FALSE
  <2>1. CASE ~Edge
    <3> DEFINE R == {d \in Watched : Readable(d)}
    <3>1. Ready = {s \in SetToSeqs(R) : InOrder(s, mux.fds)}
      BY <2>1, <1>3, <1>4 DEF Ready
    <3>2. R \in SUBSET ToSet(mux.fds) /\ R # {}
      BY <1>4 DEF Watched
    <3> HIDE DEF R
    <3>3. PICK s \in SetToSeqs(R) : InOrder(s, mux.fds) /\ s # <<>>
      BY <3>2, <1>2, ReportExists
    <3> QED
      BY <3>1, <3>3, <1>4 DEF Waiting
  <2>2. CASE Edge
    <3>1. Ready = SetToSeqs(mux.edges)
      BY <2>2 DEF Ready
    <3>2. c \in mux.edges
      <4>1. c \in Signalled(mux)
        BY <2>2, <1>1, <1>4 DEF TellsAll, Edge, Watched, Readable
      <4>2. ToSet(mux.todo) = {}
        BY <1>4 DEF Waiting, ToSet
      <4> QED
        BY <4>1, <4>2 DEF Signalled
    <3>3. IsFiniteSet(mux.edges)
      <4>1. IsFiniteSet(Clients \cup {Listen})
        BY MuxAssumption, FS_AddElement
      <4> QED
        BY <4>1, <1>2, FS_Subset DEF Descriptor
    <3>4. PICK n \in Nat : ExistsBijection(1 .. n, mux.edges)
      BY <3>3, FS_NatBijection
    <3>5. PICK s \in [1 .. n -> mux.edges] :
              /\ \A i, j \in 1 .. n : s[i] = s[j] => i = j
              /\ \A x \in mux.edges : \E i \in 1 .. n : s[i] = x
      BY <3>4 DEF ExistsBijection, Bijection, Injection, Surjection, IsInjective
    <3>6. Cardinality(mux.edges) = n
      BY <3>4, FS_CountingElements
    <3>7. s \in SetToSeqs(mux.edges)
      BY <3>5, <3>6 DEF SetToSeqs
    <3>8. s = <<>>
      BY <3>1, <3>7, <1>4 DEF Waiting
    <3>9. n = 0
      BY <3>5, <3>8
    <3> QED
      BY <3>2, <3>5, <3>9
  <2> QED
    BY <2>1, <2>2
<1>5. ASSUME NEW c \in Clients
      PROVE  net.conn[c].read = [i \in 1 .. Len(net.conn[c].read) |-> i]
  <2> DEFINE read == net.conn[c].read
  <2>1. read \in Seq(Nat) /\ \A i \in DOMAIN read : read[i] = i
    BY <1>2 DEF MuxInv, Books, Link
  <2> HIDE DEF read
  <2>2. DOMAIN read = 1 .. Len(read) /\ read = [i \in DOMAIN read |-> read[i]]
    BY <2>1, LenProperties
  <2>3. read = [i \in 1 .. Len(read) |-> i]
    BY <2>1, <2>2
  <2> QED
    BY <2>3 DEF read
<1>6. NothingUnread
  BY <1>3, <1>4, <1>5 DEF NothingUnread
<1>7. ASSUME mux.mode = "rpc", mux.pieces = 1, NEW c \in Clients
      PROVE  LET k == net.conn[c]
             IN  /\ k.echoed = [i \in 1 .. Len(k.echoed) |-> <<i>>]
                 /\ Len(k.echoed) \in {k.sent - 1, k.sent}
  <2> DEFINE k == net.conn[c]
  <2>1. k.echoed \in Seq(Seq(Nat)) /\ k.sent \in Nat
    BY <1>2 DEF Link
  <2>2. /\ \A i \in DOMAIN k.echoed : k.echoed[i] = <<i>>
        /\ k.sent = Len(k.echoed) \/ k.sent = Len(k.echoed) + 1
    BY <1>7 DEF MuxInv, Exchange
  <2> HIDE DEF k
  <2>3. PICK n \in Nat : n = Len(k.echoed)
    BY <2>1, LenProperties
  <2>4. DOMAIN k.echoed = 1 .. n /\ k.echoed = [i \in DOMAIN k.echoed |-> k.echoed[i]]
    BY <2>1, <2>3, LenProperties
  <2>5. k.echoed = [i \in 1 .. n |-> <<i>>]
    BY <2>2, <2>4
  <2>6. n \in {k.sent - 1, k.sent}
    BY <2>1, <2>2, <2>3
  <2> QED
    BY <2>3, <2>5, <2>6 DEF k
<1>8. EchoesOwn
  BY <1>7 DEF EchoesOwn
<1> QED
  BY <1>6, <1>8

LEMMA ConnIs ==
    ASSUME net \in Network, NEW c \in Clients, NEW k \in Link
    PROVE  LET n == [net EXCEPT !.conn[c] = k]
           IN  /\ n \in Network /\ n.backlog = net.backlog /\ n.conn[c] = k
               /\ \A d \in Clients \ {c} : n.conn[d] = net.conn[d]
<1>1. net.conn \in [Clients -> Link] /\ net.backlog \in Seq(Clients)
  BY DEF Network
<1> DEFINE conn == [net.conn EXCEPT ![c] = k]
<1>2. conn \in [Clients -> Link] /\ conn[c] = k /\ \A d \in Clients \ {c} : conn[d] = net.conn[d]
  BY <1>1
<1>3. [net EXCEPT !.conn[c] = k] = [net EXCEPT !.conn = conn]
  BY DEF Network
<1> HIDE DEF conn
<1>4. /\ [net EXCEPT !.conn = conn] \in Network /\ [net EXCEPT !.conn = conn].conn = conn
      /\ [net EXCEPT !.conn = conn].backlog = net.backlog
  BY <1>2 DEF Network
<1> QED
  BY <1>2, <1>3, <1>4

LEMMA ListenIsNone == Listen \notin Clients
  BY MuxAssumption DEF Listen

LEMMA SignalIs ==
    ASSUME mux \in Server, NEW fd \in Descriptor
    PROVE  /\ Signal(fd) \in Server
           /\ \A f \in {"mode", "pieces", "fds", "todo"} : Signal(fd)[f] = mux[f]
           /\ Signal(fd).edges = IF Edge THEN mux.edges \cup ({fd} \cap (ToSet(mux.fds) \cup {Listen}))
                                 ELSE mux.edges
<1> DEFINE edges == mux.edges \cup ({fd} \cap (ToSet(mux.fds) \cup {Listen}))
<1>1. edges \in SUBSET Descriptor
  BY DEF Server
<1>2. Signal(fd) = IF Edge THEN [mux EXCEPT !.edges = edges] ELSE mux
  BY DEF Signal, Watched, Server
<1> HIDE DEF edges
<1>3. Signal(fd) \in Server
      /\ \A f \in {"mode", "pieces", "fds", "todo"} : Signal(fd)[f] = mux[f]
      /\ Signal(fd).edges = IF Edge THEN edges ELSE mux.edges
  BY <1>1, <1>2 DEF Server
<1> QED
  BY <1>3 DEF edges

\* A step of a client of which the server is told or that leaves nothing to tell.
LEMMA ClientStep ==
    ASSUME MuxInv, NEW c \in Clients, NEW k \in Link, k.st = net.conn[c].st,
           net' = [net EXCEPT !.conn[c] = k],
           \/ mux' = Signal(c)
           \/ mux' = mux /\ (k.in # <<>> \/ k.eof => net.conn[c].in # <<>> \/ net.conn[c].eof),
           Books(mux, k), Exchange(mux', c, k)
    PROVE  MuxInv'
<1>1. /\ mux \in Server /\ net \in Network /\ Places(mux, net) /\ TellsAll(mux, net)
      /\ \A d \in Clients : Books(mux, net.conn[d]) /\ Exchange(mux, d, net.conn[d])
  BY DEF MuxInv
<1> DEFINE m == mux'
           n == net'
<1>2. n \in Network /\ n.backlog = net.backlog /\ n.conn[c] = k
      /\ \A d \in Clients \ {c} : n.conn[d] = net.conn[d]
  BY <1>1, ConnIs
<1>3. /\ m \in Server /\ m.mode = mux.mode /\ m.pieces = mux.pieces /\ m.fds = mux.fds
      /\ m.todo = mux.todo /\ mux.edges \subseteq m.edges
      /\ m.edges \subseteq mux.edges \cup ({c} \cap ToSet(mux.fds))
      /\ ~Edge => m.edges = mux.edges
      /\ mux' = Signal(c) /\ Edge /\ c \in ToSet(mux.fds) => c \in m.edges
  <2>1. CASE mux' = mux /\ mux' # Signal(c)
    BY <2>1, <1>1
  <2>2. CASE mux' = Signal(c)
    <3>1. c \in Descriptor /\ c # Listen
      BY ListenIsNone DEF Descriptor
    <3>2. /\ Signal(c) \in Server
          /\ \A f \in {"mode", "pieces", "fds", "todo"} : Signal(c)[f] = mux[f]
          /\ Signal(c).edges = IF Edge THEN mux.edges \cup ({c} \cap (ToSet(mux.fds) \cup {Listen}))
                               ELSE mux.edges
      BY <1>1, <3>1, SignalIs
    <3>3. {c} \cap (ToSet(mux.fds) \cup {Listen}) = {c} \cap ToSet(mux.fds)
      BY <3>1
    <3> QED
      BY <2>2, <3>2, <3>3
  <2> QED
    BY <2>1, <2>2
<1>4. mux' = Signal(c) \/ (k.in # <<>> \/ k.eof => net.conn[c].in # <<>> \/ net.conn[c].eof)
  OBVIOUS
<1>a. Exchange(m, c, k)
  OBVIOUS
<1> HIDE DEF m, n
<1>5. ToSet(mux.fds) \subseteq Clients /\ ToSet(net.backlog) \subseteq Clients
  BY <1>1, LenProperties DEF Server, Network, ToSet
<1>6. /\ Signalled(mux) \subseteq Signalled(m)
      /\ Signalled(m) \subseteq Signalled(mux) \cup ({c} \cap ToSet(mux.fds))
      /\ \A d : d # c => (d \in Signalled(m) <=> d \in Signalled(mux))
                         /\ (d \in m.edges <=> d \in mux.edges)
  BY <1>3 DEF Signalled
<1>7. Places(m, n)
  <2>1. \A d \in ToSet(net.backlog) \cup ToSet(mux.fds) : n.conn[d].st = "open"
    BY <1>1, <1>2, <1>5 DEF Places
  <2>2. Listen # c
    BY ListenIsNone
  <2>3. /\ Signalled(m) \subseteq ToSet(m.fds) \cup {Listen}
        /\ m.mode \notin {"epoll", "rpc"} => m.edges = {}
        /\ Listen \in Signalled(m) => Len(n.backlog) >= 1
        /\ Listen \in m.edges /\ Listen \in ToSet(m.todo) => Len(n.backlog) >= 2
    BY <2>2, <1>1, <1>2, <1>3, <1>6 DEF Places, Edge
  <2> QED
    BY <2>1, <2>3, <1>1, <1>2, <1>3 DEF Places
<1>8. TellsAll(m, n)
  <2>1. SUFFICES ASSUME m.mode \in {"epoll", "rpc"}, NEW d \in ToSet(mux.fds),
                        n.conn[d].in # <<>> \/ n.conn[d].eof
                 PROVE  d \in Signalled(m)
    BY <1>3 DEF TellsAll
  <2>2. net.conn[d].in # <<>> \/ net.conn[d].eof => d \in Signalled(m)
    BY <2>1, <1>1, <1>3, <1>6 DEF TellsAll
  <2>3. CASE d # c
    BY <2>1, <2>2, <2>3, <1>2, <1>5
  <2>4. CASE d = c
    <3>1. mux' = Signal(c) => c \in m.edges
      BY <2>1, <2>4, <1>3 DEF Edge
    <3> QED
      BY <3>1, <2>1, <2>2, <2>4, <1>2, <1>4 DEF Signalled
  <2> QED
    BY <2>3, <2>4
<1>9. ASSUME NEW d \in Clients PROVE Books(m, n.conn[d]) /\ Exchange(m, d, n.conn[d])
  <2>1. CASE d = c
    BY <2>1, <1>2, <1>3, <1>a DEF Books
  <2>2. CASE d # c
    <3>1. Books(mux, net.conn[d]) /\ Exchange(mux, d, net.conn[d]) /\ n.conn[d] = net.conn[d]
      BY <2>2, <1>1, <1>2
    <3>2. Books(m, net.conn[d])
      BY <3>1, <1>3 DEF Books
    <3>3. Exchange(m, d, net.conn[d])
      BY <3>1, <2>2, <1>3, <1>6 DEF Exchange
    <3> QED
      BY <3>1, <3>2, <3>3
  <2> QED
    BY <2>1, <2>2
<1> QED
  BY <1>2, <1>3, <1>7, <1>8, <1>9 DEF MuxInv, m, n

\* A client without a request on its way is not waited for by the server.
LEMMA IdleClient ==
    ASSUME MuxInv, NEW c \in Clients, mux.mode = "rpc", mux.pieces = 1, Answered(c),
           ~net.conn[c].eof
    PROVE  /\ net.conn[c].in = <<>> /\ net.conn[c].reply = <<>>
           /\ net.conn[c].sent = Len(net.conn[c].echoed)
           /\ c \notin ToSet(Signal(c).todo)
<1>1. mux \in Server /\ net.conn[c] \in Link /\ Exchange(mux, c, net.conn[c])
  BY DEF MuxInv, Network
<1> DEFINE k == net.conn[c]
<1>2. k.echoed \in Seq(Seq(Nat)) /\ k.sent \in Nat
  BY <1>1 DEF Link
<1>3. PICK n \in Nat : n = Len(k.echoed)
  BY <1>2, LenProperties
<1>4. k.sent = n
  BY <1>3 DEF Answered
<1>5. k.in = <<>> /\ k.reply = <<>>
  BY <1>1, <1>3, <1>4 DEF Exchange
<1>6. c \notin ToSet(mux.todo)
  BY <1>1, <1>5 DEF Exchange, Signalled
<1>7. Signal(c).todo = mux.todo
  BY <1>1 DEF Signal, Server
<1> QED
  BY <1>3, <1>4, <1>5, <1>6, <1>7

LEMMA SendsStep == ASSUME MuxInv, NEW c \in Clients, Sends(c) PROVE MuxInv'
<1>1. /\ mux \in Server /\ net \in Network /\ Books(mux, net.conn[c])
      /\ Exchange(mux, c, net.conn[c])
  BY DEF MuxInv
<1> DEFINE w == net.conn[c]
           k == [w EXCEPT !.sent = @ + 1, !.in = Append(@, w.sent + 1)]
<1>2. w \in Link /\ w.in \in Seq(Nat) /\ w.sent \in Nat /\ w.read \in Seq(Nat)
  BY <1>1 DEF Network, Link
<1>3. PICK i \in Nat, r \in Nat : i = Len(w.in) /\ r = Len(w.read) /\ DOMAIN w.in = 1 .. i
  BY <1>2, LenProperties
<1>4. w.sent + 1 \in Nat
  BY <1>2
<1>5. /\ Append(w.in, w.sent + 1) \in Seq(Nat) /\ Len(Append(w.in, w.sent + 1)) = i + 1
      /\ Append(w.in, w.sent + 1) # <<>> /\ Append(w.in, w.sent + 1)[i + 1] = w.sent + 1
      /\ \A j \in 1 .. i : Append(w.in, w.sent + 1)[j] = w.in[j]
  <2>1. PICK e \in Nat : e = w.sent + 1
    BY <1>4
  <2> HIDE DEF w
  <2>2. /\ Append(w.in, e) \in Seq(Nat) /\ Len(Append(w.in, e)) = Len(w.in) + 1
        /\ Append(w.in, e) # <<>> /\ Append(w.in, e)[Len(w.in) + 1] = e
        /\ \A j \in 1 .. Len(w.in) : Append(w.in, e)[j] = w.in[j]
    BY <1>2, AppendProperties
  <2> QED
    BY <2>1, <2>2, <1>3
<1>6. net' = [net EXCEPT !.conn[c] = k] /\ mux' = Signal(c) /\ w.st = "open" /\ ~w.eof
  BY <1>1 DEF Sends, Network
<1> DEFINE in == Append(w.in, w.sent + 1)
           sent == w.sent + 1
<1>7. k = [w EXCEPT !.sent = sent, !.in = in] /\ in \in Seq(Nat) /\ sent \in Nat
  BY <1>2, <1>4, <1>5 DEF Link
<1> HIDE DEF w
<1>8. /\ k \in Link /\ k.in = in /\ k.sent = sent /\ k.st = w.st /\ k.eof = w.eof
      /\ k.read = w.read /\ k.reply = w.reply /\ k.echoed = w.echoed
  <2> HIDE DEF k, in, sent
  <2> QED
    BY <1>2, <1>7 DEF Link
<1> HIDE DEF k
<1>9. Books(mux, k)
  <2>1. /\ \A j \in DOMAIN w.read : w.read[j] = j
        /\ r + i = w.sent /\ \A j \in 1 .. i : w.in[j] = r + j
    BY <1>1, <1>3, <1>6 DEF Books, w
  <2>2. r + (i + 1) = w.sent + 1 /\ DOMAIN in = 1 .. i + 1
    BY <2>1, <1>5, LenProperties
  <2>3. ASSUME NEW j \in 1 .. i + 1 PROVE in[j] = r + j
    <3>1. j \in 1 .. i \/ j = i + 1
      OBVIOUS
    <3>2. CASE j = i + 1
      BY <3>2, <2>2, <1>5
    <3>3. CASE j \in 1 .. i
      BY <3>3, <2>1, <1>5
    <3> QED
      BY <3>1, <3>2, <3>3
  <2> HIDE DEF in, sent
  <2>4. k.st # "closed"
    BY <1>6, <1>8
  <2>5. Len(k.read) = r /\ Len(k.in) = i + 1
    BY <1>3, <1>5, <1>8 DEF in
  <2>6. Len(k.read) + Len(k.in) = k.sent
    BY <2>2, <2>5, <1>8 DEF sent
  <2>7. \A j \in DOMAIN k.in : k.in[j] = Len(k.read) + j
    BY <2>2, <2>3, <2>5, <1>8
  <2> QED
    BY <2>1, <2>4, <2>6, <2>7, <1>8 DEF Books
<1>10. Exchange(mux', c, k)
  <2>1. mux'.mode = mux.mode /\ mux'.pieces = mux.pieces
    BY <1>1, <1>6 DEF Signal, Server
  <2>2. SUFFICES ASSUME mux.mode = "rpc", mux.pieces = 1 PROVE Exchange(mux', c, k)
    BY <2>1 DEF Exchange
  <2>3. \A a \in Nat : a % 1 = 0
    OBVIOUS
  <2>4. Answered(c)
    BY <2>2, <2>3, <1>2 DEF Sends, w
  <2>5. w.in = <<>> /\ w.reply = <<>> /\ w.sent = Len(w.echoed) /\ c \notin ToSet(mux'.todo)
    BY <2>2, <2>4, <1>6, IdleClient DEF w
  <2>6. k.in = <<k.sent>> /\ k.reply = <<>> /\ k.sent = Len(k.echoed) + 1 /\ ~k.eof
    BY <2>5, <1>6, <1>8
  <2>7. \A j \in DOMAIN k.echoed : k.echoed[j] = <<j>>
    BY <2>2, <1>1, <1>8 DEF Exchange, w
  <2>8. k.in # <<>>
    BY <2>6
  <2> QED
    BY <2>5, <2>6, <2>7, <2>8 DEF Exchange
<1> QED
  BY <1>6, <1>8, <1>9, <1>10, ClientStep DEF w

LEMMA CloseClientStep == ASSUME MuxInv, NEW c \in Clients, CloseClient(c) PROVE MuxInv'
<1>1. /\ mux \in Server /\ net \in Network /\ Books(mux, net.conn[c])
      /\ Exchange(mux, c, net.conn[c])
  BY DEF MuxInv
<1> DEFINE w == net.conn[c]
           k == [w EXCEPT !.eof = TRUE]
<1>2. w \in Link
  BY <1>1 DEF Network
<1>3. net' = [net EXCEPT !.conn[c] = k] /\ mux' = Signal(c) /\ w.st = "open" /\ ~w.eof
  BY <1>1 DEF CloseClient, Network
<1> HIDE DEF w
<1>4. /\ k \in Link /\ k.eof /\ k.in = w.in /\ k.sent = w.sent /\ k.st = w.st
      /\ k.read = w.read /\ k.reply = w.reply /\ k.echoed = w.echoed
  BY <1>2 DEF Link
<1> HIDE DEF k
<1>5. Books(mux, k)
  BY <1>1, <1>4 DEF Books, w
<1>6. Exchange(mux', c, k)
  <2>1. mux'.mode = mux.mode /\ mux'.pieces = mux.pieces
    BY <1>1, <1>3 DEF Signal, Server
  <2>2. SUFFICES ASSUME mux.mode = "rpc", mux.pieces = 1 PROVE Exchange(mux', c, k)
    BY <2>1 DEF Exchange
  <2>3. Answered(c)
    BY <2>2 DEF CloseClient
  <2>4. w.in = <<>> /\ w.reply = <<>> /\ w.sent = Len(w.echoed) /\ c \notin ToSet(mux'.todo)
    BY <2>2, <2>3, <1>3, IdleClient DEF w
  <2>5. \A j \in DOMAIN k.echoed : k.echoed[j] = <<j>>
    BY <2>2, <1>1, <1>4 DEF Exchange, w
  <2> QED
    BY <2>4, <2>5, <1>4 DEF Exchange
<1> QED
  BY <1>3, <1>4, <1>5, <1>6, ClientStep DEF w

LEMMA ReadReplyStep == ASSUME MuxInv, NEW c \in Clients, ReadReply(c) PROVE MuxInv'
<1>1. /\ mux \in Server /\ net \in Network /\ Books(mux, net.conn[c])
      /\ Exchange(mux, c, net.conn[c])
  BY DEF MuxInv
<1> DEFINE w == net.conn[c]
           echoed == Append(w.echoed, w.reply)
           k == [w EXCEPT !.echoed = echoed, !.reply = <<>>]
<1>2. w \in Link /\ w.echoed \in Seq(Seq(Nat)) /\ w.reply \in Seq(Nat) /\ w.sent \in Nat
  BY <1>1 DEF Network, Link
<1>3. net' = [net EXCEPT !.conn[c] = k] /\ mux' = mux /\ w.reply # <<>>
  BY <1>1 DEF ReadReply, Network
<1>4. PICK n \in Nat : n = Len(w.echoed) /\ DOMAIN w.echoed = 1 .. n
  BY <1>2, LenProperties
<1>5. /\ echoed \in Seq(Seq(Nat)) /\ Len(echoed) = n + 1 /\ echoed[n + 1] = w.reply
      /\ \A j \in 1 .. n : echoed[j] = w.echoed[j]
  BY <1>2, <1>4, AppendProperties
<1>6. DOMAIN echoed = 1 .. n + 1 /\ <<>> \in Seq(Nat)
  BY <1>5, LenProperties, EmptySeq
<1> HIDE DEF w, echoed
<1>7. /\ k \in Link /\ k.eof = w.eof /\ k.in = w.in /\ k.sent = w.sent /\ k.st = w.st
      /\ k.read = w.read /\ k.reply = <<>> /\ k.echoed = echoed
  BY <1>2, <1>5, <1>6 DEF Link
<1> HIDE DEF k
<1>8. Books(mux, k)
  BY <1>1, <1>7 DEF Books, w
<1>9. Exchange(mux, c, k)
  <2>1. SUFFICES ASSUME mux.mode = "rpc", mux.pieces = 1 PROVE Exchange(mux, c, k)
    BY DEF Exchange
  <2>2. /\ \A j \in 1 .. n : w.echoed[j] = <<j>>
        /\ w.sent = n + 1 /\ ~w.eof /\ w.in = <<>> /\ w.reply = <<w.sent>>
        /\ c \in Signalled(mux) => w.in # <<>> \/ w.eof
        /\ c \notin mux.edges \cap ToSet(mux.todo)
    BY <2>1, <1>1, <1>3, <1>4 DEF Exchange, w
  <2>3. ASSUME NEW j \in 1 .. n + 1 PROVE echoed[j] = <<j>>
    <3>1. j \in 1 .. n \/ j = n + 1
      OBVIOUS
    <3>2. CASE j = n + 1
      BY <3>2, <2>2, <1>5
    <3>3. CASE j \in 1 .. n
      BY <3>3, <2>2, <1>5
    <3> QED
      BY <3>1, <3>2, <3>3
  <2> QED
    BY <2>2, <2>3, <1>5, <1>6, <1>7 DEF Exchange
<1> QED
  BY <1>3, <1>7, <1>8, <1>9, ClientStep DEF w

\* The server has handled the event of a client: it goes on watching it, or not.
LEMMA ServedIs ==
    ASSUME mux \in Server, net \in Network, Places(mux, net), mux.todo # <<>>,
           Head(mux.todo) # Listen, NEW m,
           \/ m = [mux EXCEPT !.todo = Tail(@)]
           \/ m = Drop(mux, Head(mux.todo))
    PROVE  LET c == Head(mux.todo)
           IN  /\ c \in Clients /\ c \in ToSet(mux.fds) /\ net.conn[c].st = "open"
               /\ c \in ToSet(mux.todo)
               /\ m \in Server /\ m.mode = mux.mode /\ m.pieces = mux.pieces
               /\ Distinct(m.todo) /\ ToSet(m.todo) = ToSet(mux.todo) \ {c}
               /\ Distinct(m.fds)
               /\ \/ m = [mux EXCEPT !.todo = Tail(@)] /\ m.edges = mux.edges /\ m.fds = mux.fds
                  \/ /\ m = Drop(mux, c) /\ m.edges = mux.edges \ {c}
                     /\ ToSet(m.fds) = ToSet(mux.fds) \ {c}
<1> DEFINE c == Head(mux.todo)
           fds == RemoveAt(mux.fds, CHOOSE i \in DOMAIN mux.fds : mux.fds[i] = c)
           edges == mux.edges \ {c}
           todo == Tail(mux.todo)
<1>1. /\ mux.todo \in Seq(Descriptor) /\ mux.fds \in Seq(Clients)
      /\ mux.edges \in SUBSET Descriptor
  BY DEF Server
<1>2. Distinct(mux.todo) /\ Distinct(mux.fds)
  BY DEF Places
<1>3. /\ c \in ToSet(mux.todo) /\ ToSet(mux.todo) = ToSet(todo) \cup {c}
      /\ Distinct(todo) /\ c \notin ToSet(todo)
  BY <1>1, <1>2, MembersTail
<1>4. todo \in Seq(Descriptor)
  BY <1>1, HeadTailProperties
<1>5. c \in ToSet(mux.fds)
  BY <1>3 DEF Places, Signalled
<1>6. c \in Clients /\ net.conn[c].st = "open"
  <2>1. c \in Clients
    BY <1>1, <1>5, LenProperties DEF ToSet
  <2> QED
    BY <2>1, <1>5 DEF Places
<1>7. fds \in Seq(Clients) /\ Distinct(fds) /\ ToSet(fds) = ToSet(mux.fds) \ {c}
  <2> HIDE DEF c
  <2> QED
    BY <1>1, <1>2, <1>5, MembersRemove
<1>8. ToSet(todo) = ToSet(mux.todo) \ {c} /\ edges \in SUBSET Descriptor
  BY <1>1, <1>3
<1>9. Drop(mux, c) = [mux EXCEPT !.todo = todo, !.edges = edges, !.fds = fds]
      /\ [mux EXCEPT !.todo = Tail(@)] = [mux EXCEPT !.todo = todo]
  BY DEF Drop, Server
<1>a. m = [mux EXCEPT !.todo = Tail(@)] \/ m = Drop(mux, c)
  OBVIOUS
<1> HIDE DEF fds, edges, todo, c
<1> DEFINE less == [mux EXCEPT !.todo = todo, !.edges = edges, !.fds = fds]
           same == [mux EXCEPT !.todo = todo]
<1>b. \/ m = less /\ m = Drop(mux, c)
      \/ m = same /\ m = [mux EXCEPT !.todo = Tail(@)]
  BY <1>9, <1>a
<1>10. less \in Server /\ less.mode = mux.mode /\ less.pieces = mux.pieces
       /\ less.todo = todo /\ less.fds = fds /\ less.edges = edges
  BY <1>4, <1>7, <1>8 DEF Server
<1>11. same \in Server /\ same.mode = mux.mode /\ same.pieces = mux.pieces
       /\ same.todo = todo /\ same.fds = mux.fds /\ same.edges = mux.edges
  BY <1>4 DEF Server
<1> HIDE DEF less, same
<1>12. CASE m = less /\ m = Drop(mux, c)
  BY <1>3, <1>5, <1>6, <1>7, <1>8, <1>10, <1>12 DEF edges, c
<1>13. CASE m = same /\ m = [mux EXCEPT !.todo = Tail(@)]
  BY <1>2, <1>3, <1>5, <1>6, <1>8, <1>11, <1>13 DEF c
<1> QED
  BY <1>b, <1>12, <1>13

LEMMA ServedStep ==
    ASSUME MuxInv, mux.todo # <<>>, Head(mux.todo) # Listen, NEW k \in Link, k.in = <<>>,
           net' = [net EXCEPT !.conn[Head(mux.todo)] = k],
           \/ mux' = [mux EXCEPT !.todo = Tail(@)] /\ ~k.eof /\ k.st = "open"
           \/ mux' = Drop(mux, Head(mux.todo)),
           Books(mux, k), Exchange(mux', Head(mux.todo), k)
    PROVE  MuxInv'
<1> DEFINE c == Head(mux.todo)
           m == mux'
           n == net'
<1>1. /\ mux \in Server /\ net \in Network /\ Places(mux, net) /\ TellsAll(mux, net)
      /\ \A d \in Clients : Books(mux, net.conn[d]) /\ Exchange(mux, d, net.conn[d])
  BY DEF MuxInv
<1>2. /\ c \in Clients /\ c \in ToSet(mux.fds) /\ net.conn[c].st = "open"
      /\ c \in ToSet(mux.todo)
      /\ m \in Server /\ m.mode = mux.mode /\ m.pieces = mux.pieces
      /\ Distinct(m.todo) /\ ToSet(m.todo) = ToSet(mux.todo) \ {c}
      /\ Distinct(m.fds)
      /\ \/ m = [mux EXCEPT !.todo = Tail(@)] /\ m.edges = mux.edges /\ m.fds = mux.fds
         \/ /\ m = Drop(mux, c) /\ m.edges = mux.edges \ {c}
            /\ ToSet(m.fds) = ToSet(mux.fds) \ {c}
  BY <1>1, ServedIs
<1> HIDE DEF c
<1>3. n \in Network /\ n.backlog = net.backlog /\ n.conn[c] = k
      /\ \A d \in Clients \ {c} : n.conn[d] = net.conn[d]
  <2>1. n = [net EXCEPT !.conn[c] = k]
    BY DEF c
  <2>2. net \in Network /\ c \in Clients
    BY <1>1, <1>2
  <2> DEFINE x == [net EXCEPT !.conn[c] = k]
  <2>3. /\ x \in Network /\ x.backlog = net.backlog /\ x.conn[c] = k
        /\ \A d \in Clients \ {c} : x.conn[d] = net.conn[d]
    BY <2>2, ConnIs
  <2> HIDE DEF n, x
  <2>4. n = x
    BY <2>1 DEF x
  <2> QED
    BY <2>3, <2>4
<1>4. Books(mux, k) /\ Exchange(m, c, k) /\ k.in = <<>>
  BY DEF c
<1>5. \/ m.edges = mux.edges /\ ToSet(m.fds) = ToSet(mux.fds) /\ ~k.eof /\ k.st = "open"
      \/ m.edges = mux.edges \ {c} /\ ToSet(m.fds) = ToSet(mux.fds) \ {c}
  <2>1. CASE mux' = [mux EXCEPT !.todo = Tail(@)] /\ ~k.eof /\ k.st = "open"
    BY <2>1, <1>2
  <2>2. CASE m = Drop(mux, c)
    <3>1. Drop(mux, c).edges = mux.edges \ {c}
      BY <1>1 DEF Drop, Server
    <3>3. CASE ToSet(m.fds) = ToSet(mux.fds) \ {c}
      BY <2>2, <3>1, <3>3
    <3>4. CASE m = [mux EXCEPT !.todo = Tail(@)] /\ m.fds = mux.fds
      <4>1. Drop(mux, c).fds = RemoveAt(mux.fds, CHOOSE i \in DOMAIN mux.fds : mux.fds[i] = c)
        BY <1>1 DEF Drop, Server
      <4>2. ToSet(Drop(mux, c).fds) = ToSet(mux.fds) \ {c}
        BY <4>1, <1>1, <1>2, MembersRemove DEF Server, Places
      <4> QED
        BY <2>2, <3>1, <4>2
    <3> QED
      BY <3>3, <3>4, <1>2
  <2> QED
    BY <2>1, <2>2 DEF c
<1> HIDE DEF m, n
<1>6. ToSet(mux.fds) \subseteq Clients /\ ToSet(net.backlog) \subseteq Clients
  BY <1>1, LenProperties DEF Server, Network, ToSet
<1>7. c # Listen
  BY DEF c
<1>8. /\ \A d : d # c => (d \in Signalled(m) <=> d \in Signalled(mux))
                         /\ (d \in m.edges <=> d \in mux.edges)
                         /\ (d \in ToSet(m.fds) <=> d \in ToSet(mux.fds))
                         /\ (d \in ToSet(m.todo) <=> d \in ToSet(mux.todo))
      /\ c \notin ToSet(m.fds) => c \notin Signalled(m)
      /\ m.edges \subseteq mux.edges /\ ToSet(m.fds) \subseteq ToSet(mux.fds)
      /\ c \in ToSet(m.fds) => k.st = "open" /\ ~k.eof
  BY <1>2, <1>5 DEF Signalled
<1>9. Places(m, n)
  <2>1. /\ Distinct(m.fds) /\ Distinct(n.backlog) /\ Distinct(m.todo)
        /\ ToSet(n.backlog) \cap ToSet(m.fds) = {}
    BY <1>1, <1>2, <1>3, <1>8 DEF Places
  <2>2. ASSUME NEW d \in ToSet(n.backlog) \cup ToSet(m.fds) PROVE n.conn[d].st = "open"
    <3>1. d \in Clients /\ d \in ToSet(net.backlog) \cup ToSet(mux.fds)
      BY <1>3, <1>6, <1>8
    <3>2. CASE d = c
      <4>1. c \in ToSet(m.fds)
        BY <2>2, <3>2, <1>1, <1>2, <1>3 DEF Places
      <4> QED
        BY <4>1, <3>2, <1>3, <1>8
    <3>3. CASE d # c
      BY <3>1, <3>3, <1>1, <1>3 DEF Places
    <3> QED
      BY <3>2, <3>3
  <2>3. Signalled(m) \subseteq ToSet(m.fds) \cup {Listen}
    BY <1>1, <1>8 DEF Places
  <2>4. m.mode \notin {"epoll", "rpc"} => m.edges = {}
    BY <1>1, <1>2, <1>8 DEF Places
  <2>5. /\ Listen \in Signalled(m) => Len(n.backlog) >= 1
        /\ Listen \in m.edges /\ Listen \in ToSet(m.todo) => Len(n.backlog) >= 2
    BY <1>1, <1>3, <1>7, <1>8 DEF Places
  <2> QED
    BY <2>1, <2>2, <2>3, <2>4, <2>5 DEF Places
<1>10. TellsAll(m, n)
  <2>1. SUFFICES ASSUME m.mode \in {"epoll", "rpc"}, NEW d \in ToSet(m.fds),
                        n.conn[d].in # <<>> \/ n.conn[d].eof
                 PROVE  d \in Signalled(m)
    BY DEF TellsAll
  <2>2. d # c
    BY <2>1, <1>3, <1>4, <1>8
  <2>3. d \in Clients /\ d \in ToSet(mux.fds) /\ n.conn[d] = net.conn[d]
    BY <2>2, <1>3, <1>6, <1>8
  <2> QED
    BY <2>1, <2>2, <2>3, <1>1, <1>2, <1>8 DEF TellsAll
<1>11. ASSUME NEW d \in Clients PROVE Books(m, n.conn[d]) /\ Exchange(m, d, n.conn[d])
  <2>1. CASE d = c
    BY <2>1, <1>2, <1>3, <1>4 DEF Books
  <2>2. CASE d # c
    <3>1. Books(mux, net.conn[d]) /\ Exchange(mux, d, net.conn[d]) /\ n.conn[d] = net.conn[d]
      BY <2>2, <1>1, <1>3
    <3>2. Books(m, net.conn[d])
      BY <3>1, <1>2 DEF Books
    <3>3. Exchange(m, d, net.conn[d])
      BY <3>1, <2>2, <1>2, <1>8 DEF Exchange
    <3> QED
      BY <3>1, <3>2, <3>3
  <2> QED
    BY <2>1, <2>2
<1> QED
  BY <1>2, <1>3, <1>9, <1>10, <1>11 DEF MuxInv, m, n

\* Reading all that has arrived keeps the books.
LEMMA ReadAll ==
    ASSUME NEW m, NEW w \in Link, Books(m, w), w.st # "closed",
           NEW k, k.read = w.read \o w.in, k.in = <<>>, k.sent = w.sent, k.st = w.st
    PROVE  Books(m, k) /\ k.read \in Seq(Nat)
<1>1. w.read \in Seq(Nat) /\ w.in \in Seq(Nat) /\ w.sent \in Nat
  BY DEF Link
<1>2. PICK r \in Nat, i \in Nat : /\ r = Len(w.read) /\ DOMAIN w.read = 1 .. r
                                  /\ i = Len(w.in) /\ DOMAIN w.in = 1 .. i
  BY <1>1, LenProperties
<1>3. /\ \A j \in 1 .. r : w.read[j] = j
      /\ r + i = w.sent /\ \A j \in 1 .. i : w.in[j] = r + j
  BY <1>2 DEF Books
<1> DEFINE read == w.read \o w.in
<1>4. /\ read \in Seq(Nat) /\ Len(read) = Len(w.read) + Len(w.in)
      /\ \A j \in 1 .. Len(w.read) + Len(w.in) :
             read[j] = IF j <= Len(w.read) THEN w.read[j] ELSE w.in[j - Len(w.read)]
  BY <1>1, ConcatProperties
<1> HIDE DEF read
<1>5. DOMAIN read = 1 .. r + i /\ Len(read) = r + i
  BY <1>2, <1>4, LenProperties
<1>6. ASSUME NEW j \in 1 .. r + i PROVE read[j] = j
  <2>1. read[j] = IF j <= r THEN w.read[j] ELSE w.in[j - r]
    BY <1>2, <1>4
  <2>2. CASE j <= r
    <3>1. j \in 1 .. r
      BY <2>2
    <3> QED
      BY <2>1, <2>2, <3>1, <1>3
  <2>3. CASE ~(j <= r)
    <3>1. j - r \in 1 .. i /\ r + (j - r) = j
      BY <2>3
    <3> QED
      BY <2>1, <2>3, <3>1, <1>3
  <2> QED
    BY <2>2, <2>3
<1>7. Len(k.read) + Len(k.in) = k.sent
  <2>1. Len(<<>>) = 0 /\ k.read = read
    BY DEF read
  <2>2. r + i + 0 = w.sent
    BY <1>3
  <2> QED
    BY <2>1, <2>2, <1>5
<1>8. DOMAIN k.in = {} /\ k.read = read
  BY DEF read
<1> QED
  BY <1>4, <1>5, <1>6, <1>7, <1>8 DEF Books

LEMMA HandleStep == ASSUME MuxInv, Handle PROVE MuxInv'
<1> DEFINE c == Head(mux.todo)
           w == net.conn[c]
           read == w.read \o w.in
           k == [w EXCEPT !.read = read, !.in = <<>>]
<1>1. /\ mux \in Server /\ net \in Network /\ Places(mux, net)
      /\ \A d \in Clients : Books(mux, net.conn[d])
  BY DEF MuxInv
<1>2. mux.mode # "rpc" /\ mux.todo # <<>> /\ c # Listen
  BY DEF Handle
<1>3. c \in Clients /\ w.st = "open"
  <2>1. PICK m : m = [mux EXCEPT !.todo = Tail(@)]
    OBVIOUS
  <2> QED
    BY <2>1, <1>1, <1>2, ServedIs
<1>4. w \in Link /\ Books(mux, w)
  BY <1>1, <1>3 DEF Network
<1>5. net' = [net EXCEPT !.conn[c] = k]
  BY <1>1, <1>3 DEF Handle, Network
<1>6. mux' = IF w.eof THEN Drop(mux, c) ELSE [mux EXCEPT !.todo = Tail(@)]
  BY DEF Handle
<1> HIDE DEF w, c
<1>7. read \in Seq(Nat) /\ <<>> \in Seq(Nat)
  BY <1>4, ConcatProperties, EmptySeq DEF Link
<1>8. /\ k \in Link /\ k.read = w.read \o w.in /\ k.in = <<>> /\ k.sent = w.sent
      /\ k.st = w.st /\ k.eof = w.eof
  <2> HIDE DEF read
  <2>1. /\ k \in Link /\ k.read = read /\ k.in = <<>> /\ k.sent = w.sent
        /\ k.st = w.st /\ k.eof = w.eof
    BY <1>4, <1>7 DEF Link
  <2> QED
    BY <2>1 DEF read
<1> HIDE DEF k
<1>9. Books(mux, k)
  BY <1>3, <1>4, <1>8, ReadAll
<1>10. Exchange(mux', c, k)
  <2>1. mux'.mode = mux.mode
    BY <1>1, <1>6 DEF Drop, Server
  <2> QED
    BY <2>1, <1>2 DEF Exchange
<1>11. \/ mux' = [mux EXCEPT !.todo = Tail(@)] /\ ~k.eof /\ k.st = "open"
       \/ mux' = Drop(mux, c)
  BY <1>3, <1>6, <1>8
<1> QED
  BY <1>2, <1>5, <1>8, <1>9, <1>10, <1>11, ServedStep DEF c

LEMMA RecvDataStep == ASSUME MuxInv, RecvData PROVE MuxInv'
<1> DEFINE c == Head(mux.todo)
           w == net.conn[c]
           read == w.read \o w.in
           answer == IF Len(w.in) = mux.pieces THEN w.in ELSE <<0>>
           reply == w.reply \o answer
           k == [w EXCEPT !.in = <<>>, !.read = read, !.reply = reply]
           e == [w EXCEPT !.in = <<>>, !.st = "closed"]
<1>1. /\ mux \in Server /\ net \in Network /\ Places(mux, net)
      /\ \A d \in Clients : Books(mux, net.conn[d]) /\ Exchange(mux, d, net.conn[d])
  BY DEF MuxInv
<1>2. mux.mode = "rpc" /\ mux.todo # <<>> /\ c # Listen
  BY DEF RecvData
<1>3. /\ c \in Clients /\ w.st = "open" /\ c \in ToSet(mux.todo)
      /\ mux' \in Server /\ mux'.mode = mux.mode /\ mux'.pieces = mux.pieces
      /\ ToSet(mux'.todo) = ToSet(mux.todo) \ {c}
  <2>1. mux' = [mux EXCEPT !.todo = Tail(@)] \/ mux' = Drop(mux, Head(mux.todo))
    BY DEF RecvData
  <2>2. PICK m : m = mux'
    OBVIOUS
  <2>3. m = [mux EXCEPT !.todo = Tail(@)] \/ m = Drop(mux, Head(mux.todo))
    BY <2>1, <2>2
  <2> HIDE DEF w
  <2>4. /\ c \in Clients /\ net.conn[c].st = "open" /\ c \in ToSet(mux.todo)
        /\ m \in Server /\ m.mode = mux.mode /\ m.pieces = mux.pieces
        /\ ToSet(m.todo) = ToSet(mux.todo) \ {c}
    BY <2>3, <1>1, <1>2, ServedIs
  <2> QED
    BY <2>2, <2>4 DEF w
<1>4. w \in Link /\ Books(mux, w) /\ Exchange(mux, c, w)
  BY <1>1, <1>3 DEF Network
<1>5. \/ w.eof /\ net' = [net EXCEPT !.conn[c] = e] /\ mux' = Drop(mux, c)
      \/ ~w.eof /\ net' = [net EXCEPT !.conn[c] = k] /\ mux' = [mux EXCEPT !.todo = Tail(@)]
  <2>1. net.conn \in [Clients -> Link] /\ c \in Clients
    BY <1>1, <1>3 DEF Network
  <2>2. CASE w.eof
    <3>1. net' = [net EXCEPT !.conn[c].in = <<>>, !.conn[c].st = "closed"]
          /\ mux' = Drop(mux, c)
      BY <2>2 DEF RecvData
    <3>2. net' = [net EXCEPT !.conn[c] = e]
      BY <2>1, <3>1, <1>1 DEF Network
    <3> QED
      BY <2>2, <3>1, <3>2
  <2>3. CASE ~w.eof
    <3>1. /\ net' = [net EXCEPT !.conn[c].in = <<>>, !.conn[c].read = @ \o w.in,
                                !.conn[c].reply = @ \o answer]
          /\ mux' = [mux EXCEPT !.todo = Tail(@)]
      BY <2>3 DEF RecvData
    <3>2. net' = [net EXCEPT !.conn[c] = k]
      <4> HIDE DEF answer
      <4> QED
        BY <2>1, <3>1, <1>1 DEF Network
    <3> QED
      BY <2>3, <3>1, <3>2
  <2> QED
    BY <2>2, <2>3
<1> HIDE DEF w, c
<1>6. CASE w.eof /\ net' = [net EXCEPT !.conn[c] = e] /\ mux' = Drop(mux, c)
  <2>1. <<>> \in Seq(Nat)
    BY EmptySeq
  <2>2. /\ e \in Link /\ e.in = <<>> /\ e.st = "closed" /\ e.read = w.read /\ e.sent = w.sent
        /\ e.reply = w.reply /\ e.echoed = w.echoed /\ e.eof
    BY <2>1, <1>4, <1>6 DEF Link
  <2> HIDE DEF e
  <2>3. Books(mux, e)
    BY <2>2, <1>2, <1>4 DEF Books
  <2>4. Exchange(mux', c, e)
    <3>1. SUFFICES ASSUME mux.mode = "rpc", mux.pieces = 1 PROVE Exchange(mux', c, e)
      BY <1>3 DEF Exchange
    <3>2. /\ \A j \in DOMAIN w.echoed : w.echoed[j] = <<j>>
          /\ w.sent = Len(w.echoed) /\ w.in = <<>> /\ w.reply = <<>>
      BY <3>1, <1>4, <1>6 DEF Exchange
    <3>3. c \notin ToSet(mux'.todo)
      BY <1>3
    <3> QED
      BY <3>2, <3>3, <2>2 DEF Exchange
  <2> QED
    BY <2>2, <2>3, <2>4, <1>2, <1>6, ServedStep DEF c
<1>7. CASE ~w.eof /\ net' = [net EXCEPT !.conn[c] = k] /\ mux' = [mux EXCEPT !.todo = Tail(@)]
  <2>1. <<>> \in Seq(Nat) /\ <<0>> \in Seq(Nat) /\ w.in \in Seq(Nat) /\ w.read \in Seq(Nat)
        /\ w.reply \in Seq(Nat)
    BY <1>4, EmptySeq DEF Link
  <2>2. read \in Seq(Nat) /\ answer \in Seq(Nat)
    BY <2>1, ConcatProperties
  <2> HIDE DEF read, answer
  <2>3. reply \in Seq(Nat)
    BY <2>1, <2>2, ConcatProperties
  <2> HIDE DEF reply
  <2>4. /\ k \in Link /\ k.in = <<>> /\ k.st = w.st /\ k.read = read /\ k.sent = w.sent
        /\ k.reply = reply /\ k.echoed = w.echoed /\ k.eof = w.eof
    BY <2>1, <2>2, <2>3, <1>4 DEF Link
  <2> HIDE DEF k
  <2>5. k.read = w.read \o w.in /\ w.st # "closed"
    BY <2>4, <1>3 DEF read
  <2>6. Books(mux, k)
    BY <2>4, <2>5, <1>4, ReadAll
  <2>7. Exchange(mux', c, k)
    <3>1. SUFFICES ASSUME mux.mode = "rpc", mux.pieces = 1 PROVE Exchange(mux', c, k)
      BY <1>3 DEF Exchange
    <3>2. c \in Signalled(mux) /\ c \notin mux.edges
      BY <3>1, <1>3, <1>4 DEF Exchange, Signalled
    <3>3. /\ \A j \in DOMAIN w.echoed : w.echoed[j] = <<j>>
          /\ w.sent = Len(w.echoed) + 1 /\ w.in = <<w.sent>> /\ w.reply = <<>>
      BY <3>1, <3>2, <1>4, <1>7 DEF Exchange
    <3>4. answer = <<w.sent>>
      BY <3>1, <3>3 DEF answer
    <3>5. reply = <<w.sent>>
      <4>1. <<>> \o answer = answer
        BY <2>2, ConcatEmptySeq
      <4> QED
        BY <4>1, <3>3, <3>4 DEF reply
    <3>6. mux'.edges = mux.edges
      BY <1>1, <1>7 DEF Server
    <3>7. c \notin Signalled(mux')
      BY <3>2, <3>6, <1>3 DEF Signalled
    <3> QED
      BY <3>3, <3>5, <3>7, <2>4, <1>7 DEF Exchange, Signalled
  <2>8. ~k.eof /\ k.st = "open" /\ k.in = <<>> /\ k \in Link
    BY <2>4, <1>3, <1>7
  <2> QED
    BY <2>6, <2>7, <2>8, <1>2, <1>7, ServedStep DEF c
<1> QED
  BY <1>5, <1>6, <1>7

\* What is agreed with a client depends on its own books and on what is told of it.
LEMMA SameExchange ==
    ASSUME NEW m, NEW o, NEW c, NEW k, NEW w, Exchange(m, c, k),
           o.mode = m.mode, o.pieces = m.pieces,
           \A f \in {"in", "sent", "eof", "read", "reply", "echoed"} : w[f] = k[f],
           c \in Signalled(o) <=> c \in Signalled(m),
           c \in o.edges \cap ToSet(o.todo) <=> c \in m.edges \cap ToSet(m.todo)
    PROVE  Exchange(o, c, w)
<1>1. w.in = k.in /\ w.sent = k.sent /\ w.eof = k.eof /\ w.reply = k.reply /\ w.echoed = k.echoed
  OBVIOUS
<1> QED
  BY <1>1 DEF Exchange

LEMMA ConnectClientStep == ASSUME MuxInv, NEW c \in Clients, ConnectClient(c) PROVE MuxInv'
<1>1. /\ mux \in Server /\ net \in Network /\ Places(mux, net) /\ TellsAll(mux, net)
      /\ \A d \in Clients : Books(mux, net.conn[d]) /\ Exchange(mux, d, net.conn[d])
  BY DEF MuxInv
<1> DEFINE w == net.conn[c]
           k == [w EXCEPT !.st = "open"]
           backlog == Append(net.backlog, c)
           conn == [net.conn EXCEPT ![c] = k]
           m == mux'
           n == net'
<1>2. net.backlog \in Seq(Clients) /\ net.conn \in [Clients -> Link] /\ w \in Link
      /\ w.st = "new"
  BY <1>1 DEF Network, ConnectClient
<1>3. /\ k \in Link /\ k.in = w.in /\ k.sent = w.sent /\ k.eof = w.eof /\ k.st = "open"
      /\ k.read = w.read /\ k.reply = w.reply /\ k.echoed = w.echoed
  <2> HIDE DEF w
  <2> QED
    BY <1>2 DEF Link
<1>4. n = [backlog |-> backlog, conn |-> conn]
  BY <1>2 DEF ConnectClient
<1>5. c \notin ToSet(net.backlog) /\ c \notin ToSet(mux.fds)
  BY <1>1, <1>2 DEF Places
<1> HIDE DEF k
<1>6. conn \in [Clients -> Link] /\ conn[c] = k /\ \A d \in Clients \ {c} : conn[d] = net.conn[d]
  BY <1>2, <1>3
<1>7. /\ backlog \in Seq(Clients) /\ Len(backlog) = Len(net.backlog) + 1
      /\ ToSet(backlog) = ToSet(net.backlog) \cup {c} /\ Distinct(backlog)
  BY <1>1, <1>2, <1>5, AppendProperties, MembersAppend DEF Places
<1> HIDE DEF conn, backlog
<1>8. n \in Network /\ n.backlog = backlog /\ n.conn = conn
  BY <1>4, <1>6, <1>7 DEF Network
<1>9. /\ m \in Server /\ m.mode = mux.mode /\ m.pieces = mux.pieces /\ m.fds = mux.fds
      /\ m.todo = mux.todo /\ mux.edges \subseteq m.edges
      /\ m.edges \subseteq mux.edges \cup {Listen}
      /\ ~Edge => m.edges = mux.edges
  <2>1. Listen \in Descriptor
    BY DEF Descriptor
  <2>2. /\ Signal(Listen) \in Server
        /\ \A f \in {"mode", "pieces", "fds", "todo"} : Signal(Listen)[f] = mux[f]
        /\ Signal(Listen).edges = IF Edge
              THEN mux.edges \cup ({Listen} \cap (ToSet(mux.fds) \cup {Listen})) ELSE mux.edges
    BY <1>1, <2>1, SignalIs
  <2>3. m = Signal(Listen)
    BY DEF ConnectClient
  <2> QED
    BY <2>2, <2>3
<1> HIDE DEF m, n, w
<1>10. ToSet(mux.fds) \subseteq Clients /\ ToSet(net.backlog) \subseteq Clients
       /\ Len(net.backlog) \in Nat
  BY <1>1, LenProperties DEF Server, Network, ToSet
<1>11. /\ Signalled(mux) \subseteq Signalled(m)
       /\ Signalled(m) \subseteq Signalled(mux) \cup {Listen}
  BY <1>9 DEF Signalled
<1>12. Places(m, n)
  <2>1. /\ Distinct(m.fds) /\ Distinct(n.backlog) /\ Distinct(m.todo)
        /\ ToSet(n.backlog) \cap ToSet(m.fds) = {}
    BY <1>1, <1>5, <1>7, <1>8, <1>9 DEF Places
  <2>2. \A d \in ToSet(n.backlog) \cup ToSet(m.fds) : n.conn[d].st = "open"
    <3>1. ASSUME NEW d \in ToSet(n.backlog) \cup ToSet(m.fds) PROVE n.conn[d].st = "open"
      <4>1. d = c \/ d \in ToSet(net.backlog) \cup ToSet(mux.fds)
        BY <1>7, <1>8, <1>9
      <4>2. CASE d = c
        BY <4>2, <1>3, <1>6, <1>8
      <4>3. CASE d # c
        BY <4>1, <4>3, <1>1, <1>6, <1>8, <1>10 DEF Places
      <4> QED
        BY <4>2, <4>3
    <3> QED
      BY <3>1
  <2>3. Signalled(m) \subseteq ToSet(m.fds) \cup {Listen}
        /\ (m.mode \notin {"epoll", "rpc"} => m.edges = {})
    BY <1>1, <1>9, <1>11 DEF Places, Edge
  <2>4. Len(n.backlog) >= 1
    BY <1>7, <1>8, <1>10
  <2>5. Listen \in ToSet(m.todo) => Len(n.backlog) >= 2
    <3>1. Listen \in ToSet(mux.todo) => Len(net.backlog) >= 1
      BY <1>1 DEF Places, Signalled
    <3> QED
      BY <3>1, <1>7, <1>8, <1>9, <1>10
  <2> QED
    BY <2>1, <2>2, <2>3, <2>4, <2>5 DEF Places
<1>13. TellsAll(m, n)
  <2>1. SUFFICES ASSUME m.mode \in {"epoll", "rpc"}, NEW d \in ToSet(m.fds),
                        n.conn[d].in # <<>> \/ n.conn[d].eof
                 PROVE  d \in Signalled(m)
    BY DEF TellsAll
  <2>2. d \in Clients /\ d # c /\ d \in ToSet(mux.fds) /\ n.conn[d] = net.conn[d]
    BY <1>5, <1>6, <1>8, <1>9, <1>10
  <2> QED
    BY <2>1, <2>2, <1>1, <1>9, <1>11 DEF TellsAll
<1>14. ASSUME NEW d \in Clients PROVE Books(m, n.conn[d]) /\ Exchange(m, d, n.conn[d])
  <2>1. d # Listen
    BY ListenIsNone
  <2>2. Books(mux, net.conn[d]) /\ Exchange(mux, d, net.conn[d])
    BY <1>1
  <2>3. \A f \in {"in", "sent", "eof", "read", "reply", "echoed"} : n.conn[d][f] = net.conn[d][f]
    <3>1. CASE d = c
      BY <3>1, <1>3, <1>6, <1>8 DEF w
    <3>2. CASE d # c
      BY <3>2, <1>6, <1>8
    <3> QED
      BY <3>1, <3>2
  <2>4. (d \in Signalled(m) <=> d \in Signalled(mux))
        /\ (d \in m.edges \cap ToSet(m.todo) <=> d \in mux.edges \cap ToSet(mux.todo))
    BY <2>1, <1>9, <1>11 DEF Signalled
  <2>5. (net.conn[d].st = "closed" <=> n.conn[d].st = "closed")
    <3>1. CASE d = c
      BY <3>1, <1>2, <1>3, <1>6, <1>8 DEF w
    <3>2. CASE d # c
      BY <3>2, <1>6, <1>8
    <3> QED
      BY <3>1, <3>2
  <2>6. Books(m, n.conn[d])
    BY <2>2, <2>3, <2>5, <1>9 DEF Books
  <2>7. Exchange(m, d, n.conn[d])
    BY <2>2, <2>3, <2>4, <1>9, SameExchange
  <2> QED
    BY <2>6, <2>7
<1> QED
  BY <1>8, <1>9, <1>12, <1>13, <1>14 DEF MuxInv, m, n

LEMMA WaitEventsStep == ASSUME MuxInv, WaitEvents PROVE MuxInv'
<1>1. /\ mux \in Server /\ net \in Network /\ Places(mux, net) /\ TellsAll(mux, net)
      /\ \A d \in Clients : Books(mux, net.conn[d]) /\ Exchange(mux, d, net.conn[d])
      /\ mux.edges \in SUBSET Descriptor /\ mux.fds \in Seq(Clients)
  BY DEF MuxInv, Server
<1>2. PICK events \in Ready : events # <<>> /\ mux' = [mux EXCEPT !.todo = events, !.edges = {}]
  BY DEF WaitEvents
<1>3. mux.todo = <<>> /\ net' = net
  BY DEF WaitEvents
<1>4. ToSet(mux.todo) = {} /\ Signalled(mux) = mux.edges
  BY <1>3 DEF ToSet, Signalled
<1>5. ToSet(mux.fds) \subseteq Clients
  BY <1>1, LenProperties DEF ToSet
<1>6. IsFiniteSet(Descriptor)
  BY MuxAssumption, FS_AddElement DEF Descriptor
<1>7. /\ events \in Seq(Descriptor) /\ Distinct(events)
      /\ ToSet(events) \subseteq ToSet(mux.fds) \cup {Listen}
      /\ Edge => ToSet(events) = mux.edges
      /\ Listen \in ToSet(events) => Len(net.backlog) >= 1
  <2>1. CASE Edge
    <3>1. events \in SetToSeqs(mux.edges) /\ IsFiniteSet(mux.edges)
      BY <2>1, <1>1, <1>2, <1>6, FS_Subset DEF Ready
    <3>2. events \in Seq(mux.edges) /\ Distinct(events) /\ ToSet(events) = mux.edges
      BY <3>1, EnumerationIs
    <3>3. events \in Seq(Descriptor)
      BY <3>2, <1>1, SeqMonotonic
    <3>4. mux.edges \subseteq ToSet(mux.fds) \cup {Listen}
          /\ (Listen \in mux.edges => Len(net.backlog) >= 1)
      BY <1>1, <1>4 DEF Places
    <3> QED
      BY <3>2, <3>3, <3>4
  <2>2. CASE ~Edge /\ net.backlog # <<>>
    <3>1. events = <<Listen>>
      BY <2>2, <1>2 DEF Ready
    <3>2. events \in Seq(Descriptor) /\ ToSet(events) = {Listen} /\ Distinct(events)
      BY <3>1 DEF Descriptor, ToSet, Distinct
    <3>3. Len(net.backlog) >= 1
      <4>1. Len(net.backlog) \in Nat \ {0}
        BY <2>2, <1>1, EmptySeq DEF Network
      <4> QED
        BY <4>1
    <3> QED
      BY <3>2, <3>3, <2>2
  <2>3. CASE ~Edge /\ net.backlog = <<>>
    <3> DEFINE R == {c \in Watched : Readable(c)}
    <3>1. R \subseteq ToSet(mux.fds) /\ R \subseteq Descriptor
      BY <1>5 DEF Watched, Descriptor
    <3>2. events \in SetToSeqs(R)
      BY <2>3, <1>2 DEF Ready
    <3>3. IsFiniteSet(R)
      BY <3>1, <1>6, FS_Subset
    <3> HIDE DEF R
    <3>4. events \in Seq(R) /\ Distinct(events) /\ ToSet(events) = R
      BY <3>2, <3>3, EnumerationIs
    <3>5. events \in Seq(Descriptor)
      BY <3>1, <3>4, SeqMonotonic
    <3>6. Listen \notin R
      BY <3>1, <1>5, ListenIsNone
    <3> QED
      BY <3>1, <3>4, <3>5, <3>6, <2>3
  <2> QED
    BY <2>1, <2>2, <2>3
<1>8. /\ mux' \in Server /\ mux'.mode = mux.mode /\ mux'.pieces = mux.pieces
      /\ mux'.fds = mux.fds /\ mux'.todo = events /\ mux'.edges = {}
  BY <1>1, <1>2, <1>7 DEF Server
<1>9. Signalled(mux') = ToSet(events)
  BY <1>8 DEF Signalled
<1>10. Places(mux', net')
  BY <1>1, <1>3, <1>7, <1>8, <1>9 DEF Places
<1>11. TellsAll(mux', net')
  BY <1>1, <1>3, <1>4, <1>7, <1>8, <1>9 DEF TellsAll, Edge
<1>12. ASSUME NEW d \in Clients PROVE Books(mux', net.conn[d]) /\ Exchange(mux', d, net.conn[d])
  <2>1. Books(mux', net.conn[d])
    BY <1>1, <1>8 DEF Books
  <2>2. Exchange(mux', d, net.conn[d])
    <3>1. SUFFICES ASSUME mux.mode = "rpc", mux.pieces = 1 PROVE Exchange(mux', d, net.conn[d])
      BY <1>8 DEF Exchange
    <3>2. Signalled(mux') = Signalled(mux)
      BY <3>1, <1>4, <1>7, <1>9 DEF Edge
    <3> QED
      BY <3>1, <3>2, <1>1, <1>8 DEF Exchange
  <2> QED
    BY <2>1, <2>2
<1> QED
  BY <1>1, <1>3, <1>8, <1>10, <1>11, <1>12 DEF MuxInv

LEMMA AcceptOneStep == ASSUME MuxInv, AcceptOne PROVE MuxInv'
<1>1. /\ mux \in Server /\ net \in Network /\ Places(mux, net) /\ TellsAll(mux, net)
      /\ \A d \in Clients : Books(mux, net.conn[d]) /\ Exchange(mux, d, net.conn[d])
  BY DEF MuxInv
<1> DEFINE c == Head(net.backlog)
           backlog == Tail(net.backlog)
           todo == Tail(mux.todo)
           fds == Append(mux.fds, c)
           edges == IF Edge /\ Readable(c) THEN mux.edges \cup {c} ELSE mux.edges
           m == mux'
           n == net'
<1>2. /\ net.backlog \in Seq(Clients) /\ net.conn \in [Clients -> Link]
      /\ mux.todo \in Seq(Descriptor) /\ mux.fds \in Seq(Clients)
      /\ mux.edges \in SUBSET Descriptor
      /\ mux.todo # <<>> /\ Head(mux.todo) = Listen
  BY <1>1 DEF Server, Network, AcceptOne
<1>3. /\ Listen \in ToSet(mux.todo) /\ ToSet(mux.todo) = ToSet(todo) \cup {Listen}
      /\ Distinct(todo) /\ Listen \notin ToSet(todo) /\ todo \in Seq(Descriptor)
  BY <1>1, <1>2, MembersTail, HeadTailProperties DEF Places
<1>4. /\ Len(net.backlog) \in Nat /\ Len(net.backlog) >= 1 /\ net.backlog # <<>>
      /\ Listen \in mux.edges => Len(net.backlog) >= 2
  <2>1. Len(net.backlog) \in Nat /\ Len(net.backlog) >= 1
    BY <1>1, <1>2, <1>3, LenProperties DEF Places, Signalled
  <2>2. net.backlog # <<>>
    BY <2>1, <1>2, EmptySeq
  <2> QED
    BY <2>1, <2>2, <1>1, <1>3 DEF Places
<1>5. /\ c \in ToSet(net.backlog) /\ ToSet(net.backlog) = ToSet(backlog) \cup {c}
      /\ Distinct(backlog) /\ c \notin ToSet(backlog)
  BY <1>1, <1>2, <1>4, MembersTail DEF Places
<1>6. /\ backlog \in Seq(Clients) /\ Len(backlog) = Len(net.backlog) - 1 /\ c \in Clients
  BY <1>2, <1>4, HeadTailProperties
<1>7. c \notin ToSet(mux.fds) /\ c # Listen /\ net.conn[c].st = "open"
  BY <1>1, <1>5, <1>6, ListenIsNone DEF Places
<1>8. fds \in Seq(Clients) /\ ToSet(fds) = ToSet(mux.fds) \cup {c} /\ Distinct(fds)
  <2> HIDE DEF c
  <2> QED
    BY <1>1, <1>2, <1>6, <1>7, AppendProperties, MembersAppend DEF Places
<1>9. edges \in SUBSET Descriptor
  BY <1>2, <1>6 DEF Descriptor
<1>10. n = [net EXCEPT !.backlog = backlog]
       /\ m = [mux EXCEPT !.todo = todo, !.fds = fds, !.edges = edges]
  BY <1>1 DEF AcceptOne, Server, Network
<1>11. edges = IF Edge /\ Readable(c) THEN mux.edges \cup {c} ELSE mux.edges
  OBVIOUS
<1> HIDE DEF m, n, edges, fds, todo, backlog, c
<1>12. n \in Network /\ n.backlog = backlog /\ n.conn = net.conn
  BY <1>1, <1>6, <1>10 DEF Network
<1>13. /\ m \in Server /\ m.mode = mux.mode /\ m.pieces = mux.pieces /\ m.fds = fds
       /\ m.todo = todo /\ m.edges = edges
  BY <1>1, <1>3, <1>8, <1>9, <1>10 DEF Server
<1>14. ToSet(mux.fds) \subseteq Clients /\ ToSet(net.backlog) \subseteq Clients
  BY <1>2, LenProperties DEF ToSet
<1>15. c \notin Signalled(mux)
  BY <1>1, <1>7 DEF Places
<1>16. /\ \A d : d # c /\ d # Listen =>
              (d \in Signalled(m) <=> d \in Signalled(mux))
              /\ (d \in m.edges \cap ToSet(m.todo) <=> d \in mux.edges \cap ToSet(mux.todo))
       /\ c \in Signalled(m) <=> Edge /\ Readable(c)
       /\ c \notin ToSet(m.todo)
       /\ Listen \in Signalled(m) <=> Listen \in mux.edges
       /\ Listen \notin ToSet(m.todo)
       /\ Signalled(m) \subseteq Signalled(mux) \cup {c}
  BY <1>3, <1>7, <1>11, <1>13, <1>15 DEF Signalled
<1>17. Places(m, n)
  <2>1. /\ Distinct(m.fds) /\ Distinct(n.backlog) /\ Distinct(m.todo)
        /\ ToSet(n.backlog) \cap ToSet(m.fds) = {}
    BY <1>1, <1>3, <1>5, <1>8, <1>12, <1>13 DEF Places
  <2>2. \A d \in ToSet(n.backlog) \cup ToSet(m.fds) : n.conn[d].st = "open"
    BY <1>1, <1>5, <1>7, <1>8, <1>12, <1>13 DEF Places
  <2>3. Signalled(m) \subseteq ToSet(m.fds) \cup {Listen}
    BY <1>1, <1>8, <1>13, <1>16 DEF Places
  <2>4. m.mode \notin {"epoll", "rpc"} => m.edges = {}
    BY <1>1, <1>11, <1>13 DEF Places, Edge
  <2>5. /\ Listen \in Signalled(m) => Len(n.backlog) >= 1
        /\ ~(Listen \in m.edges /\ Listen \in ToSet(m.todo))
    BY <1>4, <1>6, <1>12, <1>16
  <2> QED
    BY <2>1, <2>2, <2>3, <2>4, <2>5 DEF Places
<1>18. TellsAll(m, n)
  <2>1. SUFFICES ASSUME m.mode \in {"epoll", "rpc"}, NEW d \in ToSet(m.fds),
                        n.conn[d].in # <<>> \/ n.conn[d].eof
                 PROVE  d \in Signalled(m)
    BY DEF TellsAll
  <2>2. CASE d = c
    BY <2>1, <2>2, <1>12, <1>13, <1>16 DEF Edge, Readable
  <2>3. CASE d # c
    <3>1. d \in ToSet(mux.fds) /\ d \in Clients /\ d # Listen
      BY <2>3, <1>8, <1>13, <1>14, ListenIsNone
    <3> QED
      BY <3>1, <2>1, <2>3, <1>1, <1>12, <1>13, <1>16 DEF TellsAll
  <2> QED
    BY <2>2, <2>3
<1>19. ASSUME NEW d \in Clients PROVE Books(m, n.conn[d]) /\ Exchange(m, d, n.conn[d])
  <2>1. Books(mux, net.conn[d]) /\ Exchange(mux, d, net.conn[d]) /\ n.conn[d] = net.conn[d]
    BY <1>1, <1>12
  <2>2. Books(m, net.conn[d])
    BY <2>1, <1>13 DEF Books
  <2>3. CASE d # c
    <3>1. d # Listen
      BY ListenIsNone
    <3>2. /\ d \in Signalled(m) <=> d \in Signalled(mux)
          /\ d \in m.edges \cap ToSet(m.todo) <=> d \in mux.edges \cap ToSet(mux.todo)
      BY <3>1, <2>3, <1>16
    <3>3. Exchange(m, d, net.conn[d])
      BY <3>2, <2>1, <1>13, SameExchange
    <3> QED
      BY <3>3, <2>1, <2>2
  <2>4. CASE d = c
    <3>1. /\ d \in Signalled(m) => net.conn[d].in # <<>> \/ net.conn[d].eof
          /\ d \notin m.edges \cap ToSet(m.todo)
      BY <2>4, <1>16 DEF Readable
    <3>2. Exchange(m, d, net.conn[d])
      BY <3>1, <2>1, <1>13 DEF Exchange
    <3> QED
      BY <3>2, <2>1, <2>2
  <2> QED
    BY <2>3, <2>4
<1> QED
  BY <1>12, <1>13, <1>17, <1>18, <1>19 DEF MuxInv, m, n

LEMMA MuxInitial == ASSUME MuxInit PROVE MuxInv
<1> DEFINE k == [st |-> "new", in |-> <<>>, sent |-> 0, eof |-> FALSE,
                 read |-> <<>>, reply |-> <<>>, echoed |-> <<>>]
<1>1. PICK t \in Modes, p \in 1 .. MaxPieces :
          mux = [mode |-> t, pieces |-> p, fds |-> <<>>, edges |-> {}, todo |-> <<>>]
  BY DEF MuxInit
<1>2. net = [backlog |-> <<>>, conn |-> [c \in Clients |-> k]]
  BY DEF MuxInit
<1>3. k \in Link /\ k.sent = 0 /\ k.in = <<>> /\ k.read = <<>> /\ k.reply = <<>>
      /\ k.echoed = <<>> /\ k.st = "new"
  BY DEF Link
<1> HIDE DEF k
<1>4. net \in Network /\ net.backlog = <<>> /\ \A c \in Clients : net.conn[c] = k
  BY <1>2, <1>3 DEF Network
<1>5. mux \in Server /\ mux.fds = <<>> /\ mux.edges = {} /\ mux.todo = <<>>
  BY <1>1 DEF Server
<1>6. ToSet(<<>>) = {} /\ Distinct(<<>>) /\ Len(<<>>) = 0 /\ DOMAIN <<>> = {}
  BY DEF ToSet, Distinct
<1>7. Signalled(mux) = {}
  BY <1>5, <1>6 DEF Signalled
<1>8. Places(mux, net) /\ TellsAll(mux, net)
  BY <1>4, <1>5, <1>6, <1>7 DEF Places, TellsAll
<1>9. Books(mux, k)
  BY <1>3, <1>6 DEF Books
<1>10. \A c \in Clients : Exchange(mux, c, k)
  BY <1>3, <1>5, <1>6, <1>7 DEF Exchange
<1> QED
  BY <1>4, <1>5, <1>8, <1>9, <1>10 DEF MuxInv

LEMMA MuxStep == ASSUME MuxInv, [MuxNext]_muxVars PROVE MuxInv'
<1>1. CASE UNCHANGED muxVars
  BY <1>1 DEF muxVars, MuxInv, Places, TellsAll, Books, Exchange, Signalled, Distinct
<1>2. CASE Serve
  BY <1>2, WaitEventsStep, AcceptOneStep, HandleStep, RecvDataStep DEF Serve
<1>3. ASSUME NEW c \in Clients, ConnectClient(c) \/ Sends(c) \/ ReadReply(c) \/ CloseClient(c)
      PROVE  MuxInv'
  BY <1>3, ConnectClientStep, SendsStep, ReadReplyStep, CloseClientStep
<1> QED
  BY <1>1, <1>2, <1>3 DEF MuxNext

-----------------------------------------------------------------------------
(* The wrappers and servers together: a step of one of them leaves the     *)
(* parts of the others as they are, so the invariants hold side by side.   *)

ServicesInv == ZkInv /\ ZmqInv /\ RedisInv /\ DbInv /\ KafkaInv /\ MuxInv

LEMMA ServicesInitial == ASSUME Init PROVE ServicesInv
  BY ZkInitial, ZmqInitial, RedisInitial, DbInitial, KafkaInitial, MuxInitial
     DEF Init, ServicesInv

LEMMA ServicesStep == ASSUME ServicesInv, [Next]_servicesVars PROVE ServicesInv'
<1>1. /\ [ZkNext]_zkVars /\ [ZmqNext]_zmqVars /\ [RedisNext]_redisVars
      /\ [DbNext]_dbVars /\ [KafkaNext]_kafkaVars /\ [MuxNext]_muxVars
  <2>1. CASE UNCHANGED servicesVars
    BY <2>1 DEF servicesVars
  <2>2. CASE Next
    BY <2>2 DEF Next
  <2> QED
    BY <2>1, <2>2
<1>2. ZkInv /\ ZmqInv /\ RedisInv /\ DbInv /\ KafkaInv /\ MuxInv
  BY DEF ServicesInv
<1> QED
  BY <1>1, <1>2, ZkStepKeeps, ZmqStep, RedisStep, DbStepKeeps, KafkaStep, MuxStep
     DEF ServicesInv

LEMMA ServicesPromise ==
    ASSUME ServicesInv PROVE ViewsAgree /\ NothingForgotten /\ AnswersAgree
<1>1. OneMaster
  BY ZkOneMaster DEF ServicesInv
<1>2. FlagIsTrue /\ RepliesInOrder
  BY DEF ServicesInv, RedisInv
<1>3. InOrderToTheEnd /\ SendsTaken
  BY ZmqInOrder DEF ServicesInv
<1>4. ReadsFresh /\ ReadsAnswered
  BY DbFresh DEF ServicesInv
<1>5. OneReport /\ NoneSkipped
  BY KafkaReports DEF ServicesInv, KafkaInv
<1>6. NothingUnread /\ EchoesOwn
  BY MuxTold DEF ServicesInv
<1> QED
  BY <1>1, <1>2, <1>3, <1>4, <1>5, <1>6 DEF ViewsAgree, NothingForgotten, AnswersAgree

\* In every state each wrapper and each server keeps its own invariant.
THEOREM ServicesKept == Spec => []ServicesInv
<1>1. Init => ServicesInv
  BY ServicesInitial
<1>2. ServicesInv /\ [Next]_servicesVars => ServicesInv'
  BY ServicesStep
<1> QED
  BY <1>1, <1>2, PTL DEF Spec

\* Once all messages are delivered and all lost sessions expired, exactly the contender
\* that ZooKeeper lists first was told that it is the master, for any number of
\* processes, sessions and crashes; and m_isConn says whether m_redisCtx is connected,
\* as long as every attempt is decided before the timer fires again.
THEOREM ViewsAgreeAlways == Spec => []ViewsAgree
<1>1. ServicesInv => ViewsAgree
  BY ServicesPromise
<1> QED
  BY <1>1, ServicesKept, PTL

\* While a message is in the queue of ZmqWrapper, someone is about to take it out; while
\* a command or a result of RocksDBWrapper waits, its reader is posted for; the messages
\* accepted by KafkaProducer have one report each, unless a flush gave up; and a server
\* that waits has read all that the clients it watches have sent.
THEOREM NothingForgottenAlways == Spec => []NothingForgotten
<1>1. ServicesInv => NothingForgotten
  BY ServicesPromise
<1> QED
  BY <1>1, ServicesKept, PTL

\* The parts of ZeroMQ messages arrive in order and, from the first that arrives, to the
\* end; a read of the database sees one state, no older than its request; replies of
\* Redis come in the order of the commands; the consumer of Kafka skips nothing; and the
\* client of pb_rpc whose requests stay in one piece gets its own answers, one to each.
THEOREM AnswersAgreeAlways == Spec => []AnswersAgree
<1>1. ServicesInv => AnswersAgree
  BY ServicesPromise
<1> QED
  BY <1>1, ServicesKept, PTL
=============================================================================
