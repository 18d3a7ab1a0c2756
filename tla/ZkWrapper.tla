------------------------------ MODULE ZkWrapper ------------------------------
(* zk_wrapper.hpp: processes that elect a master through ZooKeeper.  Each   *)
(* creates the directories of its node path, then an ephemeral node of its  *)
(* own, reads the list of the children and is the master when it is the     *)
(* first of them; a watch on the list makes it look again.  ZooKeeper, its  *)
(* client library and libevent are external: sessions with their requests   *)
(* and answers in order, sessions that outlive their connection, watches    *)
(* that fire once, and timers.                                              *)
EXTENDS Integers, Sequences, FiniteSets, SequencesExt

CONSTANTS Process,      \* the processes; each has a node named after itself
          HashOrder,    \* the order in which the server lists the children
          Levels,       \* number of parts of a node path, m_nodeNameVec.size()
          MaxSessions,  \* bound on the sessions ever opened
          MaxFaults     \* bound on lost connections, crashes and failing calls

ASSUME ZkAssumption ==
    /\ HashOrder \in Seq(Process) /\ ToSet(HashOrder) = Process
    /\ \A i, j \in DOMAIN HashOrder : HashOrder[i] = HashOrder[j] => i = j
    /\ Levels \in Nat \ {0} /\ MaxSessions \in Nat /\ MaxFaults \in Nat

VARIABLES wrapper,  \* [Process -> the members of its CZkWrapper]
          server,   \* ZooKeeper
          zkFaults

zkVars == <<wrapper, server, zkFaults>>

\* A process that is not running; out and in are the requests and the answers
\* on the way between the client library and the server.
Off == [running |-> FALSE, handle |-> "null", session |-> 0, created |-> 0, all |-> FALSE,
        mode |-> "none", timer |-> FALSE, signals |-> FALSE, out |-> <<>>, in |-> <<>>]

ZkInit ==
    /\ wrapper = [p \in Process |-> Off]
    /\ server = [dirs |-> 0, owner |-> [p \in Process |-> 0], live |-> {}, last |-> 0,
                 watch |-> {}]
    /\ zkFaults = 0

Fault == zkFaults < MaxFaults /\ zkFaults' = zkFaults + 1

-----------------------------------------------------------------------------
(* ZooKeeper *)

Children(s) == {p \in Process : s.owner[p] # 0}

\* The one of them that is listed first.
First(list) ==
    HashOrder[CHOOSE i \in DOMAIN HashOrder :
                 HashOrder[i] \in list /\ \A j \in 1 .. i - 1 : HashOrder[j] \notin list]

\* The watches of a list that has changed fire, each for the process whose
\* connection has that session.
Notify(ws, fired) ==
    [p \in Process |-> IF ws[p].handle = "connected" /\ ws[p].session \in fired
                       THEN [ws[p] EXCEPT !.in = Append(@, [kind |-> "child"])] ELSE ws[p]]

\* The sessions of S are over: their ephemeral nodes go and the watches fire.
EndSessions(S) ==
    LET gone  == {p \in Process : server.owner[p] \in S}
        fired == IF gone = {} THEN {} ELSE server.watch
    IN  [s |-> [server EXCEPT !.live = @ \ S, !.watch = (@ \ S) \ fired,
                              !.owner = [p \in Process |-> IF p \in gone THEN 0 ELSE @[p]]],
         fired |-> fired \ S]

\* The library has connected: the server opens a session.
Connected(p) ==
    LET id == server.last + 1
    IN  /\ wrapper[p].handle = "connecting" /\ id <= MaxSessions
        /\ server' = [server EXCEPT !.last = id, !.live = @ \cup {id}]
        /\ wrapper' = [wrapper EXCEPT ![p].handle = "connected", ![p].session = id,
                                      ![p].in = Append(@, [kind |-> "session"])]
        /\ UNCHANGED zkFaults

\* The server answers a request: a level is created when the one above it exists.
Answer(p) ==
    LET w  == wrapper[p]
        r  == Head(w.out)
        rc == IF r.level > server.dirs + 1 THEN "ZNONODE"
              ELSE IF IF r.level = Levels THEN server.owner[p] # 0 ELSE r.level <= server.dirs
              THEN "ZNODEEXISTS" ELSE "ZOK"
        reply(m) == [wrapper EXCEPT ![p].out = Tail(@), ![p].in = Append(@, m)]
    IN  /\ w.handle = "connected" /\ w.out # <<>>
        /\ \/ /\ r.kind = "create"
              /\ LET last  == rc = "ZOK" /\ r.level = Levels
                     fired == IF last THEN server.watch ELSE {}
                 IN  /\ server' = IF last THEN [server EXCEPT !.owner[p] = w.session,
                                                              !.watch = {}]
                                  ELSE IF rc = "ZOK" THEN [server EXCEPT !.dirs = r.level]
                                  ELSE server
                     /\ wrapper' = Notify(reply([kind |-> "create", rc |-> rc]), fired)
           \/ /\ r.kind = "children"
              /\ server' = [server EXCEPT !.watch = @ \cup {w.session}]
              /\ wrapper' = reply([kind |-> "children", list |-> Children(server)])
        /\ UNCHANGED zkFaults

\* A session that has no connection any more times out.
Expire(id) ==
    LET end == EndSessions({id})
    IN  /\ id \in server.live
        /\ \A p \in Process : ~(wrapper[p].handle = "connected" /\ wrapper[p].session = id)
        /\ server' = end.s /\ wrapper' = Notify(wrapper, end.fired) /\ UNCHANGED zkFaults

-----------------------------------------------------------------------------
(* The requests.  dirLevel counts from 0. *)

CreateZNode(w, dirLevel) ==
    IF dirLevel \notin 0 .. Levels - 1 THEN w
    ELSE [w EXCEPT !.created = dirLevel + 1,
                   !.out = Append(@, [kind |-> "create", level |-> dirLevel + 1])]

GetChildrenList(w) == [w EXCEPT !.out = Append(@, [kind |-> "children", level |-> 0])]

-----------------------------------------------------------------------------
(* The callbacks of the library *)

\* As if a node that exists were always another process's.
CheckZNodeCreate_GiveUp(w, rc) ==
    IF rc = "ZNONODE" THEN IF w.created >= 2 THEN CreateZNode(w, w.created - 2) ELSE w
    ELSE IF w.created < Levels THEN CreateZNode(w, w.created)
    ELSE IF rc = "ZOK" THEN GetChildrenList([w EXCEPT !.all = TRUE]) ELSE w

CheckZNodeCreate(w, rc) ==
    IF rc = "ZNONODE" THEN IF w.created >= 2 THEN CreateZNode(w, w.created - 2) ELSE w
    ELSE IF w.created < Levels THEN CreateZNode(w, w.created)
    ELSE IF rc = "ZOK" THEN GetChildrenList([w EXCEPT !.all = TRUE])
    ELSE IF w.all THEN GetChildrenList(w) ELSE w

\* The names of other processes' nodes do not matter, only the first place.
ElectMaster(p, w, list) ==
    IF p \notin list THEN CreateZNode(w, Levels - 1)
    ELSE [w EXCEPT !.mode = IF First(list) = p THEN "MASTER" ELSE "SLAVE"]

OnZKWatch(w, m) == IF m.kind = "session" THEN CreateZNode(w, 0) ELSE GetChildrenList(w)

\* OnEventIOCb: zookeeper_process calls back with what has arrived.
OnEventIO(p) ==
    LET w == [wrapper[p] EXCEPT !.in = Tail(@)]
        m == Head(wrapper[p].in)
    IN  /\ wrapper[p].in # <<>>
        /\ wrapper' = [wrapper EXCEPT ![p] =
               IF m.kind = "create" THEN CheckZNodeCreate(w, m.rc)
               ELSE IF m.kind = "children" THEN ElectMaster(p, w, m.list)
               ELSE OnZKWatch(w, m)]
        /\ UNCHANGED <<server, zkFaults>>

-----------------------------------------------------------------------------
(* Starting, polling and stopping *)

\* zookeeper_close, and the events that are removed: all but the timer.
Closed(w) == [w EXCEPT !.handle = "null", !.session = 0, !.signals = FALSE,
                       !.out = <<>>, !.in = <<>>]

\* DoStop: a session whose connection still works is ended with it.
DoStop(p, w) ==
    LET end == EndSessions({w.session} \ {0})
    IN  /\ server' = end.s
        /\ wrapper' = Notify([wrapper EXCEPT ![p] = Closed(w)], end.fired)

\* InitZK opens a handle where there is none; then the timer is set anew.
PollZKInterest(w) ==
    [w EXCEPT !.timer = TRUE, !.handle = IF @ = "null" THEN "connecting" ELSE @]

\* StartWatch returns 0 even when zookeeper_init failed; then no timer is set.
StartWatch(p) ==
    LET w == [Off EXCEPT !.running = TRUE, !.signals = TRUE]
    IN  /\ ~wrapper[p].running
        /\ \/ wrapper' = [wrapper EXCEPT ![p] = PollZKInterest(w)] /\ UNCHANGED zkFaults
           \/ wrapper' = [wrapper EXCEPT ![p] = w] /\ Fault
        /\ UNCHANGED server

\* OnInterestTimer: the timer stays, also when the poll stops the handle.
OnInterestTimer(p) ==
    /\ wrapper[p].timer
    /\ \/ /\ wrapper[p].handle = "null"
          /\ wrapper' = [wrapper EXCEPT ![p] = PollZKInterest(@)]
          /\ UNCHANGED <<server, zkFaults>>
       \/ Fault /\ wrapper[p].handle # "null" /\ DoStop(p, wrapper[p])

\* The connection breaks: zookeeper_process fails and DoStop closes the handle,
\* but the server knows nothing of it.
ConnectionLost(p) ==
    /\ Fault /\ wrapper[p].handle = "connected"
    /\ wrapper' = [wrapper EXCEPT ![p] = Closed(@)]
    /\ UNCHANGED server

Crash(p) ==
    /\ Fault /\ wrapper[p].running
    /\ wrapper' = [wrapper EXCEPT ![p] = Off]
    /\ UNCHANGED server

\* OnSignalintEvent and OnSignaltermEvent: StopWatch.  After a DoStop they are not
\* set any more, and the signal ends the process.
DoSignal(p) ==
    /\ wrapper[p].running
    /\ IF wrapper[p].signals
       THEN DoStop(p, [wrapper[p] EXCEPT !.timer = FALSE]) /\ UNCHANGED zkFaults
       ELSE Fault /\ wrapper' = [wrapper EXCEPT ![p] = Off] /\ UNCHANGED server

ZkStep(p) == OnInterestTimer(p) \/ OnEventIO(p) \/ Connected(p) \/ Answer(p)

ZkNext ==
    \/ \E p \in Process : StartWatch(p) \/ ZkStep(p) \/ ConnectionLost(p) \/ Crash(p) \/ DoSignal(p)
    \/ \E id \in 1 .. MaxSessions : Expire(id)

\* The event loop, the network and the server go on; a session times out.
ZkFairness ==
    /\ \A p \in Process : WF_zkVars(ZkStep(p))
    /\ \A id \in 1 .. MaxSessions : WF_zkVars(Expire(id))

ZkSpec == ZkInit /\ [][ZkNext]_zkVars /\ ZkFairness

-----------------------------------------------------------------------------
(* Properties *)

\* A process that was restarted before its old session timed out finds its node
\* there, and as it did not create it gives up: it has no watch and never asks again.
GaveUp(p) == /\ wrapper[p].created = Levels /\ ~wrapper[p].all

\* No connection is being set up, no message is on its way, and no session of a
\* connection that broke is left.
Settled ==
    /\ \A p \in Process : wrapper[p].running /\ wrapper[p].timer =>
           wrapper[p].handle = "connected" /\ wrapper[p].in = <<>> /\ wrapper[p].out = <<>>
    /\ server.live = {wrapper[p].session : p \in Process} \ {0}

\* When everything has settled there is one master: the processes that take part
\* each have their node, and exactly the first of the children was told that it is
\* the master, whatever connections, sessions and processes were lost before.
OneMaster ==
    Settled => \A p \in Process :
        wrapper[p].running /\ wrapper[p].timer =>
            \/ GaveUp(p) /\ wrapper[p].mode = "none"
            \/ /\ server.owner[p] = wrapper[p].session
               /\ (wrapper[p].mode = "MASTER") <=> (First(Children(server)) = p)
               /\ wrapper[p].mode # "none"

\* A process that polls is told its part in the end, and again after each fault, or
\* it has given up.
ToldAgain ==
    \A p \in Process :
        wrapper[p].timer ~> \/ server.owner[p] = wrapper[p].session /\ wrapper[p].mode # "none"
                            \/ GaveUp(p) \/ ~wrapper[p].timer
=============================================================================
