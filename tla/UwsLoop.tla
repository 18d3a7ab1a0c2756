------------------------------- MODULE UwsLoop -------------------------------
(* The parts of uWS every connection of a hub shares: the timers of its loop,   *)
(* kept in the order in which they are due, and the list of the WebSockets of a *)
(* group, which handlers change while forEach walks over it.                    *)
EXTENDS Integers, Sequences, FiniteSets

CONSTANTS Timers,     \* 1 .. n, timers: the program runs at most this many
          Delays,     \* after how long they fire
          MaxTime,    \* bound on the clock
          Members,    \* the WebSockets of the group
          MaxDepth    \* bound on the forEach within a handler of a forEach

VARIABLES clock,      \* the time
          loop,       \* Loop: timers, delay, cancelledLastTimer, and what doEpoll is doing
          group       \* Group: head, next and prev, iterators and the walks

loopVars == <<clock, loop, group>>

\* armed: the timers that were started and not stopped since, and when they are due;
\* wrong: one was called that was not, or before its time.
LoopInit ==
    /\ clock = 0
    /\ loop = [timers |-> <<>>, point |-> 0, delay |-> -1, pc |-> "wait",
               cancelled |-> FALSE, armed |-> [t \in Timers |-> -1], wrong |-> FALSE]
    /\ group = [head |-> 0, next |-> [m \in Members |-> 0], prev |-> [m \in Members |-> 0],
                in |-> {}, past |-> {}, iterators |-> <<>>, walks |-> <<>>, ok |-> TRUE]

-----------------------------------------------------------------------------
(* Timers *)

DelayTo(timers, point) ==
    IF timers = <<>> THEN -1
    ELSE IF timers[1].due > point THEN timers[1].due - point ELSE 0

\* Timer::start: after the timers that are due no later; the loop's time becomes now.
Start(l, t, delay, repeat) ==
    LET due == clock + delay
        before == {k \in DOMAIN l.timers : l.timers[k].due <= due}
        n == Cardinality(before)
        timers == SubSeq(l.timers, 1, n) \o <<[t |-> t, due |-> due, repeat |-> repeat]>>
                    \o SubSeq(l.timers, n + 1, Len(l.timers))
    IN  [l EXCEPT !.timers = timers, !.point = clock, !.delay = DelayTo(timers, clock),
                  !.armed[t] = due]

\* Timer::stop, also in the callback of the timer itself.
Stop(l, t) ==
    LET timers == SelectSeq(l.timers, LAMBDA e : e.t # t)
    IN  [l EXCEPT !.timers = timers, !.delay = DelayTo(timers, l.point), !.armed[t] = -1,
                  !.cancelled = @ \/ (l.pc = "fire" /\ l.timers # <<>> /\ l.timers[1].t = t)]

Unused == {t \in Timers : loop.armed[t] = -1}

\* A handler of a socket, or another thread before run, starts or stops a timer.
SocketHandler ==
    /\ loop.pc = "events"
    /\ \/ \E t \in Unused, d \in Delays, r \in {0} \cup Delays : loop' = Start(loop, t, d, r)
       \/ \E t \in Timers \ Unused : loop' = Stop(loop, t)
    /\ UNCHANGED <<clock, group>>

\* Time passes; a callback may take long, it sleeps.
Pass ==
    /\ clock < MaxTime /\ clock' = clock + 1
    /\ loop.pc # "events"
    /\ UNCHANGED <<loop, group>>

\* epoll_wait returns, with a socket that is ready or because the delay is over.
Wake ==
    /\ loop.pc = "wait"
    /\ loop' = [loop EXCEPT !.pc = "events", !.point = clock]
    /\ UNCHANGED <<clock, group>>

Due(l) == l.timers # <<>> /\ l.timers[1].due < l.point

\* After the sockets come the timers; without one that is due the delay is computed anew.
EventsDone ==
    /\ loop.pc = "events"
    /\ loop' = IF Due(loop) THEN [loop EXCEPT !.pc = "fire", !.cancelled = FALSE]
               ELSE [loop EXCEPT !.pc = "wait",
                                 !.delay = IF loop.timers = <<>> THEN @
                                           ELSE DelayTo(loop.timers, loop.point)]
    /\ UNCHANGED <<clock, group>>

\* What a callback does: a timeout stops itself and may start another, a repeated timer
\* may stop one, itself too.
Callbacks(l, e) ==
    IF e.repeat = 0
    THEN {Stop(l, e.t)} \cup {Start(Stop(l, e.t), t, d, 0) : t \in Unused, d \in Delays}
    ELSE {l} \cup {Stop(l, t) : t \in Timers \ Unused}

\* One turn of doEpoll's loop over the timers: the callback, and unless it stopped the
\* timer this is erased, and started again if it repeats.
Fire ==
    /\ loop.pc = "fire"
    /\ LET e == loop.timers[1]
       IN  \E l \in Callbacks(loop, e) :
              LET early == loop.armed[e.t] # e.due \/ clock <= e.due
                  left == IF l.cancelled THEN l
                          ELSE IF e.repeat = 0 THEN [l EXCEPT !.timers = Tail(@)]
                          ELSE Start([l EXCEPT !.timers = Tail(@)], e.t, e.repeat, e.repeat)
                  next == [left EXCEPT !.cancelled = FALSE, !.wrong = @ \/ early]
              IN  loop' = IF Due(next) THEN next ELSE [next EXCEPT !.pc = "wait"]
    /\ UNCHANGED <<clock, group>>

TimersNext == SocketHandler \/ Pass \/ Wake \/ EventsDone \/ Fire

-----------------------------------------------------------------------------
(* The list of a group *)

Idle == group.walks = <<>>
Top(s) == s[Len(s)]
SetTop(s, x) == [s EXCEPT ![Len(s)] = x]

\* addWebSocket, at the head.
AddWebSocket(m) ==
    /\ Idle /\ m \notin group.in /\ m \notin group.past
    /\ group' = [group EXCEPT !.head = m, !.next[m] = group.head,
                              !.prev = [j \in Members |-> IF j = m THEN 0
                                                          ELSE IF j = group.head THEN m ELSE @[j]],
                              !.in = @ \cup {m}]
    /\ UNCHANGED <<clock, loop>>

\* Without a look at iterators.
RemoveUnderWalk(g, m) ==
    LET p == g.prev[m]
        n == g.next[m]
        next == [j \in Members |-> IF j = m THEN 0 ELSE IF j = p THEN n ELSE g.next[j]]
        prev == [j \in Members |-> IF j = m THEN 0 ELSE IF j = n THEN p ELSE g.prev[j]]
    IN  [g EXCEPT !.in = @ \ {m}, !.past = @ \cup {m}, !.head = IF @ = m THEN n ELSE @,
                  !.next = next, !.prev = prev]

\* removeWebSocket: the innermost forEach goes on with the next.
RemoveWebSocket(g, m) ==
    LET h == [g EXCEPT !.iterators = IF @ = <<>> THEN @ ELSE SetTop(@, g.next[m]),
                       !.in = @ \ {m}, !.past = @ \cup {m}]
        p == g.prev[m]
        n == g.next[m]
    IN  IF p = n THEN [h EXCEPT !.head = 0]
        ELSE [h EXCEPT !.head = IF p = 0 THEN n ELSE @,
                       !.next = [j \in Members |-> IF j = p THEN n ELSE @[j]],
                       !.prev = [j \in Members |-> IF j = n THEN p ELSE @[j]]]

\* forEach begins at the head.
Walk(g, op) ==
    [g EXCEPT !.iterators = Append(@, g.head),
              !.walks = Append(@, [op |-> op, at |-> g.head, pc |-> "call", todo |-> g.in,
                                   seen |-> {}])]

ForEach(op) ==
    /\ Idle
    /\ group' = Walk(group, op)
    /\ UNCHANGED <<clock, loop>>

\* It calls the function: close removes the WebSocket it is at and calls the handler for
\* disconnections, broadcast only writes, the timer for pings ends those that are silent.
Call ==
    LET w == Top(group.walks)
        seen == [w EXCEPT !.pc = "called", !.seen = @ \cup {w.at}]
        g == [group EXCEPT !.walks = SetTop(@, seen), !.ok = @ /\ w.at \in group.in /\ w.at \notin w.seen]
    IN  /\ ~Idle /\ w.pc = "call" /\ w.at # 0
        /\ group' \in (IF w.op = "close" THEN {} ELSE {g})
                      \cup (IF w.op = "broadcast" THEN {} ELSE {RemoveWebSocket(g, w.at)})
        /\ UNCHANGED <<clock, loop>>

\* The handler for disconnections may broadcast.  None of the programs closes another
\* WebSocket in it: the walk would go on after that one.
Nested ==
    LET w == Top(group.walks)
    IN  /\ ~Idle /\ w.pc = "called" /\ w.at \notin group.in
        /\ Len(group.walks) < MaxDepth
        /\ group' = Walk(group, "broadcast")
        /\ UNCHANGED <<clock, loop>>

\* The function has returned: on to the next, which removeWebSocket may have set.
Advance ==
    LET w == Top(group.walks)
        it == Top(group.iterators)
        to == IF it = w.at THEN group.next[it] ELSE it
    IN  /\ ~Idle /\ w.pc = "called"
        /\ group' = [group EXCEPT !.iterators = SetTop(@, to),
                                  !.walks = SetTop(@, [w EXCEPT !.pc = "call", !.at = to])]
        /\ UNCHANGED <<clock, loop>>

\* The end of the list.
WalkEnds ==
    LET w == Top(group.walks)
        missed == (w.todo \cap group.in) \ w.seen
    IN  /\ ~Idle /\ w.pc = "call" /\ w.at = 0
        /\ group' = [group EXCEPT !.iterators = SubSeq(@, 1, Len(@) - 1),
                                  !.walks = SubSeq(@, 1, Len(@) - 1),
                                  !.ok = @ /\ missed = {}]
        /\ UNCHANGED <<clock, loop>>

GroupNext ==
    \/ \E m \in Members : AddWebSocket(m)
    \/ \E op \in {"close", "broadcast", "ping"} : ForEach(op)
    \/ Call \/ Nested \/ Advance \/ WalkEnds

LoopNext == TimersNext \/ GroupNext

LoopFairness == WF_loopVars(Wake) /\ WF_loopVars(EventsDone) /\ WF_loopVars(Fire)

-----------------------------------------------------------------------------
(* Properties *)

\* No callback is called for a timer that was stopped or before its time, the loop never
\* waits beyond the first timer, and it waits for ever only when there is none.
TimersKept ==
    /\ ~loop.wrong
    /\ \A k \in 1 .. Len(loop.timers) - 1 : loop.timers[k].due <= loop.timers[k + 1].due
    /\ loop.pc = "wait" /\ loop.timers # <<>> =>
          loop.delay # -1 /\ (loop.delay = 0 \/ loop.point + loop.delay <= loop.timers[1].due)

\* forEach calls its function once for every WebSocket that stays in the group, and for
\* none that has left it, however the WebSockets leave while it goes on.
WalksWhole == group.ok
=============================================================================
