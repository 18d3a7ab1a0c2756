---------------------------- MODULE RedisWrapper ----------------------------
(* redis_wrapper.hpp in its single mode: a connection to one Redis server,  *)
(* made anew by a timer when it is down, and commands whose replies go to a *)
(* callback.  hiredis is external: a context answers its commands in order, *)
(* and is freed when its connection fails or ends, with an empty reply for  *)
(* every command that still waits.                                          *)
EXTENDS Integers, Sequences, FiniteSets, SequencesExt

CONSTANTS MaxContexts,  \* bound on the contexts ever made
          MaxCommands,  \* bound on the commands
          Slow          \* values of "an attempt to connect may outlast the timer"

ASSUME RedisAssumption ==
    MaxContexts \in Nat /\ MaxCommands \in Nat /\ Slow \subseteq BOOLEAN

VARIABLES redis,   \* the members of CRedisWrapper
          ctxs,    \* the contexts hiredis has made, and their pending commands
          called,  \* privdata of the replies the callback was given
          slow

redisVars == <<redis, ctxs, called, slow>>

RedisInit ==
    /\ redis = [st |-> "new", isConn |-> FALSE, ctx |-> 0, made |-> 0]
    /\ ctxs = <<>> /\ called = <<>>
    /\ slow \in Slow

NewContext(st) == [st |-> st, data |-> st # "error", waiting |-> <<>>]
Live(c) == ctxs[c].st \in {"connecting", "connected"}

-----------------------------------------------------------------------------
\* Connect2Redis overwrites m_redisCtx, whatever has become of the old context.
Connect2Redis(r) ==
    /\ Len(ctxs) < MaxContexts
    /\ \E st \in {"connecting", "error"} :
          /\ ctxs' = Append(ctxs, NewContext(st))
          /\ redis' = [r EXCEPT !.ctx = Len(ctxs) + 1]

\* Connect also starts the timer, which is never stopped.
Connect ==
    /\ redis.st = "new"
    /\ Connect2Redis([redis EXCEPT !.st = "running"])
    /\ UNCHANGED <<called, slow>>

OnReconTimer ==
    /\ redis.st = "running" /\ ~redis.isConn
    /\ slow \/ \A c \in DOMAIN ctxs : ctxs[c].st # "connecting"
    /\ Connect2Redis(redis)
    /\ UNCHANGED <<called, slow>>

\* Command: hiredis takes it while the context exists; what the call does with a
\* context that was freed is not defined, and a caller is taken to avoid it.
Command ==
    /\ redis.st = "running" /\ redis.made < MaxCommands
    /\ redis.ctx # 0 /\ ctxs[redis.ctx].st # "freed"
    /\ redis' = [redis EXCEPT !.made = @ + 1]
    /\ ctxs' = [ctxs EXCEPT ![redis.ctx].waiting = Append(@, redis.made + 1)]
    /\ UNCHANGED <<called, slow>>

-----------------------------------------------------------------------------
(* The callbacks of hiredis; they do nothing when data was reset. *)

\* OnConnected sets m_isConn, also for a context that is not m_redisCtx any more.
OnConnected(c) ==
    /\ ctxs[c].st = "connecting"
    /\ ctxs' = [ctxs EXCEPT ![c].st = "connected"]
    /\ redis' = IF ctxs[c].data THEN [redis EXCEPT !.isConn = TRUE] ELSE redis
    /\ UNCHANGED <<called, slow>>

\* The attempt fails: OnConnected with an error, and the context is freed.
ConnectFailed(c) ==
    /\ ctxs[c].st = "connecting"
    /\ ctxs' = [ctxs EXCEPT ![c].st = "freed", ![c].waiting = <<>>]
    /\ UNCHANGED <<redis, called, slow>>

OnCommandReplay(c) ==
    /\ ctxs[c].st = "connected" /\ ctxs[c].waiting # <<>>
    /\ ctxs' = [ctxs EXCEPT ![c].waiting = Tail(@)]
    /\ called' = IF ctxs[c].data THEN Append(called, Head(ctxs[c].waiting)) ELSE called
    /\ UNCHANGED <<redis, slow>>

\* The waiting commands get no reply, and OnDisConnect does not reset m_redisCtx.
OnDisConnect(c) ==
    /\ ctxs[c].st = "connected"
    /\ ctxs' = [ctxs EXCEPT ![c].st = "freed", ![c].waiting = <<>>]
    /\ redis' = IF ctxs[c].data THEN [redis EXCEPT !.isConn = FALSE] ELSE redis
    /\ UNCHANGED <<called, slow>>

\* The destructor: a connected context ends once its replies are there, without the
\* callbacks; any other is freed at once.
DestroyRedis ==
    /\ redis.st = "running"
    /\ redis.ctx # 0 => ctxs[redis.ctx].st # "freed"
    /\ redis' = [redis EXCEPT !.st = "destroyed", !.ctx = 0]
    /\ ctxs' = IF redis.ctx = 0 THEN ctxs
               ELSE IF redis.isConn THEN [ctxs EXCEPT ![redis.ctx].data = FALSE]
               ELSE [ctxs EXCEPT ![redis.ctx].data = FALSE, ![redis.ctx].st = "freed",
                                 ![redis.ctx].waiting = <<>>]
    /\ UNCHANGED <<called, slow>>

RedisNext ==
    \/ Connect \/ OnReconTimer \/ Command \/ DestroyRedis
    \/ \E c \in DOMAIN ctxs :
          OnConnected(c) \/ ConnectFailed(c) \/ OnCommandReplay(c) \/ OnDisConnect(c)

RedisSpec == RedisInit /\ [][RedisNext]_redisVars

-----------------------------------------------------------------------------
(* Properties *)

\* m_isConn says whether m_redisCtx is connected, and no other connection is open, as
\* long as every attempt to connect is decided before the timer fires again.  With a
\* slower one, two contexts are alive, and the flag is the last one's that spoke.
FlagIsTrue ==
    redis.st = "running" /\ ~slow =>
        /\ \A c \in DOMAIN ctxs : Live(c) => c = redis.ctx
        /\ redis.isConn <=> redis.ctx # 0 /\ ctxs[redis.ctx].st = "connected"

\* A command is answered at most once, and the callback gets the replies in the order
\* of the commands, across connections that break: the lost ones leave gaps.
RepliesInOrder ==
    ~slow => \A i, j \in DOMAIN called : i < j => called[i] < called[j]
=============================================================================
