------------------------------ MODULE Services ------------------------------
(***************************************************************************)
(* The wrappers and servers of third_party_about together.  Each is a      *)
(* program of its own and they share nothing, so one of them runs at a     *)
(* time, and the parts of the others stay as they are.                     *)
(***************************************************************************)
EXTENDS ZkWrapper, ZmqWrapper, RedisWrapper, RocksdbWrapper, KafkaWrapper, EventServers

VARIABLE service    \* which of them runs

servicesVars == <<zkVars, zmqVars, redisVars, dbVars, kafkaVars, muxVars, service>>

Init ==
    /\ ZkInit /\ ZmqInit /\ RedisInit /\ DbInit /\ KafkaInit /\ MuxInit
    /\ service \in {"zookeeper", "zeromq", "redis", "rocksdb", "kafka", "servers"}
    \* the choices of a part that does not run are not explored
    /\ service # "redis" => ~slow
    /\ service # "rocksdb" => ~db.inner
    /\ service # "kafka" => producer.keeps
    /\ service # "servers" => mux.mode = "poll" /\ mux.pieces = 1

Next ==
    /\ UNCHANGED service
    /\ \/ /\ service = "zookeeper" /\ ZkNext
          /\ UNCHANGED <<zmqVars, redisVars, dbVars, kafkaVars, muxVars>>
       \/ /\ service = "zeromq" /\ ZmqNext
          /\ UNCHANGED <<zkVars, redisVars, dbVars, kafkaVars, muxVars>>
       \/ /\ service = "redis" /\ RedisNext
          /\ UNCHANGED <<zkVars, zmqVars, dbVars, kafkaVars, muxVars>>
       \/ /\ service = "rocksdb" /\ DbNext
          /\ UNCHANGED <<zkVars, zmqVars, redisVars, kafkaVars, muxVars>>
       \/ /\ service = "kafka" /\ KafkaNext
          /\ UNCHANGED <<zkVars, zmqVars, redisVars, dbVars, muxVars>>
       \/ /\ service = "servers" /\ MuxNext
          /\ UNCHANGED <<zkVars, zmqVars, redisVars, dbVars, kafkaVars>>

Fairness == ZkFairness /\ ZmqFairness /\ WF_dbVars(DbStep)

Spec == Init /\ [][Next]_servicesVars /\ Fairness

-----------------------------------------------------------------------------
\* What a client believes of its server is so: one contender was told that it is the
\* master, the flag of the Redis client says whether it is connected.
ViewsAgree == OneMaster /\ FlagIsTrue

\* Nothing is forgotten on its way: a message for the socket, a read for the database
\* or its result, the report of a message for Kafka, what a client has sent to a server.
NothingForgotten == SendsTaken /\ ReadsAnswered /\ OneReport /\ NothingUnread

\* What arrives is what was sent, in that order: the parts of messages, the values
\* read, the replies to commands, the messages of a topic, the echoes.
AnswersAgree == InOrderToTheEnd /\ ReadsFresh /\ RepliesInOrder /\ NoneSkipped /\ EchoesOwn

\* Contenders are told their part, arrived messages are read and destructors return,
\* with the exceptions that ToldAgain and DestroyReturns name.
Progress == ToldAgain /\ ArrivedIsRead /\ DestroyReturns
=============================================================================
