---------------------------- MODULE KafkaWrapper ----------------------------
(* kafka_producer_wrapper.hpp and kafka_consumer_wrapper.hpp: a producer    *)
(* that is told by a callback what became of its messages, and a consumer   *)
(* that hands one message to its callback per tick of a timer.  librdkafka  *)
(* and the brokers are external: a message is stored once, or expires; its  *)
(* report waits until the producer polls; the brokers remember up to which  *)
(* message a consumer has read, now and then.                               *)
EXTENDS Integers, Sequences, FiniteSets, SequencesExt

CONSTANTS MaxMessages,  \* bound on the messages produced
          MaxRestarts,  \* bound on the restarts of the consumer
          Buffers       \* values of "the caller keeps the message until its report"

ASSUME KafkaAssumption == MaxMessages \in Nat /\ MaxRestarts \in Nat /\ Buffers \subseteq BOOLEAN

VARIABLES producer,  \* CKafkaProducerWrapper
          buffer,    \* the caller's string of each message: the message or 0, reused
          topic,     \* what the broker has stored
          consumer,  \* CKafkaConsumerWrapper
          reports,   \* the calls of the delivery callback
          consumed   \* the calls of the message callback

kafkaVars == <<producer, buffer, topic, consumer, reports, consumed>>

KafkaInit ==
    /\ \E keeps \in Buffers :
          producer = [st |-> "new", keeps |-> keeps, out |-> <<>>, done |-> <<>>]
    /\ buffer = <<>> /\ topic = <<>> /\ reports = <<>> /\ consumed = <<>>
    /\ consumer = [st |-> "new", next |-> 1, committed |-> 1, starts |-> 0]

-----------------------------------------------------------------------------
(* The producer *)

InitProducer ==
    /\ producer.st = "new"
    /\ producer' = [producer EXCEPT !.st = "running"]
    /\ UNCHANGED <<buffer, topic, consumer, reports, consumed>>

\* ProducerMsg passes no flags to produce, so that librdkafka keeps the pointer to the
\* caller's string; the number of the message stands for the opaque data.
ProducerMsg ==
    LET n == Len(buffer) + 1
    IN  /\ producer.st = "running" /\ n <= MaxMessages
        /\ buffer' = Append(buffer, n)
        /\ producer' = [producer EXCEPT !.out = Append(@, n)]
        /\ UNCHANGED <<topic, consumer, reports, consumed>>

\* The string the caller passed is used for something else.
ReuseBuffer(n) ==
    /\ ~producer.keeps /\ buffer[n] = n
    /\ buffer' = [buffer EXCEPT ![n] = 0]
    /\ UNCHANGED <<producer, topic, consumer, reports, consumed>>

\* librdkafka sends the next message, or it times out; the report waits for a poll.
Transmit ==
    LET n == Head(producer.out)
        report(err) == [producer EXCEPT !.out = Tail(@),
                            !.done = Append(@, [data |-> n, err |-> err, msg |-> buffer[n]])]
    IN  /\ producer.out # <<>>
        /\ \/ producer' = report(FALSE) /\ topic' = Append(topic, buffer[n])
           \/ producer' = report(TRUE) /\ UNCHANGED topic
        /\ UNCHANGED <<buffer, consumer, reports, consumed>>

\* OnTimer polls: dr_cb for each message that is done.
PollProducer ==
    /\ producer.st = "running" /\ producer.done # <<>>
    /\ reports' = reports \o producer.done
    /\ producer' = [producer EXCEPT !.done = <<>>]
    /\ UNCHANGED <<buffer, topic, consumer, consumed>>

\* The destructor flushes: it polls until nothing is left, or three seconds are over.
DestroyProducer ==
    /\ producer.st = "running"
    /\ producer' = [producer EXCEPT !.st = "flushing"]
    /\ UNCHANGED <<buffer, topic, consumer, reports, consumed>>

Flush ==
    /\ producer.st = "flushing"
    /\ reports' = reports \o producer.done
    /\ \E over \in BOOLEAN :
          producer' = IF over \/ producer.out = <<>>
                      THEN [producer EXCEPT !.st = "closed", !.done = <<>>, !.out = <<>>]
                      ELSE [producer EXCEPT !.done = <<>>]
    /\ UNCHANGED <<buffer, topic, consumer, consumed>>

-----------------------------------------------------------------------------
(* The consumer *)

\* As if reading began with the next message that arrives.
Subscribe_Latest ==
    /\ consumer.st = "new" /\ consumer.starts <= MaxRestarts
    /\ consumer' = [consumer EXCEPT !.st = "running", !.starts = @ + 1, !.next = Len(topic) + 1]
    /\ UNCHANGED <<producer, buffer, topic, reports, consumed>>

\* Init and Subscribe, which takes effect although it always returns -1: reading goes
\* on after the last message that the broker knows to be read.
Subscribe ==
    /\ consumer.st = "new" /\ consumer.starts <= MaxRestarts
    /\ consumer' = [consumer EXCEPT !.st = "running", !.starts = @ + 1, !.next = consumer.committed]
    /\ UNCHANGED <<producer, buffer, topic, reports, consumed>>

\* OnTimer consumes one message, if there is one, and passes it to the callback.
Consume ==
    /\ consumer.st = "running" /\ consumer.next <= Len(topic)
    /\ consumed' = Append(consumed, consumer.next)
    /\ consumer' = [consumer EXCEPT !.next = @ + 1]
    /\ UNCHANGED <<producer, buffer, topic, reports>>

\* The library commits what has been consumed, in the background.
Commit ==
    /\ consumer.st = "running" /\ consumer.committed < consumer.next
    /\ consumer' = [consumer EXCEPT !.committed = consumer.next]
    /\ UNCHANGED <<producer, buffer, topic, reports, consumed>>

\* The destructor closes the consumer, which commits; a crash does not.
StopConsumer ==
    /\ consumer.st = "running"
    /\ \E crash \in BOOLEAN :
          consumer' = [consumer EXCEPT !.st = "new",
                           !.committed = IF crash THEN @ ELSE consumer.next]
    /\ UNCHANGED <<producer, buffer, topic, reports, consumed>>

KafkaNext ==
    \/ InitProducer \/ ProducerMsg \/ Transmit \/ PollProducer \/ DestroyProducer \/ Flush
    \/ \E n \in DOMAIN buffer : ReuseBuffer(n)
    \/ Subscribe \/ Consume \/ Commit \/ StopConsumer

KafkaSpec == KafkaInit /\ [][KafkaNext]_kafkaVars

-----------------------------------------------------------------------------
(* Properties *)

\* Every message has one account: it waits in the library, its report waits for the
\* poll, or the callback was called for it, once, with the caller's own data.  Only a
\* flush that takes too long forgets some.
OneReport ==
    LET all == reports \o producer.done
        n   == Cardinality({i \in DOMAIN buffer : \E r \in ToSet(all) : r.data = i})
    IN  /\ Len(all) = n
        /\ producer.st # "closed" =>
               ToSet(producer.out) = DOMAIN buffer \ {r.data : r \in ToSet(all)}

\* The callback of the consumer gets every stored message, in order; after a crash it
\* gets some again, but it never skips one.
NoneSkipped ==
    \A i \in DOMAIN consumed :
        consumed[i] = 1 \/ \E j \in 1 .. i - 1 : consumed[j] >= consumed[i] - 1

\* What the comment of line 115 says, "Make a copy of the value": the broker stores
\* what was passed to ProducerMsg.
ValueCopied == 0 \notin ToSet(topic)
=============================================================================
