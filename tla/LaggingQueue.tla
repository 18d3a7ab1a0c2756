---------------------------- MODULE LaggingQueue ----------------------------
(***************************************************************************)
(* What lock_free_queue/lock_free_queue.hpp promises: a FIFO queue that is *)
(* one item behind.  It always holds the item dequeued last; DeQueue       *)
(* returns that one and needs a younger item to do so, and the very first  *)
(* DeQueue returns the NULL the queue was created with.                    *)
(***************************************************************************)
EXTENDS Naturals, Sequences

CONSTANTS Item, Consumer, NULL

VARIABLES queue,    \* the item dequeued last, then those waiting
          results   \* what each consumer got, in order

vars == <<queue, results>>

Init == /\ queue = <<NULL>>
        /\ results = [c \in Consumer |-> <<>>]

Enqueue(i) == /\ queue' = Append(queue, i)
              /\ UNCHANGED results

Dequeue(c) == /\ Len(queue) >= 2
              /\ queue' = Tail(queue)
              /\ results' = [results EXCEPT ![c] = Append(@, Head(queue))]

Next == (\E i \in Item : Enqueue(i)) \/ (\E c \in Consumer : Dequeue(c))

Spec == Init /\ [][Next]_vars
=============================================================================
