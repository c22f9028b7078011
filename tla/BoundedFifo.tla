---------------------------- MODULE BoundedFifo ----------------------------
(***************************************************************************)
(* What a single-producer single-consumer ring buffer promises its two     *)
(* users: a queue of at most Capacity values, handed out in the order they *)
(* were put in, each exactly once.  `delivered' is the sequence of values  *)
(* the consumer has received so far.                                       *)
(***************************************************************************)
EXTENDS Naturals, Sequences

CONSTANTS Values,    \* what can be put into the queue
          Capacity   \* how many values fit

VARIABLES queue, delivered

fifoVars == <<queue, delivered>>

FifoInit == queue = <<>> /\ delivered = <<>>

Enqueue(v) ==
    /\ Len(queue) < Capacity
    /\ queue' = Append(queue, v)
    /\ UNCHANGED delivered

Dequeue ==
    /\ queue # <<>>
    /\ delivered' = Append(delivered, Head(queue))
    /\ queue' = Tail(queue)

FifoNext == Dequeue \/ \E v \in Values : Enqueue(v)

FifoSpec == FifoInit /\ [][FifoNext]_fifoVars
=============================================================================
