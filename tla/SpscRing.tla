------------------------------ MODULE SpscRing ------------------------------
(***************************************************************************)
(* RingBuffer (types/ring_buffer.hpp), the lock-free queue between the     *)
(* ingest thread (producer, push) and the engine thread (consumer, pop).   *)
(* Every atomic load, slot access and atomic store of push and pop is a    *)
(* step of its own, so that the two threads interleave anywhere.           *)
(*                                                                         *)
(* Memory model.  head_ is stored by the producer alone and tail_ by the   *)
(* consumer alone, both with release; the other side loads them with       *)
(* acquire.  Such a load may return any value of the modification order    *)
(* not older than the one that thread saw last: seenTail and seenHead are  *)
(* these last seen values.  What was written to a slot before the store    *)
(* that a load observes is visible to the loading thread.                  *)
(*                                                                         *)
(* The values pushed are numbered 1, 2, 3, ... so that loss, duplication   *)
(* and reordering are visible in `delivered'.                              *)
(***************************************************************************)
EXTENDS Naturals, Sequences

CONSTANTS Slots,      \* capacity_: the number of slots, a power of two
          MaxPushes,  \* bound: how many values the producer offers
          NoValue     \* an empty std::optional

ASSUME SlotsAssumption == Slots \in Nat \ {0, 1}
ASSUME MaxPushesAssumption == MaxPushes \in Nat
ASSUME NoValueAssumption == NoValue \notin Nat

VARIABLES
    head,       \* head_: the slot the producer fills next
    tail,       \* tail_: the slot the consumer empties next
    buffer,     \* buffer_
    seenTail,   \* the value of tail_ the producer loaded last
    seenHead,   \* the value of head_ the consumer loaded last
    ppc,        \* where the producer is inside push()
    cpc,        \* where the consumer is inside pop()
    popped,     \* pop()'s local `value'
    pushed,     \* how many values the producer has offered
    delivered   \* history: the values pop() has returned

producerVars == <<head, seenTail, ppc, pushed>>
consumerVars == <<tail, seenHead, cpc, popped, delivered>>
vars == <<producerVars, consumerVars, buffer>>

Indices == 0 .. Slots - 1
Values == 1 .. MaxPushes
UsableCapacity == Slots - 1

\* Mutant of Advance: the mask is forgotten.
AdvanceUnmasked(i) == i + 1

\* (i + 1) & mask_, for a mask of Slots - 1 and an index of the ring.
Advance(i) == IF i = Slots - 1 THEN 0 ELSE i + 1

\* (to - from) & mask_: how many slots lie from `from' up to but excluding `to'.
Distance(from, to) == IF from <= to THEN to - from ELSE to + Slots - from

\* The values a load may return that last saw `seen' of a variable now at `now'.
Loadable(seen, now) ==
    {i \in Indices : Distance(seen, i) <= Distance(seen, now)}

Init ==
    /\ head = 0 /\ tail = 0 /\ seenTail = 0 /\ seenHead = 0
    /\ buffer = [i \in Indices |-> NoValue]
    /\ ppc = "idle" /\ cpc = "idle"
    /\ popped = NoValue
    /\ pushed = 0
    /\ delivered = <<>>

-----------------------------------------------------------------------------
(* The producer: push(value), one step per shared access.                  *)

\* Mutant of PushCheck: the full check is left out.
PushCheckUnguarded ==
    /\ ppc = "idle"
    /\ pushed < MaxPushes
    /\ \E t \in Loadable(seenTail, tail) : seenTail' = t
    /\ ppc' = "write" /\ pushed' = pushed + 1
    /\ UNCHANGED <<head, buffer, consumerVars>>

\* Loads of head_ and tail_, and the full check.  A full ring refuses the
\* value: the caller drops it (ingest_message) or offers it again (push_wait).
PushCheck ==
    /\ ppc = "idle"
    /\ pushed < MaxPushes
    /\ \E t \in Loadable(seenTail, tail) :
          /\ seenTail' = t
          /\ IF Advance(head) = t
               THEN ppc' = "idle" /\ pushed' \in {pushed, pushed + 1}
               ELSE ppc' = "write" /\ pushed' = pushed + 1
    /\ UNCHANGED <<head, buffer, consumerVars>>

\* Mutant of PushWrite: the value goes to next_head.
PushWriteToNext ==
    /\ ppc = "write"
    /\ buffer' = [buffer EXCEPT ![Advance(head)] = pushed]
    /\ ppc' = "publish"
    /\ UNCHANGED <<head, seenTail, pushed, consumerVars>>

\* buffer_[head] = std::move(value)
PushWrite ==
    /\ ppc = "write"
    /\ buffer' = [buffer EXCEPT ![head] = pushed]
    /\ ppc' = "publish"
    /\ UNCHANGED <<head, seenTail, pushed, consumerVars>>

\* head_.store(next_head, release)
PushPublish ==
    /\ ppc = "publish"
    /\ head' = Advance(head)
    /\ ppc' = "idle"
    /\ UNCHANGED <<seenTail, pushed, buffer, consumerVars>>

-----------------------------------------------------------------------------
(* The consumer: pop().                                                    *)

\* Mutant of PopCheckAt: the last value of the ring counts as an empty ring.
PopCheckLeavesOne(h) ==
    /\ cpc = "idle"
    /\ seenHead' = h
    /\ cpc' = IF tail = h \/ Advance(tail) = h THEN "idle" ELSE "read"
    /\ UNCHANGED <<tail, popped, delivered, buffer, producerVars>>

\* Loads of tail_ and head_, and the empty check (an empty ring returns
\* nullopt and changes nothing).
PopCheckAt(h) ==
    /\ cpc = "idle"
    /\ seenHead' = h
    /\ cpc' = IF tail = h THEN "idle" ELSE "read"
    /\ UNCHANGED <<tail, popped, delivered, buffer, producerVars>>

PopCheck == \E h \in Loadable(seenHead, head) : PopCheckAt(h)

\* auto value = std::move(buffer_[tail]): the slot keeps a moved-from value.
PopRead ==
    /\ cpc = "read"
    /\ popped' = buffer[tail]
    /\ cpc' = "clear"
    /\ UNCHANGED <<tail, seenHead, delivered, buffer, producerVars>>

\* Mutant of PopClear: the slot is not reset.
PopClearForgets ==
    /\ cpc = "clear"
    /\ cpc' = "release"
    /\ UNCHANGED <<buffer, tail, seenHead, popped, delivered, producerVars>>

\* buffer_[tail].reset()
PopClear ==
    /\ cpc = "clear"
    /\ buffer' = [buffer EXCEPT ![tail] = NoValue]
    /\ cpc' = "release"
    /\ UNCHANGED <<tail, seenHead, popped, delivered, producerVars>>

\* tail_.store(tail + 1, release); return value
PopRelease ==
    /\ cpc = "release"
    /\ tail' = Advance(tail)
    /\ delivered' = Append(delivered, popped)
    /\ popped' = NoValue
    /\ cpc' = "idle"
    /\ UNCHANGED <<seenHead, buffer, producerVars>>

-----------------------------------------------------------------------------
Producer == PushCheck \/ PushWrite \/ PushPublish
Consumer == PopCheck \/ PopRead \/ PopClear \/ PopRelease
Next == Producer \/ Consumer

Spec == Init /\ [][Next]_vars

(* Fairness.  Both threads run: a push or pop that has begun completes, and  *)
(* the engine loop calls pop again and again.  A store becomes visible to    *)
(* the loads of another thread in finite time, so a consumer that keeps      *)
(* loading cannot see only stale values of head_ for ever.                   *)
Fairness ==
    /\ WF_vars(PushWrite \/ PushPublish)
    /\ WF_vars(PopRead \/ PopClear \/ PopRelease)
    /\ SF_vars(PopCheckAt(head))

FairSpec == Spec /\ Fairness

-----------------------------------------------------------------------------
(* Properties.                                                             *)

\* Every variable stays in its range.
TypeOK ==
    /\ head \in Indices /\ tail \in Indices
    /\ seenTail \in Indices /\ seenHead \in Indices
    /\ buffer \in [Indices -> Values \cup {NoValue}]
    /\ ppc \in {"idle", "write", "publish"}
    /\ cpc \in {"idle", "read", "clear", "release"}
    /\ popped \in Values \cup {NoValue}
    /\ pushed \in 0 .. MaxPushes
    /\ delivered \in Seq(Values)

\* The producer is never in the middle of writing the slot the consumer is
\* reading or clearing, whatever stale indices either has loaded
\* (push's buffer_[head] = ... against pop's move and reset of buffer_[tail]).
NoSlotRace == ~(ppc = "write" /\ cpc \in {"read", "clear"} /\ head = tail)

\* push never overwrites a value that was not popped, and pop never moves out
\* of an empty optional.
NoOverwriteNoEmptyRead ==
    /\ ppc = "write" => buffer[head] = NoValue
    /\ cpc = "read" => buffer[tail] # NoValue

\* Values come out in the order they went in and none comes out twice
\* (values that were refused by a full ring are missing).
DeliveredInOrder ==
    \A i, j \in 1 .. Len(delivered) : i < j => delivered[i] < delivered[j]

\* The queue the ring stands for: the slots from tail up to head, the first
\* of them taken from pop's local once it was moved out.
SlotAt(k) == IF tail + k < Slots THEN tail + k ELSE tail + k - Slots

Contents ==
    [k \in 1 .. Distance(tail, head) |->
        IF k = 1 /\ cpc \in {"clear", "release"} THEN popped
        ELSE buffer[SlotAt(k - 1)]]

Fifo == INSTANCE BoundedFifo WITH queue <- Contents, Capacity <- UsableCapacity

\* The ring implements the bounded queue: an element enters when head_ is
\* stored and leaves when tail_ is stored, and every other step is internal.
ImplementsFifo == Fifo!FifoSpec

\* A value that was published is delivered: the consumer cannot miss a slot.
EveryValueDelivered ==
    \A v \in Values :
        (\E i \in DOMAIN Contents : Contents[i] = v)
            ~> (\E i \in DOMAIN delivered : delivered[i] = v)
=============================================================================
