--------------------------- MODULE SpscRing_proofs ---------------------------
(***************************************************************************)
(* Theorems about SpscRing for every ring size and any number of pushes.   *)
(***************************************************************************)
EXTENDS SpscRing, SequenceTheorems, TLAPS

USE SlotsAssumption, MaxPushesAssumption, NoValueAssumption

-----------------------------------------------------------------------------
(* The inductive invariant.                                                *)

\* A stale index errs on the safe side only: the producer's view of tail_ is
\* at or behind tail_, so the ring looks fuller to it than it is, and the
\* consumer's view of head_ is at or behind head_, so it looks emptier.
ViewsAreBehind ==
    /\ Distance(tail, head) <= Distance(seenTail, head)
    /\ Distance(tail, seenHead) <= Distance(tail, head)

\* A push past its full check has a free slot, a pop past its empty check has
\* a filled one, in the view it checked.
ChecksStillHold ==
    /\ ppc # "idle" => Advance(head) # seenTail /\ pushed \in Values
    /\ cpc # "idle" => tail # seenHead

\* Which slots hold a value: those from tail up to head, with the one being
\* published and without the one already cleared.
Occupied(i) ==
    \/ Distance(tail, i) < Distance(tail, head) /\ ~(cpc = "release" /\ i = tail)
    \/ ppc = "publish" /\ i = head

SlotsMatch == \A i \in Indices : buffer[i] # NoValue <=> Occupied(i)

PoppedMatches ==
    /\ cpc \in {"clear", "release"} => popped \in Values
    /\ cpc \in {"idle", "read"} => popped = NoValue
    /\ ppc = "publish" => buffer[head] = pushed

IInv ==
    /\ TypeOK
    /\ ViewsAreBehind
    /\ ChecksStillHold
    /\ SlotsMatch
    /\ PoppedMatches

-----------------------------------------------------------------------------
(* Index arithmetic.                                                       *)

LEMMA AdvanceType == \A i \in Indices : Advance(i) \in Indices
BY DEF Indices, Advance

LEMMA DistanceType ==
    \A i, j \in Indices :
        /\ Distance(i, j) \in Indices
        /\ Distance(i, j) = 0 <=> i = j
BY DEF Indices, Distance

\* Moving the far end of an arc on by one slot makes it one longer, unless it
\* would close the circle; moving its near end on makes it one shorter.
LEMMA DistanceAdvance ==
    \A i, j \in Indices :
        /\ Advance(j) # i => Distance(i, Advance(j)) = Distance(i, j) + 1
        /\ i # j => Distance(Advance(i), j) = Distance(i, j) - 1
BY DEF Indices, Distance, Advance

-----------------------------------------------------------------------------
(* The invariant is inductive: one lemma per action.                       *)

LEMMA InitIInv == Init => IInv
BY DEF Init, IInv, TypeOK, ViewsAreBehind, ChecksStillHold, SlotsMatch,
       PoppedMatches, Occupied, Distance, Advance, Indices, Values

LEMMA PushCheckIInv == IInv /\ PushCheck => IInv'
<1> SUFFICES ASSUME IInv, PushCheck PROVE IInv'
    OBVIOUS
<1> USE DEF PushCheck, consumerVars, Indices
<1>1. TypeOK'
    BY DEF IInv, TypeOK, Loadable, Values
<1>2. ViewsAreBehind'
    BY DEF IInv, TypeOK, ViewsAreBehind, Loadable, Distance
<1>3. ChecksStillHold'
    BY DEF IInv, TypeOK, ChecksStillHold, Values
<1>4. SlotsMatch'
    BY DEF IInv, TypeOK, SlotsMatch, Occupied
<1>5. PoppedMatches'
    BY DEF IInv, PoppedMatches
<1>6. QED
    BY <1>1, <1>2, <1>3, <1>4, <1>5 DEF IInv

LEMMA PushWriteIInv == IInv /\ PushWrite => IInv'
<1> SUFFICES ASSUME IInv, PushWrite PROVE IInv'
    OBVIOUS
<1> USE DEF PushWrite, consumerVars
<1>1. TypeOK'
    BY DEF IInv, TypeOK, ChecksStillHold, Values
<1>2. ViewsAreBehind' /\ ChecksStillHold' /\ PoppedMatches'
    BY DEF IInv, TypeOK, ViewsAreBehind, ChecksStillHold, PoppedMatches
<1>3. SlotsMatch'
    BY DEF IInv, TypeOK, SlotsMatch, Occupied, ChecksStillHold, Values
<1>4. QED
    BY <1>1, <1>2, <1>3 DEF IInv

LEMMA PushPublishIInv == IInv /\ PushPublish => IInv'
<1> SUFFICES ASSUME IInv, PushPublish PROVE IInv'
    OBVIOUS
<1> USE DEF PushPublish, consumerVars
<1>1. TypeOK'
    BY AdvanceType DEF IInv, TypeOK
<1>2. Advance(head) # tail
    BY DEF IInv, TypeOK, ViewsAreBehind, ChecksStillHold, Distance, Advance, Indices
<1>3. ViewsAreBehind'
    BY <1>2 DEF IInv, TypeOK, ViewsAreBehind, ChecksStillHold, Distance, Advance, Indices
<1>4. ChecksStillHold' /\ PoppedMatches'
    BY DEF IInv, ChecksStillHold, PoppedMatches
<1>5. SlotsMatch'
    <2>1. Distance(tail, Advance(head)) = Distance(tail, head) + 1
        BY <1>2, DistanceAdvance DEF IInv, TypeOK
    <2> SUFFICES ASSUME NEW i \in Indices
                 PROVE buffer[i] # NoValue <=> Occupied(i)'
        BY DEF SlotsMatch
    <2>2. Distance(tail, i) < Distance(tail, head) + 1
            <=> Distance(tail, i) < Distance(tail, head) \/ i = head
        BY DEF IInv, TypeOK, Distance, Indices
    <2>3. ~(cpc = "release" /\ head = tail)
        BY DEF IInv, TypeOK, ViewsAreBehind, ChecksStillHold, Distance, Indices
    <2>4. QED
        BY <2>1, <2>2, <2>3 DEF IInv, SlotsMatch, Occupied
<1>6. QED
    BY <1>1, <1>3, <1>4, <1>5 DEF IInv

LEMMA PopCheckIInv == IInv /\ PopCheck => IInv'
<1> SUFFICES ASSUME IInv, NEW h \in Loadable(seenHead, head), PopCheckAt(h)
             PROVE IInv'
    BY DEF PopCheck
<1> USE DEF PopCheckAt, producerVars
<1>1. TypeOK'
    BY DEF IInv, TypeOK, Loadable
<1>2. ViewsAreBehind'
    BY DEF IInv, TypeOK, ViewsAreBehind, Loadable, Distance, Indices
<1>3. ChecksStillHold' /\ PoppedMatches'
    BY DEF IInv, TypeOK, ChecksStillHold, PoppedMatches
<1>4. SlotsMatch'
    BY DEF IInv, TypeOK, SlotsMatch, Occupied
<1>5. QED
    BY <1>1, <1>2, <1>3, <1>4 DEF IInv

LEMMA PopReadIInv == IInv /\ PopRead => IInv'
<1> SUFFICES ASSUME IInv, PopRead PROVE IInv'
    OBVIOUS
<1> USE DEF PopRead, producerVars
<1>1. TypeOK'
    BY DEF IInv, TypeOK
<1>2. ViewsAreBehind' /\ ChecksStillHold'
    BY DEF IInv, ViewsAreBehind, ChecksStillHold
<1>3. SlotsMatch'
    BY DEF IInv, TypeOK, SlotsMatch, Occupied
<1>4. PoppedMatches'
    <2>1. Distance(tail, tail) < Distance(tail, head)
        BY DEF IInv, TypeOK, ViewsAreBehind, ChecksStillHold, Distance, Indices
    <2>2. buffer[tail] # NoValue
        BY <2>1 DEF IInv, TypeOK, SlotsMatch, Occupied
    <2>3. QED
        BY <2>2 DEF IInv, TypeOK, PoppedMatches
<1>5. QED
    BY <1>1, <1>2, <1>3, <1>4 DEF IInv

LEMMA PopClearIInv == IInv /\ PopClear => IInv'
<1> SUFFICES ASSUME IInv, PopClear PROVE IInv'
    OBVIOUS
<1> USE DEF PopClear, producerVars
<1>1. TypeOK'
    BY DEF IInv, TypeOK
<1>2. head # tail
    BY DEF IInv, TypeOK, ViewsAreBehind, ChecksStillHold, Distance, Indices
<1>3. ViewsAreBehind' /\ ChecksStillHold' /\ PoppedMatches'
    BY <1>2 DEF IInv, TypeOK, ViewsAreBehind, ChecksStillHold, PoppedMatches
<1>4. SlotsMatch'
    BY <1>2 DEF IInv, TypeOK, SlotsMatch, Occupied
<1>5. QED
    BY <1>1, <1>3, <1>4 DEF IInv

LEMMA PopReleaseIInv == IInv /\ PopRelease => IInv'
<1> SUFFICES ASSUME IInv, PopRelease PROVE IInv'
    OBVIOUS
<1> USE DEF PopRelease, producerVars
<1>1. TypeOK'
    BY AdvanceType DEF IInv, TypeOK, PoppedMatches
<1>2. head # tail
    BY DEF IInv, TypeOK, ViewsAreBehind, ChecksStillHold, Distance, Indices
<1>3. ViewsAreBehind'
    BY <1>2 DEF IInv, TypeOK, ViewsAreBehind, ChecksStillHold, Distance, Advance, Indices
<1>4. ChecksStillHold' /\ PoppedMatches'
    BY DEF IInv, ChecksStillHold, PoppedMatches
<1>5. SlotsMatch'
    <2> SUFFICES ASSUME NEW i \in Indices
                 PROVE buffer[i] # NoValue <=> Occupied(i)'
        BY DEF SlotsMatch
    <2>1. Distance(Advance(tail), i) < Distance(Advance(tail), head)
            <=> Distance(tail, i) < Distance(tail, head) /\ i # tail
        BY <1>2 DEF IInv, TypeOK, Distance, Advance, Indices
    <2>2. QED
        BY <2>1, <1>2 DEF IInv, SlotsMatch, Occupied
<1>6. QED
    BY <1>1, <1>3, <1>4, <1>5 DEF IInv

LEMMA NextIInv == IInv /\ [Next]_vars => IInv'
<1> SUFFICES ASSUME IInv, [Next]_vars PROVE IInv'
    OBVIOUS
<1>1. CASE Producer
    BY <1>1, PushCheckIInv, PushWriteIInv, PushPublishIInv DEF Producer
<1>2. CASE Consumer
    BY <1>2, PopCheckIInv, PopReadIInv, PopClearIInv, PopReleaseIInv DEF Consumer
<1>3. CASE UNCHANGED vars
    BY <1>3 DEF vars, producerVars, consumerVars, IInv, TypeOK, ViewsAreBehind,
                ChecksStillHold, SlotsMatch, Occupied, PoppedMatches
<1>4. QED
    BY <1>1, <1>2, <1>3 DEF Next

LEMMA RingInvariant == Spec => []IInv
BY InitIInv, NextIInv, PTL DEF Spec

-----------------------------------------------------------------------------
(* The theorems.                                                           *)

\* Every variable of the ring keeps its type.
THEOREM TypeCorrect == Spec => []TypeOK
<1>1. IInv => TypeOK
    BY DEF IInv
<1>2. QED
    BY <1>1, RingInvariant, PTL

\* In a ring of any size, the producer never writes the slot the consumer is
\* moving out of or resetting, however stale the indices they loaded are.
THEOREM SlotsAreNotShared == Spec => []NoSlotRace
<1>1. IInv => NoSlotRace
    BY DEF IInv, TypeOK, ViewsAreBehind, ChecksStillHold, NoSlotRace, Distance, Indices
<1>2. QED
    BY <1>1, RingInvariant, PTL

\* push writes into empty slots only and pop moves out of filled ones only.
THEOREM NoValueIsLostOrInvented == Spec => []NoOverwriteNoEmptyRead
<1>1. ASSUME IInv PROVE NoOverwriteNoEmptyRead
    <2>1. ppc = "write" => ~Occupied(head)
        BY <1>1 DEF IInv, TypeOK, Occupied, Distance, Indices
    <2>2. cpc = "read" => Occupied(tail)
        BY <1>1 DEF IInv, TypeOK, ViewsAreBehind, ChecksStillHold, Occupied,
                    Distance, Indices
    <2>3. QED
        BY <1>1, <2>1, <2>2 DEF IInv, TypeOK, SlotsMatch, NoOverwriteNoEmptyRead
<1>2. QED
    BY <1>1, RingInvariant, PTL

-----------------------------------------------------------------------------
(* The ring implements the bounded queue.                                  *)

LEMMA SlotAtType ==
    ASSUME IInv, NEW k \in 1 .. Distance(tail, head)
    PROVE  /\ SlotAt(k - 1) \in Indices
           /\ Distance(tail, SlotAt(k - 1)) = k - 1
           /\ SlotAt(k - 1) # head
           /\ SlotAt(k - 1) = tail <=> k = 1
BY DEF IInv, TypeOK, SlotAt, Distance, Indices

ContentsTyped ==
    /\ Distance(tail, head) \in Indices
    /\ Contents \in Seq(Values)
    /\ Len(Contents) = Distance(tail, head)

LEMMA ContentsType == IInv => ContentsTyped
<1> SUFFICES ASSUME IInv PROVE ContentsTyped
    OBVIOUS
<1>1. Distance(tail, head) \in Indices
    BY DistanceType DEF IInv, TypeOK
<1>2. ASSUME NEW k \in 1 .. Distance(tail, head)
      PROVE  Contents[k] \in Values
    <2>1. CASE k = 1 /\ cpc \in {"clear", "release"}
        BY <2>1 DEF IInv, PoppedMatches, Contents
    <2>2. CASE ~(k = 1 /\ cpc \in {"clear", "release"})
        <3>1. Occupied(SlotAt(k - 1))
            BY <1>1, <2>2, SlotAtType DEF Occupied, Indices
        <3>2. buffer[SlotAt(k - 1)] \in Values
            BY <3>1, SlotAtType DEF IInv, TypeOK, SlotsMatch
        <3>3. QED
            BY <2>2, <3>2 DEF Contents
    <2>3. QED
        BY <2>1, <2>2
<1>3. Contents \in [1 .. Distance(tail, head) -> Values]
    BY <1>2 DEF Contents
<1>4. QED
    BY <1>1, <1>3 DEF Indices, ContentsTyped

\* Storing head_ appends the value just written.
LEMMA PublishEnqueues == IInv /\ PushPublish => Fifo!Enqueue(pushed) /\ pushed \in Values
<1> SUFFICES ASSUME IInv, PushPublish
             PROVE  Fifo!Enqueue(pushed) /\ pushed \in Values
    OBVIOUS
<1>1. IInv'
    BY PushPublishIInv
<1>2. pushed \in Values
    BY DEF IInv, ChecksStillHold, PushPublish
<1>3. Advance(head) # tail
    BY DEF IInv, TypeOK, PushPublish, ViewsAreBehind, ChecksStillHold, Distance,
           Advance, Indices
<1>4. Distance(tail, head)' = Distance(tail, head) + 1
    BY <1>3, DistanceAdvance DEF IInv, TypeOK, PushPublish, consumerVars
<1>5. Contents \in Seq(Values) /\ Len(Contents) = Distance(tail, head)
    BY ContentsType DEF ContentsTyped
<1>6. Contents' \in Seq(Values) /\ Len(Contents') = Distance(tail, head) + 1
    <2>1. ContentsTyped'
        BY <1>1, ContentsType, PTL
    <2>2. QED
        BY <2>1, <1>4 DEF ContentsTyped
<1>7. Len(Contents) < UsableCapacity
    BY <1>1, <1>4, <1>5, DistanceType, SMTT(30) DEF IInv, TypeOK, Indices, UsableCapacity
<1>8. ASSUME NEW k \in 1 .. Distance(tail, head) + 1
      PROVE  Contents'[k] = Append(Contents, pushed)[k]
    <2>1. CASE k <= Distance(tail, head)
        <3>1. Contents'[k] = Contents[k]
            BY <2>1, <1>4 DEF Contents, PushPublish, consumerVars, SlotAt
        <3>2. QED
            BY <3>1, <2>1, <1>2, <1>5
    <2>2. CASE k = Distance(tail, head) + 1
        <3>1. SlotAt(k - 1) = head
            BY <2>2 DEF IInv, TypeOK, SlotAt, Distance, Indices
        <3>2. ~(k = 1 /\ cpc \in {"clear", "release"})
            BY <2>2, DistanceType
               DEF IInv, TypeOK, ChecksStillHold, ViewsAreBehind, Distance, Indices
        <3>3. Contents'[k] = pushed
            BY <3>1, <3>2, <1>4
               DEF Contents, PushPublish, consumerVars, SlotAt, IInv, PoppedMatches
        <3>4. QED
            BY <3>3, <2>2, <1>2, <1>5
    <2>3. QED
        BY <2>1, <2>2, ContentsType DEF Indices, ContentsTyped
<1>9. Contents' = Append(Contents, pushed)
    <2>1. Append(Contents, pushed) \in Seq(Values)
        BY <1>2, <1>5
    <2>2. Len(Append(Contents, pushed)) = Distance(tail, head) + 1
        BY <1>2, <1>5
    <2>3. QED
        BY <2>1, <2>2, <1>6, <1>8, SeqEqual
<1>10. QED
    BY <1>2, <1>7, <1>9 DEF Fifo!Enqueue, PushPublish, consumerVars

\* Storing tail_ removes the first value and delivers it.
LEMMA ReleaseDequeues == IInv /\ PopRelease => Fifo!Dequeue
<1> SUFFICES ASSUME IInv, PopRelease PROVE Fifo!Dequeue
    OBVIOUS
<1>1. IInv'
    BY PopReleaseIInv
<1>2. tail # head
    BY DEF IInv, TypeOK, PopRelease, ViewsAreBehind, ChecksStillHold, Distance, Indices
<1>3. Distance(tail, head)' = Distance(tail, head) - 1
    BY <1>2, DistanceAdvance DEF IInv, TypeOK, PopRelease, producerVars
<1>4. /\ Contents \in Seq(Values) /\ Len(Contents) = Distance(tail, head)
      /\ Distance(tail, head) \in Indices /\ Distance(tail, head) > 0
    <2>1. ContentsTyped
        BY ContentsType
    <2>2. Distance(tail, head) > 0
        BY <1>2 DEF IInv, TypeOK, Indices, Distance
    <2>3. QED
        BY <2>1, <2>2 DEF ContentsTyped
<1>5. Contents' \in Seq(Values) /\ Len(Contents') = Distance(tail, head) - 1
    <2>1. ContentsTyped'
        BY <1>1, ContentsType, PTL
    <2>2. QED
        BY <2>1, <1>3 DEF ContentsTyped
<1>6. Contents # <<>> /\ Head(Contents) = popped
    BY <1>4 DEF Contents, PopRelease, Indices
<1>7. /\ Tail(Contents) \in Seq(Values)
      /\ Len(Tail(Contents)) = Distance(tail, head) - 1
      /\ \A k \in 1 .. Len(Tail(Contents)) : Tail(Contents)[k] = Contents[k + 1]
    BY <1>4, <1>6, HeadTailProperties
<1>8. ASSUME NEW k \in 1 .. Distance(tail, head) - 1
      PROVE  Contents'[k] = Contents[k + 1]
    <2>1. k + 1 \in 1 .. Distance(tail, head) /\ k + 1 # 1
        BY <1>4 DEF Indices
    <2>2. SlotAt(k - 1)' = SlotAt(k)
        BY <2>1, <1>4 DEF IInv, TypeOK, PopRelease, SlotAt, Advance, Indices
    <2>3. Contents'[k] = buffer[SlotAt(k)]
        BY <2>2, <1>3 DEF Contents, PopRelease, producerVars
    <2>4. Contents[k + 1] = buffer[SlotAt(k)]
        BY <2>1 DEF Contents
    <2>5. QED
        BY <2>3, <2>4
<1>9. Contents' = Tail(Contents)
    BY <1>5, <1>7, <1>8, SeqEqual
<1>10. QED
    BY <1>6, <1>9 DEF Fifo!Dequeue, PopRelease

\* Every other step leaves the queue as it is.
LEMMA OtherStepsStutter ==
    IInv /\ (PushCheck \/ PushWrite \/ PopCheck \/ PopRead \/ PopClear)
        => UNCHANGED <<Contents, delivered>>
<1> SUFFICES ASSUME IInv
             PROVE  (PushCheck \/ PushWrite \/ PopCheck \/ PopRead \/ PopClear)
                        => UNCHANGED <<Contents, delivered>>
    OBVIOUS
<1>1. ASSUME PushCheck PROVE UNCHANGED <<Contents, delivered>>
    BY <1>1 DEF PushCheck, consumerVars, Contents, SlotAt
<1>2. ASSUME PushWrite PROVE UNCHANGED <<Contents, delivered>>
    <2>1. ASSUME NEW k \in 1 .. Distance(tail, head)
          PROVE  buffer'[SlotAt(k - 1)] = buffer[SlotAt(k - 1)]
        BY <1>2, SlotAtType DEF PushWrite, IInv, TypeOK
    <2>2. QED
        BY <1>2, <2>1 DEF PushWrite, consumerVars, Contents, SlotAt
<1>3. ASSUME PopCheck PROVE UNCHANGED <<Contents, delivered>>
    <2>1. cpc \notin {"clear", "release"} /\ cpc' \notin {"clear", "release"}
        BY <1>3 DEF PopCheck, PopCheckAt
    <2>2. QED
        BY <1>3, <2>1 DEF PopCheck, PopCheckAt, producerVars, Contents, SlotAt
<1>4. ASSUME PopRead PROVE UNCHANGED <<Contents, delivered>>
    <2>1. ASSUME NEW k \in 1 .. Distance(tail, head), k = 1
          PROVE  buffer[SlotAt(k - 1)] = popped'
        BY <1>4, <2>1, SlotAtType DEF PopRead
    <2>2. /\ cpc \notin {"clear", "release"}
          /\ cpc' \in {"clear", "release"}
        BY <1>4 DEF PopRead
    <2>3. QED
        BY <1>4, <2>1, <2>2 DEF PopRead, producerVars, Contents, SlotAt
<1>5. ASSUME PopClear PROVE UNCHANGED <<Contents, delivered>>
    <2>1. ASSUME NEW k \in 1 .. Distance(tail, head), k # 1
          PROVE  buffer'[SlotAt(k - 1)] = buffer[SlotAt(k - 1)]
        BY <1>5, <2>1, SlotAtType DEF PopClear, IInv, TypeOK
    <2>2. /\ cpc \in {"clear", "release"}
          /\ cpc' \in {"clear", "release"}
        BY <1>5 DEF PopClear
    <2>3. QED
        BY <1>5, <2>1, <2>2 DEF PopClear, producerVars, Contents, SlotAt
<1>6. QED
    BY <1>1, <1>2, <1>3, <1>4, <1>5

\* A ring of any size implements the bounded queue: values enter and leave in
\* order, none is lost or duplicated, whatever the interleaving of the two
\* threads and however stale their views of each other's index.
THEOREM RingImplementsFifo == Spec => ImplementsFifo
<1>1. Init => Fifo!FifoInit
    BY DEF Init, Fifo!FifoInit, Contents, Distance
<1>2. IInv /\ [Next]_vars => [Fifo!FifoNext]_(Fifo!fifoVars)
    <2> SUFFICES ASSUME IInv, [Next]_vars
                 PROVE  [Fifo!FifoNext]_(Fifo!fifoVars)
        OBVIOUS
    <2>1. CASE PushPublish
        BY <2>1, PublishEnqueues DEF Fifo!FifoNext
    <2>2. CASE PopRelease
        BY <2>2, ReleaseDequeues DEF Fifo!FifoNext
    <2>3. CASE PushCheck \/ PushWrite \/ PopCheck \/ PopRead \/ PopClear
        BY <2>3, OtherStepsStutter DEF Fifo!fifoVars
    <2>4. CASE UNCHANGED vars
        BY <2>4 DEF vars, producerVars, consumerVars, Fifo!fifoVars, Contents, SlotAt
    <2>5. QED
        BY <2>1, <2>2, <2>3, <2>4 DEF Next, Producer, Consumer
<1>3. QED
    BY <1>1, <1>2, RingInvariant, PTL DEF Spec, ImplementsFifo, Fifo!FifoSpec

-----------------------------------------------------------------------------
(* Order of delivery.                                                      *)

Increasing(s) == \A i, j \in 1 .. Len(s) : i < j => s[i] < s[j]

LEMMA AppendToConcat ==
    ASSUME NEW s \in Seq(Nat), NEW t \in Seq(Nat), NEW n \in Nat
    PROVE  s \o Append(t, n) = Append(s \o t, n)
OBVIOUS

LEMMA MoveHeadAcross ==
    ASSUME NEW s \in Seq(Nat), NEW t \in Seq(Nat), t # <<>>
    PROVE  Append(s, Head(t)) \o Tail(t) = s \o t
<1> DEFINE l == Append(s, Head(t)) \o Tail(t)
<1>1. /\ Head(t) \in Nat /\ Tail(t) \in Seq(Nat) /\ Len(Tail(t)) = Len(t) - 1
      /\ \A k \in 1 .. Len(t) - 1 : Tail(t)[k] = t[k + 1]
      /\ Len(t) \in Nat \ {0} /\ Head(t) = t[1]
    BY HeadTailProperties, EmptySeq
<1>2. Append(s, Head(t)) \in Seq(Nat) /\ Len(Append(s, Head(t))) = Len(s) + 1
    BY <1>1
<1>3. l \in Seq(Nat) /\ Len(l) = Len(s) + Len(t)
    BY <1>1, <1>2
<1>4. s \o t \in Seq(Nat) /\ Len(s \o t) = Len(s) + Len(t)
    OBVIOUS
<1>5. ASSUME NEW k \in 1 .. Len(s) + Len(t) PROVE l[k] = (s \o t)[k]
    <2>1. CASE k <= Len(s)
        BY <2>1, <1>1, <1>2
    <2>2. CASE k = Len(s) + 1
        BY <2>2, <1>1, <1>2
    <2>3. CASE k > Len(s) + 1
        BY <2>3, <1>1, <1>2
    <2>4. QED
        BY <2>1, <2>2, <2>3
<1>6. QED
    BY <1>3, <1>4, <1>5, SeqEqual

LEMMA IncreasingAppend ==
    ASSUME NEW s \in Seq(Nat), NEW n \in Nat, Increasing(s),
           \A k \in 1 .. Len(s) : s[k] < n
    PROVE  /\ Increasing(Append(s, n))
           /\ \A k \in 1 .. Len(Append(s, n)) : Append(s, n)[k] < n + 1
<1>1. ASSUME NEW i \in 1 .. Len(Append(s, n)), NEW j \in 1 .. Len(Append(s, n)), i < j
      PROVE  Append(s, n)[i] < Append(s, n)[j]
    BY <1>1 DEF Increasing
<1>2. ASSUME NEW k \in 1 .. Len(Append(s, n)) PROVE Append(s, n)[k] < n + 1
    <2>1. CASE k = Len(s) + 1
        BY <2>1
    <2>2. CASE k \in 1 .. Len(s)
        BY <2>2
    <2>3. QED
        BY <2>1, <2>2
<1>3. QED
    BY <1>1, <1>2 DEF Increasing

\* All values accepted so far, those delivered first.
Accepted == delivered \o Contents

\* Everything accepted was offered before this number.
NextNumber == IF ppc = "idle" THEN pushed + 1 ELSE pushed

OrderInv ==
    /\ Increasing(Accepted)
    /\ \A k \in 1 .. Len(Accepted) : Accepted[k] < NextNumber

LEMMA OrderStep == IInv /\ OrderInv /\ [Next]_vars => OrderInv'
<1> SUFFICES ASSUME IInv, OrderInv, [Next]_vars PROVE OrderInv'
    OBVIOUS
<1>1. Contents \in Seq(Nat) /\ delivered \in Seq(Nat) /\ pushed \in Nat
    <2>1. Contents \in Seq(Values) /\ delivered \in Seq(Values) /\ pushed \in Nat
        BY ContentsType DEF ContentsTyped, IInv, TypeOK
    <2>2. QED
        BY <2>1, SeqMonotonic DEF Values
<1>2. CASE PushPublish
    <2>1. /\ Contents' = Append(Contents, pushed) /\ delivered' = delivered
        BY <1>2, PublishEnqueues DEF Fifo!Enqueue
    <2>2. NextNumber = pushed /\ NextNumber' = pushed + 1
        BY <1>2 DEF PushPublish, NextNumber
    <2>3. Accepted' = Append(Accepted, pushed)
        BY <2>1, <1>1, AppendToConcat DEF Accepted
    <2>4. Accepted \in Seq(Nat)
        BY <1>1 DEF Accepted
    <2>5. QED
        BY <2>2, <2>3, <2>4, <1>1, IncreasingAppend DEF OrderInv
<1>3. CASE PopRelease
    <2>1. /\ Contents # <<>> /\ delivered' = Append(delivered, Head(Contents))
          /\ Contents' = Tail(Contents)
        BY <1>3, ReleaseDequeues DEF Fifo!Dequeue
    <2>2. NextNumber' = NextNumber
        BY <1>3 DEF PopRelease, producerVars, NextNumber
    <2>3. Accepted' = Accepted
        BY <2>1, <1>1, MoveHeadAcross DEF Accepted
    <2>4. QED
        BY <2>2, <2>3 DEF OrderInv
<1>4. CASE PushCheck \/ PushWrite \/ PopCheck \/ PopRead \/ PopClear \/ UNCHANGED vars
    <2>1. Contents' = Contents /\ delivered' = delivered
        BY <1>4, OtherStepsStutter
           DEF vars, producerVars, consumerVars, Contents, SlotAt
    <2>2. NextNumber' \in Nat /\ NextNumber \in Nat /\ NextNumber <= NextNumber'
        BY <1>1, <1>4 DEF PushCheck, PushWrite, PopCheck, PopCheckAt, PopRead, PopClear,
                          vars, producerVars, consumerVars, NextNumber
    <2>3. Accepted' = Accepted /\ Accepted \in Seq(Nat)
        BY <2>1, <1>1 DEF Accepted
    <2>4. ASSUME NEW k \in 1 .. Len(Accepted) PROVE Accepted[k] < NextNumber'
        BY <2>2, <2>3 DEF OrderInv
    <2>5. QED
        BY <2>3, <2>4 DEF OrderInv
<1>5. QED
    BY <1>2, <1>3, <1>4 DEF Next, Producer, Consumer

\* In a ring of any size values come out in the order they went in, each at
\* most once.
THEOREM DeliveryIsOrdered == Spec => []DeliveredInOrder
<1>1. Init => OrderInv
    <2>1. Init => Accepted = <<>>
        BY DEF Init, Accepted, Contents, Distance
    <2>2. QED
        BY <2>1 DEF OrderInv, Increasing
<1>2. ASSUME IInv, OrderInv PROVE DeliveredInOrder
    <2>1. Contents \in Seq(Values) /\ delivered \in Seq(Values)
        BY <1>2, ContentsType DEF ContentsTyped, IInv, TypeOK
    <2>2. /\ Len(Accepted) = Len(delivered) + Len(Contents)
          /\ \A i \in 1 .. Len(delivered) : Accepted[i] = delivered[i]
        BY <2>1, ConcatProperties DEF Accepted
    <2>3. \A i \in 1 .. Len(delivered) : i \in 1 .. Len(Accepted)
        BY <2>1, <2>2
    <2>4. QED
        BY <1>2, <2>2, <2>3 DEF OrderInv, Increasing, DeliveredInOrder
<1>3. QED
    BY <1>1, <1>2, OrderStep, RingInvariant, PTL DEF Spec
=============================================================================
