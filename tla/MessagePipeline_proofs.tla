------------------------ MODULE MessagePipeline_proofs ------------------------
(***************************************************************************)
(* Theorems about MessagePipeline for any capacity, batch size, spin count *)
(* and frames: nothing is lost without being counted.                      *)
(***************************************************************************)
EXTENDS MessagePipeline, SequenceTheorems, TLAPS

-----------------------------------------------------------------------------
(* A message moves from place to place without being lost or overtaken.    *)

Messages == 1 .. MaxMessages

LEMMA PolledIsAccepted ==
    ASSUME dispatched \in Seq(Messages), batch \in Seq(Messages), queue \in Seq(Messages),
           queue # <<>>
    PROVE  dispatched \o Append(batch, Head(queue)) \o Tail(queue) = Accepted
<1>1. /\ Head(queue) \in Messages /\ Tail(queue) \in Seq(Messages)
      /\ Append(batch, Head(queue)) \in Seq(Messages)
    OBVIOUS
<1>2. Append(batch, Head(queue)) \o Tail(queue) = batch \o queue
    OBVIOUS
<1>3. dispatched \o Append(batch, Head(queue)) \o Tail(queue)
         = dispatched \o (Append(batch, Head(queue)) \o Tail(queue))
    BY <1>1, SMTT(30)
<1>4. dispatched \o batch \o queue = dispatched \o (batch \o queue)
    OBVIOUS
<1>5. QED
    BY <1>2, <1>3, <1>4 DEF Accepted

LEMMA DispatchedIsAccepted ==
    ASSUME dispatched \in Seq(Messages), batch \in Seq(Messages), queue \in Seq(Messages)
    PROVE  (dispatched \o batch) \o <<>> \o queue = Accepted
BY DEF Accepted

LEMMA PushedIsLast ==
    ASSUME dispatched \in Seq(Messages), batch \in Seq(Messages), queue \in Seq(Messages),
           NEW m \in Messages
    PROVE  dispatched \o batch \o Append(queue, m) = Append(Accepted, m)
BY DEF Accepted

-----------------------------------------------------------------------------
(* The inductive invariant.                                                *)

USE CapacityAssumption, BatchSizeAssumption, SpinCountAssumption,
    InitialBufferAssumption, FramesAssumption, MaxMessagesAssumption, PaddingAssumption

\* Only a poll and a dispatch have a batch, and only pushing has a frame.
WorkHasItsPlace ==
    /\ cpc \notin {"poll", "dispatch"} => batch = <<>>
    /\ ipc \notin {"push", "threw"} => frame = {}

\* The ring and the pops that the ingest thread has not seen fill its capacity.
WithinCapacity == Len(queue) + freed <= Capacity

IInv == TypeOK /\ WithinCapacity /\ WorkHasItsPlace /\ NothingLostSilently

LEMMA InitIInv == Init => IInv
<1> SUFFICES ASSUME Init PROVE IInv
    OBVIOUS
<1>1. <<>> \in Seq(1 .. MaxMessages) /\ Len(<<>>) = 0
    OBVIOUS
<1>2. TypeOK
    <2>1. 0 \in 0 .. Capacity /\ 0 \in 0 .. MaxMessages /\ 0 \in 0 .. SpinCount
        OBVIOUS
    <2>2. /\ queue \in Seq(1 .. MaxMessages) /\ batch \in Seq(1 .. MaxMessages)
          /\ dispatched \in Seq(1 .. MaxMessages) /\ unseen \in 0 .. Len(queue)
        BY <1>1 DEF Init
    <2>3. QED
        BY <2>1, <2>2 DEF Init, TypeOK
<1>3. WithinCapacity /\ WorkHasItsPlace
    BY <1>1 DEF Init, WithinCapacity, WorkHasItsPlace
<1>4. Accepted = <<>>
    BY <1>1, ConcatEmptySeq DEF Init, Accepted
<1>5. DOMAIN Accepted = {}
    BY <1>1, <1>4
<1>6. NothingLostSilently
    BY <1>5 DEF Init, NothingLostSilently
<1>7. QED
    BY <1>2, <1>3, <1>6 DEF IInv

LEMMA AcceptedType == TypeOK => Accepted \in Seq(Messages)
<1> SUFFICES ASSUME TypeOK PROVE Accepted \in Seq(Messages)
    OBVIOUS
<1>1. dispatched \in Seq(Messages) /\ batch \in Seq(Messages) /\ queue \in Seq(Messages)
    BY DEF TypeOK, Messages
<1>2. dispatched \o batch \in Seq(Messages)
    BY <1>1, ConcatProperties
<1>3. QED
    BY <1>1, <1>2, ConcatProperties DEF Accepted

\* A step that neither accepts nor loses anything keeps the account.
LEMMA AccountKept ==
    ASSUME NothingLostSilently, Alive, Accepted' = Accepted,
           UNCHANGED <<ipc, frame, wanted, dropped, refused>>
    PROVE  NothingLostSilently'
BY DEF NothingLostSilently, Alive

-----------------------------------------------------------------------------
(* The ingest thread.                                                      *)

LEMMA Numbered ==
    ASSUME NEW a \in Nat, NEW n \in Nat
    PROVE  {a + i : i \in 1 .. n} = a + 1 .. a + n
<1>1. ASSUME NEW x \in {a + i : i \in 1 .. n} PROVE x \in a + 1 .. a + n
    OBVIOUS
<1>2. ASSUME NEW x \in a + 1 .. a + n PROVE x \in {a + i : i \in 1 .. n}
    <2>1. x - a \in 1 .. n /\ x = a + (x - a)
        OBVIOUS
    <2>2. QED
        BY <2>1
<1>3. QED
    BY <1>1, <1>2

LEMMA ParseFrameIInv == IInv /\ Alive /\ ParseFrame => IInv'
<1> SUFFICES ASSUME IInv, Alive, ipc = "idle", taken' = 0,
                    UNCHANGED <<ringVars, dropped, engineVars, stopVars, sequence>>,
                    NEW f \in Frames,
                    arrived + Len(f.objects) <= MaxMessages,
                    arrived' = arrived + Len(f.objects),
                    buffer' = Grown(buffer, f.length),
                    wanted' = wanted \cup
                       {arrived + i : i \in {i \in DOMAIN f.objects :
                                                f.objects[i].type \in Handled}},
                    IF Refused(buffer, f)
                      THEN /\ refused' = refused \cup {arrived + i : i \in DOMAIN f.objects}
                           /\ frame' = {} /\ UNCHANGED ipc
                      ELSE /\ frame' = {arrived + i : i \in Parsed(f)}
                           /\ ipc' = IF ParseThrows(f) THEN "threw"
                                     ELSE IF frame' = {} THEN "idle" ELSE "push"
                           /\ UNCHANGED refused
             PROVE  IInv'
    BY DEF ParseFrame
<1> DEFINE n == Len(f.objects)
           new == {arrived + i : i \in Parsed(f)}
<1>1. n \in Nat /\ DOMAIN f.objects = 1 .. n /\ f.length \in Nat
    OBVIOUS
<1>2. /\ arrived \in Nat /\ arrived' \in 0 .. MaxMessages /\ arrived' = arrived + n
      /\ buffer' \in Nat
    <2>1. arrived \in Nat /\ buffer \in Nat
        BY DEF IInv, TypeOK
    <2>2. Grown(buffer, f.length) \in Nat
        BY <1>1, <2>1 DEF Grown
    <2>3. arrived + n \in Nat /\ arrived + n <= MaxMessages
        BY <1>1, <2>1
    <2>4. QED
        BY <2>1, <2>2, <2>3
<1>3. new \subseteq arrived + 1 .. arrived' /\ wanted' = wanted \cup new
    BY <1>1, <1>2, SMTT(30) DEF Parsed, IsMessage
<1>4. /\ wanted \subseteq 1 .. arrived /\ refused \subseteq 1 .. arrived
      /\ dropped \subseteq 1 .. arrived
    BY DEF IInv, TypeOK
<1>5. frame = {}
    BY DEF IInv, WorkHasItsPlace
<1>6. UNCHANGED <<queue, freed, unseen, cpc, spins, observed, batch, dispatched,
                  stopping, running, spc, sequence, dropped>>
    BY DEF ringVars, engineVars, stopVars
<1>7. Accepted' = Accepted
    BY <1>6 DEF Accepted
<1>8. \A i \in DOMAIN Accepted : Accepted[i] \in wanted \ (dropped \cup refused)
    BY DEF IInv, NothingLostSilently
<1>9. {Accepted[i] : i \in DOMAIN Accepted} = wanted \ (dropped \cup refused)
    BY <1>5 DEF IInv, NothingLostSilently
<1>10. \A i, j \in DOMAIN Accepted : i < j => Accepted[i] < Accepted[j]
    BY DEF IInv, NothingLostSilently
<1> HIDE DEF n, new
<1>11. \A x \in 1 .. arrived : x \in 1 .. arrived' /\ x \notin arrived + 1 .. arrived'
    BY <1>1, <1>2
<1>12. \A x \in arrived + 1 .. arrived' : x \in 1 .. arrived' /\ x \in 1 .. MaxMessages
    BY <1>2
<1>13. CASE Refused(buffer, f)
    <2>1. refused' = refused \cup (arrived + 1 .. arrived') /\ frame' = {} /\ ipc' = "idle"
        <3>1. refused' = refused \cup {arrived + i : i \in DOMAIN f.objects} /\ frame' = {}
              /\ ipc' = ipc
            BY <1>13
        <3>2. {arrived + i : i \in 1 .. n} = arrived + 1 .. arrived + n
            BY <1>1, <1>2, Numbered
        <3>3. {arrived + i : i \in DOMAIN f.objects} = arrived + 1 .. arrived'
            BY <1>1, <1>2, <3>2
        <3>4. QED
            BY <3>1, <3>3
    <2>2. refused' \subseteq 1 .. arrived' /\ wanted' \subseteq 1 .. arrived'
        BY <1>3, <1>4, <1>11, <1>12, <2>1
    <2>3. wanted' \ (dropped' \cup refused') = wanted \ (dropped \cup refused)
        <3>1. \A x \in wanted : x \notin arrived + 1 .. arrived'
            BY <1>4, <1>11
        <3>2. QED
            BY <1>3, <1>6, <2>1, <3>1
    <2>4. NothingLostSilently'
        BY <1>7, <1>9, <1>10, <2>1, <2>3 DEF NothingLostSilently
    <2>5. dropped' \subseteq 1 .. arrived'
        BY <1>4, <1>6, <1>11
    <2>6. TypeOK'
        BY <1>2, <1>6, <2>1, <2>2, <2>5 DEF IInv, TypeOK
    <2>7. WithinCapacity' /\ WorkHasItsPlace'
        BY <1>6, <2>1 DEF IInv, WithinCapacity, WorkHasItsPlace
    <2>8. QED
        BY <2>4, <2>6, <2>7 DEF IInv
<1>14. CASE ~Refused(buffer, f)
    <2>1. /\ refused' = refused /\ frame' = new
          /\ ipc' \in {"idle", "push", "threw"} /\ (ipc' = "idle" => frame' = {})
        BY <1>14 DEF new
    <2>2. wanted' \subseteq 1 .. arrived' /\ frame' \subseteq 1 .. MaxMessages
        BY <1>3, <1>4, <1>11, <1>12, <2>1
    <2>3. wanted' \ (dropped' \cup refused') = (wanted \ (dropped \cup refused)) \cup new
        <3>1. \A x \in new : x \notin dropped /\ x \notin refused
            BY <1>3, <1>4, <1>11
        <3>2. QED
            BY <1>3, <1>6, <2>1, <3>1
    <2>4. ASSUME NEW i \in DOMAIN Accepted, NEW m \in frame' PROVE Accepted[i] < m
        <3>1. Accepted[i] \in 1 .. arrived /\ m \in arrived + 1 .. arrived'
            BY <1>3, <1>4, <1>8, <2>1
        <3>2. QED
            BY <1>2, <3>1
    <2>5. NothingLostSilently'
        BY <1>7, <1>9, <1>10, <2>1, <2>3, <2>4 DEF NothingLostSilently
    <2>6. refused' \subseteq 1 .. arrived' /\ dropped' \subseteq 1 .. arrived'
        BY <1>4, <1>6, <1>11, <2>1
    <2>7. TypeOK'
        BY <1>2, <1>6, <2>1, <2>2, <2>6 DEF IInv, TypeOK
    <2>8. WithinCapacity' /\ WorkHasItsPlace'
        BY <1>6, <2>1 DEF IInv, WithinCapacity, WorkHasItsPlace
    <2>9. QED
        BY <2>5, <2>7, <2>8 DEF IInv
<1>15. QED
    BY <1>13, <1>14

LEMMA PushMessageIInv == IInv /\ Alive /\ PushMessage => IInv'
<1> SUFFICES ASSUME IInv, Alive, ipc = "push", NEW m \in frame, NEW lag \in 0 .. freed,
                    IsNext(m), frame' = frame \ {m}, freed' = lag,
                    \/ /\ Len(queue) + lag < Capacity
                       /\ queue' = Append(queue, m)
                       /\ unseen' = unseen + 1
                       /\ taken' = taken + 1
                       /\ UNCHANGED dropped
                    \/ /\ Len(queue) + lag >= Capacity
                       /\ dropped' = dropped \cup {m}
                       /\ UNCHANGED <<queue, unseen, taken>>,
                    UNCHANGED <<ipc, arrivals, engineVars, stopVars, sequence>>
             PROVE  IInv'
    BY DEF PushMessage
<1>1. UNCHANGED <<ipc, buffer, arrived, wanted, refused, cpc, spins, observed, batch,
                  dispatched, stopping, running, spc, sequence>>
    BY DEF arrivals, engineVars, stopVars
<1>2. /\ queue \in Seq(Messages) /\ batch \in Seq(Messages) /\ dispatched \in Seq(Messages)
      /\ m \in Messages /\ frame \subseteq Messages /\ Accepted \in Seq(Messages)
    BY AcceptedType DEF IInv, TypeOK, Messages
<1>3. /\ \A i, j \in DOMAIN Accepted : i < j => Accepted[i] < Accepted[j]
      /\ {Accepted[i] : i \in DOMAIN Accepted} \cup frame = wanted \ (dropped \cup refused)
      /\ \A i \in DOMAIN Accepted, k \in frame : Accepted[i] < k
    BY DEF IInv, NothingLostSilently
<1>4. \A k \in frame' : m < k
    <2>1. \A k \in frame : k \in Nat /\ m <= k
        BY <1>2 DEF IsNext, Messages
    <2>2. QED
        BY <2>1
<1>5. m \in 1 .. arrived /\ m \notin {Accepted[i] : i \in DOMAIN Accepted}
    BY <1>2, <1>3 DEF IInv, TypeOK, Messages
<1>6. lag \in 0 .. Capacity /\ WorkHasItsPlace'
    BY <1>1 DEF IInv, TypeOK, WorkHasItsPlace
<1>7. CASE /\ Len(queue) + lag < Capacity
           /\ queue' = Append(queue, m)
           /\ unseen' = unseen + 1
           /\ taken' = taken + 1
           /\ UNCHANGED dropped
    <2>1. Accepted' = Append(Accepted, m)
        <3>1. Accepted' = dispatched \o batch \o Append(queue, m)
            BY <1>1, <1>7 DEF Accepted
        <3>2. QED
            BY <1>2, <3>1, PushedIsLast
    <2>2. /\ Len(Append(Accepted, m)) = Len(Accepted) + 1
          /\ DOMAIN Accepted = 1 .. Len(Accepted)
          /\ DOMAIN Append(Accepted, m) = 1 .. Len(Accepted) + 1
          /\ \A i \in 1 .. Len(Accepted) : Append(Accepted, m)[i] = Accepted[i]
          /\ Append(Accepted, m)[Len(Accepted) + 1] = m
          /\ Len(Accepted) \in Nat
        BY <1>2, AppendProperties
    <2>3. \A i, j \in DOMAIN Accepted' : i < j => Accepted'[i] < Accepted'[j]
        BY <1>3, <2>1, <2>2
    <2>4. \A i \in DOMAIN Accepted', k \in frame' : Accepted'[i] < k
        BY <1>3, <1>4, <2>1, <2>2
    <2>5. {Accepted'[i] : i \in DOMAIN Accepted'} = {Accepted[i] : i \in DOMAIN Accepted} \cup {m}
        BY <2>1, <2>2
    <2>6. NothingLostSilently'
        BY <1>1, <1>3, <1>7, <2>3, <2>4, <2>5 DEF NothingLostSilently
    <2>7. queue' \in Seq(Messages) /\ Len(queue') = Len(queue) + 1 /\ Len(queue) \in Nat
        BY <1>2, <1>7, AppendProperties
    <2>8. WithinCapacity'
        BY <1>6, <1>7, <2>7 DEF WithinCapacity
    <2>9. TypeOK'
        BY <1>1, <1>2, <1>6, <1>7, <2>7 DEF IInv, TypeOK, Messages
    <2>10. QED
        BY <1>6, <2>6, <2>8, <2>9 DEF IInv
<1>8. CASE /\ Len(queue) + lag >= Capacity
           /\ dropped' = dropped \cup {m}
           /\ UNCHANGED <<queue, unseen, taken>>
    <2>1. Accepted' = Accepted
        BY <1>1, <1>8 DEF Accepted
    <2>2. {Accepted[i] : i \in DOMAIN Accepted} \cup frame' = wanted' \ (dropped' \cup refused')
        BY <1>1, <1>3, <1>5, <1>8
    <2>3. NothingLostSilently'
        BY <1>3, <2>1, <2>2 DEF NothingLostSilently
    <2>4. WithinCapacity'
        BY <1>2, <1>6, <1>8 DEF IInv, TypeOK, WithinCapacity
    <2>5. TypeOK'
        BY <1>1, <1>2, <1>5, <1>6, <1>8 DEF IInv, TypeOK, Messages
    <2>6. QED
        BY <1>6, <2>3, <2>4, <2>5 DEF IInv
<1>9. QED
    BY <1>7, <1>8

LEMMA EndFrameIInv == IInv /\ Alive /\ EndFrame => IInv'
<1> SUFFICES ASSUME IInv, Alive, EndFrame PROVE IInv'
    OBVIOUS
<1>1. /\ UNCHANGED <<queue, freed, unseen, frame, taken, buffer, arrived, wanted, refused,
                     dropped, cpc, spins, observed, batch, dispatched, stopping, running,
                     spc, sequence>>
      /\ frame = {} /\ ipc' \in {"bump", "idle"}
    BY DEF EndFrame, ringVars, arrivals, engineVars, stopVars
<1>2. Accepted' = Accepted
    BY <1>1 DEF Accepted
<1>3. NothingLostSilently'
    BY <1>1, <1>2 DEF IInv, NothingLostSilently
<1>4. TypeOK' /\ WithinCapacity' /\ WorkHasItsPlace'
    BY <1>1 DEF IInv, TypeOK, WithinCapacity, WorkHasItsPlace
<1>5. QED
    BY <1>3, <1>4 DEF IInv

LEMMA BumpSequenceIInv == IInv /\ Alive /\ BumpSequence => IInv'
<1> SUFFICES ASSUME IInv, Alive, BumpSequence PROVE IInv'
    OBVIOUS
<1>1. /\ UNCHANGED <<queue, freed, unseen, frame, taken, buffer, arrived, wanted, refused,
                     dropped, cpc, spins, observed, batch, dispatched, stopping, running, spc>>
      /\ ipc = "bump" /\ ipc' = "notify" /\ sequence' = sequence + 1
    BY DEF BumpSequence, ringVars, arrivals, engineVars, stopVars
<1>2. Accepted' = Accepted
    BY <1>1 DEF Accepted
<1>3. NothingLostSilently'
    BY <1>1, <1>2 DEF IInv, NothingLostSilently, Alive
<1>4. TypeOK' /\ WithinCapacity' /\ WorkHasItsPlace'
    BY <1>1 DEF IInv, TypeOK, WithinCapacity, WorkHasItsPlace
<1>5. QED
    BY <1>3, <1>4 DEF IInv

LEMMA NotifyConsumerIInv == IInv /\ Alive /\ NotifyConsumer => IInv'
<1> SUFFICES ASSUME IInv, Alive, NotifyConsumer PROVE IInv'
    OBVIOUS
<1>1. /\ UNCHANGED <<queue, freed, unseen, frame, taken, buffer, arrived, wanted, refused,
                     dropped, spins, observed, batch, dispatched, stopping, running,
                     spc, sequence>>
      /\ ipc = "notify" /\ ipc' = "idle"
      /\ \/ cpc' = cpc
         \/ cpc = "blocked" /\ cpc' = "predicate"
    BY DEF NotifyConsumer, WakeEngine, ringVars, arrivals, stopVars
<1>2. Accepted' = Accepted
    BY <1>1 DEF Accepted
<1>3. NothingLostSilently'
    BY <1>1, <1>2 DEF IInv, NothingLostSilently, Alive
<1>4. TypeOK' /\ WithinCapacity' /\ WorkHasItsPlace'
    BY <1>1 DEF IInv, TypeOK, WithinCapacity, WorkHasItsPlace
<1>5. QED
    BY <1>3, <1>4 DEF IInv

-----------------------------------------------------------------------------
(* The engine thread.                                                      *)

LEMMA LoopTopIInv == IInv /\ Alive /\ LoopTop => IInv'
<1> SUFFICES ASSUME IInv, Alive, LoopTop PROVE IInv'
    OBVIOUS
<1>1. /\ UNCHANGED <<queue, freed, unseen, ipc, frame, taken, buffer, arrived, wanted,
                     refused, dropped, observed, dispatched, stopping, running, spc,
                     sequence>>
      /\ cpc = "top" /\ cpc' \in {"poll", "done"} /\ batch' = <<>> /\ spins' = 0
    BY DEF LoopTop, ringVars, ingestVars, arrivals, stopVars
<1>2. batch' = batch
    BY <1>1 DEF IInv, WorkHasItsPlace
<1>3. Accepted' = Accepted
    BY <1>1, <1>2 DEF Accepted
<1>4. NothingLostSilently'
    BY <1>1, <1>3, AccountKept DEF IInv
<1>5. TypeOK' /\ WithinCapacity' /\ WorkHasItsPlace'
    BY <1>1, <1>2 DEF IInv, TypeOK, WithinCapacity, WorkHasItsPlace
<1>6. QED
    BY <1>4, <1>5 DEF IInv

LEMMA PollMessageIInv ==
    ASSUME IInv, Alive, NEW lag \in 0 .. unseen, PollMessage(lag) PROVE IInv'
<1>1. /\ UNCHANGED <<ipc, frame, taken, buffer, arrived, wanted, refused, dropped, cpc,
                     spins, observed, dispatched, stopping, running, spc, sequence>>
      /\ cpc = "poll" /\ Len(queue) > lag /\ unseen' = lag /\ freed' = freed + 1
      /\ batch' = Append(batch, Head(queue)) /\ queue' = Tail(queue)
    BY DEF PollMessage, ingestVars, arrivals, stopVars
<1>2. /\ queue \in Seq(Messages) /\ batch \in Seq(Messages) /\ dispatched \in Seq(Messages)
      /\ Len(queue) \in Nat /\ unseen \in Nat /\ freed \in Nat
    BY DEF IInv, TypeOK, Messages
<1>3. queue # <<>>
    BY <1>1, <1>2
<1>4. /\ Head(queue) \in Messages /\ Tail(queue) \in Seq(Messages)
      /\ Len(Tail(queue)) = Len(queue) - 1
    BY <1>2, <1>3, HeadTailProperties
<1>5. batch' \in Seq(Messages)
    BY <1>1, <1>2, <1>4, AppendProperties
<1>6. Accepted' = Accepted
    <2>1. Accepted' = dispatched \o Append(batch, Head(queue)) \o Tail(queue)
        BY <1>1 DEF Accepted
    <2>2. QED
        BY <1>2, <1>3, <2>1, PolledIsAccepted
<1>7. NothingLostSilently'
    BY <1>1, <1>6, AccountKept DEF IInv
<1>8. WithinCapacity' /\ freed' \in 0 .. Capacity /\ unseen' \in 0 .. Len(queue')
    BY <1>1, <1>2, <1>4 DEF IInv, WithinCapacity
<1>9. TypeOK' /\ WorkHasItsPlace'
    BY <1>1, <1>2, <1>4, <1>5, <1>8 DEF IInv, TypeOK, WorkHasItsPlace, Messages
<1>10. QED
    BY <1>7, <1>8, <1>9 DEF IInv

LEMMA PollEndsIInv == IInv /\ Alive /\ PollEnds => IInv'
<1> SUFFICES ASSUME IInv, Alive, PollEnds PROVE IInv'
    OBVIOUS
<1>1. /\ UNCHANGED <<queue, freed, ipc, frame, taken, buffer, arrived, wanted, refused,
                     dropped, observed, batch, dispatched, stopping, running, spc, sequence>>
      /\ cpc = "poll" /\ unseen' \in 0 .. Len(queue)
    BY DEF PollEnds, ingestVars, arrivals, stopVars, IInv, TypeOK
<1>2. /\ cpc' \in {"dispatch", "top", "poll", "empty"}
      /\ cpc' \notin {"poll", "dispatch"} => batch = <<>>
      /\ spins' \in 0 .. SpinCount
    BY DEF PollEnds, AfterPoll, IInv, TypeOK
<1>3. Accepted' = Accepted
    BY <1>1 DEF Accepted
<1>4. NothingLostSilently'
    BY <1>1, <1>3, AccountKept DEF IInv
<1>5. TypeOK' /\ WithinCapacity' /\ WorkHasItsPlace'
    BY <1>1, <1>2 DEF IInv, TypeOK, WithinCapacity, WorkHasItsPlace
<1>6. QED
    BY <1>4, <1>5 DEF IInv

LEMMA DispatchIInv == IInv /\ Alive /\ Dispatch => IInv'
<1> SUFFICES ASSUME IInv, Alive, Dispatch PROVE IInv'
    OBVIOUS
<1>1. /\ UNCHANGED <<queue, freed, unseen, ipc, frame, taken, buffer, arrived, wanted,
                     refused, dropped, spins, observed, stopping, running, spc, sequence>>
      /\ cpc' = "top" /\ batch' = <<>> /\ dispatched' = dispatched \o batch
    BY DEF Dispatch, ringVars, ingestVars, arrivals, stopVars
<1>2. queue \in Seq(Messages) /\ batch \in Seq(Messages) /\ dispatched \in Seq(Messages)
    BY DEF IInv, TypeOK, Messages
<1>3. dispatched' \in Seq(Messages) /\ batch' \in Seq(Messages)
    BY <1>1, <1>2, ConcatProperties
<1>4. Accepted' = Accepted
    <2>1. Accepted' = (dispatched \o batch) \o <<>> \o queue
        BY <1>1 DEF Accepted
    <2>2. QED
        BY <1>2, <2>1, DispatchedIsAccepted
<1>5. NothingLostSilently'
    BY <1>1, <1>4, AccountKept DEF IInv
<1>6. TypeOK' /\ WithinCapacity' /\ WorkHasItsPlace'
    BY <1>1, <1>3 DEF IInv, TypeOK, WithinCapacity, WorkHasItsPlace, Messages
<1>7. QED
    BY <1>5, <1>6 DEF IInv

\* The steps of the wait and of the idle sleep move no message.
WaitStep ==
    \/ WaitChecksRing \/ WaitObserves \/ WaitPredicate \/ WaitBlocks \/ WaitTimesOut
    \/ SleepEnds

LEMMA WaitIInv == IInv /\ Alive /\ WaitStep => IInv'
<1> SUFFICES ASSUME IInv, Alive, WaitStep PROVE IInv'
    OBVIOUS
<1>1. UNCHANGED <<queue, freed, ipc, frame, taken, buffer, arrived, wanted, refused, dropped,
                  spins, batch, dispatched, stopping, running, spc, sequence>>
    BY DEF WaitStep, WaitChecksRing, WaitObserves, WaitPredicate, WaitBlocks, WaitTimesOut,
           SleepEnds, ringVars, ingestVars, arrivals, stopVars
<1>2. /\ cpc \notin {"poll", "dispatch"}
      /\ cpc' \in {"top", "observe", "predicate", "enlist", "blocked", "sleep"}
    BY DEF WaitStep, WaitChecksRing, WaitObserves, WaitPredicate, WaitBlocks, WaitTimesOut,
           SleepEnds
<1>3. unseen' \in 0 .. Len(queue)
    BY SMTT(30) DEF WaitStep, WaitChecksRing, WaitObserves, WaitPredicate, WaitBlocks,
           WaitTimesOut, SleepEnds, ringVars, IInv, TypeOK
<1>4. observed' \in 0 .. sequence
    BY DEF WaitStep, WaitChecksRing, WaitObserves, WaitPredicate, WaitBlocks, WaitTimesOut,
           SleepEnds, IInv, TypeOK
<1>5. Accepted' = Accepted
    BY <1>1 DEF Accepted
<1>6. NothingLostSilently'
    BY <1>1, <1>5, AccountKept DEF IInv
<1>7. TypeOK' /\ WithinCapacity' /\ WorkHasItsPlace'
    BY <1>1, <1>2, <1>3, <1>4 DEF IInv, TypeOK, WithinCapacity, WorkHasItsPlace
<1>8. QED
    BY <1>6, <1>7 DEF IInv

-----------------------------------------------------------------------------
(* The stopping thread.                                                    *)

LEMMA StopIInv == IInv /\ Alive /\ Stop => IInv'
<1> SUFFICES ASSUME IInv, Alive, Stop PROVE IInv'
    OBVIOUS
<1> USE DEF Stop, StopBegins, StopFlags, StopBumps, StopNotifies
<1>1. UNCHANGED <<queue, freed, unseen, ipc, frame, taken, buffer, arrived, wanted, refused,
                  dropped, spins, observed, batch, dispatched>>
    BY DEF ringVars, ingestVars, arrivals, engineVars
<1>2. cpc' = cpc \/ (cpc = "blocked" /\ cpc' = "predicate")
    BY DEF WakeEngine, engineVars
<1>3. /\ stopping' \in BOOLEAN /\ running' \in BOOLEAN
      /\ spc' \in {"idle", "flag", "bump", "notify", "done"}
    BY DEF IInv, TypeOK
<1>4. sequence' = sequence \/ sequence' = sequence + 1
    OBVIOUS
<1> HIDE DEF Stop, StopBegins, StopFlags, StopBumps, StopNotifies
<1>5. Accepted' = Accepted
    BY <1>1 DEF Accepted
<1>6. NothingLostSilently'
    BY <1>1, <1>5, AccountKept DEF IInv
<1>7. sequence' \in Nat /\ observed' \in 0 .. sequence'
    BY <1>1, <1>4 DEF IInv, TypeOK
<1>8. TypeOK' /\ WithinCapacity' /\ WorkHasItsPlace'
    BY <1>1, <1>2, <1>3, <1>7 DEF IInv, TypeOK, WithinCapacity, WorkHasItsPlace
<1>9. QED
    BY <1>6, <1>8 DEF IInv

-----------------------------------------------------------------------------
(* Every step, and every behaviour.                                        *)

LEMMA NextIInv == IInv /\ [Next]_vars => IInv'
<1> SUFFICES ASSUME IInv, [Next]_vars PROVE IInv'
    OBVIOUS
<1>1. CASE Alive /\ Ingest
    BY <1>1, ParseFrameIInv, PushMessageIInv, EndFrameIInv, BumpSequenceIInv,
       NotifyConsumerIInv DEF Ingest
<1>2. CASE Alive /\ EngineLoop
    <2>1. CASE LoopTop
        BY <1>2, <2>1, LoopTopIInv
    <2>2. ASSUME NEW lag \in 0 .. unseen, PollMessage(lag) PROVE IInv'
        BY <1>2, <2>2, PollMessageIInv
    <2>3. CASE PollEnds
        BY <1>2, <2>3, PollEndsIInv
    <2>4. CASE Dispatch
        BY <1>2, <2>4, DispatchIInv
    <2>5. CASE WaitStep
        BY <1>2, <2>5, WaitIInv
    <2>6. QED
        BY <1>2, <2>1, <2>2, <2>3, <2>4, <2>5 DEF EngineLoop, WaitStep
<1>3. CASE Alive /\ Stop
    BY <1>3, StopIInv
<1>4. CASE UNCHANGED vars
    <2>1. UNCHANGED <<queue, freed, unseen, ipc, frame, taken, buffer, arrived, wanted,
                      refused, dropped, sequence, stopping, running, spc, cpc, spins,
                      observed, batch, dispatched>>
        BY <1>4 DEF vars, ringVars, ingestVars, arrivals, engineVars, stopVars
    <2>2. Accepted' = Accepted /\ Alive' = Alive
        BY <2>1 DEF Accepted, Alive
    <2>3. NothingLostSilently'
        BY <2>1, <2>2 DEF IInv, NothingLostSilently
    <2>4. TypeOK' /\ WithinCapacity' /\ WorkHasItsPlace'
        BY <2>1 DEF IInv, TypeOK, WithinCapacity, WorkHasItsPlace
    <2>5. QED
        BY <2>3, <2>4 DEF IInv
<1>5. QED
    BY <1>1, <1>2, <1>3, <1>4 DEF Next

\* IInv is inductive.
THEOREM Invariance == Spec => []IInv
BY InitIInv, NextIInv, PTL DEF Spec

\* Every variable of the pipeline keeps its type, for any frames.
THEOREM TypeCorrect == Spec => []TypeOK
<1>1. IInv => TypeOK
    BY DEF IInv
<1>2. QED
    BY <1>1, Invariance, PTL

\* From the socket to process_message, every object the engine handles is
\* dispatched or waiting exactly once and in order, or it is in a counted loss:
\* refused by a full ring or by simdjson (ingest_message).
THEOREM EverythingIsAccounted == Spec => []NothingLostSilently
<1>1. IInv => NothingLostSilently
    BY DEF IInv
<1>2. QED
    BY <1>1, Invariance, PTL
==============================================================================
