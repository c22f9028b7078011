--------------------------- MODULE MessagePipeline ---------------------------
(***************************************************************************)
(* MessagePipeline (transport/ingest_pipeline.cpp) between the ingest      *)
(* thread, which parses frames and pushes their messages, and the engine   *)
(* thread, which polls them in the loop of Engine::run and waits on a      *)
(* condition variable when there are none.  A third thread may stop the    *)
(* engine (the signal handler).                                            *)
(*                                                                         *)
(* The ring buffer is the bounded queue that SpscRing implements; `freed'  *)
(* and `unseen' say how far the two threads' views of it may lag behind.   *)
(* The objects in the frames are numbered 1, 2, 3, ... as they arrive, and  *)
(* a message has the number of its object.                                 *)
(***************************************************************************)
EXTENDS JsonParser, FiniteSets

CONSTANTS Capacity,     \* how many messages the ring holds
          BatchSize,    \* kMessageBatchSize
          SpinCount,    \* consumer_spin_count
          InitialBuffer,\* the size of padded_buffer_ at the start
          Frames,       \* the frames the server may send
          MaxMessages   \* bound: how many objects arrive

ASSUME CapacityAssumption == Capacity \in Nat \ {0}
ASSUME BatchSizeAssumption == BatchSize \in Nat \ {0}
ASSUME SpinCountAssumption == SpinCount \in Nat
ASSUME InitialBufferAssumption == InitialBuffer \in Nat
ASSUME FramesAssumption ==
    \A f \in Frames :
        /\ f.length \in Nat
        /\ Len(f.objects) \in Nat /\ DOMAIN f.objects = 1 .. Len(f.objects)
ASSUME MaxMessagesAssumption == MaxMessages \in Nat

VARIABLES
    queue,      \* queue_: the messages in the ring
    freed,      \* pops the ingest thread has not seen yet
    unseen,     \* pushes the engine thread has not seen yet
    ipc,        \* where the ingest thread is in ingest_message
    frame,      \* parsed_batch_: the messages still to push, the smallest first
    taken,      \* parsed_count - dropped of the current frame
    buffer,     \* the size of padded_buffer_
    arrived,    \* history: how many objects have arrived
    wanted,     \* history: those of a type the engine handles
    refused,    \* history: those in frames that simdjson refused
    dropped,    \* history: the messages a full ring refused
    sequence,   \* sequence_
    stopping,   \* stopping_
    running,    \* Engine::running_
    spc,        \* where the stopping thread is in Engine::stop
    cpc,        \* where the engine thread is in Engine::run
    spins,      \* the loop counter of the spin phase
    observed,   \* observed_sequence in wait_for_messages
    batch,      \* the messages polled and not yet dispatched
    dispatched  \* history: the messages handed to process_message

ringVars == <<queue, freed, unseen>>
arrivals == <<buffer, arrived, wanted, refused>>
ingestVars == <<ipc, frame, taken, arrivals, dropped>>
engineVars == <<cpc, spins, observed, batch, dispatched>>
stopVars == <<stopping, running, spc>>
vars == <<ringVars, ingestVars, engineVars, stopVars, sequence>>

Init ==
    /\ queue = <<>> /\ freed = 0 /\ unseen = 0
    /\ ipc = "idle" /\ frame = {} /\ taken = 0 /\ dropped = {}
    /\ buffer = InitialBuffer /\ arrived = 0 /\ wanted = {} /\ refused = {}
    /\ cpc = "top" /\ spins = 0 /\ observed = 0 /\ batch = <<>> /\ dispatched = <<>>
    /\ stopping = FALSE /\ running = TRUE /\ spc = "idle"
    /\ sequence = 0

\* wait_cv_.notify_one(), without the mutex: only a thread that already waits
\* is woken, to evaluate its predicate again.
WakeEngine == cpc' = IF cpc = "blocked" THEN "predicate" ELSE cpc

-----------------------------------------------------------------------------
(* The ingest thread: ingest_message.                                      *)

\* A frame that parses into nothing neither pushes nor notifies; an exception
\* leaves the thread, and with it the process ends.
ParseFrame ==
    /\ ipc = "idle"
    /\ \E f \in Frames :
          /\ arrived + Len(f.objects) <= MaxMessages
          /\ arrived' = arrived + Len(f.objects)
          /\ buffer' = Grown(buffer, f.length)
          /\ wanted' = wanted \cup
                {arrived + i : i \in {i \in DOMAIN f.objects : f.objects[i].type \in Handled}}
          /\ IF Refused(buffer, f)
               THEN /\ refused' = refused \cup {arrived + i : i \in DOMAIN f.objects}
                    /\ frame' = {} /\ UNCHANGED ipc
               ELSE /\ frame' = {arrived + i : i \in Parsed(f)}
                    /\ ipc' = IF ParseThrows(f) THEN "threw"
                              ELSE IF frame' = {} THEN "idle" ELSE "push"
                    /\ UNCHANGED refused
    /\ taken' = 0
    /\ UNCHANGED <<ringVars, dropped, engineVars, stopVars, sequence>>

IsNext(m) == \A n \in frame : m <= n

\* queue_.push: a ring that looks full refuses the message for good.
PushMessage ==
    /\ ipc = "push"
    /\ \E m \in frame, lag \in 0 .. freed :
          /\ IsNext(m)
          /\ frame' = frame \ {m}
          /\ freed' = lag
          /\ \/ /\ Len(queue) + lag < Capacity
                /\ queue' = Append(queue, m)
                /\ unseen' = unseen + 1
                /\ taken' = taken + 1
                /\ UNCHANGED dropped
             \/ /\ Len(queue) + lag >= Capacity
                /\ dropped' = dropped \cup {m}
                /\ UNCHANGED <<queue, unseen, taken>>
    /\ UNCHANGED <<ipc, arrivals, engineVars, stopVars, sequence>>

\* parsed_count > dropped
EndFrame ==
    /\ ipc = "push" /\ frame = {}
    /\ ipc' = IF taken > 0 THEN "bump" ELSE "idle"
    /\ UNCHANGED <<ringVars, frame, taken, arrivals, dropped, engineVars, stopVars, sequence>>

\* notify_consumer: sequence_ first, then the condition variable.
BumpSequence ==
    /\ ipc = "bump"
    /\ sequence' = sequence + 1
    /\ ipc' = "notify"
    /\ UNCHANGED <<ringVars, frame, taken, arrivals, dropped, engineVars, stopVars>>

NotifyConsumer ==
    /\ ipc = "notify"
    /\ WakeEngine
    /\ ipc' = "idle"
    /\ UNCHANGED <<ringVars, frame, taken, arrivals, dropped, spins, observed, batch,
                   dispatched, stopVars, sequence>>

-----------------------------------------------------------------------------
(* The engine thread: the loop of Engine::run.                             *)

\* Mutant of LoopTop: running_ is not tested.
LoopTopForever ==
    /\ cpc = "top"
    /\ cpc' = "poll"
    /\ batch' = <<>>
    /\ spins' = 0
    /\ UNCHANGED <<ringVars, ingestVars, observed, dispatched, stopVars, sequence>>

LoopTop ==
    /\ cpc = "top"
    /\ cpc' = IF running THEN "poll" ELSE "done"
    /\ batch' = <<>>
    /\ spins' = 0
    /\ UNCHANGED <<ringVars, ingestVars, observed, dispatched, stopVars, sequence>>

\* poll_messages: queue_.pop() until the batch is full or the ring looks empty.
PollMessage(lag) ==
    /\ cpc = "poll" /\ Len(batch) < BatchSize
    /\ lag \in 0 .. unseen /\ Len(queue) > lag
    /\ batch' = Append(batch, Head(queue))
    /\ queue' = Tail(queue)
    /\ unseen' = lag
    /\ freed' = freed + 1
    /\ UNCHANGED <<ingestVars, cpc, spins, observed, dispatched, stopVars, sequence>>

\* Mutant of AfterPoll: one spin too many.
AfterPollOneMore ==
    IF batch # <<>> THEN "dispatch"
    ELSE IF ~running THEN "top"
    ELSE IF spins <= SpinCount THEN "poll"
    ELSE "empty"

AfterPoll ==
    IF batch # <<>> THEN "dispatch"
    ELSE IF ~running THEN "top"
    ELSE IF spins < SpinCount THEN "poll"
    ELSE "empty"

PollEnds ==
    /\ cpc = "poll"
    /\ \/ Len(batch) = BatchSize /\ UNCHANGED unseen
       \/ \E lag \in 0 .. unseen :
             Len(batch) < BatchSize /\ Len(queue) <= lag /\ unseen' = lag
    /\ cpc' = AfterPoll
    /\ spins' = IF AfterPoll = "poll" THEN spins + 1 ELSE spins
    /\ UNCHANGED <<queue, freed, ingestVars, observed, batch, dispatched, stopVars, sequence>>

\* Mutant of Dispatch: a stopped engine does not process the batch it polled.
DispatchUnlessStopped ==
    /\ cpc = "dispatch"
    /\ dispatched' = IF running THEN dispatched \o batch ELSE dispatched
    /\ batch' = <<>>
    /\ cpc' = "top"
    /\ UNCHANGED <<ringVars, ingestVars, spins, observed, stopVars, sequence>>

\* process_message for every message of the batch.
Dispatch ==
    /\ cpc = "dispatch"
    /\ dispatched' = dispatched \o batch
    /\ batch' = <<>>
    /\ cpc' = "top"
    /\ UNCHANGED <<ringVars, ingestVars, spins, observed, stopVars, sequence>>

\* wait_for_messages returns at once if the ring does not look empty ...
WaitChecksRing ==
    /\ cpc = "empty"
    /\ \E lag \in 0 .. unseen :
          /\ unseen' = lag
          /\ cpc' = IF Len(queue) > lag THEN "top" ELSE "observe"
    /\ UNCHANGED <<queue, freed, ingestVars, spins, observed, batch, dispatched,
                   stopVars, sequence>>

WaitObserves ==
    /\ cpc = "observe"
    /\ observed' = sequence
    /\ cpc' = "predicate"
    /\ UNCHANGED <<ringVars, ingestVars, spins, batch, dispatched, stopVars, sequence>>

WorkToDo(lag) == stopping \/ Len(queue) > lag \/ sequence # observed

\* ... else wait_for evaluates its predicate under the mutex and, as a second
\* step, becomes a waiter.  The notifying thread does not take the mutex, so it
\* may come between the two.
WaitPredicate ==
    /\ cpc = "predicate"
    /\ \E lag \in 0 .. unseen :
          /\ unseen' = lag
          /\ cpc' = IF WorkToDo(lag) THEN "top" ELSE "enlist"
    /\ UNCHANGED <<queue, freed, ingestVars, spins, observed, batch, dispatched,
                   stopVars, sequence>>

WaitBlocks ==
    /\ cpc = "enlist"
    /\ cpc' = "blocked"
    /\ UNCHANGED <<ringVars, ingestVars, spins, observed, batch, dispatched, stopVars, sequence>>

\* Mutant of WaitTimesOut: wait instead of wait_for.
WaitNeverTimesOut == FALSE /\ UNCHANGED vars

\* The timeout evaluates the predicate once more; if nothing was received the
\* loop sleeps for a while.
WaitTimesOut ==
    /\ cpc = "blocked"
    /\ \E lag \in 0 .. unseen :
          /\ unseen' = lag
          /\ cpc' = IF ~WorkToDo(lag) /\ running THEN "sleep" ELSE "top"
    /\ UNCHANGED <<queue, freed, ingestVars, spins, observed, batch, dispatched,
                   stopVars, sequence>>

SleepEnds ==
    /\ cpc = "sleep"
    /\ cpc' = "top"
    /\ UNCHANGED <<ringVars, ingestVars, spins, observed, batch, dispatched, stopVars, sequence>>

-----------------------------------------------------------------------------
(* Engine::stop and notify_shutdown, called from another thread.           *)

StopBegins ==
    /\ spc = "idle" /\ running
    /\ running' = FALSE
    /\ spc' = "flag"
    /\ UNCHANGED <<ringVars, ingestVars, engineVars, stopping, sequence>>

StopFlags ==
    /\ spc = "flag"
    /\ stopping' = TRUE
    /\ spc' = "bump"
    /\ UNCHANGED <<ringVars, ingestVars, engineVars, running, sequence>>

StopBumps ==
    /\ spc = "bump"
    /\ sequence' = sequence + 1
    /\ spc' = "notify"
    /\ UNCHANGED <<ringVars, ingestVars, engineVars, stopping, running>>

StopNotifies ==
    /\ spc = "notify"
    /\ WakeEngine
    /\ spc' = "done"
    /\ UNCHANGED <<ringVars, ingestVars, spins, observed, batch, dispatched, stopping,
                   running, sequence>>

-----------------------------------------------------------------------------
Ingest == ParseFrame \/ PushMessage \/ EndFrame \/ BumpSequence \/ NotifyConsumer

EngineLoop ==
    \/ LoopTop
    \/ \E lag \in 0 .. unseen : PollMessage(lag)
    \/ PollEnds \/ Dispatch
    \/ WaitChecksRing \/ WaitObserves \/ WaitPredicate \/ WaitBlocks \/ WaitTimesOut
    \/ SleepEnds

Stop == StopBegins \/ StopFlags \/ StopBumps \/ StopNotifies

Alive == ipc # "threw"

Next == Alive /\ (Ingest \/ EngineLoop \/ Stop)

Spec == Init /\ [][Next]_vars

\* The engine thread runs, its timeout included, and cannot see a stale head_
\* for ever; a stop that has begun comes to its end.  Nothing is assumed of the
\* ingest thread, which may hang in the middle of a frame.
Fairness ==
    /\ WF_vars(Alive /\ EngineLoop)
    /\ SF_vars(Alive /\ PollMessage(0))
    /\ WF_vars(Alive /\ (StopFlags \/ StopBumps \/ StopNotifies))

FairSpec == Spec /\ Fairness

-----------------------------------------------------------------------------
(* Properties.                                                             *)

TypeOK ==
    /\ queue \in Seq(1 .. MaxMessages) /\ frame \subseteq 1 .. MaxMessages
    /\ batch \in Seq(1 .. MaxMessages) /\ dispatched \in Seq(1 .. MaxMessages)
    /\ freed \in 0 .. Capacity /\ unseen \in 0 .. Len(queue)
    /\ ipc \in {"idle", "push", "bump", "notify", "threw"}
    /\ cpc \in {"top", "poll", "dispatch", "empty", "observe", "predicate",
                "enlist", "blocked", "sleep", "done"}
    /\ spc \in {"idle", "flag", "bump", "notify", "done"}
    /\ taken \in Nat /\ buffer \in Nat /\ arrived \in 0 .. MaxMessages
    /\ wanted \subseteq 1 .. arrived /\ refused \subseteq 1 .. arrived
    /\ dropped \subseteq 1 .. arrived
    /\ spins \in 0 .. SpinCount /\ observed \in 0 .. sequence /\ sequence \in Nat
    /\ stopping \in BOOLEAN /\ running \in BOOLEAN

Accepted == dispatched \o batch \o queue

\* Every object of a type the engine handles is dispatched or waiting, exactly
\* once and in the order it arrived, unless a full ring refused the message or
\* simdjson the whole frame: the two losses ingest_message counts.
NothingLostSilently ==
    Alive =>
        /\ \A i, j \in DOMAIN Accepted : i < j => Accepted[i] < Accepted[j]
        /\ {Accepted[i] : i \in DOMAIN Accepted} \cup frame = wanted \ (dropped \cup refused)
        /\ \A i \in DOMAIN Accepted, m \in frame : Accepted[i] < m

\* A message that entered the ring is dispatched unless the engine stops: the
\* notification may come between the predicate and the wait and be lost, and
\* then the timeout makes up for it.
AcceptedIsDispatched ==
    \A m \in 1 .. MaxMessages :
        (\E i \in DOMAIN queue : queue[i] = m)
            ~> (~running \/ ~Alive \/ \E i \in DOMAIN dispatched : dispatched[i] = m)

\* Once stop() was called the loop of run() ends, wherever it was (if the
\* process does not end first).
StopEndsLoop == ~running ~> (cpc = "done" \/ ~Alive)
=============================================================================
