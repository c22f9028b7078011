------------------------------ MODULE Lifecycle ------------------------------
(***************************************************************************)
(* The life of the process: main, Engine::run, Engine::stop and the        *)
(* destructors, the thread of the transport, the log thread of PerfStats,  *)
(* and one signal, whose handler runs on any of the threads and suspends   *)
(* the one it runs on.  A thread that is suspended keeps the mutexes it    *)
(* holds: those that main and io_uring's thread share are modelled.  Locks *)
(* inside libraries (ixwebsocket, the logger, malloc) are left out.        *)
(*                                                                         *)
(* stop() is executed by up to two callers, `main' (after the last market, *)
(* or from a destructor) and `handler'; stopper says where each of them is.*)
(* A second signal finds the default handler and ends the process at once. *)
(***************************************************************************)
EXTENDS PolymarketWS

CONSTANTS Transports,  \* runtime.mode: "ix" and "uring"
          Threads      \* the threads on which the handler may run

ASSUME TransportsAssumption == Transports \subseteq {"ix", "uring"}
ASSUME ThreadsAssumption == Threads \subseteq {"main", "ingest", "log", "other"}

VARIABLES
    transport,   \* runtime.mode
    perf,        \* perf_stats.enabled
    mpc,         \* where main is
    market,      \* the market whose resolution main processes, or "none"
    active,      \* active_markets_ (a market is named after its asset)
    running,     \* Engine::running_
    published,   \* g_active_engine is set
    ioRunning,   \* IoUringWS::running_
    lpc,         \* where the log thread is
    stopLogging, \* stop_logging_
    stopper,     \* where main and the handler are in stop()
    handlerOn,   \* the thread that was interrupted
    inStart,     \* history: the signal arrived inside IoUringWS::start
    outcome      \* how the process ended

mainVars == <<transport, perf, mpc, market, active, published>>
logVars == <<lpc, stopLogging>>
signalVars == <<handlerOn, inStart>>
vars == <<wsVars, mainVars, running, ioRunning, logVars, stopper, signalVars, outcome>>

Init ==
    /\ WsInit
    /\ transport \in Transports /\ perf \in BOOLEAN
    /\ mpc = "configure" /\ market = "none" /\ active = Assets
    /\ running = FALSE /\ published = FALSE /\ ioRunning = FALSE
    /\ lpc = "none" /\ stopLogging = FALSE
    /\ stopper = [w \in {"main", "handler"} |-> "idle"]
    /\ handlerOn = "none" /\ inStart = FALSE
    /\ outcome = "alive"

Alive == outcome = "alive" /\ wpc # "crashed"
HandlerRuns == stopper["handler"] \notin {"idle", "end"}
Free(thread) == Alive /\ ~(HandlerRuns /\ handlerOn = thread)

-----------------------------------------------------------------------------
(* main and Engine::run.                                                   *)

MainAt(from) == mpc = from /\ Free("main")
MainGoes(to) == mpc' = to /\ UNCHANGED <<transport, perf, signalVars>>

\* Nothing to do, or no strategy: main returns before there is an engine.
Configures ==
    /\ MainAt("configure")
    /\ \/ MainGoes("publish") /\ UNCHANGED outcome
       \/ MainGoes("gone") /\ outcome' = "exited"
    /\ UNCHANGED <<wsVars, market, active, published, running, ioRunning, logVars, stopper>>

Publishes ==
    /\ MainAt("publish")
    /\ published' = TRUE
    /\ MainGoes("run")
    /\ UNCHANGED <<wsVars, market, active, running, ioRunning, logVars, stopper, outcome>>

SetsRunning ==
    /\ MainAt("run")
    /\ running' = TRUE
    /\ MainGoes("start")
    /\ UNCHANGED <<wsVars, market, active, published, ioRunning, logVars, stopper, outcome>>

\* transport_.start(): io_uring sets its running_ before it assigns io_thread_.
StartsTransport ==
    /\ MainAt("start")
    /\ \/ transport = "ix" /\ WsStart /\ MainGoes("startlog") /\ UNCHANGED ioRunning
       \/ transport = "uring" /\ ioRunning' = TRUE /\ MainGoes("spawn") /\ UNCHANGED wsVars
    /\ UNCHANGED <<market, active, published, running, logVars, stopper, outcome>>

SpawnsIoThread ==
    /\ MainAt("spawn")
    /\ wpc' = "looping"
    /\ MainGoes("startlog")
    /\ UNCHANGED <<connected, subscriptions, outgoing, halted, link, served, overtaken,
                   market, active, published, running, ioRunning, logVars, stopper, outcome>>

\* start_logging clears the flag before it assigns log_thread_.
StartsLogging ==
    /\ MainAt("startlog")
    /\ stopLogging' = IF perf THEN FALSE ELSE stopLogging
    /\ MainGoes(IF perf THEN "spawnlog" ELSE "loop")
    /\ UNCHANGED <<wsVars, market, active, published, running, ioRunning, lpc, stopper, outcome>>

SpawnsLogThread ==
    /\ MainAt("spawnlog")
    /\ lpc' = "running"
    /\ MainGoes("loop")
    /\ UNCHANGED <<wsVars, market, active, published, running, ioRunning, stopLogging,
                   stopper, outcome>>

\* Mutant of LoopTop: running_ is not tested.
LoopTopForever ==
    /\ MainAt("loop")
    /\ MainGoes("batch")
    /\ UNCHANGED <<wsVars, market, active, published, running, ioRunning, logVars, stopper,
                   outcome>>

\* running_ is tested between batches.
LoopTop ==
    /\ MainAt("loop")
    /\ MainGoes(IF running THEN "batch" ELSE "unpublish")
    /\ UNCHANGED <<wsVars, market, active, published, running, ioRunning, logVars, stopper,
                   outcome>>

\* A strategy that raises leaves run() from the middle of the batch.
BatchEnds ==
    /\ MainAt("batch")
    /\ MainGoes("loop") \/ MainGoes("unpublish")
    /\ UNCHANGED <<wsVars, market, active, published, running, ioRunning, logVars, stopper,
                   outcome>>

\* A resolution unsubscribes from the market's assets, if it names any.
Resolution(m) ==
    /\ MainAt("batch")
    /\ market' = m
    /\ MainGoes(IF transport = "ix" THEN "erase" ELSE "lockset") \/ MainGoes("retire")
    /\ UNCHANGED <<wsVars, active, published, running, ioRunning, logVars, stopper, outcome>>

Unsubscribes ==
    /\ \/ MainAt("erase") /\ UnsubscribeErases(market) /\ MainGoes("check")
       \/ MainAt("check") /\ UNCHANGED wsVars /\ MainGoes(IF connected THEN "send" ELSE "retire")
       \/ MainAt("send") /\ UnsubscribeSends(market) /\ MainGoes("retire")
    /\ UNCHANGED <<market, active, published, running, ioRunning, logVars, stopper, outcome>>

\* IoUringWS::unsubscribe holds subscription_mutex_ while it erases, and, if
\* connected_ is set, send_mutex_ while it queues the message.  (What it erases
\* and queues is the business of module IoUringWS.)
HoldsSet == mpc = "inset"
HoldsQueue == mpc = "insend"
IoHoldsSet == wpc = "subscribing"
IoHoldsQueue == wpc = "draining"

UnsubscribesLocking ==
    /\ \/ MainAt("lockset") /\ ~IoHoldsSet /\ MainGoes("inset")
       \/ MainAt("inset") /\ MainGoes(IF connected THEN "locksend" ELSE "retire")
       \/ MainAt("locksend") /\ ~IoHoldsQueue /\ MainGoes("insend")
       \/ MainAt("insend") /\ MainGoes("retire")
    /\ UNCHANGED <<wsVars, market, active, published, running, ioRunning, logVars, stopper,
                   outcome>>

\* active_markets_.erase, and stop() after the last market.
Retires ==
    /\ MainAt("retire")
    /\ active' = active \ {market} /\ market' = "none"
    /\ IF active' = {}
         THEN stopper' = [stopper EXCEPT !["main"] = "test"] /\ MainGoes("stopping")
         ELSE UNCHANGED stopper /\ MainGoes("batch")
    /\ UNCHANGED <<wsVars, published, running, ioRunning, logVars, outcome>>

\* ~ActiveEngineScope.
Unpublishes ==
    /\ MainAt("unpublish")
    /\ published' = FALSE
    /\ stopper' = [stopper EXCEPT !["main"] = "test"]
    /\ MainGoes("~Engine")
    /\ UNCHANGED <<wsVars, market, active, running, ioRunning, logVars, outcome>>

\* ~Engine stops, ~Transport stops, ~PerfStats stops logging: each of them
\* starts where stop() does the same.
Destructor(from, to, entry) ==
    /\ MainAt(from) /\ stopper["main"] = "end"
    /\ stopper' = [stopper EXCEPT !["main"] = entry]
    /\ MainGoes(to)
    /\ UNCHANGED <<wsVars, market, active, published, running, ioRunning, logVars, outcome>>

StopReturns == Destructor("stopping", "batch", "idle")

\* Mutant of Destroys: ~PerfStats does not stop the log thread.
DestroysLogRunning ==
    \/ Destructor("~Engine", "~Transport", "transport")
    \/ Destructor("~Transport", "~PerfStats", "end")

Destroys ==
    \/ Destructor("~Engine", "~Transport", "transport")
    \/ Destructor("~Transport", "~PerfStats", "log")

\* The destructor of a std::thread that was not joined ends the process, and a
\* handler on another thread is left with a stopped engine that is no more.
Joined(pc) == pc \in {"none", "joined"}

Exits ==
    /\ MainAt("~PerfStats") /\ stopper["main"] = "end"
    /\ outcome' = IF Joined(wpc) /\ Joined(lpc) /\ ~HandlerRuns THEN "exited" ELSE "terminated"
    /\ MainGoes("gone")
    /\ UNCHANGED <<wsVars, market, active, published, running, ioRunning, logVars, stopper>>

-----------------------------------------------------------------------------
(* stop(), by main or by the handler.                                      *)

RunsOn(w) == IF w = "main" THEN "main" ELSE handlerOn
StopAt(w, pc) == stopper[w] = pc /\ (IF w = "main" THEN Free("main") ELSE Alive)
StopGoes(w, pc) == stopper' = [stopper EXCEPT ![w] = pc] /\ UNCHANGED <<mainVars, signalVars>>

StopTests(w) ==
    /\ StopAt(w, "test")
    /\ StopGoes(w, IF running THEN "clear" ELSE "end")
    /\ UNCHANGED <<wsVars, running, ioRunning, logVars, outcome>>

StopClears(w) ==
    /\ StopAt(w, "clear")
    /\ running' = FALSE
    /\ StopGoes(w, "log")
    /\ UNCHANGED <<wsVars, ioRunning, logVars, outcome>>

\* stop_logging: the flag, then the join of a thread that is joinable.
StopsLogging(w) ==
    /\ StopAt(w, "log")
    /\ stopLogging' = TRUE
    /\ StopGoes(w, IF lpc \in {"running", "ended"} THEN "joinlog"
                   ELSE IF mpc = "~PerfStats" THEN "end" ELSE "transport")
    /\ UNCHANGED <<wsVars, running, ioRunning, lpc, outcome>>

\* A thread that joins itself, or one that another has joined, throws out of
\* stop(): from the handler, and from a destructor, that ends the process.
JoinsLogThread(w) ==
    /\ StopAt(w, "joinlog")
    /\ \/ /\ lpc = "ended"
          /\ lpc' = "joined"
          /\ StopGoes(w, IF mpc = "~PerfStats" THEN "end" ELSE "transport")
          /\ UNCHANGED outcome
       \/ /\ lpc = "joined" \/ RunsOn(w) = "log"
          /\ outcome' = "terminated"
          /\ StopGoes(w, "end") /\ UNCHANGED lpc
    /\ UNCHANGED <<wsVars, running, ioRunning, stopLogging>>

\* transport_.stop(): ixwebsocket stops if it has a thread, io_uring if
\* running_ is set.
StopsTransport(w) ==
    /\ StopAt(w, "transport")
    /\ ioRunning' = FALSE
    /\ IF Joined(wpc) \/ (transport = "uring" /\ ~ioRunning)
         THEN StopGoes(w, "end") /\ UNCHANGED wsVars
         ELSE StopGoes(w, "jointransport") /\ WsHalt
    /\ UNCHANGED <<running, logVars, outcome>>

JoinsTransport(w) ==
    /\ StopAt(w, "jointransport")
    /\ \/ wpc = "ended" /\ WsJoined /\ UNCHANGED outcome
       \/ (wpc = "joined" \/ RunsOn(w) = "ingest") /\ outcome' = "terminated" /\ UNCHANGED wsVars
    /\ StopGoes(w, "end")
    /\ UNCHANGED <<running, ioRunning, logVars>>

Stop(w) ==
    \/ StopTests(w) \/ StopClears(w) \/ StopsLogging(w) \/ JoinsLogThread(w)
    \/ StopsTransport(w) \/ JoinsTransport(w)

-----------------------------------------------------------------------------
(* The signal and the other threads.                                       *)

ThreadLives(thread) ==
    CASE thread = "ingest" ->
            \/ WsThreadLives
            \/ wpc \in {"looping", "drain", "draining", "subscribe", "subscribing"}
      [] thread = "log" -> lpc = "running"
      [] OTHER -> TRUE

\* The handler finds an engine or does nothing.
Signal(thread) ==
    /\ Alive /\ handlerOn = "none" /\ ThreadLives(thread)
    /\ handlerOn' = thread
    /\ inStart' = (mpc = "spawn")
    /\ stopper' = [stopper EXCEPT !["handler"] = IF published THEN "test" ELSE "end"]
    /\ UNCHANGED <<wsVars, mainVars, running, ioRunning, logVars, outcome>>

LogThreadEnds ==
    /\ Free("log") /\ lpc = "running" /\ stopLogging
    /\ lpc' = "ended"
    /\ UNCHANGED <<wsVars, mainVars, running, ioRunning, stopLogging, stopper, signalVars, outcome>>

\* One turn of io_loop(): running_ is tested, the queue is drained under
\* send_mutex_, and an upgrade that has completed (which sets connected_) reads
\* the set under subscription_mutex_.
IoThread ==
    /\ Free("ingest")
    /\ \/ wpc = "looping" /\ ioRunning /\ wpc' = "drain" /\ UNCHANGED connected
       \/ wpc = "looping" /\ ~ioRunning /\ wpc' = "ended" /\ connected' = FALSE
       \/ wpc = "drain" /\ ~HoldsQueue /\ wpc' = "draining" /\ UNCHANGED connected
       \/ wpc = "draining" /\ wpc' = "looping" /\ connected' \in {connected, FALSE}
       \/ wpc = "draining" /\ ~connected /\ wpc' = "subscribe" /\ connected' = TRUE
       \/ wpc = "subscribe" /\ ~HoldsSet /\ wpc' = "subscribing" /\ UNCHANGED connected
       \/ wpc = "subscribing" /\ wpc' = "looping" /\ UNCHANGED connected
    /\ UNCHANGED <<subscriptions, outgoing, halted, link, served, overtaken,
                   mainVars, running, ioRunning, logVars, stopper, signalVars, outcome>>

WsThreadSteps ==
    /\ Free("ingest") /\ WsThread
    /\ UNCHANGED <<mainVars, running, ioRunning, logVars, stopper, signalVars, outcome>>

Network ==
    /\ \/ Alive /\ LinkLost
       \/ Free("ingest") /\ LinkUp
    /\ UNCHANGED <<mainVars, running, ioRunning, logVars, stopper, signalVars, outcome>>

-----------------------------------------------------------------------------
Main ==
    \/ Configures \/ Publishes \/ SetsRunning
    \/ StartsTransport \/ SpawnsIoThread \/ StartsLogging \/ SpawnsLogThread
    \/ LoopTop \/ Unsubscribes \/ UnsubscribesLocking \/ Retires \/ StopReturns
    \/ Unpublishes \/ Destroys \/ Exits
    \/ Stop("main")

OtherThreads == LogThreadEnds \/ IoThread \/ WsThreadSteps

Next ==
    \/ Main \/ BatchEnds
    \/ \E m \in Assets : Resolution(m)
    \/ Stop("handler") \/ OtherThreads
    \/ Network
    \/ \E thread \in Threads : Signal(thread)

Spec == Init /\ [][Next]_vars

\* Every thread runs, the handler included, and a batch has an end.  Nothing is
\* assumed of the network.
Fairness ==
    /\ WF_vars(Main) /\ SF_vars(BatchEnds)
    /\ WF_vars(Stop("handler"))
    /\ WF_vars(LogThreadEnds) /\ WF_vars(IoThread) /\ WF_vars(WsThreadSteps)

FairSpec == Spec /\ Fairness

-----------------------------------------------------------------------------
(* Properties.                                                             *)

\* A signal that interrupts the main thread, wherever it is between start-up
\* and the last destructor, never makes stop() join a thread twice or a
\* destructor find one that was not joined; nor does the run that ends by
\* itself.  (Excepted: io_uring's start(), between running_ and io_thread_.
\* A handler on another thread joins itself, or races with main.)
StopIsSafe ==
    outcome = "terminated" =>
        \/ handlerOn \in {"ingest", "log", "other"}
        \/ handlerOn = "main" /\ inStart

\* A signal arrived on main inside a section of unsubscribe that holds a mutex:
\* the handler joins the thread of io_uring, which waits for that mutex.
Hung ==
    /\ handlerOn = "main" /\ stopper["handler"] = "jointransport"
    /\ (HoldsQueue /\ wpc = "drain") \/ (HoldsSet /\ wpc = "subscribe")

\* A stop that finds the engine running, and the resolution of the last market,
\* lead to the end of the process: no join waits for ever, but in that one way
\* (which the lock-free queue of the header's comment would not have).
RunEnds == stopper["handler"] = "clear" \/ active = {} ~> ~Alive \/ Hung

\* On a connection whose subscription was sent, the server serves what the
\* engine has not dropped, and besides only the asset being dropped now and
\* what was unsubscribed between the reading of the set and the sending of the
\* subscription (the callback Open against unsubscribe).
ServerFollowsSet ==
    link /\ wpc = "up" =>
        /\ subscriptions \subseteq served
        /\ \A a \in served \ subscriptions :
              a \in overtaken \/ (a = market /\ mpc \in {"check", "send"})
=============================================================================
