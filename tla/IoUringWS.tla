------------------------------ MODULE IoUringWS ------------------------------
(***************************************************************************)
(* The connection to the server (transport/io_uring_ws.cpp): one thread    *)
(* that submits operations to the kernel, reaps their completions and      *)
(* moves the connection through its phases, and the engine thread, which   *)
(* changes the subscriptions.                                              *)
(*                                                                         *)
(* An operation is prepared (sq), submitted (inflight) and completed (cq). *)
(* Every send points at the one buffer pending_send, so preparing a send   *)
(* turns the data of those that were not yet carried out into garbage.     *)
(* Connections are numbered; the socket is open when phase is not          *)
(* "Disconnected".                                                         *)
(***************************************************************************)
EXTENDS Naturals, Sequences, FiniteSetsExt, SequencesExt

CONSTANTS
    Initial,        \* the assets of the configuration
    Later,          \* the assets that are subscribed to later
    QueueDepth,     \* io_uring_queue_depth; room for two sends and a receive
    MaxConnections, \* bound: how many connections are tried
    MaxInFlight     \* bound: operations in flight when a ping is sent, and completions

ASSUME AssetsAssumption == Initial \cap Later = {}
ASSUME QueueDepthAssumption == QueueDepth \in Nat /\ QueueDepth >= 3
ASSUME BoundsAssumption == MaxConnections \in Nat /\ MaxInFlight \in Nat

VARIABLES
    use_tls,       \* wss:// or ws://
    running,       \* running_
    pc,            \* where the thread is in io_loop()
    phase,         \* phase
    conn,          \* the number of the current connection
    due,           \* whether next_reconnect_time has come
    sq, inflight, cq,
    connected,     \* connected_
    subscriptions, \* current_subscriptions_
    send_queue,    \* send_queue_
    epc, request,  \* where the engine thread is in (un)subscribe, and for what
    asked,         \* history: the assets whose subscription was changed
    server,        \* the server's end of the connection
    overwritten    \* history: whether a send was overwritten

ringVars == <<sq, inflight, overwritten>>
engineVars == <<epc, request, asked, subscriptions>>
vars == <<use_tls, running, pc, phase, conn, due, ringVars, cq, connected, send_queue,
          engineVars, server>>

Assets == Initial \cup Later
Message(kind, assets) == [kind |-> kind, assets |-> assets]
Garbage == Message("garbage", {})
Nothing == Message("nothing", {})
Hello == Message("hello", {})
Upgrade == Message("upgrade", {})
Keepalive == Message("ping", {})
Op(op, n, data) == [op |-> op, conn |-> n, data |-> data]

NoServer == [stage |-> "gone", subs |-> {}]

Init ==
    /\ use_tls \in BOOLEAN /\ running = TRUE /\ pc = "start"
    /\ phase = "Disconnected" /\ conn = 0 /\ due = TRUE
    /\ sq = <<>> /\ inflight = <<>> /\ cq = <<>> /\ overwritten = FALSE
    /\ connected = FALSE /\ subscriptions = Initial /\ send_queue = <<>>
    /\ epc = "idle" /\ request = Nothing /\ asked = {}
    /\ server = NoServer

-----------------------------------------------------------------------------
(* Preparing operations.                                                   *)

\* Mutant of Prepared: the submission queue has no end.
PreparedUnbounded(ops) == ops

\* io_uring_get_sqe: what the queue cannot hold is silently not submitted.
Prepared(ops) == SubSeq(ops, 1, Min({Len(ops), QueueDepth}))

IsSend(op) == op.op = "Send"
Overwrite(ops) ==
    [i \in DOMAIN ops |-> IF IsSend(ops[i]) THEN [ops[i] EXCEPT !.data = Garbage] ELSE ops[i]]

\* submit_send for each of the messages, then submit_* for the operations.
\* The ciphertext of a handshake is sent with the Hello and with the Upgrade:
\* what SSL_do_handshake writes in between, and then waits for an answer to,
\* stays in wbio, and the server says nothing more (Answers: it may stay at
\* "greeted" for ever).
Submit(messages, ops) ==
    IF messages = <<>>
      THEN sq' = Prepared(sq \o ops) /\ UNCHANGED <<inflight, overwritten>>
      ELSE LET sends == [i \in DOMAIN messages |-> Op("Send", conn, messages[i])]
           IN  /\ sq' = Prepared(Overwrite(sq \o Front(sends)) \o <<Last(sends)>> \o ops)
               /\ inflight' = Overwrite(inflight)
               /\ overwritten' = (\/ overwritten \/ Len(sends) > 1
                                  \/ \E op \in ToSet(sq \o inflight) : IsSend(op))

-----------------------------------------------------------------------------
(* The thread that runs io_loop().                                         *)

\* resolve_host fails: the thread ends, and running_ stays true.
ResolveFails ==
    /\ pc = "start" /\ pc' = "failed"
    /\ UNCHANGED <<use_tls, running, phase, conn, due, ringVars, cq, connected, send_queue,
                   engineVars, server>>

\* start_connect(), for the first connection and for each after a loss.
Connects ==
    /\ \/ pc = "start"
       \/ pc = "reconnect" /\ phase = "Disconnected" /\ due
    /\ conn < MaxConnections
    /\ pc' = "loop" /\ conn' = conn + 1 /\ phase' = "TcpConnecting" /\ server' = NoServer
    /\ sq' = <<>> /\ inflight' = inflight \o Prepared(sq \o <<Op("Connect", conn + 1, Nothing)>>)
    /\ overwritten' = FALSE
    /\ UNCHANGED <<use_tls, running, due, cq, connected, send_queue, engineVars>>

\* start_connect() gets no socket: the phase stays what it was.
NoSocket ==
    /\ \/ pc = "start"
       \/ pc = "reconnect" /\ phase = "Disconnected" /\ due
    /\ pc' = "loop"
    /\ UNCHANGED <<use_tls, running, phase, conn, due, ringVars, cq, connected, send_queue,
                   engineVars, server>>

NoReconnect ==
    /\ pc = "reconnect" /\ ~(phase = "Disconnected" /\ due) /\ pc' = "loop"
    /\ UNCHANGED <<use_tls, running, phase, conn, due, ringVars, cq, connected, send_queue,
                   engineVars, server>>

\* 1. What the engine queued is sent, or dropped when there is no connection.
Drain ==
    /\ pc = "loop" /\ running /\ pc' = "ping"
    /\ send_queue' = <<>>
    /\ Submit(IF phase = "Connected" THEN send_queue ELSE <<>>, <<>>)
    /\ UNCHANGED <<use_tls, running, phase, conn, due, cq, connected, engineVars, server>>

\* The loop has ended: the session, the socket and the ring are given back.
Cleanup ==
    /\ pc = "loop" /\ ~running /\ pc' = "done"
    /\ connected' = FALSE /\ sq' = <<>> /\ inflight' = <<>> /\ cq' = <<>> /\ server' = NoServer
    /\ UNCHANGED <<use_tls, running, phase, conn, due, overwritten, send_queue, engineVars>>

\* 2. A ping, when it is time for one.
Ping ==
    /\ pc = "ping" /\ pc' = "submit"
    /\ \/ phase = "Connected" /\ Len(inflight) < MaxInFlight /\ Submit(<<Keepalive>>, <<>>)
       \/ UNCHANGED ringVars
    /\ UNCHANGED <<use_tls, running, phase, conn, due, cq, connected, send_queue, engineVars, server>>

\* 3. What was prepared is handed to the kernel.
SubmitAll ==
    /\ pc = "submit" /\ pc' = "wait"
    /\ inflight' = inflight \o sq /\ sq' = <<>>
    /\ UNCHANGED <<use_tls, running, phase, conn, due, overwritten, cq, connected, send_queue,
                   engineVars, server>>

\* 4. The wait for a completion. When it times out the loop starts again, and
\* the reconnect at its end is passed over.
Wait ==
    /\ pc = "wait" /\ pc' = IF cq = <<>> THEN "loop" ELSE "reap"
    /\ UNCHANGED <<use_tls, running, phase, conn, due, ringVars, cq, connected, send_queue,
                   engineVars, server>>

ReapEnds ==
    /\ pc = "reap" /\ cq = <<>> /\ pc' = "reconnect"
    /\ UNCHANGED <<use_tls, running, phase, conn, due, ringVars, cq, connected, send_queue,
                   engineVars, server>>

\* The completion that is looked at.
Reaping(op, results) == pc = "reap" /\ cq # <<>> /\ Head(cq).op = op /\ Head(cq).res \in results

\* Mutant of Rearm: a receive that the kernel ended is not prepared again.
RearmNever(e) == <<>>

\* The receive, prepared again when the kernel ended it.
Rearm(e) == IF e.more THEN <<>> ELSE <<Op("Recv", conn, Nothing)>>

ConnectFails ==
    /\ Reaping("Connect", {"error"})
    /\ cq' = Tail(cq) /\ phase' = "Disconnected" /\ due' = FALSE
    /\ UNCHANGED <<use_tls, running, pc, conn, ringVars, connected, send_queue, engineVars, server>>

ConnectSucceeds ==
    /\ Reaping("Connect", {"ok"})
    /\ cq' = Tail(cq)
    /\ phase' = IF use_tls THEN "TlsHandshaking" ELSE "WsUpgrading"
    /\ Submit(<<IF use_tls THEN Hello ELSE Upgrade>>, <<Op("Recv", conn, Nothing)>>)
    /\ UNCHANGED <<use_tls, running, pc, conn, due, connected, send_queue, engineVars, server>>

\* The server closed the connection, or it broke.
RecvEnds ==
    /\ Reaping("Recv", {"end"})
    /\ cq' = Tail(cq) /\ phase' = "Disconnected" /\ connected' = FALSE /\ due' = FALSE
    /\ UNCHANGED <<use_tls, running, pc, conn, ringVars, send_queue, engineVars, server>>

\* The kernel had no buffer: the receive is prepared again.
RecvNoBufs ==
    /\ Reaping("Recv", {"nobufs"})
    /\ cq' = Tail(cq) /\ Submit(<<>>, <<Op("Recv", conn, Nothing)>>)
    /\ UNCHANGED <<use_tls, running, pc, phase, conn, due, connected, send_queue, engineVars, server>>

\* The last bytes of the TLS handshake: the upgrade is asked for.
Handshaken ==
    /\ Reaping("Recv", {"finished"}) /\ phase = "TlsHandshaking"
    /\ cq' = Tail(cq) /\ phase' = "WsUpgrading" /\ Submit(<<Upgrade>>, Rearm(Head(cq)))
    /\ UNCHANGED <<use_tls, running, pc, conn, due, connected, send_queue, engineVars, server>>

\* The last bytes of a response that says 101; the engine may look between
\* connected_ and the subscription.
Upgraded ==
    /\ Reaping("Recv", {"upgraded"}) /\ phase = "WsUpgrading"
    /\ phase' = "Connected" /\ connected' = TRUE /\ pc' = "subscribe"
    /\ UNCHANGED <<use_tls, running, conn, due, ringVars, cq, send_queue, engineVars, server>>

\* flush_tls_wbio cuts what SSL_write left into sends of 16 KB. A message that
\* names several assets may need more than one of them, and then none holds
\* what it was made for: each overwrites the one before. Two stand for several.
Cut(message) ==
    {<<message>>} \cup (IF Cardinality(message.assets) > 1 THEN {<<Garbage, Garbage>>} ELSE {})

\* Mutant of Subscription: only the first connection subscribes.
SubscriptionOnce ==
    IF use_tls /\ subscriptions # {} /\ conn = 1
      THEN Cut(Message("subscribe", subscriptions)) ELSE {<<>>}

\* What may be sent when the connection is there.
Subscription ==
    IF use_tls /\ subscriptions # {} THEN Cut(Message("subscribe", subscriptions)) ELSE {<<>>}

Subscribe ==
    /\ pc = "subscribe" /\ pc' = "reap"
    /\ cq' = Tail(cq) /\ \E messages \in Subscription : Submit(messages, Rearm(Head(cq)))
    /\ UNCHANGED <<use_tls, running, phase, conn, due, connected, send_queue, engineVars, server>>

\* Without TLS there is no session, and SSL_write is called on a null pointer
\* all the same: it refuses, as in Subscribe, or the process is killed.
WritesToNoSession ==
    /\ pc = "subscribe" /\ ~use_tls /\ subscriptions # {}
    /\ pc' = "killed"
    /\ UNCHANGED <<use_tls, running, phase, conn, due, ringVars, cq, connected, send_queue,
                   engineVars, server>>

\* Other bytes, and a response that is a refusal, change no phase.
OtherData ==
    /\ Reaping("Recv", {"bytes", "rejected"})
    /\ cq' = Tail(cq) /\ Submit(<<>>, Rearm(Head(cq)))
    /\ UNCHANGED <<use_tls, running, pc, phase, conn, due, connected, send_queue, engineVars, server>>

SendDone ==
    /\ Reaping("Send", {"ok", "error"})
    /\ cq' = Tail(cq)
    /\ UNCHANGED <<use_tls, running, pc, phase, conn, due, ringVars, connected, send_queue,
                   engineVars, server>>

TimeIsUp ==
    /\ ~due /\ due' = TRUE
    /\ UNCHANGED <<use_tls, running, pc, phase, conn, ringVars, cq, connected, send_queue,
                   engineVars, server>>

-----------------------------------------------------------------------------
(* The kernel and the server.                                              *)

Live == pc \notin {"done", "failed"} /\ Len(cq) < MaxInFlight
Event(op, res, more) == [op |-> op.op, conn |-> op.conn, res |-> res, more |-> more]
Complete(i, res) ==
    /\ inflight' = RemoveAt(inflight, i) /\ cq' = Append(cq, Event(inflight[i], res, FALSE))
    /\ UNCHANGED <<sq, overwritten>>
Pending(i, kind) == Live /\ inflight[i].op = kind

ConnectCompletes ==
    /\ \E i \in DOMAIN inflight, res \in {"ok", "error"} :
          /\ Pending(i, "Connect") /\ Complete(i, res)
          /\ server' = IF res = "ok" THEN [NoServer EXCEPT !.stage = "accepted"] ELSE server
    /\ UNCHANGED <<use_tls, running, pc, phase, conn, due, connected, send_queue, engineVars>>

\* What the server makes of a message.
Receives(s, m) ==
    CASE m.kind = "garbage" -> [s EXCEPT !.stage = "broken"]
      [] m.kind = "hello" -> [s EXCEPT !.stage = "greeted"]
      [] m.kind = "upgrade" -> [s EXCEPT !.stage = "asked"]
      [] m.kind = "subscribe" -> [s EXCEPT !.subs = @ \cup m.assets]
      [] m.kind = "unsubscribe" -> [s EXCEPT !.subs = @ \ m.assets]
      [] OTHER -> s

\* A send reaches the server of its own connection, or fails.
SendCompletes ==
    /\ \E i \in DOMAIN inflight :
          /\ Pending(i, "Send")
          /\ \/ /\ inflight[i].conn = conn /\ server.stage \notin {"gone", "broken"}
                /\ Complete(i, "ok") /\ server' = Receives(server, inflight[i].data)
             \/ /\ inflight[i].conn # conn \/ server.stage \in {"gone", "broken"}
                /\ Complete(i, "error") /\ UNCHANGED server
    /\ UNCHANGED <<use_tls, running, pc, phase, conn, due, connected, send_queue, engineVars>>

\* What the server may say at its stage, and the stage it is in afterwards.
Answers ==
    {<<"greeted", "finished", "secure">>, <<"asked", "upgraded", "open">>,
     <<"asked", "rejected", "refused">>, <<"greeted", "bytes", "greeted">>,
     <<"open", "bytes", "open">>}

RecvCompletes ==
    /\ \E i \in DOMAIN inflight, answer \in Answers, more \in BOOLEAN :
          /\ Pending(i, "Recv") /\ inflight[i].conn = conn
          /\ server.stage = answer[1] /\ server' = [server EXCEPT !.stage = answer[3]]
          /\ cq' = Append(cq, Event(inflight[i], answer[2], more))
          /\ inflight' = IF more THEN inflight ELSE RemoveAt(inflight, i)
          /\ UNCHANGED <<sq, overwritten>>
    /\ UNCHANGED <<use_tls, running, pc, phase, conn, due, connected, send_queue, engineVars>>

\* The connection ends, or there is no buffer to receive into.
RecvStops ==
    /\ \E i \in DOMAIN inflight, res \in {"end", "nobufs"} :
          /\ Pending(i, "Recv") /\ Complete(i, res)
          /\ server' = IF res = "end" THEN NoServer ELSE server
    /\ UNCHANGED <<use_tls, running, pc, phase, conn, due, connected, send_queue, engineVars>>

-----------------------------------------------------------------------------
(* The engine's thread.                                                    *)

\* subscribe() and unsubscribe() change the set under its lock, ...
Ask ==
    /\ epc = "idle"
    /\ \E a \in Assets \ asked :
          /\ asked' = asked \cup {a}
          /\ \/ /\ a \in Initial
                /\ subscriptions' = subscriptions \ {a} /\ request' = Message("unsubscribe", {a})
             \/ /\ a \in Later
                /\ subscriptions' = subscriptions \cup {a} /\ request' = Message("subscribe", {a})
    /\ epc' = "check"
    /\ UNCHANGED <<use_tls, running, pc, phase, conn, due, ringVars, cq, connected, send_queue, server>>

\* ... look at connected_ ...
Check ==
    /\ epc = "check"
    /\ epc' = IF connected THEN "enqueue" ELSE "idle"
    /\ request' = IF connected THEN request ELSE Nothing
    /\ UNCHANGED <<use_tls, running, pc, phase, conn, due, ringVars, cq, connected, send_queue,
                   subscriptions, asked, server>>

\* ... and queue a message for the other thread (send_ws_text).
Enqueue ==
    /\ epc = "enqueue" /\ epc' = "idle" /\ request' = Nothing
    /\ send_queue' = Append(send_queue, request)
    /\ UNCHANGED <<use_tls, running, pc, phase, conn, due, ringVars, cq, connected,
                   subscriptions, asked, server>>

Stop ==
    /\ running /\ running' = FALSE
    /\ UNCHANGED <<use_tls, pc, phase, conn, due, ringVars, cq, connected, send_queue,
                   engineVars, server>>

-----------------------------------------------------------------------------
Reap ==
    \/ ConnectFails \/ ConnectSucceeds \/ RecvEnds \/ RecvNoBufs
    \/ Handshaken \/ Upgraded \/ OtherData \/ SendDone \/ ReapEnds
Loop ==
    \/ ResolveFails \/ Connects \/ NoSocket \/ NoReconnect \/ Drain \/ Cleanup
    \/ Ping \/ SubmitAll \/ Wait \/ Reap \/ Subscribe
Kernel == ConnectCompletes \/ SendCompletes \/ RecvCompletes \/ RecvStops
Engine == Ask \/ Check \/ Enqueue \/ Stop

Next ==
    /\ pc # "killed"
    /\ Loop \/ WritesToNoSession \/ Kernel \/ TimeIsUp \/ Engine

Spec == Init /\ [][Next]_vars

\* The threads run, connects and sends complete and time passes; here a
\* socket is always to be had, and the process is not killed.
FairSpec ==
    /\ Init /\ [][Next /\ ~NoSocket /\ ~WritesToNoSession]_vars
    /\ WF_vars(Loop) /\ WF_vars(TimeIsUp) /\ WF_vars(ConnectCompletes) /\ WF_vars(SendCompletes)

-----------------------------------------------------------------------------
(* Properties.                                                             *)

Ops(kinds, data) == [op : kinds, conn : 1..MaxConnections, data : data]
Messages == {Garbage, Nothing, Hello, Upgrade, Keepalive}
                \cup [kind : {"subscribe", "unsubscribe"}, assets : SUBSET Assets]

\* Types; the submission queue never holds more than io_uring_queue_depth.
TypeOK ==
    /\ use_tls \in BOOLEAN /\ running \in BOOLEAN /\ due \in BOOLEAN
    /\ pc \in {"start", "loop", "ping", "submit", "wait", "reap", "subscribe", "reconnect",
               "done", "failed", "killed"}
    /\ phase \in {"Disconnected", "TcpConnecting", "TlsHandshaking", "WsUpgrading", "Connected"}
    /\ conn \in 0..MaxConnections
    /\ Len(sq) <= QueueDepth
    /\ ToSet(sq \o inflight) \subseteq Ops({"Connect", "Recv", "Send"}, Messages)
    /\ connected \in BOOLEAN /\ overwritten \in BOOLEAN
    /\ subscriptions \subseteq Assets /\ asked \subseteq Assets
    /\ ToSet(send_queue) \cup {request} \subseteq Messages
    /\ epc \in {"idle", "check", "enqueue"}
    /\ server.stage \in {"gone", "accepted", "greeted", "secure", "asked", "open", "refused", "broken"}
    /\ server.subs \subseteq Assets

Watching(op) == op.op \in {"Connect", "Recv"}
Ends(e) == Watching(e) /\ ~e.more
Watchers ==
    {<<"sq", i>> : i \in {j \in DOMAIN sq : Watching(sq[j])}}
      \cup {<<"inflight", i>> : i \in {j \in DOMAIN inflight : Watching(inflight[j])}}
      \cup {<<"cq", i>> : i \in {j \in DOMAIN cq : Ends(cq[j])}}
Watcher(w) == CASE w[1] = "sq" -> sq[w[2]] [] w[1] = "inflight" -> inflight[w[2]] [] OTHER -> cq[w[2]]

\* A connection that is lost is noticed: while the socket is open exactly one
\* operation of that connection is prepared, with the kernel or about to be
\* looked at that will tell its end (the connect first, the receive later),
\* although the kernel may end a receive at any time; and none is when there
\* is no socket, so that a loss is handled once.
LossIsNoticed ==
    pc # "done" =>
      IF phase = "Disconnected"
        THEN Watchers = {}
        ELSE \E w \in Watchers :
                /\ Watchers = {w} /\ Watcher(w).conn = conn
                /\ Watcher(w).op = IF phase = "TcpConnecting" THEN "Connect" ELSE "Recv"

Quiet ==
    /\ pc \notin {"subscribe", "done"} /\ epc = "idle" /\ send_queue = <<>>
    /\ \A op \in ToSet(sq \o inflight) : ~IsSend(op)

\* When the connection is there and nothing is on its way, the server sends
\* just what current_subscriptions_ holds, however the engine's changes fell
\* between a loss, connected_ and the subscription of the new connection. TLS
\* only, and only if no send was overwritten by the next one.
SubscriptionsAgree ==
    use_tls /\ phase = "Connected" /\ server.stage = "open" /\ Quiet /\ ~overwritten
      => server.subs = subscriptions

\* A connection that was lost is followed by another one, or by a stop:
\* io_uring_ws.cpp:532 announces "Clean up and trigger reconnect" where the
\* loss is handled.
ReconnectsAfterLoss ==
    \A n \in 1..MaxConnections - 1 :
        Reaping("Recv", {"end"}) /\ conn = n ~> conn > n \/ ~running
=============================================================================
