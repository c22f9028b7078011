---------------------------- MODULE PolymarketWS ----------------------------
(***************************************************************************)
(* PolymarketWS (transport/polymarket_ws.cpp): the callbacks that          *)
(* ixwebsocket makes on its own thread, and subscribe and unsubscribe on   *)
(* the thread of the engine.  The set of subscriptions is changed under a  *)
(* mutex, but the thread that (re)connects reads it without.               *)
(*                                                                         *)
(* The connection, the server and the thread of ixwebsocket are external:  *)
(* what is sent on a connection takes effect at once and in order.         *)
(* Lifecycle composes these actions with the rest of the process.          *)
(***************************************************************************)
CONSTANT Assets   \* config_.asset_ids

VARIABLES
    connected,      \* connected_
    subscriptions,  \* current_subscriptions_
    outgoing,       \* what the ws thread has read of it to send
    wpc,            \* where the thread of the transport is
    halted,         \* stop() waits for that thread
    link,           \* there is a connection
    served,         \* what the server sends on it
    overtaken       \* history: unsubscribed before the subscription was sent

wsVars == <<connected, subscriptions, outgoing, wpc, halted, link, served, overtaken>>

WsInit ==
    /\ connected = FALSE /\ subscriptions = Assets /\ outgoing = {}
    /\ wpc = "none" /\ halted = FALSE
    /\ link = FALSE /\ served = {} /\ overtaken = {}

\* The thread may be running when a signal arrives.
WsThreadLives == wpc \in {"trying", "opened", "reading", "sending", "up"}

-----------------------------------------------------------------------------
(* The network and the thread of ixwebsocket.                              *)

LinkUp ==
    /\ wpc = "trying" /\ ~halted
    /\ link' = TRUE /\ served' = {} /\ overtaken' = {}
    /\ wpc' = "opened"
    /\ UNCHANGED <<connected, subscriptions, outgoing, halted>>

LinkLost ==
    /\ link
    /\ link' = FALSE /\ served' = {}
    /\ UNCHANGED <<connected, subscriptions, outgoing, wpc, halted, overtaken>>

\* The callback Open: connected_ first ...
OpenBegins ==
    /\ wpc = "opened"
    /\ connected' = TRUE
    /\ wpc' = "reading"
    /\ outgoing' = subscriptions
    /\ UNCHANGED <<subscriptions, halted, link, served, overtaken>>

\* Mutant of OpenReads: what is sent is the configuration.
OpenReadsConfigured ==
    /\ wpc = "reading"
    /\ outgoing' = Assets
    /\ wpc' = "sending"
    /\ UNCHANGED <<connected, subscriptions, halted, link, served, overtaken>>

\* ... then the set is walked without the mutex.  If an element was erased
\* meanwhile it is seen or not, or the walk runs into the freed node.
OpenReads ==
    /\ wpc = "reading"
    /\ \/ /\ outgoing' \in {seen \in SUBSET outgoing : subscriptions \subseteq seen}
          /\ wpc' = "sending"
       \/ /\ outgoing # subscriptions
          /\ wpc' = "crashed"
          /\ UNCHANGED outgoing
    /\ UNCHANGED <<connected, subscriptions, halted, link, served, overtaken>>

OpenSends ==
    /\ wpc = "sending"
    /\ served' = IF link THEN served \cup outgoing ELSE served
    /\ outgoing' = {}
    /\ wpc' = "up"
    /\ UNCHANGED <<connected, subscriptions, halted, link, overtaken>>

\* The callback Close, after a loss or because of stop(); after a loss
\* ixwebsocket connects again.
Closes ==
    /\ wpc = "up" /\ (~link \/ halted)
    /\ connected' = FALSE
    /\ link' = FALSE /\ served' = {}
    /\ wpc' = "trying"
    /\ UNCHANGED <<subscriptions, outgoing, halted, overtaken>>

WsThreadEnds ==
    /\ wpc = "trying" /\ halted
    /\ wpc' = "ended"
    /\ UNCHANGED <<connected, subscriptions, outgoing, halted, link, served, overtaken>>

WsThread == OpenBegins \/ OpenReads \/ OpenSends \/ Closes \/ WsThreadEnds

-----------------------------------------------------------------------------
(* The calls of other threads.                                             *)

WsStart ==
    /\ wpc' = "trying"
    /\ UNCHANGED <<connected, subscriptions, outgoing, halted, link, served, overtaken>>

\* ws_.stop() of a thread that was started, up to the join.
WsHalt ==
    /\ halted' = TRUE
    /\ UNCHANGED <<connected, subscriptions, outgoing, wpc, link, served, overtaken>>

WsJoined ==
    /\ wpc' = "joined"
    /\ connected' = FALSE
    /\ UNCHANGED <<subscriptions, outgoing, halted, link, served, overtaken>>

\* unsubscribe: the set under the mutex, then connected_, then the message.
UnsubscribeErases(a) ==
    /\ subscriptions' = subscriptions \ {a}
    /\ UNCHANGED <<connected, outgoing, wpc, halted, link, served, overtaken>>

UnsubscribeSends(a) ==
    /\ served' = served \ {a}
    /\ overtaken' = IF a \in outgoing THEN overtaken \cup {a} ELSE overtaken
    /\ UNCHANGED <<connected, subscriptions, outgoing, wpc, halted, link>>
=============================================================================
