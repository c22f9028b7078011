------------------------------- MODULE Engine -------------------------------
(***************************************************************************)
(* The engine thread (engine.cpp): it takes batches of messages, updates   *)
(* books and exchange, and calls the strategy, which may submit and cancel *)
(* orders from inside any callback, on_fill included, and may raise.       *)
(*                                                                         *)
(* The C++ and Python call stack is the sequence `agenda': its head is     *)
(* what runs now, the rest is what remains to be done when it returns.     *)
(* Which orders a trade fills and which orders find a taker is decided by  *)
(* Exchange; here it is any choice.                                        *)
(***************************************************************************)
EXTENDS Naturals, Sequences, SequencesExt

CONSTANTS
    Markets,     \* the configured markets
    OtherMarket, \* a market the configuration does not list
    BatchSize,   \* kMessageBatchSize
    MaxOrders,   \* bound: how many orders the strategy submits
    MaxDepth     \* bound: how long the agenda may get

ASSUME MarketsAssumption == OtherMarket \notin Markets
ASSUME BoundsAssumption == BatchSize \in Nat /\ MaxOrders \in Nat /\ MaxDepth \in Nat

VARIABLES
    books,      \* the markets of books_
    orders,     \* the market of each order; order i was numbered i
    resting,    \* the ids of the virtual orders in the books
    agenda,     \* the call stack
    told,       \* history: the fills on_fill was called with, by id
    booked,     \* history: the fills portfolio_ received
    cancelled,  \* history: the ids cancel_order removed from a book
    raised,     \* history: an exception has left a strategy callback
    active,     \* active_markets_
    left,       \* how many messages of the batch are still to be processed
    running,    \* running_
    run         \* "on", "returned" or "threw": where run() is

vars == <<books, orders, resting, agenda, told, booked, cancelled, raised,
          active, left, running, run>>

\* What may be on the agenda.
Call == <<"call">>             \* a strategy callback that is still to be made
Strategy == <<"strategy">>     \* a strategy callback that is running
Tell(id) == <<"tell", id>>     \* strategy_->on_fill(fill)
Book(id) == <<"book", id>>     \* portfolio_.on_fill(fill)
Retire(m) == <<"retire", m>>   \* the rest of process_market_resolved_message

AllMarkets == Markets \cup {OtherMarket}

Init ==
    /\ books = Markets /\ active = Markets
    /\ orders = <<>> /\ resting = {} /\ cancelled = {}
    /\ agenda = <<>> /\ told = <<>> /\ booked = <<>> /\ raised = FALSE
    /\ left = 0 /\ running = TRUE /\ run = "on"

-----------------------------------------------------------------------------
(* The loop of run().                                                      *)

BetweenMessages == run = "on" /\ agenda = <<>>

\* Mutant of PollBatch: running_ is not tested.
PollBatchForever ==
    /\ BetweenMessages /\ left = 0
    /\ left' \in 1 .. BatchSize
    /\ UNCHANGED <<books, orders, resting, agenda, told, booked, cancelled, raised,
                   active, running, run>>

\* A poll that returned messages.
PollBatch ==
    /\ BetweenMessages /\ left = 0 /\ running
    /\ left' \in 1 .. BatchSize
    /\ UNCHANGED <<books, orders, resting, agenda, told, booked, cancelled, raised,
                   active, running, run>>

\* running_ is tested between batches only.
LoopEnds ==
    /\ BetweenMessages /\ left = 0 /\ ~running
    /\ run' = "returned"
    /\ UNCHANGED <<books, orders, resting, agenda, told, booked, cancelled, raised,
                   active, left, running>>

NextMessage ==
    /\ BetweenMessages /\ left > 0
    /\ left' = left - 1
    /\ UNCHANGED <<orders, told, booked, cancelled, raised, active, running, run>>

\* A book message creates the book of a market it does not know.
OnBook(m) ==
    /\ NextMessage
    /\ books' = books \cup {m}
    /\ agenda' = <<Call>>
    /\ UNCHANGED resting

\* A price change for an unknown market is ignored.
OnPriceChange(m) ==
    /\ NextMessage
    /\ agenda' = IF m \in books THEN <<Call>> ELSE <<>>
    /\ UNCHANGED <<books, resting>>

\* The fills of a trade, in the order of their ids: each is told the strategy
\* and then the portfolio, before the strategy hears of the trade.
FilledBy(m) ==
    {ids \in SeqOf({id \in resting : orders[id] = m}, MaxOrders) :
        \A i, j \in DOMAIN ids : i < j => ids[i] < ids[j]}

Reports(ids) ==
    [i \in 1 .. 2 * Len(ids) |->
        IF i % 2 = 1 THEN Tell(ids[(i + 1) \div 2]) ELSE Book(ids[i \div 2])]

\* Mutant of OnTrade: filled orders stay in the book while they are reported.
OnTradeKeeps(m) ==
    /\ NextMessage
    /\ \E filled \in FilledBy(m) : agenda' = Reports(filled) \o <<Call>>
    /\ UNCHANGED <<books, resting>>

\* The exchange removes what the trade fills before any fill is reported.
OnTrade(m) ==
    /\ NextMessage
    /\ \E filled \in FilledBy(m) :
          /\ resting' = resting \ ToSet(filled)
          /\ agenda' = Reports(filled) \o <<Call>>
    /\ UNCHANGED books

\* The portfolio settles the market before the strategy hears of it.
OnMarketResolved(m) ==
    /\ NextMessage
    /\ agenda' = <<Call, Retire(m)>>
    /\ UNCHANGED <<books, resting>>

\* A tick size change is only logged.
OnTickSizeChange == NextMessage /\ UNCHANGED <<books, resting, agenda>>

ProcessMessage ==
    \/ \E m \in AllMarkets :
          OnBook(m) \/ OnPriceChange(m) \/ OnTrade(m) \/ OnMarketResolved(m)
    \/ OnTickSizeChange

-----------------------------------------------------------------------------
(* What remains to be done when a call returns.                            *)

Pending(step) == run = "on" /\ agenda # <<>> /\ Head(agenda) = step

EnterCallback ==
    /\ Pending(Call)
    /\ agenda' = <<Strategy>> \o Tail(agenda)
    /\ UNCHANGED <<books, orders, resting, told, booked, cancelled, raised, active,
                   left, running, run>>

TellFill(id) ==
    /\ Pending(Tell(id))
    /\ told' = Append(told, id)
    /\ agenda' = <<Strategy>> \o Tail(agenda)
    /\ UNCHANGED <<books, orders, resting, booked, cancelled, raised, active,
                   left, running, run>>

BookFill(id) ==
    /\ Pending(Book(id))
    /\ booked' = Append(booked, id)
    /\ agenda' = Tail(agenda)
    /\ UNCHANGED <<books, orders, resting, told, cancelled, raised, active,
                   left, running, run>>

\* transport_.unsubscribe, active_markets_.erase, and stop() after the last.
RetireMarket(m) ==
    /\ Pending(Retire(m))
    /\ active' = active \ {m}
    /\ running' = (running /\ active \ {m} # {})
    /\ agenda' = Tail(agenda)
    /\ UNCHANGED <<books, orders, resting, told, booked, cancelled, raised, left, run>>

-----------------------------------------------------------------------------
(* The strategy, inside a callback.                                        *)

Returns ==
    /\ Pending(Strategy)
    /\ agenda' = Tail(agenda)
    /\ UNCHANGED <<books, orders, resting, told, booked, cancelled, raised, active,
                   left, running, run>>

NextId == Len(orders) + 1

Submits(m) ==
    /\ Pending(Strategy)
    /\ Len(orders) < MaxOrders
    /\ orders' = Append(orders, m)
    /\ UNCHANGED <<books, told, booked, cancelled, active, left, running>>

\* Without a book, or with a price the strategy is told to be invalid by an
\* exception it catches, the order is numbered and nothing else happens.
SubmitIsLost(m) ==
    /\ Submits(m)
    /\ UNCHANGED <<resting, agenda, raised, run>>

SubmitRests(m) ==
    /\ m \in books
    /\ Submits(m)
    /\ resting' = resting \cup {NextId}
    /\ UNCHANGED <<agenda, raised, run>>

\* Mutant of SubmitTakes: the portfolio is not told of a taker's fill.
SubmitTakesUnbooked(m) ==
    /\ m \in books
    /\ Len(agenda) + 2 <= MaxDepth
    /\ Submits(m)
    /\ agenda' = <<Tell(NextId)>> \o agenda
    /\ UNCHANGED <<resting, raised, run>>

\* The fill of a taker is reported from inside submit_order, before it returns
\* the order's id.
SubmitTakes(m) ==
    /\ m \in books
    /\ Len(agenda) + 2 <= MaxDepth
    /\ Submits(m)
    /\ agenda' = <<Tell(NextId), Book(NextId)>> \o agenda
    /\ UNCHANGED <<resting, raised, run>>

Cancels(m, id) ==
    /\ Pending(Strategy)
    /\ LET hit == {r \in resting : r = id /\ orders[r] = m}
       IN  resting' = resting \ hit /\ cancelled' = cancelled \cup hit
    /\ UNCHANGED <<books, orders, agenda, told, booked, raised, active, left, running, run>>

\* An exception that the callback does not catch unwinds the stack up to the
\* callback from which an order was submitted, which may catch it, or out of run().
Raises ==
    LET catchers == {i \in 2 .. Len(agenda) : agenda[i] = Strategy}
        nearest == CHOOSE i \in catchers : \A j \in catchers : i <= j
    IN  /\ Pending(Strategy)
        /\ raised' = TRUE
        /\ IF catchers = {}
             THEN agenda' = <<>> /\ run' = "threw"
             ELSE agenda' = SubSeq(agenda, nearest, Len(agenda)) /\ UNCHANGED run
        /\ UNCHANGED <<books, orders, resting, told, booked, cancelled, active, left, running>>

\* The signal handler calls stop() at any time.
StopSignal ==
    /\ run = "on" /\ running
    /\ running' = FALSE
    /\ UNCHANGED <<books, orders, resting, agenda, told, booked, cancelled, raised,
                   active, left, run>>

-----------------------------------------------------------------------------
Proceed ==
    \/ EnterCallback
    \/ \E id \in 1 .. MaxOrders : TellFill(id) \/ BookFill(id)
    \/ \E m \in AllMarkets : RetireMarket(m)

StrategyActs ==
    \/ \E m \in AllMarkets : SubmitIsLost(m) \/ SubmitRests(m) \/ SubmitTakes(m)
    \/ \E m \in AllMarkets, id \in 1 .. MaxOrders : Cancels(m, id)
    \/ Raises

Next ==
    \/ PollBatch \/ LoopEnds \/ ProcessMessage
    \/ Proceed \/ Returns \/ StrategyActs
    \/ StopSignal

Spec == Init /\ [][Next]_vars

\* The engine thread runs, and every strategy callback returns in the end.
Fairness == WF_vars(LoopEnds \/ ProcessMessage \/ Proceed) /\ WF_vars(Returns)

FairSpec == Spec /\ Fairness

-----------------------------------------------------------------------------
(* Properties.                                                             *)

Ids == 1 .. MaxOrders
\* The fill of an order reaches strategy and portfolio once at most, in that
\* order, however deeply the callbacks nest.
FillsReportedOnce ==
    /\ \A i, j \in DOMAIN told : told[i] = told[j] => i = j
    /\ \A i, j \in DOMAIN booked : booked[i] = booked[j] => i = j
    /\ ToSet(booked) \subseteq ToSet(told)

\* A fill the strategy knows of and the portfolio does not is on its way,
\* unless an exception has cut its way short.
NoFillForgotten ==
    raised \/ \A id \in ToSet(told) \ ToSet(booked) : Book(id) \in ToSet(agenda)

\* An order that cancel_order found and removed is never filled, not even by
\* a trade whose fills are being reported while it is cancelled.
CancelIsFinal ==
    \A id \in cancelled : id \notin ToSet(told) /\ Tell(id) \notin ToSet(agenda)

\* After stop() the run ends: with the rest of the batch, or by an exception.
StopEndsRun == ~running ~> run # "on"
=============================================================================
