------------------------------ MODULE Exchange ------------------------------
(***************************************************************************)
(* The paper exchange (trading/exchange.cpp): orders submitted by the      *)
(* strategy are matched against the mirrored books at once (taker) or rest *)
(* as virtual orders (maker) until a trade on the real market matches      *)
(* them.  Orders are always filled whole, so quantities are left out, and  *)
(* so are timestamps.  The vector of virtual orders is a set here: orders  *)
(* are appended with growing ids and erased with std::remove_if, which     *)
(* keeps their order, so the vector is always the set sorted by id.        *)
(***************************************************************************)
EXTENDS LevelBook, Sequences

CONSTANTS
    NoBookMarket,        \* a market id the configuration does not list
    Rounding,            \* error of the double 1.0 - p, per price p
    MinPrice, MaxPrice,  \* MIN_PRICE and MAX_PRICE
    OrderPrices,         \* the limit prices strategies submit
    TradeSizes,          \* the sizes of trades
    MaxOrders            \* bound: how many orders the strategy submits

ASSUME LimitsAssumption == MinPrice \in Int /\ MaxPrice \in Int
ASSUME OrderPricesAssumption == OrderPrices \subseteq Int
ASSUME RoundingAssumption == Rounding \in [OrderPrices \cup Prices -> Int]
ASSUME TradeSizesAssumption == TradeSizes \subseteq Nat
ASSUME MaxOrdersAssumption == MaxOrders \in Nat
ASSUME NoBookAssumption == NoBookMarket \notin Markets

Books == Markets \cup {NoBookMarket}

VARIABLES
    resting,    \* virtual_orders_: the maker orders of each market
    created,    \* a message about NoBookMarket has made it a book
    requests,   \* history: the orders submitted; order i is requests[i]
    fills,      \* history: the fill reports made
    cancelled   \* history: the ids of resting orders that were cancelled

orderVars == <<resting, requests, fills, cancelled>>
vars == <<levels, created, orderVars>>

Init ==
    /\ LevelBookInit
    /\ created = FALSE
    /\ resting = [m \in Books |-> {}]
    /\ requests = <<>>
    /\ fills = {}
    /\ cancelled = {}

\* get_book: the markets of the configuration have one from the start.  The book
\* that a message makes for another one knows no asset and stays empty.
HasBook(m) == m \in Markets \/ created
BookOf(m) ==
    IF m \in Markets THEN levels[m] ELSE [o \in Outcomes |-> [s \in Sides |-> NoLevels]]

\* 1.0 - price, in doubles
Complement(p) == Unit - p + Rounding[p]

IsValidPrice(p) == MinPrice <= p /\ p <= MaxPrice

\* p is at or better than limit for somebody who takes from side s
AtOrBeyond(s, p, limit) == IF s = "Buy" THEN p >= limit ELSE p <= limit

-----------------------------------------------------------------------------
(* Taking liquidity: the eight branches of try_fill_taker, two per pair of *)
(* side and outcome.                                                       *)

\* The levels on the opposite side of the same outcome, and those on the same
\* side of the other outcome.
Facing(book, ord) == book[ord.outcome][OtherSide(ord.side)]
Mirror(book, ord) == book[OtherOutcome(ord.outcome)][ord.side]

\* Mutant of TakesFacing: the comparison is the wrong way round.
TakesFacingReversed(book, ord) ==
    \E p \in DOMAIN Facing(book, ord) : AtOrBeyond(ord.side, p, ord.price)

\* *yes_ask <= order.price, *yes_bid >= order.price, ...: the best price is
\* good enough exactly if some price is.
TakesFacing(book, ord) ==
    \E p \in DOMAIN Facing(book, ord) : AtOrBeyond(OtherSide(ord.side), p, ord.price)

\* *no_bid >= complement, *no_ask <= complement, ...
TakesMirror(book, ord) ==
    \E p \in DOMAIN Mirror(book, ord) : AtOrBeyond(ord.side, p, Complement(ord.price))

IsTaker(book, ord) == TakesFacing(book, ord) \/ TakesMirror(book, ord)

\* The same outcome is preferred and pays its best price; a mirrored match is
\* filled at the order's own price.
TakerPrice(book, ord) ==
    IF TakesFacing(book, ord)
      THEN Best(Facing(book, ord), OtherSide(ord.side))
      ELSE ord.price

\* Mutant of VolumeAhead: the order queues behind its own side of the book.
VolumeAheadOwnSide(book, ord) == Depth(book[ord.outcome][ord.side], ord.price)

\* The queue position add_maker_order computes for an order that rests.
VolumeAhead(book, ord) ==
    Depth(Facing(book, ord), ord.price) + Depth(Mirror(book, ord), Complement(ord.price))

-----------------------------------------------------------------------------
(* The strategy's operations.                                              *)

\* A fill report; `by' is the trade that filled it, NoTrade for a taker.
NoTrade == [market |-> NoBookMarket]
Fill(id, price, by) == [id |-> id, price |-> price, by |-> by]

\* Strategy::submit_order numbers the order before anything can go wrong with
\* it, so requests grows even when the exchange throws or has no book.
NumberOrder(ord) == requests' = Append(requests, ord)
\* Mutant of NextOrderId: ids count from zero.
NextOrderIdFromZero == Len(requests)

NextOrderId == Len(requests) + 1

\* PriceValidationError, or get_book found nothing: nothing else changes.
LoseOrder(ord) ==
    /\ ~HasBook(ord.market) \/ ~IsValidPrice(ord.price)
    /\ NumberOrder(ord)
    /\ UNCHANGED <<levels, created, resting, fills, cancelled>>

TakeOrder(ord) ==
    /\ HasBook(ord.market) /\ IsValidPrice(ord.price)
    /\ IsTaker(BookOf(ord.market), ord)
    /\ NumberOrder(ord)
    /\ fills' = fills \cup
          {Fill(NextOrderId, TakerPrice(BookOf(ord.market), ord), NoTrade)}
    /\ UNCHANGED <<levels, created, resting, cancelled>>

\* add_maker_order
RestOrder(ord) ==
    /\ HasBook(ord.market) /\ IsValidPrice(ord.price)
    /\ ~IsTaker(BookOf(ord.market), ord)
    /\ NumberOrder(ord)
    /\ resting' = [resting EXCEPT ![ord.market] =
           @ \cup {[id |-> NextOrderId, order |-> ord,
                    volumeAhead |-> VolumeAhead(BookOf(ord.market), ord)]}]
    /\ UNCHANGED <<levels, created, fills, cancelled>>

Orders == [market : Books, outcome : Outcomes,
           side : Sides, price : OrderPrices]

SubmitOrder ==
    /\ Len(requests) < MaxOrders
    /\ \E ord \in Orders : LoseOrder(ord) \/ TakeOrder(ord) \/ RestOrder(ord)

\* remove_virtual_order: erases the order with this id, if it rests
\* here; without a book of the market nothing happens at all.
CancelOrder(m, id) ==
    /\ resting' = [resting EXCEPT ![m] = {v \in @ : v.id # id}]
    /\ cancelled' = cancelled \cup {v.id : v \in {w \in resting[m] : w.id = id}}
    /\ UNCHANGED <<levels, created, requests, fills>>

-----------------------------------------------------------------------------
(* Trades on the real market: process_trade and process_virtual_fills.     *)

MatchesSameOutcome(ord, t) ==
    ord.outcome = t.outcome /\ ord.side # t.side /\ ord.price <= t.price

MatchesOtherOutcome(ord, t) ==
    ord.outcome # t.outcome /\ ord.side = t.side /\ ord.price >= Complement(t.price)

Matches(ord, t) == MatchesSameOutcome(ord, t) \/ MatchesOtherOutcome(ord, t)

MakerPrice(ord, t) ==
    IF MatchesSameOutcome(ord, t) THEN ord.price ELSE Complement(ord.price)

\* A matched order's queue position shrinks by the size of the trade.
Advanced(v, t) ==
    IF Matches(v.order, t) THEN [v EXCEPT !.volumeAhead = @ - t.size] ELSE v

Reached(v, t) == Matches(v.order, t) /\ v.volumeAhead - t.size <= 0

\* Mutants of ProcessTrade: filled orders stay in the book, and filled orders
\* are removed without a report.
ProcessTradeKeeps(t) ==
    LET hits == {v \in resting[t.market] : Reached(v, t)}
    IN  /\ resting' = [resting EXCEPT ![t.market] = {Advanced(v, t) : v \in @}]
        /\ fills' = fills \cup {Fill(v.id, MakerPrice(v.order, t), t) : v \in hits}
        /\ UNCHANGED <<levels, created, requests, cancelled>>

ProcessTradeLoses(t) ==
    LET hits == {v \in resting[t.market] : Reached(v, t)}
    IN  /\ resting' = [resting EXCEPT ![t.market] = {Advanced(v, t) : v \in @ \ hits}]
        /\ UNCHANGED <<levels, created, requests, fills, cancelled>>

ProcessTrade(t) ==
    LET hits == {v \in resting[t.market] : Reached(v, t)}
    IN  /\ resting' = [resting EXCEPT ![t.market] = {Advanced(v, t) : v \in @ \ hits}]
        /\ fills' = fills \cup {Fill(v.id, MakerPrice(v.order, t), t) : v \in hits}
        /\ UNCHANGED <<levels, created, requests, cancelled>>

\* (A trade in a market that is not listed names an asset its book does not know.)
Trades == [market : Markets, outcome : Outcomes, side : Sides,
           price : Prices, size : TradeSizes]

-----------------------------------------------------------------------------
UpdateBook == LevelBookNext /\ UNCHANGED <<created, orderVars>>

\* process_book_message about a market that has no book yet.
CreateBook == ~created /\ created' = TRUE /\ UNCHANGED <<levels, orderVars>>

Next ==
    \/ UpdateBook
    \/ CreateBook
    \/ SubmitOrder
    \/ \E m \in Books, id \in 1 .. MaxOrders : CancelOrder(m, id)
    \/ \E t \in Trades : ProcessTrade(t)

Spec == Init /\ [][Next]_vars

-----------------------------------------------------------------------------
(* Properties.                                                             *)

\* Filled as a taker.
IsTaken(f) == f.by = NoTrade

OrderOf(f) == requests[f.id]

VirtualOrders == [id : 1 .. MaxOrders, order : Orders, volumeAhead : Int]

TypeOK ==
    /\ LevelBookType
    /\ requests \in Seq(Orders)
    /\ Len(requests) <= MaxOrders
    /\ created \in BOOLEAN
    /\ resting \in [Books -> SUBSET VirtualOrders]
    /\ fills \subseteq [id : 1 .. MaxOrders, price : Int, by : Trades \cup {NoTrade}]
    /\ cancelled \subseteq 1 .. MaxOrders

\* No resting order ever waits behind anybody: what add_maker_order counts as
\* volume ahead is the liquidity that would have filled the order as a taker,
\* so it is always zero and the first matching trade of any size fills it.
NothingWaits == \A m \in Books : \A v \in resting[m] : v.volumeAhead = 0

\* An order is reported filled at most once, and a filled or cancelled order
\* no longer rests in any market (process_virtual_fills collects the ids and
\* removes them after its loop).
FilledOnceAndGone ==
    /\ \A f, g \in fills : f.id = g.id => f = g
    /\ \A m \in Books : \A v \in resting[m] :
          /\ v.id \notin cancelled
          /\ \A f \in fills : f.id # v.id

\* Time priority: of two orders of the same market, outcome, side and price
\* that both rested, the younger is never filled while the older still rests.
NoOvertaking ==
    \A m \in Books : \A older \in resting[m], f \in fills :
        ~IsTaken(f) /\ OrderOf(f) = older.order => f.id < older.id

\* Whatever fills an order against its own outcome respects its limit: a buyer
\* never pays more, a seller never gets less.
LimitsRespected ==
    \A f \in fills :
        IsTaken(f) \/ MatchesSameOutcome(OrderOf(f), f.by)
            => AtOrBeyond(OtherSide(OrderOf(f).side), f.price, OrderOf(f).price)

StatusOf(i) ==
    IF \E f \in fills : f.id = i THEN "filled"
    ELSE IF i \in cancelled THEN "cancelled"
    ELSE IF \E m \in Books : \E v \in resting[m] : v.id = i THEN "open"
    ELSE "lost"

Lifecycle == INSTANCE OrderLifecycle WITH status <- [i \in DOMAIN requests |-> StatusOf(i)]

\* Every operation of the exchange moves orders through their life cycle only:
\* no order vanishes, comes back, or is filled after it was cancelled.
ImplementsLifecycle == Lifecycle!LifecycleSpec

-----------------------------------------------------------------------------
(* What the comments promise and the code does not keep.                   *)

\* "BUY YES@p matches SELL YES@p" (market_book.hpp:15): a resting order is
\* filled by a trade of its own outcome only if the trade's price reached its
\* limit.  The code tests order.price <= price for bids as well as for asks.
TradeReachedLimit ==
    \A f \in fills :
        ~IsTaken(f) /\ OrderOf(f).outcome = f.by.outcome
            => AtOrBeyond(OtherSide(OrderOf(f).side), f.by.price, OrderOf(f).price)
=============================================================================
