----------------------------- MODULE Portfolio -----------------------------
(***************************************************************************)
(* PortfolioTracker (trading/portfolio_tracker.cpp): positions per market  *)
(* and outcome, realized profit, marks, and settlement.                    *)
(*                                                                         *)
(* Money is exact: prices and costs are integers, and average prices and   *)
(* profits count Scale-ths of that unit, where Scale is divisible by every *)
(* position size, so that total_cost / total_qty is an integer.            *)
(***************************************************************************)
EXTENDS Integers, Sequences, FiniteSets, Functions

CONSTANTS
    Markets,
    Prices,        \* fill prices
    Marks,         \* mid prices
    Quantities,    \* filled quantities
    Unit,          \* the price 1.0, what a share of the winning outcome pays
    Scale,         \* fractions of the unit in which averages are kept
    Parts,         \* fractions in which the mean of the returns is kept
    MaxPosition,   \* bound: the largest position
    MaxFills,      \* bound: how many fills are reported
    MaxSnapshots,  \* bound: how many times the equity is recorded
    MaxReports     \* bound: how many of both

ASSUME MarketsAssumption == IsFiniteSet(Markets)
ASSUME PricesAssumption == Prices \subseteq Int /\ Unit \in Int
ASSUME MarksAssumption == Marks \subseteq Int
ASSUME QuantitiesAssumption == Quantities \subseteq Nat
ASSUME BoundsAssumption == MaxPosition \in Nat /\ MaxFills \in Nat /\ MaxSnapshots \in Nat
                           /\ MaxReports \in Nat
ASSUME ScaleAssumption ==
    Scale \in Nat \ {0} /\ \A q \in 1 .. MaxPosition : (Scale \div q) * q = Scale
ASSUME PartsAssumption ==
    Parts \in Nat \ {0} /\ \A n \in 1 .. MaxSnapshots : (Parts \div n) * n = Parts

Outcomes == {"Yes", "No"}
Sides == {"Buy", "Sell"}
Keys == Markets \X Outcomes

VARIABLES
    positions,     \* positions_ (an absent entry is a zero one)
    mid_prices,    \* mid_prices_: a partial function of the keys
    realized,      \* realized_pnl_, in Scale-ths
    returns_count, \* how many returns were counted
    returns_mean,  \* their mean, in Parts
    returns_m2,    \* the sum of their squared deviations, in squares of Parts
    prev_equity,   \* the equity of the last snapshot
    returns,       \* history: the returns
    cash,          \* history: money received minus money paid, settlements included
    entries,       \* history: the prices at which the open position was entered
    reopened,      \* history: the keys that were ever extended after a partial close
    trimmed,       \* history: the keys partially closed since they were opened
    fillCount      \* how many fills were reported

historyVars == <<cash, entries, reopened, trimmed, fillCount>>
equityVars == <<returns_count, returns_mean, returns_m2, prev_equity, returns>>
vars == <<positions, mid_prices, realized, equityVars, historyVars>>

NoPosition == [quantity |-> 0, avg_entry_price |-> 0, cost_basis |-> 0]
NoMarks == [k \in {} |-> 0]

Init ==
    /\ positions = [k \in Keys |-> NoPosition]
    /\ mid_prices = NoMarks
    /\ realized = 0
    /\ returns_count = 0 /\ returns_mean = 0 /\ returns_m2 = 0 /\ prev_equity = 0
    /\ returns = <<>>
    /\ cash = 0
    /\ entries = [k \in Keys |-> {}]
    /\ reopened = {} /\ trimmed = {}
    /\ fillCount = 0

AbsOf(n) == IF n < 0 THEN -n ELSE n
Smaller(a, b) == IF a <= b THEN a ELSE b
Signed(side, qty) == IF side = "Buy" THEN qty ELSE -qty

\* total_qty > 0 ? total_cost / total_qty : 0.0
Average(total, qty) == IF qty > 0 THEN total * (Scale \div qty) ELSE 0

-----------------------------------------------------------------------------
(* on_fill.                                                                *)

\* The fill adds to the position, or opens one: old_qty >= 0 for a buy,
\* old_qty <= 0 for a sell.
Extends(pos, side) == Signed(side, pos.quantity) >= 0

Extended(pos, side, qty, price) ==
    LET total == pos.cost_basis + qty * price
    IN  [quantity |-> pos.quantity + Signed(side, qty),
         avg_entry_price |-> Average(total, AbsOf(pos.quantity) + qty),
         cost_basis |-> total]

\* Otherwise it closes some of the position: cover_qty, close_qty.
ClosedQty(pos, qty) == Smaller(qty, AbsOf(pos.quantity))

\* Mutants of Reduced: a position that becomes flat is not cleared, and one that
\* flips keeps the old average.
ReducedNotCleared(pos, side, qty, price) ==
    LET remaining == qty - ClosedQty(pos, qty)
    IN  IF remaining > 0
          THEN [quantity |-> Signed(side, remaining), avg_entry_price |-> Scale * price,
                cost_basis |-> remaining * price]
          ELSE [pos EXCEPT !.quantity = @ + Signed(side, qty)]

ReducedKeepsAverage(pos, side, qty, price) ==
    LET new_qty == pos.quantity + Signed(side, qty)
    IN  IF new_qty = 0 THEN NoPosition ELSE [pos EXCEPT !.quantity = new_qty]

\* What is left over opens a position on the other side; a partial close
\* touches neither the average nor the cost basis.
Reduced(pos, side, qty, price) ==
    LET new_qty == pos.quantity + Signed(side, qty)
        remaining == qty - ClosedQty(pos, qty)
    IN  IF remaining > 0
          THEN [quantity |-> new_qty, avg_entry_price |-> Scale * price,
                cost_basis |-> remaining * price]
        ELSE IF new_qty = 0 THEN NoPosition
        ELSE [pos EXCEPT !.quantity = new_qty]

PositionAfter(pos, side, qty, price) ==
    IF Extends(pos, side) THEN Extended(pos, side, qty, price)
                          ELSE Reduced(pos, side, qty, price)

\* Mutant of Profit: covering a short is booked like closing a long.
ProfitUnsigned(pos, side, qty, price) ==
    IF Extends(pos, side) THEN 0
    ELSE ClosedQty(pos, qty) * (Scale * price - pos.avg_entry_price)

\* Covering a short earns entry minus price, closing a long price minus entry.
Profit(pos, side, qty, price) ==
    IF Extends(pos, side) THEN 0
    ELSE Signed(side, ClosedQty(pos, qty)) * (pos.avg_entry_price - Scale * price)

\* Of the history: which entry prices the position after the fill stands for.
EntriesAfter(k, side, qty, price) ==
    LET pos == positions[k]
        new_qty == pos.quantity + Signed(side, qty)
    IN  IF new_qty = 0 THEN {}
        ELSE IF qty = 0 THEN entries[k]
        ELSE IF Extends(pos, side) THEN entries[k] \cup {price}
        ELSE IF qty > AbsOf(pos.quantity) THEN {price}
        ELSE entries[k]

TrimmedAfter(k, side, qty) ==
    IF qty > 0 /\ ~Extends(positions[k], side) /\ qty < AbsOf(positions[k].quantity)
      THEN trimmed \cup {k}
    ELSE IF ~Extends(positions[k], side) /\ qty >= AbsOf(positions[k].quantity)
      THEN trimmed \ {k}
    ELSE trimmed

OnFill(k, side, qty, price) ==
    /\ positions' = [positions EXCEPT ![k] = PositionAfter(@, side, qty, price)]
    /\ realized' = realized + Profit(positions[k], side, qty, price)
    /\ cash' = cash - Scale * price * Signed(side, qty)
    /\ entries' = [entries EXCEPT ![k] = EntriesAfter(k, side, qty, price)]
    /\ trimmed' = TrimmedAfter(k, side, qty)
    /\ reopened' = IF Extends(positions[k], side) /\ k \in trimmed
                     THEN reopened \cup {k} ELSE reopened
    /\ UNCHANGED <<mid_prices, equityVars>>

ReportFill ==
    /\ fillCount < MaxFills /\ fillCount + returns_count < MaxReports
    /\ fillCount' = fillCount + 1
    /\ \E k \in Keys, side \in Sides, qty \in Quantities, price \in Prices :
          /\ AbsOf(positions[k].quantity + Signed(side, qty)) <= MaxPosition
          /\ OnFill(k, side, qty, price)

-----------------------------------------------------------------------------
(* Marks and settlement.                                                   *)

\* Mutant of UpdateMarkToMarket: bid plus ask, not halved.
UpdateMarkToSum(k, mid) ==
    /\ mid_prices' = [j \in DOMAIN mid_prices \cup {k} |->
                         IF j = k THEN 2 * mid ELSE mid_prices[j]]
    /\ UNCHANGED <<positions, realized, equityVars, historyVars>>

UpdateMarkToMarket(k, mid) ==
    /\ mid_prices' = [j \in DOMAIN mid_prices \cup {k} |->
                         IF j = k THEN mid ELSE mid_prices[j]]
    /\ UNCHANGED <<positions, realized, equityVars, historyVars>>

SettlementPrice(o, winner) == IF o = winner THEN Unit ELSE 0

KeysOf(m) == {m} \X Outcomes

\* Mutant of SettlementProfit: a short position is settled like a long one.
SettlementProfitUnsigned(k, winner) ==
    AbsOf(positions[k].quantity) *
        (Scale * SettlementPrice(k[2], winner) - positions[k].avg_entry_price)

\* What the position earns when it is settled, and what it pays out.
SettlementProfit(k, winner) ==
    positions[k].quantity *
        (Scale * SettlementPrice(k[2], winner) - positions[k].avg_entry_price)
Payout(k, winner) == Scale * SettlementPrice(k[2], winner) * positions[k].quantity

OnMarketResolved(m, winner) ==
    /\ realized' = realized + SettlementProfit(<<m, "Yes">>, winner)
                            + SettlementProfit(<<m, "No">>, winner)
    /\ positions' = [k \in Keys |-> IF k \in KeysOf(m) /\ positions[k].quantity # 0
                                      THEN NoPosition ELSE positions[k]]
    /\ mid_prices' = [k \in DOMAIN mid_prices \ KeysOf(m) |-> mid_prices[k]]
    /\ cash' = cash + Payout(<<m, "Yes">>, winner) + Payout(<<m, "No">>, winner)
    /\ entries' = [k \in Keys |-> IF k \in KeysOf(m) THEN {} ELSE entries[k]]
    /\ trimmed' = trimmed \ KeysOf(m)
    /\ UNCHANGED <<reopened, fillCount, equityVars>>

-----------------------------------------------------------------------------
(* Equity and its returns.                                                *)

\* get_unrealized_pnl: a position without a mark counts for nothing.
UnrealizedPnl ==
    SumFunction([k \in {k \in DOMAIN mid_prices : positions[k].quantity # 0} |->
                    positions[k].quantity *
                        (Scale * mid_prices[k] - positions[k].avg_entry_price)])

TotalPnl == realized + UnrealizedPnl

\* Mutant of SquaredDeviation: both deviations are from the old mean.
SquaredDeviationFromOld(ret, old_mean, new_mean) == (ret - old_mean) * (ret - old_mean)

\* delta * delta2
SquaredDeviation(ret, old_mean, new_mean) == (ret - old_mean) * (ret - new_mean)

\* The first snapshot is counted, and no return.  (equity_history_ is written
\* and never read.)
RecordEquitySnapshot ==
    /\ returns_count < MaxSnapshots /\ fillCount + returns_count < MaxReports
    /\ returns_count' = returns_count + 1
    /\ prev_equity' = TotalPnl
    /\ IF returns_count = 0
         THEN returns' = <<0>> /\ UNCHANGED <<returns_mean, returns_m2>>
         ELSE LET ret == Parts * (TotalPnl - prev_equity)
              IN  /\ returns' = Append(returns, TotalPnl - prev_equity)
                  /\ returns_mean' = returns_mean + (ret - returns_mean) \div (returns_count + 1)
                  /\ returns_m2' = returns_m2 + SquaredDeviation(ret, returns_mean, returns_mean')
    /\ UNCHANGED <<positions, mid_prices, realized, historyVars>>

\* get_sharpe_ratio is the mean over the root of m2 / count where this holds,
\* and 0 where it does not.
HasSharpeRatio == returns_count >= 2 /\ returns_m2 # 0

-----------------------------------------------------------------------------
Next ==
    \/ ReportFill
    \/ \E k \in Keys, mid \in Marks : UpdateMarkToMarket(k, mid)
    \/ RecordEquitySnapshot
    \/ \E m \in Markets, winner \in Outcomes : OnMarketResolved(m, winner)

Spec == Init /\ [][Next]_vars

-----------------------------------------------------------------------------
(* Properties.                                                             *)

TypeOK ==
    /\ positions \in [Keys -> [quantity : -MaxPosition .. MaxPosition,
                               avg_entry_price : Int, cost_basis : Int]]
    /\ DOMAIN mid_prices \subseteq Keys
    /\ \A k \in DOMAIN mid_prices : mid_prices[k] \in Marks
    /\ realized \in Int /\ cash \in Int
    /\ returns_count \in 0 .. MaxSnapshots
    /\ entries \in [Keys -> SUBSET Prices]
    /\ reopened \subseteq Keys /\ trimmed \subseteq Keys
    /\ fillCount \in 0 .. MaxFills

\* A flat position carries nothing over: neither an average nor a cost basis
\* that the next entry would be averaged with (the resets of on_fill and of
\* on_market_resolved).
FlatCarriesNothing ==
    \A k \in Keys : positions[k].quantity = 0 => positions[k] = NoPosition

CostOfPositions ==
    SumFunction([k \in Keys |-> positions[k].quantity * positions[k].avg_entry_price])

\* As long as no position is extended after a partial close, the profit that
\* was booked is the money that came in, the open positions counted at entry.
ProfitIsCash ==
    reopened = {} => realized = cash + CostOfPositions

\* A fill at the mark earns nothing by itself: profit moves between realized and
\* unrealized, also when the fill closes, or flips, the position.  (That a fill
\* was at the mark is read off the money it moved.)
FillAtMarkIsNeutral ==
    [][\A k \in DOMAIN mid_prices \ reopened' :
          LET bought == positions'[k].quantity - positions[k].quantity
          IN  /\ fillCount' # fillCount
              /\ bought # 0
              /\ cash' - cash = -(Scale * mid_prices[k] * bought)
              => TotalPnl' = TotalPnl]_vars

\* Settlement is a mark at the settlement price that became final.
SettlementAtMarkIsNeutral ==
    [][\A m \in Markets, winner \in Outcomes :
          (\A k \in KeysOf(m) : k \in DOMAIN mid_prices
                                  /\ mid_prices[k] = SettlementPrice(k[2], winner))
          => (OnMarketResolved(m, winner) => TotalPnl' = TotalPnl)]_vars

\* Mean and squared deviations, updated one snapshot at a time, are those of the
\* returns computed at once, with a return of zero for the first snapshot; and
\* there is a Sharpe ratio once some return was not zero.
WelfordIsTwoPass ==
    LET Deviation(i) == Parts * returns[i] - returns_mean
    IN  /\ returns_count = Len(returns)
        /\ returns_count * returns_mean = Parts * SumFunction(returns)
        /\ returns_m2 = SumFunction([i \in DOMAIN returns |-> Deviation(i) * Deviation(i)])
        /\ HasSharpeRatio <=> \E i \in DOMAIN returns : returns[i] # 0

-----------------------------------------------------------------------------
\* "VWAP of entries" (portfolio_tracker.hpp:10): the average entry price of an
\* open position lies between the lowest and the highest price at which it was
\* entered.  A partial close leaves cost_basis as it was, and the next entry is
\* averaged with it over the smaller quantity.
AverageWithinEntries ==
    \A k \in Keys :
        positions[k].quantity # 0 =>
            /\ \E p \in entries[k] : Scale * p <= positions[k].avg_entry_price
            /\ \E p \in entries[k] : positions[k].avg_entry_price <= Scale * p
=============================================================================
