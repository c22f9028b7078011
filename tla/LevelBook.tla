----------------------------- MODULE LevelBook -----------------------------
(***************************************************************************)
(* What the 4-sided order book of a market promises its readers            *)
(* (trading/market_book.hpp): per outcome and side, the total size at each *)
(* price, replaced as a whole by a snapshot and one level at a time by a   *)
(* price change.  MarketBook is the vector representation of it; there a   *)
(* snapshot may have named a price twice, and the removal of the level     *)
(* that counts uncovers the other.                                         *)
(*                                                                         *)
(* Prices are integers (a fixed number of them per tick, so that a rounded *)
(* complement can lie strictly between two ticks); sizes are naturals.     *)
(***************************************************************************)
EXTENDS Integers, FiniteSets

CONSTANTS Markets,   \* the markets of the configuration, each with a book
          Prices,    \* the prices book messages, orders and trades carry
          Sizes,     \* the level sizes book messages carry
          Unit,      \* the price 1.0: all prices lie between 0 and 1
          Ladders,   \* the sides (price -> size) a snapshot may carry
          MaxLevels  \* bound: how many levels a market's book may have

Outcomes == {"Yes", "No"}
Sides == {"Buy", "Sell"}

OtherOutcome(o) == IF o = "Yes" THEN "No" ELSE "Yes"
OtherSide(s) == IF s = "Buy" THEN "Sell" ELSE "Buy"

\* All partial functions from prices to sizes.
Levels == UNION {[P -> Sizes] : P \in SUBSET Prices}

ASSUME UnitAssumption == Unit \in Nat
ASSUME PricesAssumption == Prices \subseteq 0 .. Unit
ASSUME SizesAssumption == Sizes \subseteq Nat
ASSUME LaddersAssumption == Ladders \subseteq Levels

VARIABLE levels   \* yes_bids_, yes_asks_, no_bids_, no_asks_ of each market

NoLevels == [p \in {} |-> 0]

LevelBookInit == levels = [m \in Markets |-> [o \in Outcomes |-> [s \in Sides |-> NoLevels]]]

LevelBookType == levels \in [Markets -> [Outcomes -> [Sides -> Levels]]]

LevelCount(book) ==
    Cardinality({x \in Outcomes \X Sides \X Prices : x[3] \in DOMAIN book[x[1]][x[2]]})

-----------------------------------------------------------------------------
(* Queries.                                                                *)

\* get_yes_bid_depth and its three sisters.
Depth(ladder, p) == IF p \in DOMAIN ladder THEN ladder[p] ELSE 0

\* get_yes_best_bid and its sisters: the highest bid, the lowest ask.
Best(ladder, side) ==
    CHOOSE p \in DOMAIN ladder :
        \A q \in DOMAIN ladder : IF side = "Buy" THEN q <= p ELSE p <= q

-----------------------------------------------------------------------------
(* Updates.                                                                *)

\* A level set to a size, or removed by a size of zero.
SetLevel(ladder, p, size) ==
    IF size <= 0
      THEN [q \in DOMAIN ladder \ {p} |-> ladder[q]]
      ELSE [q \in DOMAIN ladder \cup {p} |-> IF q = p THEN size ELSE ladder[q]]

\* A snapshot replaces both sides of the outcome.
Snapshot(m, o, bids, asks) ==
    levels' = [levels EXCEPT ![m][o] = [s \in Sides |-> IF s = "Buy" THEN bids ELSE asks]]

\* A price change replaces the total size at one level.
ChangeLevel(m, o, s, p, size) ==
    levels' = [levels EXCEPT ![m][o][s] = SetLevel(@, p, size)]

\* The level that a removal of another at its price uncovers.
Uncover(m, o, s, p, size) ==
    /\ p \in DOMAIN levels[m][o][s]
    /\ levels' = [levels EXCEPT ![m][o][s][p] = size]

BookUpdate ==
    \/ \E m \in Markets, o \in Outcomes, bids, asks \in Ladders : Snapshot(m, o, bids, asks)
    \/ \E m \in Markets, o \in Outcomes, s \in Sides, p \in Prices, size \in Sizes \cup {0} :
            ChangeLevel(m, o, s, p, size)
    \/ \E m \in Markets, o \in Outcomes, s \in Sides, p \in Prices, size \in Sizes :
            Uncover(m, o, s, p, size)

WithinBound == \A m \in Markets : LevelCount(levels'[m]) <= MaxLevels

LevelBookNext == BookUpdate /\ WithinBound

LevelBookSpec == LevelBookInit /\ [][LevelBookNext]_levels
=============================================================================
