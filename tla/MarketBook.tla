----------------------------- MODULE MarketBook -----------------------------
(***************************************************************************)
(* The four vectors of price levels of one MarketBook per market           *)
(* (trading/market_book.cpp): what the parsed book and price_change        *)
(* messages do to them, and the queries the exchange and the strategies    *)
(* ask.  The levels of a side are a sequence in the order of the vector.   *)
(* A snapshot is stored as it comes: it may name a price twice or carry a  *)
(* size of zero (a text that is no number becomes 0).  Prices and sizes    *)
(* that are negative or not a number are left out.                         *)
(* After every message the engine marks the asset's outcome to the book    *)
(* (update_mtm in engine.cpp); marks count halves of the price's unit.     *)
(* A message and its mark are one step here: the strategy's callback that  *)
(* runs between them, the mark's refresh by a trade and the settlement     *)
(* that forgets the marks of a market are left out.                        *)
(***************************************************************************)
EXTENDS Integers, Sequences, FiniteSets

CONSTANTS Markets, Prices, Sizes,
          SnapshotSides, \* what snapshots carry on one side: any levels, in any order
          Unit,          \* the price 1.0
          MaxLevels,     \* bound: how many levels a market's book may have
          Assets,        \* the asset ids messages may name
          AssetMarket,   \* the market under which an asset is registered
          AssetOutcome   \* asset_outcomes_: the outcome it was registered with

Outcomes == {"Yes", "No"}
Sides == {"Buy", "Sell"}

ASSUME PricesAssumption == Prices \subseteq Nat
ASSUME SizesAssumption == Sizes \subseteq Nat
ASSUME SnapshotSidesAssumption == SnapshotSides \subseteq Seq([price : Prices, size : Sizes])
ASSUME MaxLevelsAssumption == MaxLevels \in Nat
ASSUME AssetOutcomeAssumption == \A a \in DOMAIN AssetMarket : AssetOutcome[a] \in Outcomes

VARIABLES
    vectors,  \* the four std::vector<PriceLevel> of each market
    marks,    \* mid_prices_ of the portfolio, 0 where there is none
    doubled   \* history: the prices that the last snapshot named more than once

vars == <<vectors, marks, doubled>>

Level(p, size) == [price |-> p, size |-> size]

\* The prices at more than one position.
Repeated(seq) ==
    {seq[i].price : i \in {k \in DOMAIN seq :
                              \E j \in DOMAIN seq : j # k /\ seq[j].price = seq[k].price}}

Init ==
    /\ vectors = [m \in Markets |-> [o \in Outcomes |-> [s \in Sides |-> <<>>]]]
    /\ marks = [m \in Markets |-> [o \in Outcomes |-> 0]]
    /\ doubled = [m \in Markets |-> [o \in Outcomes |-> [s \in Sides |-> {}]]]

-----------------------------------------------------------------------------
\* find_level: the first position at this price, or 0.
FindLevel(seq, p) ==
    LET hits == {i \in DOMAIN seq : seq[i].price = p}
    IN  IF hits = {} THEN 0 ELSE CHOOSE i \in hits : \A j \in hits : i <= j

\* std::vector::erase of one position.
EraseAt(seq, i) == SubSeq(seq, 1, i - 1) \o SubSeq(seq, i + 1, Len(seq))

\* Mutants of ChangedSide: a size of zero is stored instead of removing the
\* level, and an existing level is not looked for.
ChangedSideKeepsZero(seq, p, size) ==
    LET i == FindLevel(seq, p)
    IN  IF i = 0 THEN Append(seq, Level(p, size)) ELSE [seq EXCEPT ![i].size = size]

ChangedSideAppends(seq, p, size) ==
    IF size > 0 THEN Append(seq, Level(p, size))
    ELSE IF FindLevel(seq, p) = 0 THEN seq ELSE EraseAt(seq, FindLevel(seq, p))

\* What on_price_change does to the side it names.
ChangedSide(seq, p, size) ==
    LET i == FindLevel(seq, p)
    IN  IF size <= 0
          THEN IF i = 0 THEN seq ELSE EraseAt(seq, i)
          ELSE IF i = 0 THEN Append(seq, Level(p, size))
                        ELSE [seq EXCEPT ![i].size = size]

-----------------------------------------------------------------------------
(* Queries.                                                                *)

\* get_*_depth
DepthOf(seq, p) == IF FindLevel(seq, p) = 0 THEN 0 ELSE seq[FindLevel(seq, p)].size

\* Mutant of BestOf: the vector is taken to be sorted.
BestOfFront(seq, side) == seq[1].price

\* get_*_best_bid by max_element, get_*_best_ask by min_element: the first of
\* the extreme elements.
BestOf(seq, side) ==
    LET i == CHOOSE i \in DOMAIN seq :
                \A j \in DOMAIN seq :
                    IF side = "Buy" THEN seq[j].price <= seq[i].price
                                    ELSE seq[i].price <= seq[j].price
    IN  seq[i].price

\* Mutant of MidOf: the better of the two sides alone.
MidOfBid(sides) ==
    IF sides["Buy"] # <<>> THEN 2 * BestOf(sides["Buy"], "Buy")
    ELSE IF sides["Sell"] # <<>> THEN 2 * BestOf(sides["Sell"], "Sell")
    ELSE 0

\* Twice the mid price, or the price of the one side there is.
MidOf(sides) ==
    LET Twice(s) == IF sides[s] # <<>> THEN 2 * BestOf(sides[s], s) ELSE 0
    IN  IF sides["Buy"] # <<>> /\ sides["Sell"] # <<>>
          THEN (Twice("Buy") + Twice("Sell")) \div 2
          ELSE Twice("Buy") + Twice("Sell")

\* update_mtm, after the message was applied: a price of zero is no mark.
UpdateMtm(m, o) ==
    LET mid == MidOf(vectors'[m][o])
    IN  marks' = IF mid > 0 THEN [marks EXCEPT ![m][o] = mid] ELSE marks

-----------------------------------------------------------------------------
(* Messages.                                                               *)

\* The engine finds the book by msg.market and get_outcome looks the asset up
\* in that book: an asset registered elsewhere is unknown there.
KnownTo(m, a) == a \in DOMAIN AssetMarket /\ AssetMarket[a] = m

\* Mutant of OnBookMessage: an empty side of the snapshot leaves the old levels.
OnBookMessageMerges(m, a, bids, asks) ==
    /\ KnownTo(m, a)
    /\ vectors' = [vectors EXCEPT ![m][AssetOutcome[a]] =
                      [s \in Sides |->
                          LET side == IF s = "Buy" THEN bids ELSE asks
                          IN  IF side = <<>> THEN @[s] ELSE side]]
    /\ doubled' = [doubled EXCEPT ![m][AssetOutcome[a]] =
                      [s \in Sides |-> Repeated(IF s = "Buy" THEN bids ELSE asks)]]
    /\ UpdateMtm(m, AssetOutcome[a])

OnBookMessage(m, a, bids, asks) ==
    /\ KnownTo(m, a)
    /\ vectors' = [vectors EXCEPT ![m][AssetOutcome[a]] =
                      [s \in Sides |-> IF s = "Buy" THEN bids ELSE asks]]
    /\ doubled' = [doubled EXCEPT ![m][AssetOutcome[a]] =
                      [s \in Sides |-> Repeated(IF s = "Buy" THEN bids ELSE asks)]]
    /\ UpdateMtm(m, AssetOutcome[a])

OnPriceChange(m, a, s, p, size) ==
    /\ KnownTo(m, a)
    /\ vectors' = [vectors EXCEPT ![m][AssetOutcome[a]][s] = ChangedSide(@, p, size)]
    /\ UNCHANGED doubled
    /\ UpdateMtm(m, AssetOutcome[a])

\* A message about an asset the book does not know is ignored.
UnknownAsset(m, a) == ~KnownTo(m, a) /\ UNCHANGED vars

LevelCount(book) ==
    Len(book["Yes"]["Buy"]) + Len(book["Yes"]["Sell"])
        + Len(book["No"]["Buy"]) + Len(book["No"]["Sell"])

Next ==
    /\ \E m \in Markets, a \in Assets :
          \/ \E bids, asks \in SnapshotSides : OnBookMessage(m, a, bids, asks)
          \/ \E s \in Sides, p \in Prices, size \in Sizes \cup {0} :
                OnPriceChange(m, a, s, p, size)
          \/ UnknownAsset(m, a)
    /\ \A m \in Markets : LevelCount(vectors'[m]) <= MaxLevels

Spec == Init /\ [][Next]_vars

-----------------------------------------------------------------------------
(* Properties.                                                             *)

PricesOf(seq) == {seq[i].price : i \in DOMAIN seq}

\* A price occupies two positions only if the last snapshot of its side named
\* it twice (nothing in on_book_message prevents that): an update that missed
\* the existing level and appended would leave a stale size behind the new one,
\* and a removal would uncover it (find_level, erase and emplace_back).
NoDuplicateLevels ==
    \A m \in Markets, o \in Outcomes, s \in Sides :
        Repeated(vectors[m][o][s]) \subseteq doubled[m][o][s]

\* What the getters answer: of two levels at one price, the first.
LevelsOf(seq) == [p \in PricesOf(seq) |-> DepthOf(seq, p)]

Abstract ==
    INSTANCE LevelBook WITH
        levels <- [m \in Markets |-> [o \in Outcomes |->
                      [s \in Sides |-> LevelsOf(vectors[m][o][s])]]],
        Ladders <- {LevelsOf(seq) : seq \in SnapshotSides}

\* The vectors implement the price -> size map, updates and removals included
\* (and what a removal uncovers of a price that a snapshot named twice).
ImplementsLevelBook == Abstract!LevelBookSpec

\* Not just some update of the map: every message does to the map what it says,
\* and to the sides it does not name nothing.  (A level erased at the wrong
\* position, or a side that survives a snapshot, is some other update.)  Only
\* where the last snapshot named a price twice may a removal leave a level there.
MessagesDoAsTheySay ==
    [][\A m \in Markets, a \in Assets :
          KnownTo(m, a) =>
            LET o == AssetOutcome[a]
            IN  /\ \A bids, asks \in SnapshotSides :
                      OnBookMessage(m, a, bids, asks)
                        => Abstract!Snapshot(m, o, LevelsOf(bids), LevelsOf(asks))
                /\ \A s \in Sides, p \in Prices, size \in Sizes \cup {0} :
                      OnPriceChange(m, a, s, p, size)
                        => \/ Abstract!ChangeLevel(m, o, s, p, size)
                           \/ /\ size <= 0 /\ p \in doubled[m][o][s]
                              /\ \E left \in Sizes : Abstract!Uncover(m, o, s, p, left)]_vars

\* The extreme element of the vector is the best price of the map, wherever
\* the vector keeps it.
BestIsExtreme ==
    \A m \in Markets, o \in Outcomes, s \in Sides :
        LET seq == vectors[m][o][s]
        IN  seq # <<>> => BestOf(seq, s) = Abstract!Best(LevelsOf(seq), s)

\* The mark of an outcome is the mid of the map's best prices, and an outcome
\* whose book has become empty keeps the mark it had (update_mtm, reading the
\* vectors after the message of that very asset).
AbstractMid(sides) ==
    LET quoted == {s \in Sides : DOMAIN sides[s] # {}}
        Best(s) == Abstract!Best(sides[s], s)
    IN  IF quoted = Sides THEN Best("Buy") + Best("Sell")
                          ELSE 2 * Best(CHOOSE s \in quoted : TRUE)

MarkFollowsBook ==
    [][\A m \in Markets, o \in Outcomes :
          LET sides == [s \in Sides |-> LevelsOf(vectors'[m][o][s])]
          IN  marks'[m][o] = IF (\A s \in Sides : DOMAIN sides[s] = {}) \/ AbstractMid(sides) = 0
                               THEN marks[m][o] ELSE AbstractMid(sides)]_vars
=============================================================================
