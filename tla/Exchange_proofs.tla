-------------------------- MODULE Exchange_proofs --------------------------
(***************************************************************************)
(* Theorems about Exchange for any prices, sizes, rounding errors, markets *)
(* and number of orders.                                                   *)
(***************************************************************************)
EXTENDS Exchange, SequenceTheorems, WellFoundedInduction, TLAPS

USE UnitAssumption, PricesAssumption, SizesAssumption, LaddersAssumption,
    LimitsAssumption, OrderPricesAssumption, RoundingAssumption,
    TradeSizesAssumption, NoBookAssumption, MaxOrdersAssumption DEF Books

-----------------------------------------------------------------------------
(* The best price of a ladder exists.                                      *)

LEMMA MinExists ==
    ASSUME NEW S \in SUBSET Nat, S # {}
    PROVE  \E x \in S : \A y \in S : x <= y
<1> DEFINE R == OpToRel(<, Nat)
<1>1. IsWellFoundedOn(R, Nat)
    BY NatLessThanWellFounded
<1>2. \A x, y \in Nat : <<x, y>> \in R <=> x < y
    BY DEF OpToRel
<1> HIDE DEF R
<1>3. PICK x \in S : \A y \in S : ~(<<y, x>> \in R)
    BY <1>1, WFMin
<1>4. ASSUME NEW y \in S PROVE x <= y
    <2>1. ~(y < x)
        BY <1>2, <1>3
    <2>2. QED
        BY <2>1
<1>5. QED
    BY <1>4

LEMMA MaxExists ==
    ASSUME NEW Top \in Nat, NEW S \in SUBSET (0 .. Top), S # {}
    PROVE  \E x \in S : \A y \in S : y <= x
<1> DEFINE T == {n \in Nat : Top - n \in S}
<1>1. T # {}
    <2>1. PICK x \in S : TRUE
        OBVIOUS
    <2>2. Top - x \in T
        BY Top - (Top - x) = x
    <2>3. QED
        BY <2>2
<1>2. PICK t \in T : \A n \in T : t <= n
    BY <1>1, MinExists
<1>3. ASSUME NEW y \in S PROVE y <= Top - t
    <2>1. Top - y \in T
        BY Top - (Top - y) = y
    <2>2. t <= Top - y
        BY <1>2, <2>1
    <2>3. QED
        BY <2>2
<1>4. QED
    BY <1>3

LEMMA BestProperties ==
    ASSUME NEW ladder \in Levels, NEW side \in Sides, DOMAIN ladder # {}
    PROVE  /\ Best(ladder, side) \in DOMAIN ladder
           /\ \A q \in DOMAIN ladder : IF side = "Buy" THEN q <= Best(ladder, side)
                                                       ELSE Best(ladder, side) <= q
<1>1. DOMAIN ladder \in SUBSET (0 .. Unit)
    BY DEF Levels
<1>2. \E p \in DOMAIN ladder :
        \A q \in DOMAIN ladder : IF side = "Buy" THEN q <= p ELSE p <= q
    <2>1. CASE side = "Buy"
        BY <2>1, <1>1, MaxExists
    <2>2. CASE side # "Buy"
        <3>1. DOMAIN ladder \in SUBSET Nat
            BY <1>1
        <3>2. QED
            BY <2>2, <3>1, MinExists
    <2>3. QED
        BY <2>1, <2>2
<1>3. QED
    BY <1>2 DEF Best

-----------------------------------------------------------------------------
(* Types of the operators.                                                 *)

LEMMA SetLevelType ==
    ASSUME NEW ladder \in Levels, NEW p \in Prices, NEW size \in Sizes \cup {0}
    PROVE  SetLevel(ladder, p, size) \in Levels
<1>1. PICK P \in SUBSET Prices : ladder \in [P -> Sizes]
    BY DEF Levels
<1>2. CASE size <= 0
    <2>1. SetLevel(ladder, p, size) \in [P \ {p} -> Sizes]
        BY <1>1, <1>2 DEF SetLevel
    <2>2. QED
        BY <2>1 DEF Levels
<1>3. CASE ~(size <= 0)
    <2>1. size \in Sizes
        BY <1>3
    <2>2. SetLevel(ladder, p, size) \in [P \cup {p} -> Sizes]
        BY <1>1, <1>3, <2>1 DEF SetLevel
    <2>3. QED
        BY <2>2 DEF Levels
<1>4. QED
    BY <1>2, <1>3

LEMMA NoLevelsType == NoLevels \in Levels
<1>1. NoLevels \in [{} -> Sizes]
    BY DEF NoLevels
<1>2. QED
    BY <1>1 DEF Levels

LEMMA LadderTypes ==
    ASSUME LevelBookType, NEW ord \in Orders
    PROVE  /\ Facing(BookOf(ord.market), ord) \in Levels
           /\ Mirror(BookOf(ord.market), ord) \in Levels
           /\ OtherSide(ord.side) \in Sides
<1>1. ord.market \in Books /\ ord.outcome \in Outcomes /\ ord.side \in Sides
    BY DEF Orders
<1>2. NoLevels \in Levels
    BY NoLevelsType
<1>3. BookOf(ord.market) \in [Outcomes -> [Sides -> Levels]]
    BY <1>1, <1>2 DEF BookOf, LevelBookType
<1>4. /\ OtherOutcome(ord.outcome) \in Outcomes
      /\ OtherSide(ord.side) \in Sides
    BY DEF OtherOutcome, OtherSide, Outcomes, Sides
<1>5. QED
    BY <1>1, <1>3, <1>4 DEF Facing, Mirror

LEMMA DomainsAreIntegers ==
    \A ladder \in Levels : DOMAIN ladder \subseteq Int
<1>1. \A ladder \in Levels : DOMAIN ladder \subseteq Prices
    BY DEF Levels
<1>2. Prices \subseteq Int
    OBVIOUS
<1>3. QED
    BY <1>1, <1>2

LEMMA ComplementType == \A p \in OrderPrices \cup Prices : Complement(p) \in Int
BY DEF Complement

LEMMA TakerPriceWithinLimit ==
    ASSUME LevelBookType, NEW ord \in Orders,
           IsTaker(BookOf(ord.market), ord)
    PROVE  /\ TakerPrice(BookOf(ord.market), ord) \in Int
           /\ AtOrBeyond(OtherSide(ord.side), TakerPrice(BookOf(ord.market), ord), ord.price)
<1> DEFINE ladder == Facing(BookOf(ord.market), ord)
           best == Best(ladder, OtherSide(ord.side))
<1>1. ord.price \in Int /\ ord.side \in Sides
    BY DEF Orders
<1>2. CASE TakesFacing(BookOf(ord.market), ord)
    <2>1. PICK p \in DOMAIN ladder : AtOrBeyond(OtherSide(ord.side), p, ord.price)
        BY <1>2 DEF TakesFacing
    <2>2. /\ best \in DOMAIN ladder
          /\ IF OtherSide(ord.side) = "Buy" THEN p <= best ELSE best <= p
        BY <2>1, LadderTypes, BestProperties
    <2>3. best \in Int /\ p \in Int
        BY <2>1, <2>2, LadderTypes, DomainsAreIntegers
    <2>4. AtOrBeyond(OtherSide(ord.side), best, ord.price)
        BY <2>1, <2>2, <2>3, <1>1 DEF AtOrBeyond
    <2>5. QED
        BY <1>2, <2>3, <2>4 DEF TakerPrice
<1>3. CASE ~TakesFacing(BookOf(ord.market), ord)
    BY <1>1, <1>3 DEF TakerPrice, AtOrBeyond
<1>4. QED
    BY <1>2, <1>3

\* Liquidity at the limit itself, or at its complement, makes a taker of the
\* order: what is left to wait behind is nothing.
LEMMA NoVolumeAhead ==
    ASSUME LevelBookType, NEW ord \in Orders,
           ~IsTaker(BookOf(ord.market), ord)
    PROVE  VolumeAhead(BookOf(ord.market), ord) = 0
<1>1. ord.price \in Int /\ Complement(ord.price) \in Int
    BY ComplementType DEF Orders
<1>2. ord.price \notin DOMAIN Facing(BookOf(ord.market), ord)
    BY <1>1 DEF IsTaker, TakesFacing, AtOrBeyond
<1>3. Complement(ord.price) \notin DOMAIN Mirror(BookOf(ord.market), ord)
    BY <1>1 DEF IsTaker, TakesMirror, AtOrBeyond
<1>4. QED
    BY <1>2, <1>3 DEF VolumeAhead, Depth

-----------------------------------------------------------------------------
(* The inductive invariant.                                                *)

\* A resting order is the one submitted under its id, in its own market, and
\* no two resting orders of a market have the same id.
QueueInv ==
    \A m \in Books : \A v \in resting[m] :
        /\ v.id \in 1 .. Len(requests)
        /\ v.order = requests[v.id]
        /\ v.order.market = m
        /\ \A w \in resting[m] : w.id = v.id => w = v

\* Fills and cancellations are of orders that were submitted, never both.
HistoryInv ==
    /\ \A f \in fills : f.id \in 1 .. Len(requests) /\ f.id \notin cancelled
    /\ cancelled \subseteq 1 .. Len(requests)

IInv ==
    /\ TypeOK
    /\ QueueInv
    /\ HistoryInv
    /\ NothingWaits
    /\ FilledOnceAndGone
    /\ NoOvertaking
    /\ LimitsRespected

LEMMA InitIInv == Init => IInv
<1> SUFFICES ASSUME Init PROVE IInv
    OBVIOUS
<1>1. NoLevels \in Levels
    BY NoLevelsType
<1>2. LevelBookType
    BY <1>1 DEF Init, LevelBookInit, LevelBookType
<1>3. created \in BOOLEAN
    BY Zenon DEF Init
<1>4. TypeOK
    BY <1>2, <1>3 DEF Init, TypeOK
<1>5. QED
    BY <1>4 DEF Init, IInv, QueueInv, HistoryInv, NothingWaits,
                FilledOnceAndGone, NoOvertaking, LimitsRespected

LEMMA BookUpdateType == LevelBookType /\ BookUpdate => LevelBookType'
<1> SUFFICES ASSUME LevelBookType, BookUpdate PROVE LevelBookType'
    OBVIOUS
<1>1. ASSUME NEW m \in Markets, NEW o \in Outcomes, NEW bids \in Ladders,
             NEW asks \in Ladders, Snapshot(m, o, bids, asks)
      PROVE  LevelBookType'
    BY <1>1 DEF Snapshot, LevelBookType
<1>2. ASSUME NEW m \in Markets, NEW o \in Outcomes, NEW s \in Sides, NEW p \in Prices,
             NEW size \in Sizes \cup {0}, ChangeLevel(m, o, s, p, size)
      PROVE  LevelBookType'
    <2>1. SetLevel(levels[m][o][s], p, size) \in Levels
        BY SetLevelType DEF LevelBookType
    <2>2. QED
        BY <1>2, <2>1 DEF ChangeLevel, LevelBookType
<1>3. ASSUME NEW m \in Markets, NEW o \in Outcomes, NEW s \in Sides, NEW p \in Prices,
             NEW size \in Sizes, Uncover(m, o, s, p, size)
      PROVE  LevelBookType'
    <2>1. PICK ladder \in Levels : ladder = levels[m][o][s]
        BY DEF LevelBookType
    <2>2. PICK P \in SUBSET Prices : ladder \in [P -> Sizes]
        BY DEF Levels
    <2>3. [ladder EXCEPT ![p] = size] \in [P -> Sizes]
        BY <2>2
    <2>4. [ladder EXCEPT ![p] = size] \in Levels
        BY <2>3 DEF Levels
    <2>5. levels' = [levels EXCEPT ![m][o][s] = [ladder EXCEPT ![p] = size]]
        BY <1>3, <2>1 DEF Uncover, LevelBookType
    <2>6. QED
        BY <2>4, <2>5 DEF LevelBookType
<1>4. QED
    BY <1>1, <1>2, <1>3 DEF BookUpdate

LEMMA UpdateBookIInv == IInv /\ UpdateBook => IInv'
BY BookUpdateType
   DEF UpdateBook, LevelBookNext, orderVars, IInv, TypeOK, QueueInv, HistoryInv,
       NothingWaits, FilledOnceAndGone, NoOvertaking, LimitsRespected, OrderOf

\* Numbering an order changes nothing about the orders before it.
LEMMA NumberOrderKeeps ==
    ASSUME TypeOK, NEW ord \in Orders, Len(requests) < MaxOrders, NumberOrder(ord)
    PROVE  /\ requests' \in Seq(Orders)
           /\ Len(requests') = Len(requests) + 1 /\ Len(requests') <= MaxOrders
           /\ NextOrderId = Len(requests') /\ NextOrderId \in 1 .. MaxOrders
           /\ \A i \in 1 .. Len(requests) : requests'[i] = requests[i]
           /\ requests'[NextOrderId] = ord
BY DEF TypeOK, NumberOrder, NextOrderId

LEMMA LoseOrderIInv ==
    ASSUME IInv, NEW ord \in Orders, Len(requests) < MaxOrders, LoseOrder(ord)
    PROVE  IInv'
<1>1. /\ requests' \in Seq(Orders) /\ Len(requests) \in Nat
      /\ Len(requests') = Len(requests) + 1 /\ Len(requests') <= MaxOrders
      /\ \A i \in 1 .. Len(requests) : requests'[i] = requests[i]
    BY NumberOrderKeeps DEF LoseOrder, IInv, TypeOK
<1>2. UNCHANGED <<levels, created, resting, fills, cancelled>>
    BY DEF LoseOrder
<1>3. TypeOK'
    BY <1>1, <1>2 DEF IInv, TypeOK, LevelBookType
<1>4. QueueInv' /\ HistoryInv'
    BY <1>1, <1>2 DEF IInv, QueueInv, HistoryInv
<1>5. NothingWaits' /\ FilledOnceAndGone'
    BY <1>2 DEF IInv, NothingWaits, FilledOnceAndGone
<1>6. NoOvertaking' /\ LimitsRespected'
    BY <1>1, <1>2 DEF IInv, HistoryInv, NoOvertaking, LimitsRespected, OrderOf
<1>7. QED
    BY <1>3, <1>4, <1>5, <1>6 DEF IInv

LEMMA TakeOrderIInv ==
    ASSUME IInv, NEW ord \in Orders, Len(requests) < MaxOrders, TakeOrder(ord)
    PROVE  IInv'
<1> DEFINE fill == Fill(NextOrderId, TakerPrice(BookOf(ord.market), ord), NoTrade)
<1>1. /\ requests' \in Seq(Orders) /\ Len(requests) \in Nat
      /\ Len(requests') = Len(requests) + 1 /\ Len(requests') <= MaxOrders
      /\ \A i \in 1 .. Len(requests) : requests'[i] = requests[i]
      /\ NextOrderId = Len(requests') /\ NextOrderId \in 1 .. MaxOrders
      /\ requests'[NextOrderId] = ord
    BY NumberOrderKeeps DEF TakeOrder, IInv, TypeOK
<1>2. UNCHANGED <<levels, created, resting, cancelled>> /\ fills' = fills \cup {fill}
    BY DEF TakeOrder
<1>3. /\ fill.id = NextOrderId /\ IsTaken(fill)
      /\ fill.price \in Int
      /\ AtOrBeyond(OtherSide(ord.side), fill.price, ord.price)
      /\ fill \in [id : 1 .. MaxOrders, price : Int, by : Trades \cup {NoTrade}]
    BY <1>1, TakerPriceWithinLimit DEF TakeOrder, Fill, IsTaken, IInv, TypeOK
<1> HIDE DEF fill
<1>4. TypeOK'
    BY <1>1, <1>2, <1>3 DEF IInv, TypeOK, LevelBookType
<1>5. QueueInv' /\ HistoryInv'
    BY <1>1, <1>2, <1>3 DEF IInv, QueueInv, HistoryInv
<1>6. NothingWaits' /\ FilledOnceAndGone'
    BY <1>1, <1>2, <1>3 DEF IInv, NothingWaits, FilledOnceAndGone, HistoryInv, QueueInv
<1>7. NoOvertaking'
    BY <1>1, <1>2, <1>3 DEF IInv, HistoryInv, NoOvertaking, OrderOf
<1>8. LimitsRespected'
    BY <1>1, <1>2, <1>3 DEF IInv, HistoryInv, LimitsRespected, OrderOf
<1>9. QED
    BY <1>4, <1>5, <1>6, <1>7, <1>8 DEF IInv

LEMMA RestOrderIInv ==
    ASSUME IInv, NEW ord \in Orders, Len(requests) < MaxOrders, RestOrder(ord)
    PROVE  IInv'
<1> DEFINE new == [id |-> NextOrderId, order |-> ord,
                   volumeAhead |-> VolumeAhead(BookOf(ord.market), ord)]
<1>1. /\ requests' \in Seq(Orders) /\ Len(requests) \in Nat
      /\ Len(requests') = Len(requests) + 1 /\ Len(requests') <= MaxOrders
      /\ \A i \in 1 .. Len(requests) : requests'[i] = requests[i]
      /\ NextOrderId = Len(requests') /\ NextOrderId \in 1 .. MaxOrders
      /\ requests'[NextOrderId] = ord
    BY NumberOrderKeeps DEF RestOrder, IInv, TypeOK
<1>2. /\ UNCHANGED <<levels, created, fills, cancelled>> /\ ord.market \in Books
      /\ resting' = [resting EXCEPT ![ord.market] = @ \cup {new}]
    BY DEF RestOrder, Orders
<1>3. /\ new.id = NextOrderId /\ new.order = ord /\ new.volumeAhead = 0
      /\ new \in VirtualOrders
    BY <1>1, NoVolumeAhead DEF RestOrder, VirtualOrders, IInv, TypeOK
<1> HIDE DEF new
<1>4. \A m \in Books : \A v \in resting'[m] :
          v \in resting[m] \/ (m = ord.market /\ v = new)
    BY <1>2 DEF IInv, TypeOK
<1>5. TypeOK'
    BY <1>1, <1>2, <1>3 DEF IInv, TypeOK, LevelBookType
<1>6. QueueInv'
    BY <1>1, <1>3, <1>4 DEF IInv, QueueInv
<1>7. HistoryInv'
    BY <1>1, <1>2 DEF IInv, HistoryInv
<1>8. NothingWaits' /\ FilledOnceAndGone'
    BY <1>1, <1>2, <1>3, <1>4
       DEF IInv, NothingWaits, FilledOnceAndGone, HistoryInv, QueueInv
<1>9. NoOvertaking'
    BY <1>1, <1>2, <1>3, <1>4 DEF IInv, HistoryInv, NoOvertaking, OrderOf
<1>10. LimitsRespected'
    BY <1>1, <1>2 DEF IInv, HistoryInv, LimitsRespected, OrderOf
<1>11. QED
    BY <1>5, <1>6, <1>7, <1>8, <1>9, <1>10 DEF IInv

LEMMA CancelOrderIInv ==
    ASSUME IInv, NEW m \in Books, NEW id \in 1 .. MaxOrders, CancelOrder(m, id)
    PROVE  IInv'
<1>1. /\ UNCHANGED <<levels, created, requests, fills>>
      /\ resting' = [resting EXCEPT ![m] = {v \in @ : v.id # id}]
    BY DEF CancelOrder
<1>2. \A n \in Books : resting'[n] \subseteq resting[n]
    BY <1>1 DEF IInv, TypeOK
<1>3. \A i \in cancelled' : i \in cancelled \/ \E v \in resting[m] : v.id = id /\ i = id
    BY DEF CancelOrder
<1>4. \A n \in Books : \A v \in resting'[n] : v.id \notin cancelled'
    <2> SUFFICES ASSUME NEW n \in Books, NEW v \in resting'[n], v.id \in cancelled'
                 PROVE  FALSE
        OBVIOUS
    <2>1. v \in resting[n] /\ v.id \notin cancelled
        BY <1>2 DEF IInv, FilledOnceAndGone
    <2>2. PICK w \in resting[m] : w.id = id /\ v.id = id
        BY <1>3, <2>1
    <2>3. m = n
        BY <2>1, <2>2 DEF IInv, QueueInv
    <2>4. QED
        BY <1>1, <2>2, <2>3 DEF IInv, TypeOK
<1>5. TypeOK'
    <2>1. cancelled' \subseteq 1 .. MaxOrders
        BY <1>3 DEF IInv, TypeOK
    <2>2. resting' \in [Books -> SUBSET VirtualOrders]
        BY <1>1 DEF IInv, TypeOK
    <2>3. QED
        BY <1>1, <2>1, <2>2 DEF IInv, TypeOK, LevelBookType
<1>6. QueueInv'
    BY <1>1, <1>2 DEF IInv, QueueInv
<1>7. HistoryInv'
    <2>1. \A f \in fills : f.id \notin cancelled'
        BY <1>3 DEF IInv, HistoryInv, FilledOnceAndGone
    <2>2. cancelled' \subseteq 1 .. Len(requests)
        <3> SUFFICES ASSUME NEW i \in cancelled' PROVE i \in 1 .. Len(requests)
            OBVIOUS
        <3>1. CASE i \in cancelled
            BY <3>1 DEF IInv, HistoryInv
        <3>2. CASE \E v \in resting[m] : v.id = i
            BY <3>2 DEF IInv, QueueInv
        <3>3. QED
            BY <1>3, <3>1, <3>2
    <2>3. QED
        BY <1>1, <2>1, <2>2 DEF IInv, HistoryInv
<1>8. NothingWaits' /\ FilledOnceAndGone'
    BY <1>1, <1>2, <1>4 DEF IInv, NothingWaits, FilledOnceAndGone
<1>9. NoOvertaking' /\ LimitsRespected'
    BY <1>1, <1>2 DEF IInv, NoOvertaking, LimitsRespected, OrderOf
<1>10. QED
    BY <1>5, <1>6, <1>7, <1>8, <1>9 DEF IInv

\* With nothing ahead of it, an order is filled by the first trade it matches
\* and left alone by every other.
LEMMA TradeFillsMatches ==
    ASSUME IInv, NEW t \in Trades, NEW v \in resting[t.market]
    PROVE  /\ Reached(v, t) <=> Matches(v.order, t)
           /\ ~Reached(v, t) => Advanced(v, t) = v
<1>1. v.volumeAhead = 0 /\ t.size \in Nat
    BY DEF IInv, NothingWaits, Trades
<1>2. QED
    BY <1>1 DEF Reached, Advanced

LEMMA ProcessTradeIInv ==
    ASSUME IInv, NEW t \in Trades, ProcessTrade(t)
    PROVE  IInv'
<1> DEFINE queue == resting[t.market]
           hits == {v \in queue : Reached(v, t)}
           new == {Fill(v.id, MakerPrice(v.order, t), t) : v \in hits}
<1>1. /\ UNCHANGED <<levels, created, requests, cancelled>>
      /\ fills' = fills \cup new
      /\ resting' = [resting EXCEPT ![t.market] = {Advanced(v, t) : v \in queue \ hits}]
    BY DEF ProcessTrade
<1>2. t.market \in Markets
    BY DEF Trades
<1>3. resting' = [resting EXCEPT ![t.market] = queue \ hits]
    <2>1. \A v \in queue \ hits : Advanced(v, t) = v
        BY TradeFillsMatches
    <2>2. {Advanced(v, t) : v \in queue \ hits} = queue \ hits
        BY <2>1
    <2>3. QED
        BY <1>1, <2>2
<1>4. \A m \in Books : resting'[m] \subseteq resting[m]
    BY <1>3 DEF IInv, TypeOK
<1>5. \A f \in new : \E v \in queue :
          /\ Matches(v.order, t)
          /\ f.id = v.id /\ f.price = MakerPrice(v.order, t) /\ f.by = t
    BY TradeFillsMatches DEF Fill
<1>6. \A v \in resting'[t.market] : ~Matches(v.order, t)
    BY <1>2, <1>3, TradeFillsMatches DEF IInv, TypeOK
<1>7. \A v \in queue : v \in VirtualOrders
    BY <1>2 DEF IInv, TypeOK
<1>8. new \subseteq [id : 1 .. MaxOrders, price : Int, by : Trades \cup {NoTrade}]
    <2> SUFFICES ASSUME NEW v \in hits
                 PROVE  Fill(v.id, MakerPrice(v.order, t), t)
                          \in [id : 1 .. MaxOrders, price : Int, by : Trades \cup {NoTrade}]
        OBVIOUS
    <2>1. v.id \in 1 .. MaxOrders /\ v.order.price \in OrderPrices
        BY <1>7 DEF VirtualOrders, Orders
    <2>2. MakerPrice(v.order, t) \in Int
        BY <2>1, ComplementType DEF MakerPrice
    <2>3. QED
        BY <2>1, <2>2 DEF Fill
<1> HIDE DEF new, hits
<1>9. TypeOK'
    <2>1. resting' \in [Books -> SUBSET VirtualOrders]
        BY <1>3 DEF IInv, TypeOK
    <2>2. QED
        BY <1>1, <1>8, <2>1 DEF IInv, TypeOK, LevelBookType
<1>10. QueueInv'
    BY <1>1, <1>4 DEF IInv, QueueInv
<1>11. HistoryInv'
    BY <1>1, <1>2, <1>5 DEF IInv, HistoryInv, QueueInv, FilledOnceAndGone
<1>12. NothingWaits'
    BY <1>4 DEF IInv, NothingWaits
<1>13. FilledOnceAndGone'
    <2>1. ASSUME NEW f \in fills', NEW g \in fills', f.id = g.id PROVE f = g
        <3>1. CASE f \in fills /\ g \in fills
            BY <2>1, <3>1 DEF IInv, FilledOnceAndGone
        <3>2. CASE f \in new /\ g \in new
            <4>1. PICK v \in hits : f = Fill(v.id, MakerPrice(v.order, t), t)
                BY <3>2 DEF new
            <4>2. PICK w \in hits : g = Fill(w.id, MakerPrice(w.order, t), t)
                BY <3>2 DEF new
            <4>3. v = w
                BY <2>1, <4>1, <4>2, <1>2 DEF hits, Fill, IInv, QueueInv
            <4>4. QED
                BY <4>1, <4>2, <4>3
        <3>3. CASE (f \in fills /\ g \in new) \/ (f \in new /\ g \in fills)
            BY <2>1, <3>3, <1>2, <1>5 DEF IInv, FilledOnceAndGone
        <3>4. QED
            BY <1>1, <3>1, <3>2, <3>3
    <2>2. ASSUME NEW m \in Books, NEW v \in resting'[m]
          PROVE  v.id \notin cancelled' /\ \A f \in fills' : f.id # v.id
        <3>1. v \in resting[m] /\ v.id \notin cancelled' /\ \A f \in fills : f.id # v.id
            BY <1>1, <1>4 DEF IInv, FilledOnceAndGone
        <3>2. ASSUME NEW f \in new, f.id = v.id PROVE FALSE
            <4>1. PICK w \in queue : Matches(w.order, t) /\ f.id = w.id
                BY <1>5
            <4>2. v.order = requests[v.id] /\ v.order.market = m
                BY <3>1 DEF IInv, QueueInv
            <4>3. w.order = requests[w.id] /\ w.order.market = t.market
                BY <1>2, <4>1 DEF IInv, QueueInv
            <4>4. v.order = w.order /\ m = t.market
                BY <3>2, <4>1, <4>2, <4>3
            <4>5. QED
                BY <1>6, <4>1, <4>4
        <3>3. QED
            BY <1>1, <3>1, <3>2
    <2>3. QED
        BY <2>1, <2>2 DEF FilledOnceAndGone
<1>14. NoOvertaking'
    <2> SUFFICES ASSUME NEW m \in Books, NEW older \in resting'[m], NEW f \in fills',
                        ~IsTaken(f), OrderOf(f)' = older.order
                 PROVE  f.id < older.id
        BY DEF NoOvertaking
    <2>1. older \in resting[m] /\ OrderOf(f) = older.order
        BY <1>1, <1>4 DEF OrderOf
    <2>2. CASE f \in fills
        BY <2>1, <2>2 DEF IInv, NoOvertaking
    <2>3. CASE f \in new
        <3>1. PICK w \in queue : Matches(w.order, t) /\ f.id = w.id
            BY <1>5, <2>3
        <3>2. w.order = older.order /\ m = t.market
            BY <1>2, <2>1, <3>1 DEF IInv, QueueInv, OrderOf
        <3>3. QED
            BY <1>6, <3>1, <3>2
    <2>4. QED
        BY <1>1, <2>2, <2>3
<1>15. LimitsRespected'
    <2> SUFFICES ASSUME NEW f \in fills',
                        IsTaken(f) \/ MatchesSameOutcome(OrderOf(f), f.by)
                 PROVE  AtOrBeyond(OtherSide(OrderOf(f).side), f.price, OrderOf(f).price)
        BY <1>1 DEF LimitsRespected, OrderOf
    <2>1. CASE f \in fills
        BY <2>1 DEF IInv, LimitsRespected
    <2>2. CASE f \in new
        <3>1. PICK w \in queue : f.id = w.id /\ f.price = MakerPrice(w.order, t) /\ f.by = t
            BY <1>5, <2>2
        <3>2. OrderOf(f) = w.order
            BY <1>2, <3>1 DEF IInv, QueueInv, OrderOf
        <3>3. ~IsTaken(f)
            BY <1>2, <3>1 DEF IsTaken, NoTrade
        <3>4. f.price = OrderOf(f).price /\ f.price \in Int
            BY <3>1, <3>2, <3>3, <1>7 DEF MakerPrice, VirtualOrders, Orders
        <3>5. QED
            BY <3>4 DEF AtOrBeyond
    <2>3. QED
        BY <1>1, <2>1, <2>2
<1>16. QED
    BY <1>9, <1>10, <1>11, <1>12, <1>13, <1>14, <1>15 DEF IInv

LEMMA NextIInv == IInv /\ [Next]_vars => IInv'
<1> SUFFICES ASSUME IInv, [Next]_vars PROVE IInv'
    OBVIOUS
<1>1. CASE UpdateBook
    BY <1>1, UpdateBookIInv
<1>2. CASE SubmitOrder
    BY <1>2, LoseOrderIInv, TakeOrderIInv, RestOrderIInv DEF SubmitOrder
<1>7. CASE CreateBook
    BY <1>7 DEF CreateBook, orderVars, IInv, TypeOK, LevelBookType, QueueInv, HistoryInv,
                NothingWaits, FilledOnceAndGone, NoOvertaking, LimitsRespected, OrderOf
<1>3. CASE \E m \in Books, id \in 1 .. MaxOrders : CancelOrder(m, id)
    BY <1>3, CancelOrderIInv
<1>4. CASE \E t \in Trades : ProcessTrade(t)
    BY <1>4, ProcessTradeIInv
<1>5. CASE UNCHANGED vars
    BY <1>5 DEF vars, orderVars, IInv, TypeOK, LevelBookType, QueueInv, HistoryInv,
                NothingWaits, FilledOnceAndGone, NoOvertaking, LimitsRespected, OrderOf
<1>6. QED
    BY <1>1, <1>2, <1>3, <1>4, <1>5, <1>7 DEF Next

LEMMA ExchangeInvariant == Spec => []IInv
BY InitIInv, NextIInv, PTL DEF Spec

-----------------------------------------------------------------------------
(* The theorems.                                                           *)

\* Books, queues, fills and histories keep their types.
THEOREM TypeCorrect == Spec => []TypeOK
<1>1. IInv => TypeOK
    BY DEF IInv
<1>2. QED
    BY <1>1, ExchangeInvariant, PTL

\* Whatever the prices, sizes and rounding of 1 - p: volume_ahead is always
\* zero, so the queue position never delays a fill.
THEOREM QueuePositionIsAlwaysZero == Spec => []NothingWaits
<1>1. IInv => NothingWaits
    BY DEF IInv
<1>2. QED
    BY <1>1, ExchangeInvariant, PTL

\* An order is filled at most once, and a filled or cancelled order is gone.
THEOREM NoOrderFillsTwice == Spec => []FilledOnceAndGone
<1>1. IInv => FilledOnceAndGone
    BY DEF IInv
<1>2. QED
    BY <1>1, ExchangeInvariant, PTL

\* Equal resting orders are filled oldest first.
THEOREM TimePriority == Spec => []NoOvertaking
<1>1. IInv => NoOvertaking
    BY DEF IInv
<1>2. QED
    BY <1>1, ExchangeInvariant, PTL

\* Taker fills and maker fills against the same outcome respect the limit.
THEOREM FillsRespectLimits == Spec => []LimitsRespected
<1>1. IInv => LimitsRespected
    BY DEF IInv
<1>2. QED
    BY <1>1, ExchangeInvariant, PTL

-----------------------------------------------------------------------------
(* Exchange implements OrderLifecycle: the status of each order, and which *)
(* step of the life cycle each operation is.                               *)

Status == [i \in DOMAIN requests |-> StatusOf(i)]

IsFilled(i) == \E f \in fills : f.id = i
Rests(i) == \E m \in Books : \E v \in resting[m] : v.id = i

-----------------------------------------------------------------------------
(* What a status is, and what it takes to change it.                       *)

LEMMA StatusCases ==
    \A i : StatusOf(i) = IF IsFilled(i) THEN "filled"
                         ELSE IF i \in cancelled THEN "cancelled"
                         ELSE IF Rests(i) THEN "open" ELSE "lost"
BY DEF StatusOf, IsFilled, Rests

LEMMA StatusCasesNext ==
    \A i : StatusOf(i)' = IF IsFilled(i)' THEN "filled"
                          ELSE IF i \in cancelled' THEN "cancelled"
                          ELSE IF Rests(i)' THEN "open" ELSE "lost"
BY DEF StatusOf, IsFilled, Rests

LEMMA StatusType == IInv => Status \in Seq(Lifecycle!Statuses) /\ Len(Status) = Len(requests)
<1> SUFFICES ASSUME IInv PROVE Status \in Seq(Lifecycle!Statuses) /\ Len(Status) = Len(requests)
    OBVIOUS
<1>1. Len(requests) \in Nat /\ DOMAIN requests = 1 .. Len(requests)
    BY DEF IInv, TypeOK
<1>2. \A i : StatusOf(i) \in Lifecycle!Statuses
    BY StatusCases DEF Lifecycle!Statuses
<1>3. QED
    BY <1>1, <1>2 DEF Status

LEMMA AppendIs ==
    ASSUME NEW S, NEW q \in Seq(S), NEW e \in S
    PROVE  Append(q, e) = [i \in 1 .. Len(q) + 1 |-> IF i = Len(q) + 1 THEN e ELSE q[i]]
<1> DEFINE r == Append(q, e)
<1>1. /\ r \in Seq(S) /\ Len(r) = Len(q) + 1 /\ r[Len(q) + 1] = e
      /\ \A i \in 1 .. Len(q) : r[i] = q[i]
      /\ Len(q) \in Nat
    BY AppendProperties, LenProperties
<1> HIDE DEF r
<1>2. r \in [1 .. Len(q) + 1 -> S]
    BY <1>1, LenProperties
<1>3. \A i \in 1 .. Len(q) + 1 : r[i] = IF i = Len(q) + 1 THEN e ELSE q[i]
    BY <1>1
<1>4. r = [i \in 1 .. Len(q) + 1 |-> IF i = Len(q) + 1 THEN e ELSE q[i]]
    BY <1>2, <1>3
<1>5. QED
    BY <1>4 DEF r

\* A numbered order leaves the older ones as they are and has some status.
LEMMA StatusAppended ==
    ASSUME IInv, NEW ord \in Orders, Len(requests) < MaxOrders, NumberOrder(ord),
           NEW n, n = Len(requests) + 1, NEW s \in Lifecycle!Statuses,
           \A i \in 1 .. Len(requests) : StatusOf(i)' = StatusOf(i),
           StatusOf(n)' = s
    PROVE  Status' = Append(Status, s)
<1>1. /\ Len(requests) \in Nat /\ DOMAIN requests = 1 .. Len(requests)
      /\ DOMAIN requests' = 1 .. n
    BY NumberOrderKeeps DEF IInv, TypeOK
<1>2. Status' = [i \in 1 .. n |-> StatusOf(i)']
    BY <1>1 DEF Status
<1>3. Status \in Seq(Lifecycle!Statuses) /\ Len(Status) = Len(requests)
    BY StatusType
<1>4. Append(Status, s) = [i \in 1 .. n |-> IF i = n THEN s ELSE Status[i]]
    BY <1>3, AppendIs
<1>5. \A i \in 1 .. n : StatusOf(i)' = IF i = n THEN s ELSE Status[i]
    BY <1>1 DEF Status
<1>6. QED
    BY <1>2, <1>4, <1>5

\* Open orders that end together, the others unchanged.
LEMMA StatusEnded ==
    ASSUME UNCHANGED requests, NEW ids, ids \subseteq DOMAIN requests, NEW s,
           \A i \in ids : StatusOf(i) = "open" /\ StatusOf(i)' = s,
           \A i \in DOMAIN requests : i \notin ids => StatusOf(i)' = StatusOf(i)
    PROVE  Lifecycle!Ended(s)
<1>1. Status' = [i \in DOMAIN requests |-> StatusOf(i)']
    BY DEF Status
<1>2. DOMAIN Status = DOMAIN requests /\ \A i \in DOMAIN requests : Status[i] = StatusOf(i)
    BY DEF Status
<1>3. Status' = [i \in DOMAIN Status |-> IF i \in ids THEN s ELSE Status[i]]
    BY <1>1, <1>2
<1>4. ids \in SUBSET {i \in DOMAIN Status : Status[i] = "open"}
    BY <1>2
<1>5. QED
    BY <1>3, <1>4 DEF Lifecycle!Ended, Status

-----------------------------------------------------------------------------
(* The operations of the exchange.                                         *)

\* The next id has not been used.
LEMMA NextIsNew ==
    ASSUME IInv, NEW n, n = Len(requests) + 1
    PROVE  ~IsFilled(n) /\ n \notin cancelled /\ ~Rests(n)
<1>1. Len(requests) \in Nat
    BY DEF IInv, TypeOK
<1>2. n \notin 1 .. Len(requests)
    BY <1>1
<1>3. QED
    BY <1>2 DEF IInv, HistoryInv, QueueInv, IsFilled, Rests

LEMMA LoseOrderSubmits ==
    ASSUME IInv, NEW ord \in Orders, Len(requests) < MaxOrders, LoseOrder(ord)
    PROVE  Lifecycle!Submitted("lost")
<1>1. UNCHANGED <<resting, fills, cancelled>> /\ NumberOrder(ord)
    BY DEF LoseOrder
<1>2. PICK n : n = Len(requests) + 1
    OBVIOUS
<1>3. \A i : /\ IsFilled(i)' <=> IsFilled(i)
             /\ i \in cancelled' <=> i \in cancelled
             /\ Rests(i)' <=> Rests(i)
    BY <1>1 DEF IsFilled, Rests
<1>4. \A i : StatusOf(i)' = StatusOf(i)
    BY <1>3, StatusCases, StatusCasesNext
<1>5. StatusOf(n)' = "lost"
    BY <1>2, <1>4, NextIsNew, StatusCases
<1>6. "lost" \in Lifecycle!Statuses
    BY DEF Lifecycle!Statuses
<1>7. Status' = Append(Status, "lost")
    BY <1>1, <1>2, <1>4, <1>5, <1>6, StatusAppended
<1>8. QED
    BY <1>7 DEF Lifecycle!Submitted, Status

LEMMA TakeOrderSubmits ==
    ASSUME IInv, NEW ord \in Orders, Len(requests) < MaxOrders, TakeOrder(ord)
    PROVE  Lifecycle!Submitted("filled")
<1>1. UNCHANGED <<resting, cancelled>> /\ NumberOrder(ord)
    BY DEF TakeOrder
<1>2. PICK n : n = Len(requests) + 1
    OBVIOUS
<1>3. PICK f : f.id = n /\ fills' = fills \cup {f}
    BY <1>2 DEF TakeOrder, NextOrderId, Fill
<1>4. \A i : /\ IsFilled(i)' <=> IsFilled(i) \/ i = n
             /\ i \in cancelled' <=> i \in cancelled
             /\ Rests(i)' <=> Rests(i)
    BY <1>1, <1>3 DEF IsFilled, Rests
<1>5. \A i \in 1 .. Len(requests) : i # n
    BY <1>2 DEF IInv, TypeOK
<1>6. \A i \in 1 .. Len(requests) : StatusOf(i)' = StatusOf(i)
    BY <1>4, <1>5, StatusCases, StatusCasesNext
<1>7. StatusOf(n)' = "filled"
    BY <1>4, StatusCasesNext
<1>8. "filled" \in Lifecycle!Statuses
    BY DEF Lifecycle!Statuses
<1>9. Status' = Append(Status, "filled")
    BY <1>1, <1>2, <1>6, <1>7, <1>8, StatusAppended
<1>10. QED
    BY <1>9 DEF Lifecycle!Submitted, Status

LEMMA RestOrderSubmits ==
    ASSUME IInv, NEW ord \in Orders, Len(requests) < MaxOrders, RestOrder(ord)
    PROVE  Lifecycle!Submitted("open")
<1>1. UNCHANGED <<fills, cancelled>> /\ NumberOrder(ord) /\ ord.market \in Books
    BY DEF RestOrder, Orders
<1>2. PICK n : n = Len(requests) + 1
    OBVIOUS
<1>3. PICK v : /\ v.id = n
              /\ resting' = [resting EXCEPT ![ord.market] = @ \cup {v}]
    BY <1>2 DEF RestOrder, NextOrderId
<1>4. resting \in [Books -> SUBSET VirtualOrders]
    BY DEF IInv, TypeOK
<1>5. \A i : /\ IsFilled(i)' <=> IsFilled(i)
             /\ i \in cancelled' <=> i \in cancelled
             /\ Rests(i)' <=> Rests(i) \/ i = n
    BY <1>1, <1>3, <1>4 DEF IsFilled, Rests
<1>6. \A i \in 1 .. Len(requests) : i # n
    BY <1>2 DEF IInv, TypeOK
<1>7. \A i \in 1 .. Len(requests) : StatusOf(i)' = StatusOf(i)
    BY <1>5, <1>6, StatusCases, StatusCasesNext
<1>8. StatusOf(n)' = "open"
    BY <1>2, <1>5, NextIsNew, StatusCasesNext
<1>9. "open" \in Lifecycle!Statuses
    BY DEF Lifecycle!Statuses
<1>10. Status' = Append(Status, "open")
    BY <1>1, <1>2, <1>7, <1>8, <1>9, StatusAppended
<1>11. QED
    BY <1>10 DEF Lifecycle!Submitted, Status

LEMMA CancelOrderEnds ==
    ASSUME IInv, NEW m \in Books, NEW id \in 1 .. MaxOrders, CancelOrder(m, id)
    PROVE  Lifecycle!Ended("cancelled")
<1> DEFINE hits == {v \in resting[m] : v.id = id}
           ids == {v.id : v \in hits}
<1>1. /\ UNCHANGED <<requests, fills>> /\ cancelled' = cancelled \cup ids
      /\ resting' = [resting EXCEPT ![m] = {v \in @ : v.id # id}]
      /\ resting \in [Books -> SUBSET VirtualOrders]
    BY DEF CancelOrder, IInv, TypeOK
<1>2. /\ ids \subseteq DOMAIN requests
      /\ \A i \in ids : Rests(i) /\ i = id
    BY DEF IInv, TypeOK, QueueInv, Rests
<1>3. \A i \in ids : ~IsFilled(i) /\ i \notin cancelled
    BY DEF IInv, FilledOnceAndGone, IsFilled
<1>4. \A i \in ids : StatusOf(i) = "open"
    BY <1>2, <1>3, StatusCases
<1>5. \A i : IsFilled(i)' <=> IsFilled(i)
    BY <1>1 DEF IsFilled
<1>6. \A i : i \notin ids => (Rests(i)' <=> Rests(i))
    BY <1>1 DEF Rests
<1>7. \A i \in ids : StatusOf(i)' = "cancelled"
    BY <1>1, <1>3, <1>5, StatusCasesNext
<1>8. \A i : i \notin ids => StatusOf(i)' = StatusOf(i)
    BY <1>1, <1>5, <1>6, StatusCases, StatusCasesNext
<1> HIDE DEF hits, ids
<1>9. QED
    BY <1>1, <1>2, <1>4, <1>7, <1>8, StatusEnded

LEMMA ProcessTradeEnds ==
    ASSUME IInv, NEW t \in Trades, ProcessTrade(t)
    PROVE  Lifecycle!Ended("filled")
<1> DEFINE queue == resting[t.market]
           hits == {v \in queue : Reached(v, t)}
           ids == {v.id : v \in hits}
<1>1. /\ UNCHANGED <<requests, cancelled>> /\ t.market \in Markets
      /\ fills' = fills \cup {Fill(v.id, MakerPrice(v.order, t), t) : v \in hits}
      /\ resting' = [resting EXCEPT ![t.market] = {Advanced(v, t) : v \in queue \ hits}]
      /\ resting \in [Books -> SUBSET VirtualOrders]
    BY DEF ProcessTrade, Trades, IInv, TypeOK
<1>2. resting' = [resting EXCEPT ![t.market] = queue \ hits]
    <2>1. \A v \in queue \ hits : Advanced(v, t) = v
        BY TradeFillsMatches
    <2>2. {Advanced(v, t) : v \in queue \ hits} = queue \ hits
        BY <2>1
    <2>3. QED
        BY <1>1, <2>2
<1>3. \A i : IsFilled(i)' <=> IsFilled(i) \/ i \in ids
    <2>1. ASSUME NEW i, IsFilled(i)' PROVE IsFilled(i) \/ i \in ids
        BY <1>1, <2>1 DEF IsFilled, Fill
    <2>2. ASSUME NEW i, IsFilled(i) PROVE IsFilled(i)'
        BY <1>1, <2>2 DEF IsFilled
    <2>3. ASSUME NEW v \in hits PROVE IsFilled(v.id)'
        <3>1. Fill(v.id, MakerPrice(v.order, t), t) \in fills'
            BY <1>1
        <3>2. Fill(v.id, MakerPrice(v.order, t), t).id = v.id
            BY DEF Fill
        <3>3. QED
            BY <3>1, <3>2 DEF IsFilled
    <2>4. QED
        BY <2>1, <2>2, <2>3
<1>4. ids \subseteq DOMAIN requests /\ \A i \in ids : Rests(i)
    BY <1>1 DEF IInv, TypeOK, QueueInv, Rests
<1>5. \A i \in ids : ~IsFilled(i) /\ i \notin cancelled
    BY <1>1 DEF IInv, FilledOnceAndGone, IsFilled
<1>6. \A i : i \notin ids => (Rests(i)' <=> Rests(i))
    BY <1>1, <1>2 DEF Rests
<1> HIDE DEF queue, hits, ids
<1>7. \A i \in ids : StatusOf(i) = "open" /\ StatusOf(i)' = "filled"
    BY <1>3, <1>4, <1>5, StatusCases, StatusCasesNext
<1>8. \A i : i \notin ids => StatusOf(i)' = StatusOf(i)
    BY <1>1, <1>3, <1>6, StatusCases, StatusCasesNext
<1>9. QED
    BY <1>1, <1>4, <1>7, <1>8, StatusEnded

-----------------------------------------------------------------------------
(* The refinement.                                                         *)

LEMMA InitImplements == Init => Lifecycle!LifecycleInit
BY DEF Init, Lifecycle!LifecycleInit

LEMMA UnchangedStatus ==
    ASSUME UNCHANGED orderVars
    PROVE  UNCHANGED [i \in DOMAIN requests |-> StatusOf(i)]
<1>1. UNCHANGED <<resting, requests, fills, cancelled>>
    BY DEF orderVars
<1>2. \A i : StatusOf(i)' = StatusOf(i)
    BY <1>1 DEF StatusOf
<1>3. QED
    BY <1>1, <1>2

LEMMA StepImplements ==
    IInv /\ [Next]_vars
        => [Lifecycle!LifecycleNext]_([i \in DOMAIN requests |-> StatusOf(i)])
<1> SUFFICES ASSUME IInv, [Next]_vars
             PROVE  [Lifecycle!LifecycleNext]_([i \in DOMAIN requests |-> StatusOf(i)])
    OBVIOUS
<1>1. CASE UpdateBook \/ CreateBook \/ UNCHANGED vars
    BY <1>1, UnchangedStatus DEF UpdateBook, CreateBook, vars
<1>2. CASE SubmitOrder
    BY <1>2, LoseOrderSubmits, TakeOrderSubmits, RestOrderSubmits
       DEF SubmitOrder, Lifecycle!LifecycleNext
<1>3. CASE \E m \in Books, id \in 1 .. MaxOrders : CancelOrder(m, id)
    BY <1>3, CancelOrderEnds DEF Lifecycle!LifecycleNext
<1>4. CASE \E t \in Trades : ProcessTrade(t)
    BY <1>4, ProcessTradeEnds DEF Lifecycle!LifecycleNext
<1>5. QED
    BY <1>1, <1>2, <1>3, <1>4 DEF Next

\* Whatever submissions, cancellations, trades and book updates come, an order
\* is numbered once, ends at most once, and stays as it ended (submit_order,
\* cancel_order and process_trade of exchange.cpp).
THEOREM ExchangeImplementsLifecycle == Spec => ImplementsLifecycle
BY InitImplements, StepImplements, ExchangeInvariant, PTL
   DEF Spec, ImplementsLifecycle, Lifecycle!LifecycleSpec
=============================================================================
