-------------------------- MODULE MarketBook_proofs --------------------------
(***************************************************************************)
(* Theorems about MarketBook for any markets, assets, prices, sizes and    *)
(* snapshots, those that name a price twice included: no change stores a   *)
(* price twice, every message does to the map of LevelBook what it says,   *)
(* and the marks follow the best prices.                                   *)
(***************************************************************************)
EXTENDS MarketBook, SequenceTheorems, FunctionTheorems, FiniteSetTheorems,
        WellFoundedInduction, TLAPS

LevelRecords == [price : Prices, size : Sizes]
LevelSeqs == Seq(LevelRecords)

\* WFMin for the naturals: every set of them has a least element.
LEMMA LeastNatural ==
    ASSUME NEW T, T \subseteq Nat, T # {}
    PROVE  \E n \in T : \A k \in T : n <= k
<1>1. PICK R : R = OpToRel(<, Nat)
    OBVIOUS
<1>2. IsWellFoundedOn(R, Nat)
    BY <1>1, NatLessThanWellFounded
<1>3. PICK n \in T : \A k \in T : <<k, n>> \notin R
    BY <1>2, WFMin
<1>4. \A k \in Nat : k < n => <<k, n>> \in R
    BY <1>1 DEF OpToRel
<1>5. ASSUME NEW k \in T PROVE n <= k
    <2>1. ~(k < n)
        BY <1>3, <1>4
    <2>2. QED
        BY <2>1
<1>6. QED
    BY <1>5

-----------------------------------------------------------------------------
(* One side: what find_level, erase and on_price_change do to its vector.  *)

\* The level that counts among those at price p is the one at i.
First(seq, i, p) ==
    /\ i \in DOMAIN seq /\ seq[i].price = p
    /\ \A j \in DOMAIN seq : seq[j].price = p => i <= j

LEMMA FindLevelFinds ==
    ASSUME NEW seq \in LevelSeqs, NEW p
    PROVE  \/ FindLevel(seq, p) = 0 /\ \A i \in DOMAIN seq : seq[i].price # p
           \/ FindLevel(seq, p) # 0 /\ First(seq, FindLevel(seq, p), p)
<1>1. CASE \A i \in DOMAIN seq : seq[i].price # p
    BY <1>1 DEF FindLevel
<1>2. CASE \E i \in DOMAIN seq : seq[i].price = p
    <2>1. PICK hits : hits = {i \in DOMAIN seq : seq[i].price = p}
        OBVIOUS
    <2>2. hits # {} /\ hits \subseteq Nat \ {0}
        BY <1>2, <2>1 DEF LevelSeqs
    <2>3. PICK n \in hits : \A k \in hits : n <= k
        BY <2>2, LeastNatural
    <2>4. FindLevel(seq, p) = CHOOSE i \in hits : \A j \in hits : i <= j
        BY <2>1, <2>2 DEF FindLevel
    <2>5. FindLevel(seq, p) \in hits /\ \A j \in hits : FindLevel(seq, p) <= j
        BY <2>3, <2>4
    <2>6. QED
        BY <2>1, <2>2, <2>5 DEF First
<1>3. QED
    BY <1>1, <1>2

LEMMA FirstIsFound ==
    ASSUME NEW seq \in LevelSeqs, NEW p, NEW i, First(seq, i, p)
    PROVE  FindLevel(seq, p) = i /\ DepthOf(seq, p) = seq[i].size
<1>1. FindLevel(seq, p) # 0 /\ First(seq, FindLevel(seq, p), p)
    BY FindLevelFinds DEF First
<1>2. PICK k : k = FindLevel(seq, p)
    OBVIOUS
<1>3. i \in Nat /\ k \in Nat /\ i <= k /\ k <= i
    BY <1>1, <1>2 DEF First, LevelSeqs
<1>4. i = k
    BY <1>3
<1>5. QED
    BY <1>1, <1>2, <1>4 DEF DepthOf

LEMMA PricesHaveFirst ==
    ASSUME NEW seq \in LevelSeqs, NEW p \in PricesOf(seq)
    PROVE  \E i \in DOMAIN seq : First(seq, i, p)
<1>1. \E i \in DOMAIN seq : seq[i].price = p
    BY DEF PricesOf
<1>2. QED
    BY <1>1, FindLevelFinds DEF First

\* A vector is the map from its prices to the sizes of the first levels there.
LEMMA LevelsAre ==
    ASSUME NEW seq \in LevelSeqs, NEW f \in [PricesOf(seq) -> Sizes],
           \A q \in PricesOf(seq), i \in DOMAIN seq : First(seq, i, q) => f[q] = seq[i].size
    PROVE  LevelsOf(seq) = f
<1>1. ASSUME NEW q \in PricesOf(seq) PROVE DepthOf(seq, q) = f[q]
    <2>1. PICK i \in DOMAIN seq : First(seq, i, q)
        BY PricesHaveFirst
    <2>2. QED
        BY <2>1, FirstIsFound
<1>2. QED
    BY <1>1 DEF LevelsOf

LEMMA LevelsOfType ==
    ASSUME NEW seq \in LevelSeqs
    PROVE  /\ LevelsOf(seq) \in [PricesOf(seq) -> Sizes]
           /\ \A q \in PricesOf(seq), i \in DOMAIN seq :
                 First(seq, i, q) => LevelsOf(seq)[q] = seq[i].size
<1>1. ASSUME NEW q \in PricesOf(seq) PROVE DepthOf(seq, q) \in Sizes
    <2>1. PICK i \in DOMAIN seq : First(seq, i, q)
        BY PricesHaveFirst
    <2>2. seq[i] \in LevelRecords
        BY DEF LevelSeqs
    <2>3. QED
        BY <2>1, <2>2, FirstIsFound DEF LevelRecords
<1>2. ASSUME NEW q \in PricesOf(seq), NEW i \in DOMAIN seq, First(seq, i, q)
      PROVE  DepthOf(seq, q) = seq[i].size
    BY <1>2, FirstIsFound
<1>3. QED
    BY <1>1, <1>2 DEF LevelsOf

LEMMA EraseAtShifts ==
    ASSUME NEW seq \in LevelSeqs, NEW i \in DOMAIN seq
    PROVE  /\ EraseAt(seq, i) \in LevelSeqs
           /\ DOMAIN EraseAt(seq, i) = 1 .. Len(seq) - 1
           /\ \A j \in 1 .. Len(seq) - 1 :
                 EraseAt(seq, i)[j] = IF j < i THEN seq[j] ELSE seq[j + 1]
<1> DEFINE a == SubSeq(seq, 1, i - 1)
           b == SubSeq(seq, i + 1, Len(seq))
<1>1. Len(seq) \in Nat /\ i \in 1 .. Len(seq)
    BY DEF LevelSeqs
<1>2. /\ a \in LevelSeqs /\ Len(a) = i - 1
      /\ \A j \in 1 .. i - 1 : a[j] = seq[j]
    BY <1>1, SubSeqProperties DEF LevelSeqs
<1>3. /\ b \in LevelSeqs /\ Len(b) = Len(seq) - i
      /\ \A j \in 1 .. Len(seq) - i : b[j] = seq[i + j]
    BY <1>1, SubSeqProperties DEF LevelSeqs
<1>4. EraseAt(seq, i) = a \o b
    BY DEF EraseAt
<1> HIDE DEF a, b
<1>5. /\ a \o b \in LevelSeqs /\ Len(a \o b) = Len(seq) - 1
      /\ \A j \in 1 .. Len(seq) - 1 : (a \o b)[j] = IF j < i THEN seq[j] ELSE seq[j + 1]
    BY <1>1, <1>2, <1>3, SMTT(30) DEF LevelSeqs
<1>6. QED
    BY <1>4, <1>5 DEF LevelSeqs

\* What is left of the map when a level at p is removed.
Removal(t, seq, p) ==
    \/ LevelsOf(t) = [q \in PricesOf(seq) \ {p} |-> LevelsOf(seq)[q]]
    \/ /\ p \in Repeated(seq) /\ p \in PricesOf(seq)
       /\ \E left \in Sizes : LevelsOf(t) = [LevelsOf(seq) EXCEPT ![p] = left]

\* The map with the level at p set to a size.
Setting(t, seq, p, size) ==
    LevelsOf(t) = [q \in PricesOf(seq) \cup {p} |-> IF q = p THEN size ELSE LevelsOf(seq)[q]]

\* Erasing the level that counts removes its price, or uncovers another level
\* at that price.
LEMMA RemovedLevel ==
    ASSUME NEW seq \in LevelSeqs, NEW p, NEW i \in DOMAIN seq, First(seq, i, p)
    PROVE  /\ EraseAt(seq, i) \in LevelSeqs
           /\ Repeated(EraseAt(seq, i)) \subseteq Repeated(seq)
           /\ Removal(EraseAt(seq, i), seq, p)
<1> DEFINE t == EraseAt(seq, i)
           n == Len(seq)
           Old(j) == IF j < i THEN j ELSE j + 1
<1>1. n \in Nat /\ DOMAIN seq = 1 .. n /\ i \in 1 .. n
    BY DEF LevelSeqs
<1>2. t \in LevelSeqs /\ DOMAIN t = 1 .. n - 1
    BY EraseAtShifts
<1>3. \A j \in 1 .. n - 1 : t[j] = seq[Old(j)] /\ Old(j) \in 1 .. n /\ Old(j) # i
    BY <1>1, EraseAtShifts
<1>4. \A j, k \in 1 .. n - 1 : Old(j) <= Old(k) <=> j <= k
    BY <1>1
<1>5. \A k \in 1 .. n : k # i => \E j \in 1 .. n - 1 : Old(j) = k
    <2>1. ASSUME NEW k \in 1 .. n, k < i PROVE k \in 1 .. n - 1 /\ Old(k) = k
        BY <1>1, <2>1
    <2>2. ASSUME NEW k \in 1 .. n, k > i PROVE k - 1 \in 1 .. n - 1 /\ Old(k - 1) = k
        BY <1>1, <2>2
    <2>3. QED
        BY <1>1, <2>1, <2>2
<1> HIDE DEF t, n, Old
<1>6. Repeated(t) \subseteq Repeated(seq)
    <2> SUFFICES ASSUME NEW j \in DOMAIN t, NEW k \in DOMAIN t, k # j, t[k].price = t[j].price
                 PROVE  t[j].price \in Repeated(seq)
        BY DEF Repeated
    <2>1. Old(j) # Old(k)
        BY <1>1, <1>2, <1>4
    <2>2. QED
        BY <1>1, <1>2, <1>3, <2>1 DEF Repeated
<1>7. \A q \in PricesOf(t) : q \in PricesOf(seq)
    BY <1>1, <1>2, <1>3 DEF PricesOf
<1>8. \A q \in PricesOf(seq) : q # p => q \in PricesOf(t)
    <2> SUFFICES ASSUME NEW k \in DOMAIN seq, seq[k].price # p
                 PROVE  seq[k].price \in PricesOf(t)
        BY DEF PricesOf
    <2>1. k # i
        BY DEF First
    <2>2. PICK j \in 1 .. n - 1 : Old(j) = k
        BY <1>1, <1>5, <2>1
    <2>3. QED
        BY <1>2, <1>3, <2>2 DEF PricesOf
<1>9. ASSUME NEW q \in PricesOf(t), q # p PROVE LevelsOf(t)[q] = LevelsOf(seq)[q]
    <2>1. PICK j \in DOMAIN t : First(t, j, q)
        BY <1>2, PricesHaveFirst
    <2>2. PICK k \in DOMAIN seq : First(seq, k, q)
        BY <1>7, PricesHaveFirst
    <2>3. k # i
        BY <1>9, <2>2 DEF First
    <2>4. PICK l \in 1 .. n - 1 : Old(l) = k
        BY <1>1, <1>5, <2>3
    <2>5. /\ k <= Old(j) /\ j <= l
          /\ j \in 1 .. n - 1 /\ Old(j) \in 1 .. n
        BY <1>1, <1>2, <1>3, <2>1, <2>2, <2>4 DEF First
    <2>6. j = l
        BY <1>1, <1>4, <2>4, <2>5
    <2>7. t[j] = seq[k]
        BY <1>3, <2>4, <2>6
    <2>8. LevelsOf(t)[q] = t[j].size /\ LevelsOf(seq)[q] = seq[k].size
        BY <1>2, <1>7, <2>1, <2>2, LevelsOfType
    <2>9. QED
        BY <2>7, <2>8
<1>10. LevelsOf(t) \in [PricesOf(t) -> Sizes] /\ LevelsOf(seq) \in [PricesOf(seq) -> Sizes]
    BY <1>2, LevelsOfType
<1>11. p \in PricesOf(seq)
    BY DEF First, PricesOf
<1>12. CASE p \notin PricesOf(t)
    <2>1. PricesOf(t) = PricesOf(seq) \ {p}
        BY <1>7, <1>8, <1>12
    <2>2. LevelsOf(t) = [q \in PricesOf(seq) \ {p} |-> LevelsOf(seq)[q]]
        BY <1>9, <1>10, <2>1
    <2>3. QED
        BY <1>2, <1>6, <2>2 DEF t, Removal
<1>13. CASE p \in PricesOf(t)
    <2>1. PricesOf(t) = PricesOf(seq)
        BY <1>7, <1>8, <1>11, <1>13
    <2>2. PICK left \in Sizes : left = LevelsOf(t)[p]
        BY <1>10, <1>13
    <2>3. LevelsOf(t) = [LevelsOf(seq) EXCEPT ![p] = left]
        BY <1>9, <1>10, <2>1, <2>2
    <2>4. p \in Repeated(seq)
        <3>1. PICK j \in DOMAIN t : t[j].price = p
            BY <1>13 DEF PricesOf
        <3>2. /\ Old(j) \in DOMAIN seq /\ Old(j) # i /\ seq[Old(j)].price = p
              /\ seq[i].price = p
            BY <1>1, <1>2, <1>3, <3>1 DEF First
        <3>3. QED
            BY <3>2 DEF Repeated
    <2>5. QED
        BY <1>2, <1>6, <1>11, <2>3, <2>4 DEF t, Removal
<1>14. QED
    BY <1>12, <1>13

LEMMA AddedLevel ==
    ASSUME NEW seq \in LevelSeqs, NEW p \in Prices, NEW size \in Sizes,
           \A i \in DOMAIN seq : seq[i].price # p
    PROVE  /\ Append(seq, Level(p, size)) \in LevelSeqs
           /\ Repeated(Append(seq, Level(p, size))) \subseteq Repeated(seq)
           /\ Setting(Append(seq, Level(p, size)), seq, p, size)
<1> DEFINE l == Level(p, size)
           t == Append(seq, l)
           n == Len(seq)
<1>1. l \in LevelRecords /\ l.price = p /\ l.size = size
    BY DEF Level, LevelRecords
<1>2. n \in Nat /\ DOMAIN seq = 1 .. n
    BY DEF LevelSeqs
<1> HIDE DEF l
<1>3. /\ t \in LevelSeqs /\ DOMAIN t = 1 .. n + 1
      /\ t[n + 1] = l /\ \A i \in 1 .. n : t[i] = seq[i]
    BY <1>1, AppendProperties DEF LevelSeqs
<1> HIDE DEF t, n
<1>4. /\ \A i \in DOMAIN t : (i \in DOMAIN seq /\ t[i] = seq[i]) \/ (i = n + 1 /\ t[i] = l)
      /\ \A i \in DOMAIN seq : i \in DOMAIN t /\ t[i] = seq[i]
      /\ n + 1 \in DOMAIN t
    BY <1>2, <1>3
<1>5. Repeated(t) \subseteq Repeated(seq)
    <2> SUFFICES ASSUME NEW j \in DOMAIN t, NEW k \in DOMAIN t, k # j, t[k].price = t[j].price
                 PROVE  t[j].price \in Repeated(seq)
        BY DEF Repeated
    <2>1. j \in DOMAIN seq /\ k \in DOMAIN seq
        BY <1>1, <1>4
    <2>2. QED
        BY <1>4, <2>1 DEF Repeated
<1>6. PricesOf(t) = PricesOf(seq) \cup {p}
    BY <1>1, <1>3, <1>4 DEF PricesOf
<1>7. PICK f : f = [q \in PricesOf(seq) \cup {p} |-> IF q = p THEN size ELSE LevelsOf(seq)[q]]
    OBVIOUS
<1>8. f \in [PricesOf(t) -> Sizes]
    BY <1>6, <1>7, LevelsOfType
<1>9. ASSUME NEW q \in PricesOf(t), NEW i \in DOMAIN t, First(t, i, q)
      PROVE  f[q] = t[i].size
    <2>1. CASE i = n + 1
        BY <1>1, <1>3, <1>6, <1>7, <1>9, <2>1 DEF First
    <2>2. CASE i # n + 1
        <3>1. i \in DOMAIN seq /\ t[i] = seq[i]
            BY <1>4, <2>2
        <3>2. First(seq, i, q)
            BY <1>4, <1>9, <3>1 DEF First
        <3>3. q # p /\ q \in PricesOf(seq)
            BY <3>1, <3>2 DEF First, PricesOf
        <3>4. LevelsOf(seq)[q] = seq[i].size
            BY <3>1, <3>2, <3>3, LevelsOfType
        <3>5. QED
            BY <1>7, <3>1, <3>3, <3>4
    <2>3. QED
        BY <2>1, <2>2
<1>10. LevelsOf(t) = f
    BY <1>3, <1>8, <1>9, LevelsAre
<1>11. QED
    BY <1>3, <1>5, <1>7, <1>10 DEF t, l, Setting

LEMMA ReplacedLevel ==
    ASSUME NEW seq \in LevelSeqs, NEW p, NEW i \in DOMAIN seq, First(seq, i, p),
           NEW size \in Sizes
    PROVE  /\ [seq EXCEPT ![i].size = size] \in LevelSeqs
           /\ Repeated([seq EXCEPT ![i].size = size]) \subseteq Repeated(seq)
           /\ Setting([seq EXCEPT ![i].size = size], seq, p, size)
<1> DEFINE t == [seq EXCEPT ![i].size = size]
<1>1. \A j \in DOMAIN seq : seq[j] \in LevelRecords
    BY DEF LevelSeqs
<1>2. /\ DOMAIN t = DOMAIN seq
      /\ \A j \in DOMAIN seq : /\ t[j] \in LevelRecords /\ t[j].price = seq[j].price
                               /\ t[j].size = IF j = i THEN size ELSE seq[j].size
    BY <1>1 DEF LevelRecords
<1>3. t \in LevelSeqs
    BY <1>2 DEF LevelSeqs
<1> HIDE DEF t
<1>4. Repeated(t) \subseteq Repeated(seq) /\ PricesOf(t) = PricesOf(seq)
    BY <1>2 DEF Repeated, PricesOf
<1>5. PICK f : f = [q \in PricesOf(seq) |-> IF q = p THEN size ELSE LevelsOf(seq)[q]]
    OBVIOUS
<1>6. f \in [PricesOf(t) -> Sizes]
    BY <1>4, <1>5, LevelsOfType
<1>7. ASSUME NEW q \in PricesOf(t), NEW j \in DOMAIN t, First(t, j, q)
      PROVE  f[q] = t[j].size
    <2>1. First(seq, j, q) /\ j \in DOMAIN seq
        BY <1>2, <1>7 DEF First
    <2>2. CASE q = p
        <3>1. j = i
            BY <2>1, <2>2, FirstIsFound
        <3>2. QED
            BY <1>2, <1>4, <1>5, <2>1, <2>2, <3>1
    <2>3. CASE q # p
        <3>1. j # i
            BY <2>1, <2>3 DEF First
        <3>2. LevelsOf(seq)[q] = seq[j].size
            BY <1>4, <2>1, LevelsOfType
        <3>3. QED
            BY <1>2, <1>4, <1>5, <2>1, <2>3, <3>1, <3>2
    <2>4. QED
        BY <2>2, <2>3
<1>8. LevelsOf(t) = f
    BY <1>3, <1>6, <1>7, LevelsAre
<1>9. QED
    <2>1. p \in PricesOf(seq)
        BY DEF First, PricesOf
    <2>2. PricesOf(seq) \cup {p} = PricesOf(seq)
        BY <2>1
    <2>3. Setting(t, seq, p, size)
        BY <1>5, <1>8, <2>2 DEF Setting
    <2>4. QED
        BY <1>3, <1>4, <2>3 DEF t

\* on_price_change stores no price twice, and does to the map of its side what
\* the message says.
LEMMA ChangedSideIsSetLevel ==
    ASSUME NEW seq \in LevelSeqs, NEW p \in Prices, NEW size \in Sizes \cup {0}
    PROVE  /\ ChangedSide(seq, p, size) \in LevelSeqs
           /\ Repeated(ChangedSide(seq, p, size)) \subseteq Repeated(seq)
           /\ \/ LevelsOf(ChangedSide(seq, p, size)) = Abstract!SetLevel(LevelsOf(seq), p, size)
              \/ /\ size <= 0 /\ p \in Repeated(seq) /\ p \in PricesOf(seq)
                 /\ \E left \in Sizes :
                       LevelsOf(ChangedSide(seq, p, size)) = [LevelsOf(seq) EXCEPT ![p] = left]
<1>1. PICK i : i = FindLevel(seq, p)
    OBVIOUS
<1>2. \/ i = 0 /\ \A j \in DOMAIN seq : seq[j].price # p
      \/ i \in DOMAIN seq /\ i # 0 /\ First(seq, i, p)
    BY <1>1, FindLevelFinds DEF First
<1>3. ChangedSide(seq, p, size) =
          IF size <= 0
            THEN IF i = 0 THEN seq ELSE EraseAt(seq, i)
            ELSE IF i = 0 THEN Append(seq, Level(p, size)) ELSE [seq EXCEPT ![i].size = size]
    BY <1>1 DEF ChangedSide
<1>4. LevelsOf(seq) \in [PricesOf(seq) -> Sizes]
    BY LevelsOfType
<1>5. Abstract!SetLevel(LevelsOf(seq), p, size) =
          IF size <= 0
            THEN [q \in PricesOf(seq) \ {p} |-> LevelsOf(seq)[q]]
            ELSE [q \in PricesOf(seq) \cup {p} |-> IF q = p THEN size ELSE LevelsOf(seq)[q]]
    BY <1>4 DEF Abstract!SetLevel
<1>6. CASE size <= 0 /\ i = 0
    <2>1. PricesOf(seq) \ {p} = PricesOf(seq)
        BY <1>2, <1>6 DEF PricesOf
    <2>2. [q \in PricesOf(seq) |-> LevelsOf(seq)[q]] = LevelsOf(seq)
        BY <1>4
    <2>3. QED
        BY <1>3, <1>5, <1>6, <2>1, <2>2
<1>7. CASE size <= 0 /\ i # 0
    <2>1. ChangedSide(seq, p, size) = EraseAt(seq, i) /\ i \in DOMAIN seq /\ First(seq, i, p)
        BY <1>2, <1>3, <1>7
    <2>2. Abstract!SetLevel(LevelsOf(seq), p, size) = [q \in PricesOf(seq) \ {p} |-> LevelsOf(seq)[q]]
        BY <1>5, <1>7
    <2>3. PICK t : t = EraseAt(seq, i)
        OBVIOUS
    <2>4. t \in LevelSeqs /\ Repeated(t) \subseteq Repeated(seq) /\ Removal(t, seq, p)
        BY <2>1, <2>3, RemovedLevel
    <2>5. ChangedSide(seq, p, size) = t
        BY <2>1, <2>3
    <2>6. QED
        BY <1>7, <2>2, <2>4, <2>5 DEF Removal
<1>8. CASE ~(size <= 0) /\ i = 0
    <2>1. size \in Sizes /\ \A j \in DOMAIN seq : seq[j].price # p
        BY <1>2, <1>8
    <2>2. PICK t : t = Append(seq, Level(p, size))
        OBVIOUS
    <2>3. t \in LevelSeqs /\ Repeated(t) \subseteq Repeated(seq) /\ Setting(t, seq, p, size)
        BY <2>1, <2>2, AddedLevel
    <2>4. ChangedSide(seq, p, size) = t
        BY <1>3, <1>8, <2>2
    <2>5. QED
        BY <1>5, <1>8, <2>3, <2>4 DEF Setting
<1>9. CASE ~(size <= 0) /\ i # 0
    <2>1. size \in Sizes /\ i \in DOMAIN seq /\ First(seq, i, p)
        BY <1>2, <1>9
    <2>2. PICK t : t = [seq EXCEPT ![i].size = size]
        OBVIOUS
    <2>3. t \in LevelSeqs /\ Repeated(t) \subseteq Repeated(seq) /\ Setting(t, seq, p, size)
        BY <2>1, <2>2, ReplacedLevel
    <2>4. ChangedSide(seq, p, size) = t
        BY <1>3, <1>9, <2>2
    <2>5. QED
        BY <1>5, <1>9, <2>3, <2>4 DEF Setting
<1>10. QED
    BY <1>6, <1>7, <1>8, <1>9

LEMMA SnapshotSideType == \A seq \in SnapshotSides : seq \in LevelSeqs
BY SnapshotSidesAssumption DEF LevelSeqs, LevelRecords

-----------------------------------------------------------------------------
(* The books.                                                              *)

IInv ==
    /\ vectors \in [Markets -> [Outcomes -> [Sides -> LevelSeqs]]]
    /\ doubled \in [Markets -> [Outcomes -> [Sides -> SUBSET Prices]]]
    /\ NoDuplicateLevels

USE AssetOutcomeAssumption

LEMMA RepeatedType == \A seq \in LevelSeqs : Repeated(seq) \in SUBSET Prices
<1>1. \A seq \in LevelSeqs : \A i \in DOMAIN seq : seq[i] \in LevelRecords
    BY DEF LevelSeqs
<1>2. QED
    BY <1>1 DEF Repeated, LevelRecords

LEMMA InitIInv == Init => IInv
<1>1. <<>> \in LevelSeqs /\ Repeated(<<>>) = {}
    BY DEF LevelSeqs, Repeated
<1>2. QED
    BY <1>1 DEF Init, IInv, NoDuplicateLevels

LEMMA OnBookMessageIInv ==
    ASSUME IInv, NEW m \in Markets, NEW a, NEW bids \in SnapshotSides, NEW asks \in SnapshotSides,
           OnBookMessage(m, a, bids, asks)
    PROVE  IInv'
<1>1. PICK o \in Outcomes : o = AssetOutcome[a]
    BY DEF OnBookMessage, KnownTo
<1>2. PICK new : new = [s \in Sides |-> IF s = "Buy" THEN bids ELSE asks]
    OBVIOUS
<1>3. PICK twice : twice = [s \in Sides |-> Repeated(IF s = "Buy" THEN bids ELSE asks)]
    OBVIOUS
<1>4. /\ new \in [Sides -> LevelSeqs] /\ twice \in [Sides -> SUBSET Prices]
      /\ \A s \in Sides : Repeated(new[s]) = twice[s]
    BY <1>2, <1>3, SnapshotSideType, RepeatedType
<1>5. /\ vectors' = [vectors EXCEPT ![m][o] = new]
      /\ doubled' = [doubled EXCEPT ![m][o] = twice]
    BY <1>1, <1>2, <1>3 DEF OnBookMessage
<1>6. /\ vectors' \in [Markets -> [Outcomes -> [Sides -> LevelSeqs]]]
      /\ doubled' \in [Markets -> [Outcomes -> [Sides -> SUBSET Prices]]]
    BY <1>4, <1>5 DEF IInv
<1>7. ASSUME NEW k \in Markets, NEW u \in Outcomes, NEW s \in Sides
      PROVE  Repeated(vectors'[k][u][s]) \subseteq doubled'[k][u][s]
    <2>1. CASE k = m /\ u = o
        BY <1>4, <1>5, <2>1 DEF IInv
    <2>2. CASE ~(k = m /\ u = o)
        BY <1>5, <2>2 DEF IInv, NoDuplicateLevels
    <2>3. QED
        BY <2>1, <2>2
<1>8. QED
    BY <1>6, <1>7 DEF IInv, NoDuplicateLevels

LEMMA OnPriceChangeIInv ==
    ASSUME IInv, NEW m \in Markets, NEW a, NEW s \in Sides, NEW p \in Prices,
           NEW size \in Sizes \cup {0}, OnPriceChange(m, a, s, p, size)
    PROVE  IInv'
<1>1. PICK o \in Outcomes : o = AssetOutcome[a]
    BY DEF OnPriceChange, KnownTo
<1>2. PICK seq \in LevelSeqs : seq = vectors[m][o][s]
    BY DEF IInv
<1>3. PICK new : new = ChangedSide(seq, p, size)
    OBVIOUS
<1>4. new \in LevelSeqs /\ Repeated(new) \subseteq Repeated(seq)
    BY <1>3, ChangedSideIsSetLevel
<1>5. vectors' = [vectors EXCEPT ![m][o][s] = new] /\ doubled' = doubled
    BY <1>1, <1>2, <1>3 DEF OnPriceChange
<1>6. vectors' \in [Markets -> [Outcomes -> [Sides -> LevelSeqs]]]
    BY <1>4, <1>5 DEF IInv
<1>7. ASSUME NEW k \in Markets, NEW u \in Outcomes, NEW r \in Sides
      PROVE  Repeated(vectors'[k][u][r]) \subseteq doubled'[k][u][r]
    <2>1. CASE k = m /\ u = o /\ r = s
        BY <1>2, <1>4, <1>5, <2>1 DEF IInv, NoDuplicateLevels
    <2>2. CASE ~(k = m /\ u = o /\ r = s)
        BY <1>5, <2>2 DEF IInv, NoDuplicateLevels
    <2>3. QED
        BY <2>1, <2>2
<1>8. QED
    BY <1>5, <1>6, <1>7 DEF IInv, NoDuplicateLevels

LEMMA NextIInv == IInv /\ [Next]_vars => IInv'
<1> SUFFICES ASSUME IInv, [Next]_vars PROVE IInv'
    OBVIOUS
<1>1. CASE UNCHANGED vars
    BY <1>1 DEF vars, IInv, NoDuplicateLevels
<1>2. ASSUME NEW m \in Markets, NEW a \in Assets, UnknownAsset(m, a) PROVE IInv'
    BY <1>2 DEF UnknownAsset, vars, IInv, NoDuplicateLevels
<1>3. QED
    BY <1>1, <1>2, OnBookMessageIInv, OnPriceChangeIInv DEF Next

\* IInv is inductive.
THEOREM Invariance == Spec => []IInv
BY InitIInv, NextIInv, PTL DEF Spec

\* Whatever the snapshots carry, no change stores a price a second time on one
\* side: only what the last snapshot named twice is there twice (find_level,
\* erase and emplace_back in market_book.cpp).
THEOREM NoPriceTwice == Spec => []NoDuplicateLevels
<1>1. IInv => NoDuplicateLevels
    BY DEF IInv
<1>2. QED
    BY <1>1, Invariance, PTL

-----------------------------------------------------------------------------
(* Messages.                                                               *)

Mapped(v) == [m \in Markets |-> [o \in Outcomes |-> [s \in Sides |-> LevelsOf(v[m][o][s])]]]

AllLevels == {LevelsOf(seq) : seq \in LevelSeqs}

LEMMA MappedType ==
    ASSUME NEW v \in [Markets -> [Outcomes -> [Sides -> LevelSeqs]]]
    PROVE  Mapped(v) \in [Markets -> [Outcomes -> [Sides -> AllLevels]]]
<1>1. \A m \in Markets, o \in Outcomes, s \in Sides : LevelsOf(v[m][o][s]) \in AllLevels
    BY DEF AllLevels
<1>2. QED
    BY <1>1 DEF Mapped

\* Two tables that agree but for one outcome of one market.
LEMMA ReplacedRow ==
    ASSUME NEW S, NEW f \in [Markets -> [Outcomes -> S]], NEW g \in [Markets -> [Outcomes -> S]],
           NEW m \in Markets, NEW o \in Outcomes, NEW row \in S,
           \A k \in Markets, u \in Outcomes :
              g[k][u] = IF k = m /\ u = o THEN row ELSE f[k][u]
    PROVE  g = [f EXCEPT ![m][o] = row]
OBVIOUS

LEMMA BookMessageIsSnapshot ==
    ASSUME IInv, NEW m \in Markets, NEW a, NEW bids \in SnapshotSides, NEW asks \in SnapshotSides,
           OnBookMessage(m, a, bids, asks)
    PROVE  Abstract!Snapshot(m, AssetOutcome[a], LevelsOf(bids), LevelsOf(asks))
<1> DEFINE o == AssetOutcome[a]
           new == [s \in Sides |-> IF s = "Buy" THEN bids ELSE asks]
           map == [s \in Sides |-> IF s = "Buy" THEN LevelsOf(bids) ELSE LevelsOf(asks)]
           f == Mapped(vectors)
           g == Mapped(vectors')
<1>1. o \in Outcomes
    BY DEF OnBookMessage, KnownTo
<1>2. vectors' = [vectors EXCEPT ![m][o] = new]
    BY DEF OnBookMessage
<1>3. /\ vectors \in [Markets -> [Outcomes -> [Sides -> LevelSeqs]]]
      /\ vectors' \in [Markets -> [Outcomes -> [Sides -> LevelSeqs]]]
    BY OnBookMessageIInv DEF IInv
<1>4. f \in [Markets -> [Outcomes -> [Sides -> AllLevels]]]
    BY <1>3, MappedType
<1>5. g \in [Markets -> [Outcomes -> [Sides -> AllLevels]]]
    BY <1>3, MappedType
<1>6. map \in [Sides -> AllLevels] /\ map = [s \in Sides |-> LevelsOf(new[s])]
    BY SnapshotSideType DEF AllLevels
<1> HIDE DEF o, new, map
<1>7. ASSUME NEW k \in Markets, NEW u \in Outcomes
      PROVE  g[k][u] = IF k = m /\ u = o THEN map ELSE f[k][u]
    <2>1. vectors'[k][u] = IF k = m /\ u = o THEN new ELSE vectors[k][u]
        BY <1>1, <1>2, <1>3
    <2>2. QED
        BY <1>6, <2>1 DEF Mapped
<1> HIDE DEF f, g
<1>8. g = [f EXCEPT ![m][o] = map]
    <2>1. map \in [Sides -> AllLevels]
        BY <1>6
    <2>2. QED
        BY <1>1, <1>4, <1>5, <1>7, <2>1, ReplacedRow
<1>9. QED
    BY <1>8 DEF f, g, map, o, Abstract!Snapshot, Abstract!Sides, Sides, Mapped, Outcomes

\* A change of one vector is the change of one ladder of the map.
LEMMA ChangedLadder ==
    ASSUME IInv, NEW m \in Markets, NEW o \in Outcomes, NEW s \in Sides, NEW new \in LevelSeqs,
           vectors' = [vectors EXCEPT ![m][o][s] = new]
    PROVE  Mapped(vectors') = [Mapped(vectors) EXCEPT ![m][o][s] = LevelsOf(new)]
<1>1. PICK v \in [Markets -> [Outcomes -> [Sides -> LevelSeqs]]] : v = vectors
    BY DEF IInv
<1>2. PICK w : w = [v EXCEPT ![m][o][s] = new]
    OBVIOUS
<1>3. w \in [Markets -> [Outcomes -> [Sides -> LevelSeqs]]]
    BY <1>2
<1>4. PICK f : f = Mapped(v)
    OBVIOUS
<1>5. PICK g : g = Mapped(w)
    OBVIOUS
<1>6. /\ f \in [Markets -> [Outcomes -> [Sides -> AllLevels]]]
      /\ g \in [Markets -> [Outcomes -> [Sides -> AllLevels]]]
    BY <1>3, <1>4, <1>5, MappedType
<1>7. PICK row : row = [f[m][o] EXCEPT ![s] = LevelsOf(new)]
    OBVIOUS
<1>8. f[m][o] = [t \in Sides |-> LevelsOf(v[m][o][t])]
    BY <1>4 DEF Mapped
<1>9. row = [t \in Sides |-> IF t = s THEN LevelsOf(new) ELSE LevelsOf(v[m][o][t])]
    BY <1>7, <1>8
<1>10. row \in [Sides -> AllLevels]
    <2>1. LevelsOf(new) \in AllLevels
        BY DEF AllLevels
    <2>2. \A t \in Sides : LevelsOf(v[m][o][t]) \in AllLevels
        BY DEF AllLevels
    <2>3. QED
        BY <1>9, <2>1, <2>2
<1>11. ASSUME NEW k \in Markets, NEW u \in Outcomes
      PROVE  g[k][u] = IF k = m /\ u = o THEN row ELSE f[k][u]
    <2>1. \A t \in Sides : w[k][u][t] = IF k = m /\ u = o /\ t = s THEN new ELSE v[k][u][t]
        BY <1>2
    <2>2. g[k][u] = [t \in Sides |-> LevelsOf(w[k][u][t])]
        BY <1>5 DEF Mapped
    <2>3. CASE k = m /\ u = o
        BY <1>9, <2>1, <2>2, <2>3
    <2>4. CASE ~(k = m /\ u = o)
        BY <1>4, <2>1, <2>2, <2>4 DEF Mapped
    <2>5. QED
        BY <2>3, <2>4
<1>12. g = [f EXCEPT ![m][o] = row]
    <2>1. PICK S : S = [Sides -> AllLevels]
        OBVIOUS
    <2>2. /\ f \in [Markets -> [Outcomes -> S]] /\ g \in [Markets -> [Outcomes -> S]]
          /\ row \in S
        BY <1>6, <1>10, <2>1
    <2>3. \A k \in Markets, u \in Outcomes :
             g[k][u] = IF k = m /\ u = o THEN row ELSE f[k][u]
        BY <1>11
    <2> HIDE <1>11
    <2>4. QED
        BY <2>2, <2>3
<1>13. g = [f EXCEPT ![m][o][s] = LevelsOf(new)]
    BY <1>7, <1>12
<1>14. QED
    BY <1>1, <1>2, <1>4, <1>5, <1>13

LEMMA PriceChangeIsChangeLevel ==
    ASSUME IInv, NEW m \in Markets, NEW a, NEW s \in Sides, NEW p \in Prices,
           NEW size \in Sizes \cup {0}, OnPriceChange(m, a, s, p, size)
    PROVE  \/ Abstract!ChangeLevel(m, AssetOutcome[a], s, p, size)
           \/ /\ size <= 0 /\ p \in doubled[m][AssetOutcome[a]][s]
              /\ \E left \in Sizes : Abstract!Uncover(m, AssetOutcome[a], s, p, left)
<1>1. PICK o \in Outcomes : o = AssetOutcome[a]
    BY DEF OnPriceChange, KnownTo
<1>2. PICK seq \in LevelSeqs : seq = vectors[m][o][s]
    BY DEF IInv
<1>3. PICK new : new = ChangedSide(seq, p, size)
    OBVIOUS
<1>4. /\ new \in LevelSeqs
      /\ \/ LevelsOf(new) = Abstract!SetLevel(LevelsOf(seq), p, size)
         \/ /\ size <= 0 /\ p \in Repeated(seq) /\ p \in PricesOf(seq)
            /\ \E left \in Sizes : LevelsOf(new) = [LevelsOf(seq) EXCEPT ![p] = left]
    BY <1>3, ChangedSideIsSetLevel
<1>5. vectors' = [vectors EXCEPT ![m][o][s] = new]
    BY <1>1, <1>2, <1>3 DEF OnPriceChange
<1>6. Mapped(vectors') = [Mapped(vectors) EXCEPT ![m][o][s] = LevelsOf(new)]
    <2>1. new \in LevelSeqs
        BY <1>4
    <2> HIDE <1>4
    <2>2. QED
        BY <1>5, <2>1, ChangedLadder, ZenonT(60)
<1>7. Mapped(vectors)[m][o][s] = LevelsOf(seq)
    BY <1>2 DEF Mapped
<1>8. CASE LevelsOf(new) = Abstract!SetLevel(LevelsOf(seq), p, size)
    <2>1. Mapped(vectors') = [Mapped(vectors) EXCEPT ![m][o][s] = Abstract!SetLevel(@, p, size)]
        BY <1>6, <1>7, <1>8
    <2>2. QED
        BY <1>1, <2>1 DEF Abstract!ChangeLevel, Mapped
<1>9. ASSUME NEW left \in Sizes, LevelsOf(new) = [LevelsOf(seq) EXCEPT ![p] = left],
             size <= 0, p \in Repeated(seq), p \in PricesOf(seq)
      PROVE  /\ p \in doubled[m][o][s]
             /\ Abstract!Uncover(m, o, s, p, left)
    <2>1. p \in doubled[m][o][s]
        BY <1>2, <1>9 DEF IInv, NoDuplicateLevels
    <2>2. p \in DOMAIN Mapped(vectors)[m][o][s]
        BY <1>7, <1>9 DEF LevelsOf
    <2>3. Mapped(vectors') = [Mapped(vectors) EXCEPT ![m][o][s][p] = left]
        BY <1>6, <1>7, <1>9
    <2>4. QED
        BY <2>1, <2>2, <2>3 DEF Abstract!Uncover, Mapped
<1>10. QED
    BY <1>1, <1>4, <1>8, <1>9

\* Every book message is exactly its snapshot of the map, and every price change
\* exactly its change of one level, or what a removal uncovers of a price that the
\* last snapshot named twice, for any vectors a run can have built.
THEOREM MessagesAreTheirUpdates == Spec => MessagesDoAsTheySay
<1> DEFINE Says ==
       \A m \in Markets, a \in Assets :
          KnownTo(m, a) =>
            LET o == AssetOutcome[a]
            IN  /\ \A bids, asks \in SnapshotSides :
                      OnBookMessage(m, a, bids, asks)
                        => Abstract!Snapshot(m, o, LevelsOf(bids), LevelsOf(asks))
                /\ \A s \in Sides, p \in Prices, size \in Sizes \cup {0} :
                      OnPriceChange(m, a, s, p, size)
                        => \/ Abstract!ChangeLevel(m, o, s, p, size)
                           \/ /\ size <= 0 /\ p \in doubled[m][o][s]
                              /\ \E left \in Sizes : Abstract!Uncover(m, o, s, p, left)
<1>1. IInv => Says
    BY BookMessageIsSnapshot, PriceChangeIsChangeLevel
<1>2. QED
    BY <1>1, Invariance, PTL DEF MessagesDoAsTheySay

-----------------------------------------------------------------------------
(* The best price.                                                         *)

\* The price p is no better than q.
NoBetter(p, q, side) == IF side = "Buy" THEN p <= q ELSE q <= p

\* Of the longest part from the left that one position leads, that position
\* leads the whole.
LEMMA ExtremeExists ==
    ASSUME NEW seq \in LevelSeqs, seq # <<>>, NEW side
    PROVE  \E i \in DOMAIN seq : \A j \in DOMAIN seq :
              NoBetter(seq[j].price, seq[i].price, side)
<1>1. PICK n \in Nat : n = Len(seq) /\ DOMAIN seq = 1 .. n /\ n # 0
    BY DEF LevelSeqs
<1>2. \A i \in 1 .. n : seq[i].price \in Nat
    <2>1. \A i \in 1 .. n : seq[i] \in LevelRecords
        BY <1>1 DEF LevelSeqs
    <2>2. QED
        BY <2>1, PricesAssumption DEF LevelRecords
<1> DEFINE Leads(i, k) == \A j \in 1 .. k : NoBetter(seq[j].price, seq[i].price, side)
           K == {k \in Nat : k <= n /\ \E i \in 1 .. n : Leads(i, n - k)}
<1>3. n \in K
    <2>1. 1 \in 1 .. n /\ n - n = 0
        BY <1>1
    <2>2. Leads(1, n - n)
        BY <2>1
    <2>3. QED
        BY <2>1, <2>2
<1>4. PICK k \in Nat : k \in K /\ \A l \in K : k <= l
    <2>1. K \subseteq Nat /\ K # {}
        BY <1>3
    <2> HIDE DEF K
    <2>2. QED
        BY <2>1, LeastNatural
<1>5. k <= n /\ \E i \in 1 .. n : Leads(i, n - k)
    BY <1>4
<1>6. PICK i \in 1 .. n : Leads(i, n - k)
    BY <1>5
<1>7. \A l \in Nat : l <= n /\ (\E h \in 1 .. n : Leads(h, n - l)) => k <= l
    BY <1>4
<1> HIDE DEF K
<1>8. k = 0
    <2> SUFFICES ASSUME k # 0 PROVE FALSE
        OBVIOUS
    <2>1. k - 1 \in Nat /\ k - 1 <= n /\ ~(k <= k - 1)
        BY <1>1, <1>5
    <2>2. n - k + 1 \in 1 .. n
        BY <1>1, <1>5, <2>1
    <2>3. PICK e \in 1 .. n : e = n - k + 1
        BY <2>2
    <2>4. ASSUME NEW j \in 1 .. n - (k - 1) PROVE j \in 1 .. n - k \/ j = e
        <3>1. n \in Int /\ k \in Int /\ j \in Int /\ e \in Int
            BY <2>1
        <3>2. QED
            BY <2>3, <3>1
    <2>5. CASE NoBetter(seq[e].price, seq[i].price, side)
        <3>1. Leads(i, n - (k - 1))
            BY <1>6, <2>4, <2>5
        <3>2. QED
            BY <1>7, <2>1, <3>1
    <2>6. CASE ~NoBetter(seq[e].price, seq[i].price, side)
        <3>1. \A j \in 1 .. n - k : j \in 1 .. n
            BY <1>1, <1>5
        <3>2. \A j \in 1 .. n - k : NoBetter(seq[j].price, seq[e].price, side)
            BY <1>2, <1>6, <2>6, <3>1 DEF NoBetter
        <3>3. NoBetter(seq[e].price, seq[e].price, side)
            BY <1>2 DEF NoBetter
        <3>4. Leads(e, n - (k - 1))
            BY <2>4, <3>2, <3>3
        <3>5. QED
            BY <1>7, <2>1, <3>4
    <2>7. QED
        BY <2>5, <2>6
<1>9. Leads(i, n)
    BY <1>1, <1>6, <1>8
<1>10. QED
    BY <1>1, <1>9

\* The extreme element holds the best price of the map.
LEMMA BestIs ==
    ASSUME NEW seq \in LevelSeqs, seq # <<>>, NEW side
    PROVE  /\ BestOf(seq, side) \in PricesOf(seq) /\ BestOf(seq, side) \in Nat
           /\ BestOf(seq, side) = Abstract!Best(LevelsOf(seq), side)
<1> DEFINE Extreme(i) == \A j \in DOMAIN seq : NoBetter(seq[j].price, seq[i].price, side)
<1>1. PICK i : i = CHOOSE k \in DOMAIN seq : Extreme(k)
    OBVIOUS
<1>2. i \in DOMAIN seq /\ Extreme(i)
    BY <1>1, ExtremeExists
<1>3. BestOf(seq, side) = seq[i].price
    BY <1>1 DEF BestOf, NoBetter
<1>4. PICK b : b = seq[i].price
    OBVIOUS
<1>5. PricesOf(seq) \subseteq Nat
    <2>1. \A j \in DOMAIN seq : seq[j] \in LevelRecords
        BY DEF LevelSeqs
    <2>2. QED
        BY <2>1, PricesAssumption DEF LevelRecords, PricesOf
<1>6. b \in PricesOf(seq) /\ \A q \in PricesOf(seq) : NoBetter(q, b, side)
    BY <1>2, <1>4 DEF PricesOf
<1>7. \A p \in PricesOf(seq) : (\A q \in PricesOf(seq) : NoBetter(q, p, side)) => p = b
    <2> SUFFICES ASSUME NEW p \in PricesOf(seq), \A q \in PricesOf(seq) : NoBetter(q, p, side)
                 PROVE  p = b
        OBVIOUS
    <2>1. NoBetter(b, p, side) /\ NoBetter(p, b, side) /\ b \in Nat /\ p \in Nat
        BY <1>5, <1>6
    <2>2. QED
        BY <2>1 DEF NoBetter
<1>8. b = CHOOSE p \in PricesOf(seq) : \A q \in PricesOf(seq) : NoBetter(q, p, side)
    BY <1>6, <1>7
<1>9. DOMAIN LevelsOf(seq) = PricesOf(seq)
    BY DEF LevelsOf
<1>10. Abstract!Best(LevelsOf(seq), side) = b
    BY <1>8, <1>9 DEF Abstract!Best, NoBetter
<1>11. QED
    BY <1>3, <1>4, <1>5, <1>6, <1>10

\* max_element and min_element find the best price of the map, wherever the
\* vector keeps it (get_*_best_bid, get_*_best_ask).
THEOREM ExtremeIsBest == Spec => []BestIsExtreme
<1>1. IInv => BestIsExtreme
    BY BestIs DEF IInv, BestIsExtreme
<1>2. QED
    BY <1>1, Invariance, PTL

-----------------------------------------------------------------------------
(* Marks.                                                                  *)

LadderOf(sides) == [s \in Sides |-> LevelsOf(sides[s])]
Unquoted(ladders) == \A s \in Sides : DOMAIN ladders[s] = {}

\* The mid of the vectors is the mid of the map, 0 when there is no price.
LEMMA MidIs ==
    ASSUME NEW sides \in [Sides -> LevelSeqs]
    PROVE  /\ MidOf(sides) \in Nat
           /\ MidOf(sides) = IF Unquoted(LadderOf(sides)) THEN 0 ELSE AbstractMid(LadderOf(sides))
<1> DEFINE L == LadderOf(sides)
           B(s) == Abstract!Best(L[s], s)
<1>1. ASSUME NEW s \in Sides
      PROVE  /\ DOMAIN L[s] = {} <=> sides[s] = <<>>
             /\ sides[s] # <<>> => BestOf(sides[s], s) = B(s) /\ B(s) \in Nat
    <2>1. sides[s] \in LevelSeqs /\ L[s] = LevelsOf(sides[s]) /\ DOMAIN L[s] = PricesOf(sides[s])
        BY DEF LadderOf, LevelsOf
    <2>2. PricesOf(sides[s]) = {} => sides[s] = <<>>
        <3> SUFFICES ASSUME PricesOf(sides[s]) = {} PROVE sides[s] = <<>>
            OBVIOUS
        <3>1. PICK q \in LevelSeqs : q = sides[s]
            BY <2>1
        <3>2. DOMAIN q = {}
            BY <3>1 DEF PricesOf
        <3>3. Len(q) \in Nat /\ DOMAIN q = 1 .. Len(q)
            BY DEF LevelSeqs
        <3>4. Len(q) = 0
            BY <3>2, <3>3
        <3>5. QED
            BY <3>1, <3>4, EmptySeq DEF LevelSeqs
    <2>3. sides[s] = <<>> => PricesOf(sides[s]) = {}
        BY DEF PricesOf
    <2>4. QED
        BY <2>1, <2>2, <2>3, BestIs
<1>2. PICK buy : buy = B("Buy")
    OBVIOUS
<1>3. PICK sell : sell = B("Sell")
    OBVIOUS
<1>4. /\ sides["Buy"] # <<>> => BestOf(sides["Buy"], "Buy") = buy /\ buy \in Nat
      /\ sides["Sell"] # <<>> => BestOf(sides["Sell"], "Sell") = sell /\ sell \in Nat
    BY <1>1, <1>2, <1>3 DEF Sides
<1>5. MidOf(sides) = IF sides["Buy"] # <<>>
                       THEN IF sides["Sell"] # <<>> THEN buy + sell ELSE 2 * buy
                       ELSE IF sides["Sell"] # <<>> THEN 2 * sell ELSE 0
    <2>1. CASE sides["Buy"] # <<>> /\ sides["Sell"] # <<>>
        <3>1. MidOf(sides) = (2 * buy + 2 * sell) \div 2
            BY <1>4, <2>1 DEF MidOf
        <3>2. (2 * buy + 2 * sell) \div 2 = buy + sell
            BY <1>4, <2>1
        <3>3. QED
            BY <2>1, <3>1, <3>2
    <2>2. CASE sides["Buy"] # <<>> /\ sides["Sell"] = <<>>
        BY <1>4, <2>2 DEF MidOf
    <2>3. CASE sides["Buy"] = <<>> /\ sides["Sell"] # <<>>
        BY <1>4, <2>3 DEF MidOf
    <2>4. CASE sides["Buy"] = <<>> /\ sides["Sell"] = <<>>
        BY <2>4 DEF MidOf
    <2>5. QED
        BY <2>1, <2>2, <2>3, <2>4
<1>6. PICK quoted : quoted = {s \in Sides : DOMAIN L[s] # {}}
    OBVIOUS
<1>7. /\ quoted = {s \in Sides : sides[s] # <<>>}
      /\ Unquoted(L) <=> quoted = {}
    BY <1>1, <1>6 DEF Unquoted
<1>8. AbstractMid(L) = IF quoted = Sides THEN buy + sell ELSE 2 * B(CHOOSE s \in quoted : TRUE)
    BY <1>2, <1>3, <1>6 DEF AbstractMid
<1> HIDE DEF L
<1>9. CASE sides["Buy"] # <<>> /\ sides["Sell"] # <<>>
    <2>1. quoted = Sides /\ quoted # {}
        BY <1>7, <1>9 DEF Sides
    <2>2. QED
        BY <1>4, <1>5, <1>7, <1>8, <1>9, <2>1 DEF L
<1>10. CASE sides["Buy"] # <<>> /\ sides["Sell"] = <<>>
    <2>1. quoted = {"Buy"} /\ quoted # Sides
        BY <1>7, <1>10 DEF Sides
    <2>2. (CHOOSE s \in quoted : TRUE) = "Buy"
        BY <2>1
    <2>3. AbstractMid(L) = 2 * buy
        BY <1>2, <1>8, <2>1, <2>2
    <2>4. QED
        BY <1>4, <1>5, <1>7, <1>10, <2>1, <2>3 DEF L
<1>11. CASE sides["Buy"] = <<>> /\ sides["Sell"] # <<>>
    <2>1. quoted = {"Sell"} /\ quoted # Sides
        BY <1>7, <1>11 DEF Sides
    <2>2. (CHOOSE s \in quoted : TRUE) = "Sell"
        BY <2>1
    <2>3. AbstractMid(L) = 2 * sell
        BY <1>3, <1>8, <2>1, <2>2
    <2>4. QED
        BY <1>4, <1>5, <1>7, <1>11, <2>1, <2>3 DEF L
<1>12. CASE sides["Buy"] = <<>> /\ sides["Sell"] = <<>>
    <2>1. quoted = {}
        BY <1>7, <1>12 DEF Sides
    <2>2. QED
        BY <1>5, <1>7, <1>12, <2>1 DEF L
<1>13. QED
    BY <1>9, <1>10, <1>11, <1>12

\* A mid that is a price is the mark.
MarkInv ==
    /\ marks \in [Markets -> [Outcomes -> Nat]]
    /\ \A m \in Markets, o \in Outcomes :
          MidOf(vectors[m][o]) > 0 => marks[m][o] = MidOf(vectors[m][o])

\* A message changes the vectors of one outcome, and then marks it.
LEMMA MessageMarks ==
    ASSUME IInv, NEW m \in Markets, NEW a, KnownTo(m, a),
           \/ \E bids, asks \in SnapshotSides : OnBookMessage(m, a, bids, asks)
           \/ \E s \in Sides, p \in Prices, size \in Sizes \cup {0} :
                 OnPriceChange(m, a, s, p, size)
    PROVE  LET o == AssetOutcome[a] IN
           /\ o \in Outcomes /\ UpdateMtm(m, o)
           /\ \A k \in Markets, u \in Outcomes :
                 (k # m \/ u # o) => vectors'[k][u] = vectors[k][u]
<1>1. AssetOutcome[a] \in Outcomes
    BY DEF KnownTo
<1>2. ASSUME NEW bids, NEW asks, OnBookMessage(m, a, bids, asks)
      PROVE  /\ UpdateMtm(m, AssetOutcome[a])
             /\ \A k \in Markets, u \in Outcomes :
                   (k # m \/ u # AssetOutcome[a]) => vectors'[k][u] = vectors[k][u]
    BY <1>1, <1>2 DEF OnBookMessage, IInv
<1>3. ASSUME NEW s, NEW p, NEW size, OnPriceChange(m, a, s, p, size)
      PROVE  /\ UpdateMtm(m, AssetOutcome[a])
             /\ \A k \in Markets, u \in Outcomes :
                   (k # m \/ u # AssetOutcome[a]) => vectors'[k][u] = vectors[k][u]
    BY <1>1, <1>3 DEF OnPriceChange, IInv
<1>4. QED
    BY <1>1, <1>2, <1>3

\* What MarkFollowsBook says of a step.
MarkFollows ==
    \A m \in Markets, o \in Outcomes :
        LET sides == [s \in Sides |-> LevelsOf(vectors'[m][o][s])]
        IN  marks'[m][o] = IF (\A s \in Sides : DOMAIN sides[s] = {}) \/ AbstractMid(sides) = 0
                             THEN marks[m][o] ELSE AbstractMid(sides)

LEMMA MarkNext ==
    ASSUME IInv, MarkInv, [Next]_vars
    PROVE  MarkInv' /\ (MarkFollows \/ UNCHANGED vars)
<1>1. CASE UNCHANGED vars
    BY <1>1 DEF MarkInv, vars
<1>2. ASSUME NEW m \in Markets, NEW a, KnownTo(m, a),
             \/ \E bids, asks \in SnapshotSides : OnBookMessage(m, a, bids, asks)
             \/ \E s \in Sides, p \in Prices, size \in Sizes \cup {0} :
                   OnPriceChange(m, a, s, p, size)
      PROVE  MarkInv' /\ MarkFollows
    <2>1. PICK o \in Outcomes :
              /\ UpdateMtm(m, o)
              /\ \A k \in Markets, u \in Outcomes :
                    (k # m \/ u # o) => vectors'[k][u] = vectors[k][u]
        BY <1>2, MessageMarks
    <2>2. vectors' \in [Markets -> [Outcomes -> [Sides -> LevelSeqs]]]
        BY <1>2, OnBookMessageIInv, OnPriceChangeIInv DEF IInv
    <2>3. \A k \in Markets, u \in Outcomes :
             /\ MidOf(vectors'[k][u]) \in Nat
             /\ MidOf(vectors'[k][u]) = IF Unquoted(LadderOf(vectors'[k][u]))
                                          THEN 0 ELSE AbstractMid(LadderOf(vectors'[k][u]))
        BY <2>2, MidIs
    <2>4. PICK mid \in Nat : mid = MidOf(vectors'[m][o])
        BY <2>3
    <2>5. marks' = IF mid > 0 THEN [marks EXCEPT ![m][o] = mid] ELSE marks
        BY <2>1, <2>4 DEF UpdateMtm
    <2>6. marks' \in [Markets -> [Outcomes -> Nat]]
        BY <2>4, <2>5 DEF MarkInv
    <2>7. ASSUME NEW k \in Markets, NEW u \in Outcomes
          PROVE  marks'[k][u] = IF MidOf(vectors'[k][u]) = 0 THEN marks[k][u]
                                                           ELSE MidOf(vectors'[k][u])
        <3>1. CASE k = m /\ u = o
            BY <2>4, <2>5, <3>1 DEF MarkInv
        <3>2. CASE ~(k = m /\ u = o)
            <4>1. vectors'[k][u] = vectors[k][u] /\ marks'[k][u] = marks[k][u]
                BY <2>1, <2>5, <3>2 DEF MarkInv
            <4>2. MidOf(vectors[k][u]) \in Nat
                BY <2>3, <4>1
            <4>3. QED
                BY <4>1, <4>2 DEF MarkInv
        <3>3. QED
            BY <3>1, <3>2
    <2>8. MarkInv'
        BY <2>3, <2>6, <2>7 DEF MarkInv
    <2>9. MarkFollows
        <3>1. ASSUME NEW k \in Markets, NEW u \in Outcomes
              PROVE  marks'[k][u] = IF \/ Unquoted(LadderOf(vectors'[k][u]))
                                       \/ AbstractMid(LadderOf(vectors'[k][u])) = 0
                                      THEN marks[k][u] ELSE AbstractMid(LadderOf(vectors'[k][u]))
            BY <2>3, <2>7
        <3>2. QED
            BY <3>1 DEF MarkFollows, LadderOf, Unquoted
    <2>10. QED
        BY <2>8, <2>9
<1>3. CASE Next
    <2>1. PICK m \in Markets, a \in Assets :
              \/ \E bids, asks \in SnapshotSides : OnBookMessage(m, a, bids, asks)
              \/ \E s \in Sides, p \in Prices, size \in Sizes \cup {0} :
                    OnPriceChange(m, a, s, p, size)
              \/ UnknownAsset(m, a)
        BY <1>3 DEF Next
    <2>2. CASE UnknownAsset(m, a)
        BY <1>1, <2>2 DEF UnknownAsset
    <2>3. CASE ~UnknownAsset(m, a)
        <3>1. KnownTo(m, a)
            BY <2>1, <2>3 DEF OnBookMessage, OnPriceChange
        <3>2. QED
            BY <1>2, <2>1, <2>3, <3>1
    <2>4. QED
        BY <2>2, <2>3
<1>4. QED
    BY <1>1, <1>2, <1>3

\* An outcome's mark follows the best prices of its book, is set by no other
\* outcome's messages, and stays when the book becomes empty (update_mtm).
THEOREM MarksFollowBooks == Spec => MarkFollowsBook
<1>1. Init => MarkInv
    <2> SUFFICES ASSUME Init PROVE MarkInv
        OBVIOUS
    <2>1. marks \in [Markets -> [Outcomes -> Nat]]
        BY DEF Init
    <2>2. ASSUME NEW m \in Markets, NEW o \in Outcomes PROVE ~(MidOf(vectors[m][o]) > 0)
        <3>1. vectors[m][o] = [s \in Sides |-> <<>>]
            BY DEF Init
        <3>2. MidOf([s \in Sides |-> <<>>]) = 0 + 0
            BY DEF MidOf, Sides
        <3>3. QED
            BY <3>1, <3>2
    <2>3. QED
        BY <2>1, <2>2 DEF MarkInv
<1>2. IInv /\ MarkInv /\ [Next]_vars => MarkInv' /\ [MarkFollows]_vars
    BY MarkNext
<1>3. QED
    BY <1>1, <1>2, Invariance, PTL DEF Spec, MarkFollowsBook, MarkFollows

-----------------------------------------------------------------------------
(* The refinement.                                                         *)

\* A vector has a level at each price of its map.
LEMMA LevelsAtPrices ==
    ASSUME NEW seq \in LevelSeqs, NEW o, NEW s, NEW T,
           T = {<<o, s, p>> : p \in PricesOf(seq)}
    PROVE  IsFiniteSet(T) /\ Cardinality(T) \in Nat /\ Cardinality(T) <= Len(seq)
<1>1. PICK n \in Nat : n = Len(seq) /\ DOMAIN seq = 1 .. n
    BY DEF LevelSeqs
<1>2. PICK f : f = [i \in 1 .. n |-> <<o, s, seq[i].price>>]
    OBVIOUS
<1>3. f \in [1 .. n -> T] /\ \A t \in T : \E i \in 1 .. n : f[i] = t
    BY <1>1, <1>2 DEF PricesOf
<1>4. f \in Surjection(1 .. n, T)
    BY <1>3, Fun_IsSurj
<1>5. IsFiniteSet(1 .. n) /\ Cardinality(1 .. n) = n
    <2>1. /\ IsFiniteSet(1 .. n)
          /\ Cardinality(1 .. n) = IF 1 > n THEN 0 ELSE n - 1 + 1
        BY FS_Interval
    <2>2. QED
        BY <2>1
<1>6. IsFiniteSet(T) /\ Cardinality(T) <= n
    BY <1>4, <1>5, FS_Surjection
<1>7. QED
    BY <1>1, <1>6, FS_CardinalityType

LEMMA UnionBound ==
    ASSUME NEW S, NEW T, IsFiniteSet(S), IsFiniteSet(T), NEW a \in Nat, NEW b \in Nat,
           Cardinality(S) <= a, Cardinality(T) <= b
    PROVE  IsFiniteSet(S \cup T) /\ Cardinality(S \cup T) <= a + b
<1>1. Cardinality(S) \in Nat /\ Cardinality(T) \in Nat
    BY FS_CardinalityType
<1>2. IsFiniteSet(S \cap T) /\ Cardinality(S \cap T) \in Nat
    BY FS_Intersection, FS_CardinalityType
<1>3. /\ IsFiniteSet(S \cup T)
      /\ Cardinality(S \cup T) = Cardinality(S) + Cardinality(T) - Cardinality(S \cap T)
    BY FS_Union
<1>4. QED
    BY <1>1, <1>2, <1>3

\* The map has no more levels than the vectors.
LEMMA LevelCounts ==
    ASSUME NEW book \in [Outcomes -> [Sides -> LevelSeqs]]
    PROVE  /\ LevelCount(book) \in Nat
           /\ Abstract!LevelCount([o \in Outcomes |-> [s \in Sides |-> LevelsOf(book[o][s])]])
                 \in Nat
           /\ Abstract!LevelCount([o \in Outcomes |-> [s \in Sides |-> LevelsOf(book[o][s])]])
                 <= LevelCount(book)
<1> DEFINE Part(o, s) == {<<o, s, p>> : p \in PricesOf(book[o][s])}
           map == [o \in Outcomes |-> [s \in Sides |-> LevelsOf(book[o][s])]]
           All == {x \in Outcomes \X Sides \X Prices : x[3] \in DOMAIN map[x[1]][x[2]]}
<1>1. \A o \in Outcomes, s \in Sides :
         /\ IsFiniteSet(Part(o, s)) /\ Cardinality(Part(o, s)) \in Nat
         /\ Cardinality(Part(o, s)) <= Len(book[o][s]) /\ Len(book[o][s]) \in Nat
    <2> SUFFICES ASSUME NEW o \in Outcomes, NEW s \in Sides
                 PROVE  /\ IsFiniteSet(Part(o, s)) /\ Cardinality(Part(o, s)) \in Nat
                        /\ Cardinality(Part(o, s)) <= Len(book[o][s]) /\ Len(book[o][s]) \in Nat
        OBVIOUS
    <2>1. PICK seq \in LevelSeqs : seq = book[o][s]
        OBVIOUS
    <2>2. PICK T : T = {<<o, s, p>> : p \in PricesOf(seq)}
        OBVIOUS
    <2>3. IsFiniteSet(T) /\ Cardinality(T) \in Nat /\ Cardinality(T) <= Len(seq)
        BY <2>2, LevelsAtPrices, ZenonT(60)
    <2>4. Len(seq) \in Nat
        BY DEF LevelSeqs
    <2>5. T = Part(o, s)
        BY <2>1, <2>2
    <2>6. QED
        BY <2>1, <2>3, <2>4, <2>5
<1>2. PICK yb, ys, nb, ns :
          /\ yb = Part("Yes", "Buy") /\ ys = Part("Yes", "Sell")
          /\ nb = Part("No", "Buy") /\ ns = Part("No", "Sell")
    OBVIOUS
<1>3. PICK a \in Nat, b \in Nat, c \in Nat, d \in Nat :
          /\ a = Len(book["Yes"]["Buy"]) /\ b = Len(book["Yes"]["Sell"])
          /\ c = Len(book["No"]["Buy"]) /\ d = Len(book["No"]["Sell"])
    BY <1>1 DEF Outcomes, Sides
<1>4. /\ IsFiniteSet(yb) /\ Cardinality(yb) <= a
      /\ IsFiniteSet(ys) /\ Cardinality(ys) <= b
      /\ IsFiniteSet(nb) /\ Cardinality(nb) <= c
      /\ IsFiniteSet(ns) /\ Cardinality(ns) <= d
    BY <1>1, <1>2, <1>3 DEF Outcomes, Sides
<1>5. All = yb \cup ys \cup nb \cup ns
    <2>1. \A o \in Outcomes, s \in Sides : DOMAIN map[o][s] = PricesOf(book[o][s])
        BY DEF LevelsOf
    <2>2. \A o \in Outcomes, s \in Sides : PricesOf(book[o][s]) \subseteq Prices
        <3>1. \A o \in Outcomes, s \in Sides : \A i \in DOMAIN book[o][s] :
                  book[o][s][i] \in LevelRecords
            BY DEF LevelSeqs
        <3>2. QED
            BY <3>1 DEF LevelRecords, PricesOf
    <2> HIDE DEF map
    <2>3. All = {x \in Outcomes \X Sides \X Prices : x \in Part(x[1], x[2])}
        BY <2>1
    <2>4. \A x \in All : x \in yb \cup ys \cup nb \cup ns
        BY <1>2, <2>3 DEF Outcomes, Sides
    <2>5. \A o \in Outcomes, s \in Sides : Part(o, s) \subseteq All
        BY <2>1, <2>2
    <2>6. QED
        BY <1>2, <2>4, <2>5 DEF Outcomes, Sides
<1> HIDE DEF All
<1>6. PICK y, n : y = yb \cup ys /\ n = nb \cup ns
    OBVIOUS
<1>7. /\ IsFiniteSet(y) /\ Cardinality(y) <= a + b
      /\ IsFiniteSet(n) /\ Cardinality(n) <= c + d
    BY <1>4, <1>6, UnionBound
<1>8. IsFiniteSet(All) /\ Cardinality(All) <= a + b + c + d
    <2>1. a + b \in Nat /\ c + d \in Nat /\ (a + b) + (c + d) = a + b + c + d
        OBVIOUS
    <2>2. IsFiniteSet(y \cup n) /\ Cardinality(y \cup n) <= (a + b) + (c + d)
        BY <1>7, <2>1, UnionBound
    <2>3. All = y \cup n
        BY <1>5, <1>6
    <2>4. QED
        BY <2>1, <2>2, <2>3
<1>9. Cardinality(All) \in Nat
    BY <1>8, FS_CardinalityType
<1>10. LevelCount(book) = a + b + c + d
    BY <1>3 DEF LevelCount
<1>11. Abstract!LevelCount(map) = Cardinality(All)
    BY DEF Abstract!LevelCount, Abstract!Outcomes, Abstract!Sides, Outcomes, Sides, All,
           Abstract!Cardinality, Cardinality, Abstract!IsFiniteSet, IsFiniteSet
<1>12. QED
    BY <1>8, <1>9, <1>10, <1>11

\* Whatever the snapshots and changes, the vectors are the price -> size map of
\* LevelBook: each message is an update of the map, and no other.
THEOREM BookImplementsLevelBook == Spec => ImplementsLevelBook
<1> DEFINE levels == [m \in Markets |-> [o \in Outcomes |->
                         [s \in Sides |-> LevelsOf(vectors[m][o][s])]]]
<1>1. Init => Abstract!LevelBookInit
    <2> SUFFICES ASSUME Init PROVE Abstract!LevelBookInit
        OBVIOUS
    <2>1. LevelsOf(<<>>) = [p \in {} |-> 0]
        <3>1. PricesOf(<<>>) = {}
            BY DEF PricesOf
        <3>2. QED
            BY <3>1 DEF LevelsOf
    <2>2. levels = [m \in Markets |-> [o \in Outcomes |-> [s \in Sides |-> [p \in {} |-> 0]]]]
        BY <2>1 DEF Init
    <2>3. QED
        BY <2>2 DEF Abstract!LevelBookInit, Abstract!NoLevels, Abstract!Outcomes, Abstract!Sides,
                    Outcomes, Sides
<1>2. IInv /\ [Next]_vars => [Abstract!LevelBookNext]_levels
    <2> SUFFICES ASSUME IInv, [Next]_vars PROVE [Abstract!LevelBookNext]_levels
        OBVIOUS
    <2>1. CASE UNCHANGED vars
        BY <2>1 DEF vars
    <2>2. CASE Next
        <3>1. ASSUME NEW m \in Markets, NEW a \in Assets,
                     NEW bids \in SnapshotSides, NEW asks \in SnapshotSides,
                     OnBookMessage(m, a, bids, asks)
              PROVE  Abstract!BookUpdate
            <4>1. AssetOutcome[a] \in Outcomes
                BY <3>1 DEF OnBookMessage, KnownTo
            <4>2. Abstract!Snapshot(m, AssetOutcome[a], LevelsOf(bids), LevelsOf(asks))
                BY <3>1, BookMessageIsSnapshot
            <4>3. QED
                BY <4>1, <4>2 DEF Abstract!BookUpdate, Abstract!Outcomes, Outcomes
        <3>2. ASSUME NEW m \in Markets, NEW a \in Assets, NEW s \in Sides, NEW p \in Prices,
                     NEW size \in Sizes \cup {0}, OnPriceChange(m, a, s, p, size)
              PROVE  Abstract!BookUpdate
            <4>1. AssetOutcome[a] \in Outcomes
                BY <3>2 DEF OnPriceChange, KnownTo
            <4>2. \/ Abstract!ChangeLevel(m, AssetOutcome[a], s, p, size)
                  \/ \E left \in Sizes : Abstract!Uncover(m, AssetOutcome[a], s, p, left)
                BY <3>2, PriceChangeIsChangeLevel
            <4>3. QED
                BY <4>1, <4>2 DEF Abstract!BookUpdate, Abstract!Outcomes, Outcomes, Abstract!Sides,
                                  Sides
        <3>3. Abstract!WithinBound
            <4> SUFFICES ASSUME NEW m \in Markets
                         PROVE  Abstract!LevelCount(levels'[m]) <= MaxLevels
                BY DEF Abstract!WithinBound
            <4>1. vectors' \in [Markets -> [Outcomes -> [Sides -> LevelSeqs]]]
                BY NextIInv DEF IInv
            <4>2. PICK book \in [Outcomes -> [Sides -> LevelSeqs]] : book = vectors'[m]
                BY <4>1
            <4>3. /\ LevelCount(book) \in Nat
                  /\ Abstract!LevelCount([o \in Outcomes |->
                                            [s \in Sides |-> LevelsOf(book[o][s])]]) \in Nat
                  /\ Abstract!LevelCount([o \in Outcomes |->
                                            [s \in Sides |-> LevelsOf(book[o][s])]])
                        <= LevelCount(book)
                BY LevelCounts
            <4>4. LevelCount(book) <= MaxLevels
                BY <2>2, <4>2 DEF Next
            <4>5. levels'[m] = [o \in Outcomes |-> [s \in Sides |-> LevelsOf(book[o][s])]]
                BY <4>2
            <4> HIDE DEF levels
            <4>6. QED
                BY <4>3, <4>4, <4>5, MaxLevelsAssumption
        <3>4. PICK m \in Markets, a \in Assets :
                  \/ \E bids, asks \in SnapshotSides : OnBookMessage(m, a, bids, asks)
                  \/ \E s \in Sides, p \in Prices, size \in Sizes \cup {0} :
                        OnPriceChange(m, a, s, p, size)
                  \/ UnknownAsset(m, a)
            BY <2>2 DEF Next
        <3>5. CASE UnknownAsset(m, a)
            BY <2>1, <3>5 DEF UnknownAsset
        <3>6. CASE ~UnknownAsset(m, a)
            <4>1. Abstract!BookUpdate
                BY <3>1, <3>2, <3>4, <3>6
            <4>2. QED
                BY <3>3, <4>1 DEF Abstract!LevelBookNext
        <3>7. QED
            BY <3>5, <3>6
    <2>3. QED
        BY <2>1, <2>2
<1>3. QED
    BY <1>1, <1>2, Invariance, PTL DEF Spec, ImplementsLevelBook, Abstract!LevelBookSpec
==============================================================================
