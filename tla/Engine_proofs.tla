---------------------------- MODULE Engine_proofs ----------------------------
(***************************************************************************)
(* Theorems about Engine for any markets, number of orders and nesting of  *)
(* callbacks: what becomes of the fill of an order.                        *)
(***************************************************************************)
EXTENDS Engine, SequenceTheorems, WellFoundedInduction, TLAPS

Steps == {Call, Strategy} \cup {Tell(id) : id \in Ids} \cup {Book(id) : id \in Ids}
            \cup {Retire(m) : m \in AllMarkets}

TypeOK ==
    /\ orders \in Seq(AllMarkets) /\ Len(orders) <= MaxOrders
    /\ agenda \in Seq(Steps)
    /\ told \in Seq(Ids) /\ booked \in Seq(Ids)
    /\ resting \subseteq 1 .. Len(orders) /\ cancelled \subseteq 1 .. Len(orders)

\* The two reports of a fill are next to each other until the first is made.
PairsTogether ==
    \A i \in DOMAIN agenda, id \in Ids :
        /\ agenda[i] = Tell(id) => i + 1 \in DOMAIN agenda /\ agenda[i + 1] = Book(id)
        /\ agenda[i] = Book(id) /\ id \notin ToSet(told)
              => i - 1 \in DOMAIN agenda /\ agenda[i - 1] = Tell(id)

\* No report waits twice, or waits after it was made.
ReportsAreNew ==
    /\ \A i, j \in DOMAIN agenda, id \in Ids :
          agenda[i] = Book(id) /\ agenda[j] = Book(id) => i = j
    /\ \A i \in DOMAIN agenda, id \in Ids :
          /\ agenda[i] = Tell(id) => id \notin ToSet(told)
          /\ agenda[i] = Book(id) => id \notin ToSet(booked)

\* The order of a fill was numbered, and rests no more.
FilledHasLeft ==
    /\ \A i \in DOMAIN agenda, id \in Ids :
          agenda[i] = Book(id) => id \in 1 .. Len(orders) /\ id \notin resting \cup cancelled
    /\ \A id \in ToSet(told) : id \in 1 .. Len(orders) /\ id \notin resting \cup cancelled
    /\ resting \cap cancelled = {}

IInv ==
    /\ TypeOK /\ PairsTogether /\ ReportsAreNew /\ FilledHasLeft
    /\ FillsReportedOnce /\ NoFillForgotten

USE MarketsAssumption, BoundsAssumption

-----------------------------------------------------------------------------
(* Steps and sequences of them.                                            *)

LEMMA StepsDiffer ==
    /\ \A i, j \in Ids : /\ Tell(i) # Book(j)
                         /\ Tell(i) = Tell(j) => i = j
                         /\ Book(i) = Book(j) => i = j
    /\ \A i \in Ids : /\ Tell(i) # Call /\ Tell(i) # Strategy
                      /\ Book(i) # Call /\ Book(i) # Strategy
    /\ \A i \in Ids, m \in AllMarkets : Tell(i) # Retire(m) /\ Book(i) # Retire(m)
    /\ Call # Strategy
BY DEF Tell, Book, Call, Strategy, Retire

LEMMA StepsTypes ==
    /\ Call \in Steps /\ Strategy \in Steps
    /\ \A i \in Ids : Tell(i) \in Steps /\ Book(i) \in Steps
    /\ \A m \in AllMarkets : Retire(m) \in Steps
BY DEF Steps

LEMMA AppendToSet ==
    ASSUME NEW S, NEW s \in Seq(S), NEW e \in S
    PROVE  /\ ToSet(Append(s, e)) = ToSet(s) \cup {e}
           /\ Append(s, e) \in Seq(S)
           /\ DOMAIN Append(s, e) = 1 .. Len(s) + 1 /\ Append(s, e)[Len(s) + 1] = e
           /\ \A i \in 1 .. Len(s) : Append(s, e)[i] = s[i]
           /\ DOMAIN s = 1 .. Len(s) /\ Len(s) \in Nat
<1> DEFINE r == Append(s, e)
<1>1. /\ r \in Seq(S) /\ Len(r) = Len(s) + 1 /\ r[Len(s) + 1] = e
      /\ \A i \in 1 .. Len(s) : r[i] = s[i]
      /\ Len(s) \in Nat /\ DOMAIN s = 1 .. Len(s) /\ DOMAIN r = 1 .. Len(r)
    BY AppendProperties, LenProperties
<1> HIDE DEF r
<1>2. ToSet(r) = ToSet(s) \cup {e}
    <2>1. ASSUME NEW x \in ToSet(r) PROVE x \in ToSet(s) \cup {e}
        BY <1>1 DEF ToSet
    <2>2. ASSUME NEW x \in ToSet(s) PROVE x \in ToSet(r)
        <3>1. PICK i \in 1 .. Len(s) : s[i] = x
            BY <1>1 DEF ToSet
        <3>2. i \in DOMAIN r /\ r[i] = x
            BY <1>1, <3>1
        <3>3. QED
            BY <3>2 DEF ToSet
    <2>3. e \in ToSet(r)
        BY <1>1 DEF ToSet
    <2>4. QED
        BY <2>1, <2>2, <2>3
<1>3. QED
    BY <1>1, <1>2 DEF r

\* The step on top is replaced by a callback that runs.
LEMMA Replaced ==
    ASSUME NEW a \in Seq(Steps), a # <<>>
    PROVE  LET r == <<Strategy>> \o Tail(a)
           IN  /\ r \in Seq(Steps) /\ Len(r) = Len(a) /\ r[1] = Strategy
               /\ \A i \in 2 .. Len(a) : r[i] = a[i]
<1> DEFINE h == <<Strategy>>
           t == Tail(a)
           r == h \o t
<1>1. h \in Seq(Steps) /\ Len(h) = 1 /\ h[1] = Strategy
    BY StepsTypes
<1>2. /\ t \in Seq(Steps) /\ Len(t) = Len(a) - 1
      /\ \A i \in 1 .. Len(t) : t[i] = a[i + 1]
      /\ Len(a) \in Nat
    BY HeadTailProperties, LenProperties
<1> HIDE DEF h, t
<1>3. /\ r \in Seq(Steps) /\ Len(r) = Len(h) + Len(t)
      /\ \A i \in 1 .. Len(h) + Len(t) :
            r[i] = IF i <= Len(h) THEN h[i] ELSE t[i - Len(h)]
    BY <1>1, <1>2, ConcatProperties
<1> HIDE DEF r
<1>4. r[1] = Strategy
    <2>1. 1 \in 1 .. Len(h) + Len(t)
        BY <1>1, <1>2, LenProperties
    <2>2. QED
        BY <1>1, <1>3, <2>1
<1>5. ASSUME NEW i \in 2 .. Len(a) PROVE r[i] = a[i]
    <2>1. i \in 1 .. Len(h) + Len(t) /\ ~(i <= Len(h)) /\ i - 1 \in 1 .. Len(t)
        BY <1>1, <1>2
    <2>2. r[i] = t[i - 1]
        BY <1>1, <1>3, <2>1
    <2>3. QED
        BY <1>2, <2>1, <2>2
<1>6. QED
    BY <1>1, <1>2, <1>3, <1>4, <1>5 DEF r, h, t

\* Two reports are put on top.
LEMMA Pushed ==
    ASSUME NEW a \in Seq(Steps), NEW x \in Steps, NEW y \in Steps
    PROVE  LET r == <<x, y>> \o a
           IN  /\ r \in Seq(Steps) /\ Len(r) = Len(a) + 2 /\ r[1] = x /\ r[2] = y
               /\ \A i \in 3 .. Len(r) : r[i] = a[i - 2]
<1> DEFINE h == <<x, y>>
           r == h \o a
<1>1. h \in Seq(Steps) /\ Len(h) = 2 /\ h[1] = x /\ h[2] = y
    OBVIOUS
<1>2. Len(a) \in Nat
    BY LenProperties
<1> HIDE DEF h
<1>3. /\ r \in Seq(Steps) /\ Len(r) = Len(h) + Len(a)
      /\ \A i \in 1 .. Len(h) + Len(a) :
            r[i] = IF i <= Len(h) THEN h[i] ELSE a[i - Len(h)]
    BY <1>1, ConcatProperties
<1> HIDE DEF r
<1>4. QED
    BY <1>1, <1>2, <1>3 DEF r, h

\* The reports of a trade, from the first order to the last.
LEMMA ReportsShape ==
    ASSUME NEW ids \in Seq(Ids)
    PROVE  LET r == Reports(ids) \o <<Call>>
               n == Len(ids)
           IN  /\ n \in Nat /\ r \in Seq(Steps) /\ Len(r) = 2 * n + 1 /\ r[2 * n + 1] = Call
               /\ \A j \in 1 .. n : r[2 * j - 1] = Tell(ids[j]) /\ r[2 * j] = Book(ids[j])
               /\ \A i \in 1 .. 2 * n : \E j \in 1 .. n : i = 2 * j - 1 \/ i = 2 * j
<1> DEFINE q == Reports(ids)
           c == <<Call>>
           r == q \o c
           n == Len(ids)
<1>1. n \in Nat /\ ids \in [1 .. n -> Ids]
    BY LenProperties
<1> HIDE DEF n
<1>2. \A i \in 1 .. 2 * n : \E j \in 1 .. n : i = 2 * j - 1 \/ i = 2 * j
    <2> SUFFICES ASSUME NEW i \in 1 .. 2 * n
                 PROVE  \E j \in 1 .. n : i = 2 * j - 1 \/ i = 2 * j
        OBVIOUS
    <2>1. (i + 1) \div 2 \in 1 .. n
        BY <1>1
    <2>2. i = 2 * ((i + 1) \div 2) - 1 \/ i = 2 * ((i + 1) \div 2)
        BY <1>1
    <2>3. QED
        BY <2>1, <2>2
<1>3. q = [i \in 1 .. 2 * n |->
             IF i % 2 = 1 THEN Tell(ids[(i + 1) \div 2]) ELSE Book(ids[i \div 2])]
    BY DEF Reports, n
<1>4. \A j \in 1 .. n : q[2 * j - 1] = Tell(ids[j]) /\ q[2 * j] = Book(ids[j])
    <2> SUFFICES ASSUME NEW j \in 1 .. n
                 PROVE  q[2 * j - 1] = Tell(ids[j]) /\ q[2 * j] = Book(ids[j])
        OBVIOUS
    <2>1. /\ 2 * j - 1 \in 1 .. 2 * n /\ 2 * j \in 1 .. 2 * n
          /\ (2 * j - 1) % 2 = 1 /\ (2 * j) % 2 = 0
          /\ ((2 * j - 1) + 1) \div 2 = j /\ (2 * j) \div 2 = j
        BY <1>1
    <2>2. QED
        BY <1>3, <2>1
<1> HIDE DEF q
<1>5. \A i \in 1 .. 2 * n : q[i] \in Steps
    <2> SUFFICES ASSUME NEW i \in 1 .. 2 * n PROVE q[i] \in Steps
        OBVIOUS
    <2>1. PICK j \in 1 .. n : i = 2 * j - 1 \/ i = 2 * j
        BY <1>2
    <2>2. ids[j] \in Ids
        BY <1>1
    <2>3. QED
        BY <1>4, <2>1, <2>2, StepsTypes
<1>6. q \in [1 .. 2 * n -> Steps]
    <2> DEFINE D == 1 .. 2 * n
               F(i) == IF i % 2 = 1 THEN Tell(ids[(i + 1) \div 2]) ELSE Book(ids[i \div 2])
    <2>1. q = [i \in D |-> F(i)] /\ \A i \in D : q[i] \in Steps
        BY <1>3, <1>5
    <2> HIDE DEF D, F
    <2>2. q \in [D -> Steps]
        BY <2>1
    <2>3. QED
        BY <2>2 DEF D
<1>7. 2 * n \in Nat
    BY <1>1
<1>8. q \in Seq(Steps) /\ Len(q) = 2 * n
    <2>1. q \in Seq(Steps)
        BY <1>6, <1>7, SeqDef
    <2>2. Len(q) \in Nat /\ DOMAIN q = 1 .. Len(q)
        BY <2>1, LenProperties
    <2>3. 1 .. Len(q) = 1 .. 2 * n
        BY <1>6, <2>2
    <2>4. QED
        BY <1>7, <2>1, <2>2, <2>3
<1>9. c \in Seq(Steps) /\ Len(c) = 1 /\ c[1] = Call
    BY StepsTypes
<1> HIDE DEF c
<1>10. /\ r \in Seq(Steps) /\ Len(r) = 2 * n + 1
       /\ \A i \in 1 .. 2 * n + 1 : r[i] = IF i <= 2 * n THEN q[i] ELSE c[i - 2 * n]
    <2>1. /\ r \in Seq(Steps) /\ Len(r) = Len(q) + Len(c)
          /\ \A i \in 1 .. Len(q) + Len(c) :
                r[i] = IF i <= Len(q) THEN q[i] ELSE c[i - Len(q)]
        BY <1>8, <1>9, ConcatProperties
    <2> HIDE DEF r
    <2>2. QED
        BY <1>8, <1>9, <2>1
<1> HIDE DEF r
<1>11. r[2 * n + 1] = Call
    <2>1. 2 * n + 1 \in 1 .. 2 * n + 1 /\ ~(2 * n + 1 <= 2 * n) /\ (2 * n + 1) - 2 * n = 1
        BY <1>1
    <2>2. QED
        BY <1>9, <1>10, <2>1
<1>12. \A j \in 1 .. n : r[2 * j - 1] = Tell(ids[j]) /\ r[2 * j] = Book(ids[j])
    <2> SUFFICES ASSUME NEW j \in 1 .. n
                 PROVE  r[2 * j - 1] = Tell(ids[j]) /\ r[2 * j] = Book(ids[j])
        OBVIOUS
    <2>1. /\ 2 * j - 1 \in 1 .. 2 * n + 1 /\ 2 * j \in 1 .. 2 * n + 1
          /\ 2 * j - 1 <= 2 * n /\ 2 * j <= 2 * n
        BY <1>1
    <2>2. QED
        BY <1>4, <1>10, <2>1
<1>13. QED
    BY <1>1, <1>2, <1>10, <1>11, <1>12 DEF r, n, q, c

-----------------------------------------------------------------------------
(* The inductive invariant.                                                *)

LEMMA InitIInv == Init => IInv
<1> SUFFICES ASSUME Init PROVE IInv
    OBVIOUS
<1>1. <<>> \in Seq(AllMarkets) /\ <<>> \in Seq(Steps) /\ <<>> \in Seq(Ids) /\ Len(<<>>) = 0
    OBVIOUS
<1>2. DOMAIN <<>> = {} /\ ToSet(<<>>) = {}
    BY DEF ToSet
<1>3. QED
    BY <1>1, <1>2
       DEF Init, IInv, TypeOK, PairsTogether, ReportsAreNew, FilledHasLeft,
           FillsReportedOnce, NoFillForgotten

LEMMA Domains ==
    ASSUME TypeOK
    PROVE  /\ Len(agenda) \in Nat /\ DOMAIN agenda = 1 .. Len(agenda)
           /\ Len(told) \in Nat /\ DOMAIN told = 1 .. Len(told)
           /\ Len(booked) \in Nat /\ DOMAIN booked = 1 .. Len(booked)
           /\ Len(orders) \in Nat /\ 1 .. Len(orders) \subseteq Ids
           /\ \A id \in ToSet(told) \cup ToSet(booked) : id \in Ids
<1>1. /\ Len(agenda) \in Nat /\ DOMAIN agenda = 1 .. Len(agenda)
      /\ Len(told) \in Nat /\ DOMAIN told = 1 .. Len(told)
      /\ Len(booked) \in Nat /\ DOMAIN booked = 1 .. Len(booked)
      /\ Len(orders) \in Nat
    BY LenProperties DEF TypeOK
<1>2. 1 .. Len(orders) \subseteq Ids
    BY <1>1 DEF TypeOK, Ids
<1>3. \A id \in ToSet(told) \cup ToSet(booked) : id \in Ids
    BY <1>1, ElementOfSeq DEF TypeOK, ToSet
<1>4. QED
    BY <1>1, <1>2, <1>3

\* What was on the agenda above position k is gone, and perhaps a callback
\* began in place of the topmost step that is left.
Shrunk(k) ==
    /\ k \in 0 .. Len(agenda)
    /\ agenda' \in Seq(Steps) /\ Len(agenda') = Len(agenda) - k
    /\ \A i \in 1 .. Len(agenda') :
          agenda'[i] = agenda[i + k] \/ (i = 1 /\ agenda'[i] = Strategy)

\* That takes no pair of reports apart if no report was cut off below its
\* first half, and the first half that began is history.
LEMMA ShrunkKeeps ==
    ASSUME IInv, NEW k \in Nat, Shrunk(k),
           agenda' # <<>> => \/ agenda'[1] = Strategy
                             \/ \A id \in Ids : k \in DOMAIN agenda => agenda[k] # Tell(id),
           \A id \in Ids : agenda' # <<>> /\ agenda'[1] = Strategy =>
               (agenda[1 + k] = Tell(id) => id \in ToSet(told')),
           ToSet(told) \subseteq ToSet(told')
    PROVE  /\ PairsTogether'
           /\ \A i \in DOMAIN agenda', id \in Ids :
                 agenda'[i] \in {Tell(id), Book(id)} => agenda'[i] = agenda[i + k]
           /\ \A i \in DOMAIN agenda' : i + k \in DOMAIN agenda
           /\ \A i, j \in DOMAIN agenda', id \in Ids :
                 agenda'[i] = Book(id) /\ agenda'[j] = Book(id) => i = j
<1>1. /\ Len(agenda) \in Nat /\ DOMAIN agenda = 1 .. Len(agenda)
      /\ Len(agenda') \in Nat /\ DOMAIN agenda' = 1 .. Len(agenda')
      /\ Len(agenda') = Len(agenda) - k
    BY Domains, LenProperties DEF IInv, Shrunk
<1>2. \A i \in DOMAIN agenda' : i + k \in DOMAIN agenda
    BY <1>1
<1>3. \A i \in DOMAIN agenda', id \in Ids :
         agenda'[i] \in {Tell(id), Book(id)} => agenda'[i] = agenda[i + k]
    BY <1>1, StepsDiffer DEF Shrunk
<1>4. \A i, j \in DOMAIN agenda', id \in Ids :
         agenda'[i] = Book(id) /\ agenda'[j] = Book(id) => i = j
    BY <1>1, <1>2, <1>3 DEF IInv, ReportsAreNew
<1>5. \A i \in DOMAIN agenda' : i # 1 => agenda'[i] = agenda[i + k]
    BY <1>1 DEF Shrunk
<1>6. PairsTogether'
    <2>1. ASSUME NEW i \in DOMAIN agenda', NEW id \in Ids, agenda'[i] = Tell(id)
          PROVE  i + 1 \in DOMAIN agenda' /\ agenda'[i + 1] = Book(id)
        <3>1. agenda[i + k] = Tell(id) /\ i + k \in DOMAIN agenda
            BY <1>2, <1>3, <2>1
        <3>2. i + k + 1 \in DOMAIN agenda /\ agenda[i + k + 1] = Book(id)
            BY <3>1 DEF IInv, PairsTogether
        <3>3. i + 1 \in DOMAIN agenda' /\ i + 1 # 1 /\ (i + 1) + k = i + k + 1
            BY <1>1, <3>2
        <3>4. QED
            BY <1>5, <3>2, <3>3
    <2>2. ASSUME NEW i \in DOMAIN agenda', NEW id \in Ids, agenda'[i] = Book(id),
                 id \notin ToSet(told')
          PROVE  i - 1 \in DOMAIN agenda' /\ agenda'[i - 1] = Tell(id)
        <3>1. agenda[i + k] = Book(id) /\ i + k \in DOMAIN agenda
            BY <1>2, <1>3, <2>2
        <3>2. (i + k) - 1 \in DOMAIN agenda /\ agenda[(i + k) - 1] = Tell(id)
            BY <2>2, <3>1 DEF IInv, PairsTogether
        <3>3. CASE i = 1
            <4>1. k \in DOMAIN agenda /\ agenda[k] = Tell(id)
                BY <1>1, <3>2, <3>3
            <4>2. agenda' # <<>>
                BY <1>1, <3>3
            <4>3. agenda'[1] = Strategy
                BY <4>1, <4>2
            <4>4. QED
                BY <2>2, <3>3, <4>3, StepsDiffer
        <3>4. CASE i # 1
            <4>1. i - 1 \in DOMAIN agenda' /\ (i - 1) + k = (i + k) - 1
                BY <1>1, <3>4
            <4>2. CASE agenda'[i - 1] = agenda[(i - 1) + k]
                BY <3>2, <4>1, <4>2
            <4>3. CASE i - 1 = 1 /\ agenda'[i - 1] = Strategy
                <5>1. agenda[1 + k] = Tell(id) /\ agenda' # <<>>
                    BY <1>1, <3>2, <4>1, <4>3
                <5>2. id \in ToSet(told')
                    BY <4>3, <5>1
                <5>3. QED
                    BY <2>2, <5>2
            <4>4. QED
                BY <1>1, <4>1, <4>2, <4>3 DEF Shrunk
        <3>5. QED
            BY <3>3, <3>4
    <2>3. QED
        BY <2>1, <2>2 DEF PairsTogether
<1>7. QED
    BY <1>2, <1>3, <1>4, <1>6

\* A step off the agenda that is no report of a fill.
LEMMA ShrunkIInv ==
    ASSUME IInv, NEW k \in Nat, Shrunk(k),
           agenda' # <<>> => \/ agenda'[1] = Strategy
                             \/ \A id \in Ids : k \in DOMAIN agenda => agenda[k] # Tell(id),
           \A id \in Ids : agenda' # <<>> /\ agenda'[1] = Strategy => agenda[1 + k] # Tell(id),
           UNCHANGED <<orders, resting, cancelled, told, booked>>,
           \/ raised'
           \/ /\ raised' = raised
              /\ \A id \in Ids : Book(id) \in ToSet(agenda) => Book(id) \in ToSet(agenda')
    PROVE  IInv'
<1>1. /\ PairsTogether'
      /\ \A i \in DOMAIN agenda', id \in Ids :
            agenda'[i] \in {Tell(id), Book(id)} => agenda'[i] = agenda[i + k]
      /\ \A i \in DOMAIN agenda' : i + k \in DOMAIN agenda
      /\ \A i, j \in DOMAIN agenda', id \in Ids :
            agenda'[i] = Book(id) /\ agenda'[j] = Book(id) => i = j
    <2>1. \A id \in Ids : agenda' # <<>> /\ agenda'[1] = Strategy =>
               (agenda[1 + k] = Tell(id) => id \in ToSet(told'))
        OBVIOUS
    <2>2. ToSet(told) \subseteq ToSet(told')
        OBVIOUS
    <2>3. QED
        BY <2>1, <2>2, ShrunkKeeps
<1>2. TypeOK'
    BY DEF IInv, TypeOK, Shrunk
<1>3. ReportsAreNew' /\ FilledHasLeft'
    BY <1>1 DEF IInv, ReportsAreNew, FilledHasLeft
<1>4. FillsReportedOnce'
    BY DEF IInv, FillsReportedOnce
<1>5. NoFillForgotten'
    <2>1. \A id \in ToSet(told) : id \in Ids
        BY Domains DEF IInv
    <2>2. QED
        BY <2>1 DEF IInv, NoFillForgotten
<1>6. QED
    BY <1>1, <1>2, <1>3, <1>4, <1>5 DEF IInv

\* What stays below the top when the top is replaced, or taken off.
LEMMA TopReplaced ==
    ASSUME TypeOK, agenda # <<>>, agenda' = <<Strategy>> \o Tail(agenda)
    PROVE  /\ Shrunk(0) /\ agenda'[1] = Strategy
           /\ \A i \in DOMAIN agenda : i # 1 => i \in DOMAIN agenda' /\ agenda'[i] = agenda[i]
           /\ 1 \in DOMAIN agenda /\ agenda[1] = Head(agenda)
<1>1. agenda \in Seq(Steps)
    BY DEF TypeOK
<1>2. /\ agenda' \in Seq(Steps) /\ Len(agenda') = Len(agenda) /\ agenda'[1] = Strategy
      /\ \A i \in 2 .. Len(agenda) : agenda'[i] = agenda[i]
    BY <1>1, Replaced
<1>3. Len(agenda) \in Nat /\ DOMAIN agenda = 1 .. Len(agenda) /\ DOMAIN agenda' = 1 .. Len(agenda)
    BY <1>1, <1>2, LenProperties
<1>4. Len(agenda) # 0
    BY <1>1, EmptySeq
<1>5. QED
    BY <1>2, <1>3, <1>4 DEF Shrunk

LEMMA TopTaken ==
    ASSUME TypeOK, agenda # <<>>, agenda' = Tail(agenda)
    PROVE  /\ Shrunk(1)
           /\ \A i \in DOMAIN agenda :
                 i # 1 => i - 1 \in DOMAIN agenda' /\ agenda'[i - 1] = agenda[i]
           /\ 1 \in DOMAIN agenda /\ agenda[1] = Head(agenda)
<1>1. agenda \in Seq(Steps)
    BY DEF TypeOK
<1>2. /\ agenda' \in Seq(Steps) /\ Len(agenda') = Len(agenda) - 1
      /\ \A i \in 1 .. Len(agenda') : agenda'[i] = agenda[i + 1]
    BY <1>1, HeadTailProperties
<1>3. Len(agenda) \in Nat /\ DOMAIN agenda = 1 .. Len(agenda) /\ DOMAIN agenda' = 1 .. Len(agenda')
    BY <1>1, <1>2, LenProperties
<1>4. Len(agenda) # 0
    BY <1>1, EmptySeq
<1>5. QED
    BY <1>2, <1>3, <1>4 DEF Shrunk

-----------------------------------------------------------------------------
(* What remains to be done when a call returns.                            *)

LEMMA EnterCallbackIInv == IInv /\ EnterCallback => IInv'
<1> SUFFICES ASSUME IInv, EnterCallback PROVE IInv'
    OBVIOUS
<1>1. /\ agenda # <<>> /\ Head(agenda) = Call /\ agenda' = <<Strategy>> \o Tail(agenda)
      /\ UNCHANGED <<orders, resting, cancelled, told, booked, raised>>
    BY DEF EnterCallback, Pending
<1>2. /\ Shrunk(0) /\ agenda'[1] = Strategy
      /\ \A i \in DOMAIN agenda : i # 1 => i \in DOMAIN agenda' /\ agenda'[i] = agenda[i]
      /\ agenda[1] = Call
    BY <1>1, TopReplaced DEF IInv
<1>3. \A id \in Ids : Book(id) \in ToSet(agenda) => Book(id) \in ToSet(agenda')
    BY <1>2, StepsDiffer DEF ToSet
<1>4. QED
    BY <1>1, <1>2, <1>3, StepsDiffer, ShrunkIInv

LEMMA TopTakenIInv ==
    ASSUME IInv, agenda # <<>>, agenda' = Tail(agenda),
           \A id \in Ids : Head(agenda) # Tell(id) /\ Head(agenda) # Book(id),
           UNCHANGED <<orders, resting, cancelled, told, booked, raised>>
    PROVE  IInv'
<1>1. /\ Shrunk(1)
      /\ \A i \in DOMAIN agenda : i # 1 => i - 1 \in DOMAIN agenda' /\ agenda'[i - 1] = agenda[i]
      /\ agenda[1] = Head(agenda)
    BY TopTaken DEF IInv
<1>2. \A id \in Ids : Book(id) \in ToSet(agenda) => Book(id) \in ToSet(agenda')
    BY <1>1 DEF ToSet
<1>3. \A id \in Ids : agenda' # <<>> /\ agenda'[1] = Strategy => agenda[1 + 1] # Tell(id)
    <2>1. Len(agenda) \in Nat /\ DOMAIN agenda = 1 .. Len(agenda)
        BY Domains DEF IInv
    <2>2. agenda' # <<>> => 1 \in DOMAIN agenda'
        BY <1>1, EmptySeq, LenProperties DEF Shrunk
    <2>3. 1 \in DOMAIN agenda' => 1 + 1 \in DOMAIN agenda /\ agenda'[1] = agenda[1 + 1]
        BY <1>1, <2>1, LenProperties DEF Shrunk
    <2>4. QED
        BY <2>2, <2>3, StepsDiffer
<1>4. QED
    BY <1>1, <1>2, <1>3, ShrunkIInv

LEMMA RetireMarketIInv ==
    ASSUME IInv, NEW m \in AllMarkets, RetireMarket(m)
    PROVE  IInv'
BY TopTakenIInv, StepsDiffer DEF RetireMarket, Pending

LEMMA ReturnsIInv == IInv /\ Returns => IInv'
BY TopTakenIInv, StepsDiffer DEF Returns, Pending

\* The strategy hears of the fill: the portfolio's report is now on top.
LEMMA TellFillIInv ==
    ASSUME IInv, NEW id \in Ids, TellFill(id)
    PROVE  IInv'
<1>1. /\ agenda # <<>> /\ Head(agenda) = Tell(id) /\ agenda' = <<Strategy>> \o Tail(agenda)
      /\ told' = Append(told, id)
      /\ UNCHANGED <<orders, resting, cancelled, booked, raised>>
    BY DEF TellFill, Pending
<1>2. /\ Shrunk(0) /\ agenda'[1] = Strategy
      /\ \A i \in DOMAIN agenda : i # 1 => i \in DOMAIN agenda' /\ agenda'[i] = agenda[i]
      /\ 1 \in DOMAIN agenda /\ agenda[1] = Tell(id)
    BY <1>1, TopReplaced DEF IInv
<1>3. /\ ToSet(told') = ToSet(told) \cup {id} /\ told' \in Seq(Ids)
      /\ DOMAIN told' = 1 .. Len(told) + 1 /\ told'[Len(told) + 1] = id
      /\ \A i \in 1 .. Len(told) : told'[i] = told[i]
      /\ DOMAIN told = 1 .. Len(told) /\ Len(told) \in Nat
    BY <1>1, AppendToSet DEF IInv, TypeOK
<1>4. /\ PairsTogether'
      /\ \A i \in DOMAIN agenda', x \in Ids :
            agenda'[i] \in {Tell(x), Book(x)} => agenda'[i] = agenda[i + 0]
      /\ \A i \in DOMAIN agenda' : i + 0 \in DOMAIN agenda
      /\ \A i, j \in DOMAIN agenda', x \in Ids :
            agenda'[i] = Book(x) /\ agenda'[j] = Book(x) => i = j
    <2>1. \A x \in Ids : agenda' # <<>> /\ agenda'[1] = Strategy =>
               (agenda[1 + 0] = Tell(x) => x \in ToSet(told'))
        BY <1>2, <1>3, StepsDiffer
    <2>2. ToSet(told) \subseteq ToSet(told')
        BY <1>3
    <2>3. 0 \in Nat
        OBVIOUS
    <2>4. QED
        BY <1>2, <2>1, <2>2, <2>3, ShrunkKeeps
<1>5. Len(agenda) \in Nat /\ DOMAIN agenda = 1 .. Len(agenda) /\ DOMAIN agenda' = 1 .. Len(agenda)
    BY <1>2, Domains, LenProperties DEF IInv, Shrunk
<1>6. /\ 2 \in DOMAIN agenda /\ agenda[2] = Book(id) /\ agenda'[2] = Book(id)
      /\ id \notin ToSet(told) /\ id \notin ToSet(booked)
      /\ id \in 1 .. Len(orders) /\ id \notin resting \cup cancelled
    <2>1. 1 + 1 \in DOMAIN agenda /\ agenda[1 + 1] = Book(id) /\ id \notin ToSet(told)
        BY <1>2 DEF IInv, PairsTogether, ReportsAreNew
    <2>2. QED
        BY <1>2, <2>1 DEF IInv, ReportsAreNew, FilledHasLeft
<1>7. TypeOK'
    BY <1>1, <1>2, <1>3 DEF IInv, TypeOK, Shrunk
<1>8. ReportsAreNew'
    <2>1. ASSUME NEW i \in DOMAIN agenda', NEW x \in Ids, agenda'[i] = Tell(x)
          PROVE  x \notin ToSet(told')
        <3>1. i \in DOMAIN agenda /\ agenda[i] = Tell(x)
            BY <1>4, <1>5, <2>1
        <3>2. i + 1 \in DOMAIN agenda /\ agenda[i + 1] = Book(x) /\ x \notin ToSet(told)
            BY <3>1 DEF IInv, PairsTogether, ReportsAreNew
        <3>3. x # id
            <4>1. i # 1
                BY <1>2, <2>1, StepsDiffer
            <4>2. i + 1 # 2
                BY <1>5, <3>1, <4>1
            <4>3. QED
                BY <1>6, <3>2, <4>2 DEF IInv, ReportsAreNew
        <3>4. QED
            BY <1>3, <3>2, <3>3
    <2>2. \A i \in DOMAIN agenda', x \in Ids : agenda'[i] = Book(x) => x \notin ToSet(booked')
        BY <1>1, <1>4, <1>5 DEF IInv, ReportsAreNew
    <2>3. QED
        BY <1>4, <2>1, <2>2 DEF ReportsAreNew
<1>9. FilledHasLeft'
    <2>1. \A i \in DOMAIN agenda', x \in Ids : agenda'[i] = Book(x) =>
              x \in 1 .. Len(orders) /\ x \notin resting \cup cancelled
        BY <1>4, <1>5 DEF IInv, FilledHasLeft
    <2>2. QED
        BY <1>1, <1>3, <1>6, <2>1 DEF IInv, FilledHasLeft
<1>10. FillsReportedOnce'
    <2>1. \A i \in 1 .. Len(told) : told[i] # id
        BY <1>3, <1>6 DEF ToSet
    <2>2. \A i, j \in DOMAIN told' : told'[i] = told'[j] => i = j
        BY <1>3, <2>1 DEF IInv, FillsReportedOnce
    <2>3. QED
        BY <1>1, <1>3, <2>2 DEF IInv, FillsReportedOnce
<1>11. NoFillForgotten'
    <2>1. \A x \in Ids : Book(x) \in ToSet(agenda) => Book(x) \in ToSet(agenda')
        BY <1>2, StepsDiffer DEF ToSet
    <2>2. Book(id) \in ToSet(agenda')
        BY <1>5, <1>6 DEF ToSet
    <2>3. \A x \in ToSet(told) : x \in Ids
        BY Domains DEF IInv
    <2>4. QED
        BY <1>1, <1>3, <2>1, <2>2, <2>3 DEF IInv, NoFillForgotten
<1>12. QED
    BY <1>4, <1>7, <1>8, <1>9, <1>10, <1>11 DEF IInv

\* The portfolio hears of a fill that the strategy knows.
LEMMA BookFillIInv ==
    ASSUME IInv, NEW id \in Ids, BookFill(id)
    PROVE  IInv'
<1>1. /\ agenda # <<>> /\ Head(agenda) = Book(id) /\ agenda' = Tail(agenda)
      /\ booked' = Append(booked, id)
      /\ UNCHANGED <<orders, resting, cancelled, told, raised>>
    BY DEF BookFill, Pending
<1>2. /\ Shrunk(1)
      /\ \A i \in DOMAIN agenda : i # 1 => i - 1 \in DOMAIN agenda' /\ agenda'[i - 1] = agenda[i]
      /\ 1 \in DOMAIN agenda /\ agenda[1] = Book(id)
    BY <1>1, TopTaken DEF IInv
<1>3. /\ ToSet(booked') = ToSet(booked) \cup {id} /\ booked' \in Seq(Ids)
      /\ DOMAIN booked' = 1 .. Len(booked) + 1 /\ booked'[Len(booked) + 1] = id
      /\ \A i \in 1 .. Len(booked) : booked'[i] = booked[i]
      /\ DOMAIN booked = 1 .. Len(booked) /\ Len(booked) \in Nat
    BY <1>1, AppendToSet DEF IInv, TypeOK
<1>4. /\ Len(agenda) \in Nat /\ DOMAIN agenda = 1 .. Len(agenda)
      /\ DOMAIN agenda' = 1 .. Len(agenda) - 1 /\ Len(agenda') = Len(agenda) - 1
      /\ \A i \in DOMAIN agenda' : agenda'[i] = agenda[i + 1]
    BY <1>2, Domains, LenProperties DEF IInv, Shrunk
<1>5. /\ \A i \in DOMAIN agenda' : i + 1 \in DOMAIN agenda
      /\ \A i, j \in DOMAIN agenda', x \in Ids :
            agenda'[i] = Book(x) /\ agenda'[j] = Book(x) => i = j
    BY <1>4, SMTT(30) DEF IInv, ReportsAreNew
<1>6. PairsTogether'
    <2>1. \A x \in Ids : agenda' # <<>> /\ agenda'[1] = Strategy => agenda[1 + 1] # Tell(x)
        <3>1. agenda' # <<>> => 1 \in DOMAIN agenda'
            BY <1>2, EmptySeq, LenProperties DEF Shrunk
        <3>2. QED
            BY <1>4, <3>1, StepsDiffer
    <2>2. ToSet(told) \subseteq ToSet(told')
        BY <1>1
    <2>3. \A x \in Ids : 1 \in DOMAIN agenda => agenda[1] # Tell(x)
        BY <1>2, StepsDiffer
    <2>4. 1 \in Nat
        OBVIOUS
    <2>5. QED
        BY <1>2, <2>1, <2>2, <2>3, <2>4, ShrunkKeeps
<1>7. id \in ToSet(told) /\ id \notin ToSet(booked)
    <2>1. 1 - 1 \notin DOMAIN agenda
        BY <1>4
    <2>2. QED
        BY <1>2, <2>1 DEF IInv, PairsTogether, ReportsAreNew
<1>8. TypeOK'
    BY <1>1, <1>2, <1>3 DEF IInv, TypeOK, Shrunk
<1>9. ReportsAreNew'
    <2>1. ASSUME NEW i \in DOMAIN agenda', NEW x \in Ids, agenda'[i] = Book(x)
          PROVE  x \notin ToSet(booked')
        <3>1. i + 1 \in DOMAIN agenda /\ agenda[i + 1] = Book(x) /\ i + 1 # 1
            BY <1>4, <1>5, <2>1
        <3>2. x # id
            BY <1>2, <3>1 DEF IInv, ReportsAreNew
        <3>3. QED
            BY <1>3, <3>1, <3>2 DEF IInv, ReportsAreNew
    <2>2. \A i \in DOMAIN agenda', x \in Ids : agenda'[i] = Tell(x) => x \notin ToSet(told')
        BY <1>1, <1>4, <1>5 DEF IInv, ReportsAreNew
    <2>3. QED
        BY <1>5, <2>1, <2>2 DEF ReportsAreNew
<1>10. FilledHasLeft'
    BY <1>1, <1>4, <1>5 DEF IInv, FilledHasLeft
<1>11. FillsReportedOnce'
    <2>1. \A i \in 1 .. Len(booked) : booked[i] # id
        BY <1>3, <1>7 DEF ToSet
    <2>2. \A i, j \in DOMAIN booked' : booked'[i] = booked'[j] => i = j
        BY <1>3, <2>1 DEF IInv, FillsReportedOnce
    <2>3. QED
        BY <1>1, <1>3, <1>7, <2>2 DEF IInv, FillsReportedOnce
<1>12. NoFillForgotten'
    <2>1. \A x \in Ids : x # id /\ Book(x) \in ToSet(agenda) => Book(x) \in ToSet(agenda')
        BY <1>2, StepsDiffer DEF ToSet
    <2>2. \A x \in ToSet(told) : x \in Ids
        BY Domains DEF IInv
    <2>3. QED
        BY <1>1, <1>3, <2>1, <2>2 DEF IInv, NoFillForgotten
<1>13. QED
    BY <1>6, <1>8, <1>9, <1>10, <1>11, <1>12 DEF IInv

-----------------------------------------------------------------------------
(* The strategy, inside a callback.                                        *)

\* There is a catcher that is nearest to the top.
LEMMA NearestExists ==
    ASSUME NEW S \in SUBSET Nat, S # {}
    PROVE  \E x \in S : \A y \in S : x <= y
<1> DEFINE R == OpToRel(<, Nat)
<1>1. IsWellFoundedOn(R, Nat)
    BY NatLessThanWellFounded
<1>2. \A x, y \in Nat : <<x, y>> \in R <=> x < y
    BY DEF OpToRel
<1> HIDE DEF R
<1>3. PICK x \in S : \A y \in S : ~(<<y, x>> \in R)
    BY <1>1, WFMin
<1>4. ASSUME NEW y \in S PROVE x <= y
    <2>1. ~(y < x)
        BY <1>2, <1>3
    <2>2. QED
        BY <2>1
<1>5. QED
    BY <1>4

LEMMA RaisesIInv == IInv /\ Raises => IInv'
<1> SUFFICES ASSUME IInv, Raises PROVE IInv'
    OBVIOUS
<1> DEFINE catchers == {i \in 2 .. Len(agenda) : agenda[i] = Strategy}
           nearest == CHOOSE i \in catchers : \A j \in catchers : i <= j
<1>1. /\ raised' /\ UNCHANGED <<orders, resting, cancelled, told, booked>>
      /\ \/ catchers = {} /\ agenda' = <<>>
         \/ catchers # {} /\ agenda' = SubSeq(agenda, nearest, Len(agenda))
    BY DEF Raises
<1>2. agenda \in Seq(Steps) /\ Len(agenda) \in Nat /\ DOMAIN agenda = 1 .. Len(agenda)
    BY Domains DEF IInv, TypeOK
<1>3. CASE agenda' = <<>>
    <2>1. agenda' \in Seq(Steps) /\ Len(agenda') = 0
        BY <1>3
    <2>2. Shrunk(Len(agenda))
        BY <1>2, <2>1 DEF Shrunk
    <2>3. QED
        BY <1>1, <1>2, <1>3, <2>2, ShrunkIInv
<1>4. CASE catchers # {} /\ agenda' = SubSeq(agenda, nearest, Len(agenda))
    <2>1. nearest \in catchers
        <3>1. catchers \in SUBSET Nat
            OBVIOUS
        <3>2. \E i \in catchers : \A j \in catchers : i <= j
            BY <1>4, <3>1, NearestExists
        <3>3. QED
            BY <3>2
    <2>2. nearest \in 2 .. Len(agenda) /\ agenda[nearest] = Strategy
        BY <2>1
    <2> HIDE DEF nearest, catchers
    <2>3. nearest \in Int /\ Len(agenda) \in Int
          /\ \A i \in nearest .. Len(agenda) : agenda[i] \in Steps
        BY <1>2, <2>2
    <2>4. /\ agenda' \in Seq(Steps)
          /\ Len(agenda') = (IF nearest <= Len(agenda) THEN Len(agenda) - nearest + 1 ELSE 0)
          /\ \A i \in 1 .. Len(agenda) - nearest + 1 : agenda'[i] = agenda[nearest + i - 1]
        BY <1>4, <2>3, SubSeqProperties
    <2>5. nearest - 1 \in Nat /\ nearest - 1 \in 0 .. Len(agenda)
          /\ Len(agenda') = Len(agenda) - (nearest - 1)
          /\ 1 \in 1 .. Len(agenda')
        BY <1>2, <2>2, <2>4
    <2>6. \A i \in 1 .. Len(agenda') : agenda'[i] = agenda[i + (nearest - 1)]
        <3> SUFFICES ASSUME NEW i \in 1 .. Len(agenda')
                     PROVE  agenda'[i] = agenda[i + (nearest - 1)]
            OBVIOUS
        <3>1. nearest + i - 1 = i + (nearest - 1) /\ i \in 1 .. Len(agenda) - nearest + 1
            BY <2>2, <2>5
        <3>2. QED
            BY <2>4, <3>1
    <2>7. Shrunk(nearest - 1)
        BY <2>4, <2>5, <2>6 DEF Shrunk
    <2>8. agenda'[1] = Strategy /\ agenda[1 + (nearest - 1)] = Strategy
        <3>1. 1 + (nearest - 1) = nearest
            BY <2>2
        <3>2. QED
            BY <2>2, <2>5, <2>6, <3>1
    <2>9. QED
        BY <1>1, <2>5, <2>7, <2>8, ShrunkIInv, StepsDiffer
<1>5. QED
    BY <1>1, <1>3, <1>4

\* One more order leaves the older ones as they are.
LEMMA SubmitsNumbers ==
    ASSUME IInv, NEW m \in AllMarkets, Submits(m)
    PROVE  /\ orders' \in Seq(AllMarkets) /\ Len(orders') = Len(orders) + 1
           /\ Len(orders') <= MaxOrders /\ Len(orders) \in Nat
           /\ 1 .. Len(orders) \subseteq 1 .. Len(orders')
           /\ UNCHANGED <<told, booked, cancelled>>
BY AppendProperties, LenProperties DEF Submits, IInv, TypeOK

LEMMA SubmitIsLostIInv ==
    ASSUME IInv, NEW m \in AllMarkets, SubmitIsLost(m)
    PROVE  IInv'
<1>1. /\ orders' \in Seq(AllMarkets) /\ Len(orders') <= MaxOrders
      /\ 1 .. Len(orders) \subseteq 1 .. Len(orders')
      /\ UNCHANGED <<told, booked, cancelled, resting, agenda, raised>>
    BY SubmitsNumbers DEF SubmitIsLost
<1>2. TypeOK'
    BY <1>1 DEF IInv, TypeOK
<1>3. FilledHasLeft'
    BY <1>1 DEF IInv, FilledHasLeft
<1>4. QED
    BY <1>1, <1>2, <1>3
       DEF IInv, PairsTogether, ReportsAreNew, FillsReportedOnce, NoFillForgotten

\* The number is new: no fill, rest or cancellation has it.
LEMMA NextIdIsNew ==
    ASSUME IInv, NEW n, n = NextId
    PROVE  /\ n \notin resting \cup cancelled \cup ToSet(told) \cup ToSet(booked)
           /\ \A i \in DOMAIN agenda : agenda[i] # Book(n) /\ agenda[i] # Tell(n)
<1>1. Len(orders) \in Nat /\ n = Len(orders) + 1 /\ n \notin 1 .. Len(orders)
    BY Domains DEF IInv, NextId
<1>2. n \notin resting \cup cancelled \cup ToSet(told)
    BY <1>1 DEF IInv, TypeOK, FilledHasLeft
<1>3. n \notin ToSet(booked)
    BY <1>2 DEF IInv, FillsReportedOnce
<1>4. ASSUME NEW i \in DOMAIN agenda, agenda[i] = Book(n)
      PROVE  FALSE
    <2>1. agenda[i] \in Steps
        BY Domains, ElementOfSeq DEF IInv, TypeOK
    <2>2. n \in Ids
        BY <1>4, <2>1, StepsDiffer DEF Steps, Book, Tell, Call, Strategy, Retire
    <2>3. QED
        BY <1>1, <1>4, <2>2 DEF IInv, FilledHasLeft
<1>5. ASSUME NEW i \in DOMAIN agenda, agenda[i] = Tell(n)
      PROVE  FALSE
    <2>1. agenda[i] \in Steps
        BY Domains, ElementOfSeq DEF IInv, TypeOK
    <2>2. n \in Ids
        BY <1>5, <2>1, StepsDiffer DEF Steps, Book, Tell, Call, Strategy, Retire
    <2>3. i + 1 \in DOMAIN agenda /\ agenda[i + 1] = Book(n)
        BY <1>5, <2>2 DEF IInv, PairsTogether
    <2>4. QED
        BY <1>4, <2>3
<1>6. QED
    BY <1>2, <1>3, <1>4, <1>5

LEMMA SubmitRestsIInv ==
    ASSUME IInv, NEW m \in AllMarkets, SubmitRests(m)
    PROVE  IInv'
<1>1. PICK n : n = NextId
    OBVIOUS
<1>2. /\ orders' \in Seq(AllMarkets) /\ Len(orders') <= MaxOrders
      /\ 1 .. Len(orders) \subseteq 1 .. Len(orders') /\ n \in 1 .. Len(orders')
      /\ UNCHANGED <<told, booked, cancelled, agenda, raised>>
      /\ resting' = resting \cup {n}
    BY <1>1, SubmitsNumbers DEF SubmitRests, NextId
<1>3. /\ n \notin resting \cup cancelled \cup ToSet(told) \cup ToSet(booked)
      /\ \A i \in DOMAIN agenda : agenda[i] # Book(n) /\ agenda[i] # Tell(n)
    BY <1>1, NextIdIsNew
<1>4. FilledHasLeft'
    BY <1>2, <1>3 DEF IInv, FilledHasLeft
<1>5. TypeOK'
    BY <1>2 DEF IInv, TypeOK
<1>6. QED
    BY <1>2, <1>4, <1>5
       DEF IInv, PairsTogether, ReportsAreNew, FillsReportedOnce, NoFillForgotten

\* The reports of a taker's fill go on top of everything that waits.
LEMMA SubmitTakesIInv ==
    ASSUME IInv, NEW m \in AllMarkets, SubmitTakes(m)
    PROVE  IInv'
<1>1. PICK n : n = NextId
    OBVIOUS
<1>2. /\ orders' \in Seq(AllMarkets) /\ Len(orders') <= MaxOrders
      /\ 1 .. Len(orders) \subseteq 1 .. Len(orders') /\ n \in 1 .. Len(orders')
      /\ UNCHANGED <<told, booked, cancelled, resting, raised>>
      /\ agenda' = <<Tell(n), Book(n)>> \o agenda
      /\ n \in Ids
    BY <1>1, SubmitsNumbers DEF SubmitTakes, NextId, Ids
<1>3. /\ n \notin resting \cup cancelled \cup ToSet(told) \cup ToSet(booked)
      /\ \A i \in DOMAIN agenda : agenda[i] # Book(n) /\ agenda[i] # Tell(n)
    BY <1>1, NextIdIsNew
<1>4. /\ agenda' \in Seq(Steps) /\ Len(agenda') = Len(agenda) + 2
      /\ agenda'[1] = Tell(n) /\ agenda'[2] = Book(n)
      /\ \A i \in 3 .. Len(agenda') : agenda'[i] = agenda[i - 2]
    <2>1. agenda \in Seq(Steps) /\ Tell(n) \in Steps /\ Book(n) \in Steps
        BY <1>2, StepsTypes DEF IInv, TypeOK
    <2>2. QED
        BY <1>2, <2>1, Pushed
<1>5. /\ Len(agenda) \in Nat /\ DOMAIN agenda = 1 .. Len(agenda)
      /\ DOMAIN agenda' = 1 .. Len(agenda) + 2
    BY <1>4, Domains, LenProperties DEF IInv
<1>6. \A i \in DOMAIN agenda' :
         \/ i = 1 /\ agenda'[i] = Tell(n)
         \/ i = 2 /\ agenda'[i] = Book(n)
         \/ i - 2 \in DOMAIN agenda /\ agenda'[i] = agenda[i - 2]
    BY <1>4, <1>5
<1>7. \A j \in DOMAIN agenda : j + 2 \in DOMAIN agenda' /\ agenda'[j + 2] = agenda[j]
    <2> SUFFICES ASSUME NEW j \in DOMAIN agenda
                 PROVE  j + 2 \in DOMAIN agenda' /\ agenda'[j + 2] = agenda[j]
        OBVIOUS
    <2>1. j + 2 \in 3 .. Len(agenda') /\ (j + 2) - 2 = j
        BY <1>4, <1>5
    <2>2. QED
        BY <1>4, <1>5, <2>1
<1>8. PairsTogether'
    <2>1. ASSUME NEW i \in DOMAIN agenda', NEW x \in Ids, agenda'[i] = Tell(x)
          PROVE  i + 1 \in DOMAIN agenda' /\ agenda'[i + 1] = Book(x)
        <3>1. CASE i = 1
            BY <1>2, <1>4, <1>5, <2>1, <3>1, StepsDiffer
        <3>2. CASE i - 2 \in DOMAIN agenda /\ agenda'[i] = agenda[i - 2]
            <4>1. (i - 2) + 1 \in DOMAIN agenda /\ agenda[(i - 2) + 1] = Book(x)
                BY <2>1, <3>2 DEF IInv, PairsTogether
            <4>2. ((i - 2) + 1) + 2 = i + 1
                BY <1>5
            <4>3. QED
                BY <1>7, <4>1, <4>2
        <3>3. QED
            BY <1>2, <1>6, <2>1, <3>1, <3>2, StepsDiffer
    <2>2. ASSUME NEW i \in DOMAIN agenda', NEW x \in Ids, agenda'[i] = Book(x),
                 x \notin ToSet(told')
          PROVE  i - 1 \in DOMAIN agenda' /\ agenda'[i - 1] = Tell(x)
        <3>1. CASE i = 2
            BY <1>2, <1>4, <1>5, <2>2, <3>1, StepsDiffer
        <3>2. CASE i - 2 \in DOMAIN agenda /\ agenda'[i] = agenda[i - 2]
            <4>1. (i - 2) - 1 \in DOMAIN agenda /\ agenda[(i - 2) - 1] = Tell(x)
                BY <1>2, <2>2, <3>2 DEF IInv, PairsTogether
            <4>2. ((i - 2) - 1) + 2 = i - 1
                BY <1>5
            <4>3. QED
                BY <1>7, <4>1, <4>2
        <3>3. QED
            BY <1>2, <1>6, <2>2, <3>1, <3>2, StepsDiffer
    <2>3. QED
        BY <2>1, <2>2 DEF PairsTogether
<1>9. ReportsAreNew'
    <2>1. ASSUME NEW i \in DOMAIN agenda', NEW j \in DOMAIN agenda', NEW x \in Ids,
                 agenda'[i] = Book(x), agenda'[j] = Book(x)
          PROVE  i = j
        <3>1. CASE x = n
            BY <1>2, <1>3, <1>6, <2>1, <3>1, StepsDiffer
        <3>2. CASE x # n
            <4>1. /\ i - 2 \in DOMAIN agenda /\ agenda[i - 2] = Book(x)
                  /\ j - 2 \in DOMAIN agenda /\ agenda[j - 2] = Book(x)
                BY <1>2, <1>6, <2>1, <3>2, StepsDiffer
            <4>2. i - 2 = j - 2
                BY <4>1 DEF IInv, ReportsAreNew
            <4>3. QED
                BY <1>5, <4>2
        <3>3. QED
            BY <3>1, <3>2
    <2>2. ASSUME NEW i \in DOMAIN agenda', NEW x \in Ids
          PROVE  /\ agenda'[i] = Tell(x) => x \notin ToSet(told')
                 /\ agenda'[i] = Book(x) => x \notin ToSet(booked')
        BY <1>2, <1>3, <1>6, StepsDiffer DEF IInv, ReportsAreNew
    <2>3. QED
        BY <2>1, <2>2 DEF ReportsAreNew
<1>10. FilledHasLeft'
    <2>1. ASSUME NEW i \in DOMAIN agenda', NEW x \in Ids, agenda'[i] = Book(x)
          PROVE  x \in 1 .. Len(orders') /\ x \notin resting \cup cancelled
        BY <1>2, <1>3, <1>6, <2>1, StepsDiffer DEF IInv, FilledHasLeft
    <2>2. QED
        BY <1>2, <2>1 DEF IInv, FilledHasLeft
<1>11. TypeOK'
    BY <1>2, <1>4 DEF IInv, TypeOK
<1>12. FillsReportedOnce'
    BY <1>2 DEF IInv, FillsReportedOnce
<1>13. NoFillForgotten'
    <2>1. \A x \in Ids : Book(x) \in ToSet(agenda) => Book(x) \in ToSet(agenda')
        BY <1>7 DEF ToSet
    <2>2. \A x \in ToSet(told) : x \in Ids
        BY Domains DEF IInv
    <2>3. QED
        BY <1>2, <2>1, <2>2 DEF IInv, NoFillForgotten
<1>14. QED
    BY <1>8, <1>9, <1>10, <1>11, <1>12, <1>13 DEF IInv

\* What is cancelled was at rest, so no fill of it waits.
LEMMA CancelsIInv ==
    ASSUME IInv, NEW m \in AllMarkets, NEW id \in Ids, Cancels(m, id)
    PROVE  IInv'
<1>1. PICK hit : hit = {r \in resting : r = id /\ orders[r] = m}
    OBVIOUS
<1>2. /\ hit \subseteq resting
      /\ resting' = resting \ hit /\ cancelled' = cancelled \cup hit
      /\ UNCHANGED <<orders, agenda, told, booked, raised>>
    BY <1>1 DEF Cancels
<1>3. TypeOK'
    BY <1>2 DEF IInv, TypeOK
<1>4. FilledHasLeft'
    BY <1>2 DEF IInv, FilledHasLeft
<1>5. QED
    BY <1>2, <1>3, <1>4
       DEF IInv, PairsTogether, ReportsAreNew, FillsReportedOnce, NoFillForgotten

LEMMA StrategyActsIInv == IInv /\ StrategyActs => IInv'
BY RaisesIInv, SubmitIsLostIInv, SubmitRestsIInv, SubmitTakesIInv, CancelsIInv
   DEF StrategyActs, Ids

-----------------------------------------------------------------------------
(* Messages.                                                               *)

\* A new message finds an empty agenda, and no fill is on its way.
LEMMA MessageFindsNothing ==
    ASSUME IInv, NextMessage
    PROVE  /\ raised \/ ToSet(told) \subseteq ToSet(booked)
           /\ UNCHANGED <<orders, told, booked, cancelled, raised>>
<1>1. agenda = <<>> /\ UNCHANGED <<orders, told, booked, cancelled, raised>>
    BY DEF NextMessage, BetweenMessages
<1>2. ToSet(agenda) = {}
    BY <1>1 DEF ToSet
<1>3. QED
    BY <1>1, <1>2 DEF IInv, NoFillForgotten

\* A message that fills nothing puts no report on the agenda.
LEMMA NoReportsIInv ==
    ASSUME IInv, NextMessage, UNCHANGED resting, agenda' \in Seq(Steps),
           \A i \in DOMAIN agenda', id \in Ids : agenda'[i] # Tell(id) /\ agenda'[i] # Book(id)
    PROVE  IInv'
<1>1. /\ raised \/ ToSet(told) \subseteq ToSet(booked)
      /\ UNCHANGED <<orders, told, booked, cancelled, raised>>
    BY MessageFindsNothing
<1>2. TypeOK'
    BY <1>1 DEF IInv, TypeOK
<1>3. PairsTogether' /\ ReportsAreNew'
    BY DEF PairsTogether, ReportsAreNew
<1>4. FilledHasLeft'
    BY <1>1 DEF IInv, FilledHasLeft
<1>5. FillsReportedOnce' /\ NoFillForgotten'
    BY <1>1 DEF IInv, FillsReportedOnce, NoFillForgotten
<1>6. QED
    BY <1>2, <1>3, <1>4, <1>5 DEF IInv

LEMMA QuietMessagesIInv ==
    ASSUME IInv, NEW m \in AllMarkets,
           OnBook(m) \/ OnPriceChange(m) \/ OnMarketResolved(m) \/ OnTickSizeChange
    PROVE  IInv'
<1>1. /\ NextMessage /\ UNCHANGED resting
      /\ agenda' \in {<<>>, <<Call>>, <<Call, Retire(m)>>}
    BY DEF OnBook, OnPriceChange, OnMarketResolved, OnTickSizeChange,
           NextMessage, BetweenMessages
<1>2. /\ \A i \in DOMAIN agenda' : agenda'[i] \in {Call, Retire(m)}
      /\ agenda' \in Seq(Steps)
    <2>1. CASE agenda' = <<>>
        BY <2>1
    <2>2. CASE agenda' = <<Call>>
        BY <2>2, StepsTypes
    <2>3. CASE agenda' = <<Call, Retire(m)>>
        BY <2>3, StepsTypes
    <2>4. QED
        BY <1>1, <2>1, <2>2, <2>3
<1>3. QED
    BY <1>1, <1>2, StepsDiffer, NoReportsIInv

\* A trade fills orders that rest, each of them once.
LEMMA FilledRest ==
    ASSUME IInv, NEW m, NEW ids \in FilledBy(m)
    PROVE  /\ ids \in Seq(Ids) /\ Len(ids) \in Nat
           /\ \A i \in 1 .. Len(ids) : ids[i] \in resting /\ ids[i] \in Ids
           /\ \A i, j \in 1 .. Len(ids) : ids[i] = ids[j] => i = j
           /\ ToSet(ids) = {ids[i] : i \in 1 .. Len(ids)}
<1> DEFINE S == {id \in resting : orders[id] = m}
<1>1. S \subseteq resting /\ resting \subseteq Ids
    BY Domains DEF IInv, TypeOK
<1>2. /\ ids \in SeqOf(S, MaxOrders)
      /\ \A i, j \in DOMAIN ids : i < j => ids[i] < ids[j]
    BY DEF FilledBy
<1> HIDE DEF S
<1>3. PICK n \in 0 .. MaxOrders : ids \in [1 .. n -> S]
    BY <1>2 DEF SeqOf
<1>4. ids \in Seq(S)
    BY <1>3, SeqDef
<1>5. /\ Len(ids) \in Nat /\ DOMAIN ids = 1 .. Len(ids)
      /\ \A i \in 1 .. Len(ids) : ids[i] \in S
    BY <1>4, LenProperties
<1>6. \A i \in 1 .. Len(ids) : ids[i] \in resting /\ ids[i] \in Ids
    BY <1>1, <1>5
<1>7. ids \in Seq(Ids)
    BY <1>5, <1>6, <1>3, SeqDef
<1>8. \A i, j \in 1 .. Len(ids) : ids[i] = ids[j] => i = j
    <2> SUFFICES ASSUME NEW i \in 1 .. Len(ids), NEW j \in 1 .. Len(ids), ids[i] = ids[j]
                 PROVE  i = j
        OBVIOUS
    <2>1. ids[i] \in Nat /\ ids[j] \in Nat
        BY <1>6 DEF Ids
    <2>2. ~(i < j) /\ ~(j < i)
        BY <1>2, <1>5, <2>1
    <2>3. QED
        BY <1>5, <2>2
<1>9. ToSet(ids) = {ids[i] : i \in 1 .. Len(ids)}
    BY <1>5 DEF ToSet
<1>10. QED
    BY <1>5, <1>6, <1>7, <1>8, <1>9

\* The reports of a trade are about orders that rested until the trade.
LEMMA OnTradeIInv ==
    ASSUME IInv, NEW m \in AllMarkets, OnTrade(m)
    PROVE  IInv'
<1>1. PICK ids \in FilledBy(m) :
          /\ resting' = resting \ ToSet(ids)
          /\ agenda' = Reports(ids) \o <<Call>>
    BY DEF OnTrade
<1>2. /\ ids \in Seq(Ids) /\ Len(ids) \in Nat
      /\ \A i \in 1 .. Len(ids) : ids[i] \in resting /\ ids[i] \in Ids
      /\ \A i, j \in 1 .. Len(ids) : ids[i] = ids[j] => i = j
      /\ ToSet(ids) = {ids[i] : i \in 1 .. Len(ids)}
    BY FilledRest
<1>3. /\ raised \/ ToSet(told) \subseteq ToSet(booked)
      /\ UNCHANGED <<orders, told, booked, cancelled, raised>>
    BY MessageFindsNothing DEF OnTrade
<1> DEFINE n == Len(ids)
<1>4. /\ agenda' \in Seq(Steps) /\ Len(agenda') = 2 * n + 1 /\ agenda'[2 * n + 1] = Call
      /\ \A j \in 1 .. n : agenda'[2 * j - 1] = Tell(ids[j]) /\ agenda'[2 * j] = Book(ids[j])
      /\ \A i \in 1 .. 2 * n : \E j \in 1 .. n : i = 2 * j - 1 \/ i = 2 * j
    BY <1>1, <1>2, ReportsShape
<1> HIDE DEF n
<1>5. n \in Nat /\ DOMAIN agenda' = 1 .. 2 * n + 1
    BY <1>2, <1>4, LenProperties DEF n
<1>6. ASSUME NEW i \in DOMAIN agenda', NEW x \in Ids, agenda'[i] = Tell(x)
      PROVE  \E j \in 1 .. n : i = 2 * j - 1 /\ x = ids[j]
    <2>1. i # 2 * n + 1
        BY <1>4, <1>6, StepsDiffer
    <2>2. i \in 1 .. 2 * n
        BY <1>5, <2>1
    <2>3. PICK j \in 1 .. n : i = 2 * j - 1 \/ i = 2 * j
        BY <1>4, <2>2
    <2>4. ids[j] \in Ids
        BY <1>2 DEF n
    <2>5. QED
        BY <1>4, <1>6, <2>3, <2>4, StepsDiffer
<1>7. ASSUME NEW i \in DOMAIN agenda', NEW x \in Ids, agenda'[i] = Book(x)
      PROVE  \E j \in 1 .. n : i = 2 * j /\ x = ids[j]
    <2>1. i # 2 * n + 1
        BY <1>4, <1>7, StepsDiffer
    <2>2. i \in 1 .. 2 * n
        BY <1>5, <2>1
    <2>3. PICK j \in 1 .. n : i = 2 * j - 1 \/ i = 2 * j
        BY <1>4, <2>2
    <2>4. ids[j] \in Ids
        BY <1>2 DEF n
    <2>5. QED
        BY <1>4, <1>7, <2>3, <2>4, StepsDiffer
<1>8. PairsTogether'
    <2>1. ASSUME NEW i \in DOMAIN agenda', NEW x \in Ids, agenda'[i] = Tell(x)
          PROVE  i + 1 \in DOMAIN agenda' /\ agenda'[i + 1] = Book(x)
        <3>1. PICK j \in 1 .. n : i = 2 * j - 1 /\ x = ids[j]
            BY <1>6, <2>1
        <3>2. i + 1 = 2 * j /\ 2 * j \in 1 .. 2 * n + 1
            BY <1>5, <3>1
        <3>3. QED
            BY <1>4, <1>5, <3>1, <3>2
    <2>2. ASSUME NEW i \in DOMAIN agenda', NEW x \in Ids, agenda'[i] = Book(x)
          PROVE  i - 1 \in DOMAIN agenda' /\ agenda'[i - 1] = Tell(x)
        <3>1. PICK j \in 1 .. n : i = 2 * j /\ x = ids[j]
            BY <1>7, <2>2
        <3>2. i - 1 = 2 * j - 1 /\ 2 * j - 1 \in 1 .. 2 * n + 1
            BY <1>5, <3>1
        <3>3. QED
            BY <1>4, <1>5, <3>1, <3>2
    <2>3. QED
        BY <2>1, <2>2 DEF PairsTogether
<1>9. \A j \in 1 .. n : /\ ids[j] \in resting /\ ids[j] \in Ids
                        /\ ids[j] \notin ToSet(told) /\ ids[j] \notin ToSet(booked)
                        /\ ids[j] \in 1 .. Len(orders) /\ ids[j] \notin cancelled
    <2> SUFFICES ASSUME NEW j \in 1 .. n
                 PROVE  /\ ids[j] \in resting /\ ids[j] \in Ids
                        /\ ids[j] \notin ToSet(told) /\ ids[j] \notin ToSet(booked)
                        /\ ids[j] \in 1 .. Len(orders) /\ ids[j] \notin cancelled
        OBVIOUS
    <2>1. ids[j] \in resting /\ ids[j] \in Ids
        BY <1>2 DEF n
    <2>2. ids[j] \notin ToSet(told) /\ ids[j] \notin cancelled /\ ids[j] \in 1 .. Len(orders)
        BY <2>1 DEF IInv, TypeOK, FilledHasLeft
    <2>3. QED
        BY <2>1, <2>2 DEF IInv, FillsReportedOnce
<1>10. ReportsAreNew'
    <2>1. ASSUME NEW i \in DOMAIN agenda', NEW k \in DOMAIN agenda', NEW x \in Ids,
                 agenda'[i] = Book(x), agenda'[k] = Book(x)
          PROVE  i = k
        <3>1. PICK j \in 1 .. n : i = 2 * j /\ x = ids[j]
            BY <1>7, <2>1
        <3>2. PICK l \in 1 .. n : k = 2 * l /\ x = ids[l]
            BY <1>7, <2>1
        <3>3. j = l
            BY <1>2, <3>1, <3>2 DEF n
        <3>4. QED
            BY <3>1, <3>2, <3>3
    <2>2. ASSUME NEW i \in DOMAIN agenda', NEW x \in Ids
          PROVE  /\ agenda'[i] = Tell(x) => x \notin ToSet(told')
                 /\ agenda'[i] = Book(x) => x \notin ToSet(booked')
        BY <1>3, <1>6, <1>7, <1>9
    <2>3. QED
        BY <2>1, <2>2 DEF ReportsAreNew
<1>11. FilledHasLeft'
    <2>1. ASSUME NEW i \in DOMAIN agenda', NEW x \in Ids, agenda'[i] = Book(x)
          PROVE  x \in 1 .. Len(orders') /\ x \notin resting' \cup cancelled'
        <3>1. PICK j \in 1 .. n : i = 2 * j /\ x = ids[j]
            BY <1>7, <2>1
        <3>2. x \in ToSet(ids)
            BY <1>2, <3>1 DEF n
        <3>3. QED
            BY <1>1, <1>3, <1>9, <3>1, <3>2
    <2>2. QED
        BY <1>1, <1>3, <2>1 DEF IInv, FilledHasLeft
<1>12. TypeOK'
    BY <1>1, <1>3, <1>4 DEF IInv, TypeOK
<1>13. FillsReportedOnce' /\ NoFillForgotten'
    BY <1>3 DEF IInv, FillsReportedOnce, NoFillForgotten
<1>14. QED
    BY <1>8, <1>10, <1>11, <1>12, <1>13 DEF IInv

LEMMA ProcessMessageIInv == IInv /\ ProcessMessage => IInv'
<1> SUFFICES ASSUME IInv, ProcessMessage PROVE IInv'
    OBVIOUS
<1>1. CASE OnTickSizeChange
    <2>1. OtherMarket \in AllMarkets
        BY DEF AllMarkets
    <2>2. QED
        BY <1>1, <2>1, QuietMessagesIInv
<1>2. CASE \E m \in AllMarkets :
              OnBook(m) \/ OnPriceChange(m) \/ OnTrade(m) \/ OnMarketResolved(m)
    BY <1>2, QuietMessagesIInv, OnTradeIInv
<1>3. QED
    BY <1>1, <1>2 DEF ProcessMessage

-----------------------------------------------------------------------------
(* The theorems.                                                           *)

\* Steps that leave the fills and the orders alone.
LEMMA UnchangedIInv ==
    ASSUME IInv,
           UNCHANGED <<orders, resting, agenda, told, booked, cancelled, raised>>
    PROVE  IInv'
<1>1. TypeOK'
    BY DEF IInv, TypeOK
<1>2. QED
    BY <1>1 DEF IInv, PairsTogether, ReportsAreNew, FilledHasLeft,
                FillsReportedOnce, NoFillForgotten

LEMMA NextIInv == IInv /\ [Next]_vars => IInv'
<1> SUFFICES ASSUME IInv, [Next]_vars PROVE IInv'
    OBVIOUS
<1>1. CASE PollBatch
    BY <1>1, UnchangedIInv DEF PollBatch
<1>2. CASE LoopEnds
    BY <1>2, UnchangedIInv DEF LoopEnds
<1>3. CASE ProcessMessage
    BY <1>3, ProcessMessageIInv
<1>4. CASE Proceed
    BY <1>4, EnterCallbackIInv, TellFillIInv, BookFillIInv, RetireMarketIInv
       DEF Proceed, Ids
<1>5. CASE Returns
    BY <1>5, ReturnsIInv
<1>6. CASE StrategyActs
    BY <1>6, StrategyActsIInv
<1>7. CASE StopSignal
    BY <1>7, UnchangedIInv DEF StopSignal
<1>8. CASE UNCHANGED vars
    BY <1>8, UnchangedIInv DEF vars
<1>9. QED
    BY <1>1, <1>2, <1>3, <1>4, <1>5, <1>6, <1>7, <1>8 DEF Next

\* What the agenda promises is kept: the two reports of a fill wait side by
\* side, none waits twice or again, and what is filled has left the book.
THEOREM AgendaKeepsReports == Spec => []IInv
<1>1. Init => IInv
    BY InitIInv
<1>2. IInv /\ [Next]_vars => IInv'
    BY NextIInv
<1>3. QED
    BY <1>1, <1>2, PTL DEF Spec

\* strategy_->on_fill and portfolio_.on_fill see each fill once at most and the
\* strategy sees it first, whatever the callbacks between the two submit,
\* cancel or throw.
THEOREM FillsReachBothOnce == Spec => []FillsReportedOnce
<1>1. IInv => FillsReportedOnce
    BY DEF IInv
<1>2. QED
    BY <1>1, AgendaKeepsReports, PTL

\* As long as no callback throws, a fill that the strategy was told of is in
\* the portfolio or the call of portfolio_.on_fill is still on the stack.
THEOREM FillsAreNotForgotten == Spec => []NoFillForgotten
<1>1. IInv => NoFillForgotten
    BY DEF IInv
<1>2. QED
    BY <1>1, AgendaKeepsReports, PTL

\* An order that cancel_order found is filled neither later nor by the trade
\* whose fills are being reported: the exchange had removed those orders from
\* the book before the first on_fill.
THEOREM CancelledStaysCancelled == Spec => []CancelIsFinal
<1>1. IInv => CancelIsFinal
    <2> SUFFICES ASSUME IInv, NEW id \in cancelled
                 PROVE  id \notin ToSet(told) /\ Tell(id) \notin ToSet(agenda)
        BY DEF CancelIsFinal
    <2>1. id \in Ids /\ id \notin ToSet(told)
        BY Domains DEF IInv, TypeOK, FilledHasLeft
    <2>2. ASSUME NEW i \in DOMAIN agenda, agenda[i] = Tell(id)
          PROVE  FALSE
        <3>1. i + 1 \in DOMAIN agenda /\ agenda[i + 1] = Book(id)
            BY <2>1, <2>2 DEF IInv, PairsTogether
        <3>2. QED
            BY <2>1, <3>1 DEF IInv, FilledHasLeft
    <2>3. QED
        BY <2>1, <2>2 DEF ToSet
<1>2. QED
    BY <1>1, AgendaKeepsReports, PTL
=============================================================================
