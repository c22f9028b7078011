-------------------------- MODULE Transport_proofs --------------------------
(***************************************************************************)
(* Theorems about what lies between the network and the engine.            *)
(*                                                                         *)
(* WsFrameParser, for any streams of frames that a server may send and any *)
(* chunks: that feed() delivers the messages the frames make up, and that  *)
(* the headers build_frame writes are read back.  The invariant (FrameInv) *)
(* says which bytes of which frame the parser holds.                       *)
(*                                                                         *)
(* Lifecycle, for any assets, transports and threads on which the signal   *)
(* may arrive: that the end of the process joins every thread once, and    *)
(* that the server follows the set of subscriptions.                       *)
(***************************************************************************)
EXTENDS WsFrameParser, Lifecycle, SequenceTheorems, WellFoundedInduction, TLAPS

-----------------------------------------------------------------------------
(* Lengths as bytes.                                                       *)

\* What holds of zero, and of a number after one of which it holds, holds of all.
LEMMA ByNumbers ==
    ASSUME NEW Good, 0 \in Good, \A n \in Nat : n \in Good => n + 1 \in Good
    PROVE  \A n \in Nat : n \in Good
<1> SUFFICES ASSUME NEW b \in Nat, b \notin Good PROVE FALSE
    OBVIOUS
<1>1. PICK Bad : Bad = {n \in Nat : n \notin Good}
    OBVIOUS
<1>2. PICK R : R = OpToRel(<, Nat)
    OBVIOUS
<1>3. IsWellFoundedOn(R, Nat)
    BY <1>2, NatLessThanWellFounded
<1>4. Bad \subseteq Nat /\ Bad # {}
    BY <1>1
<1>5. PICK n \in Bad : \A k \in Bad : <<k, n>> \notin R
    BY <1>3, <1>4, WFMin
<1>6. n \in Nat /\ n # 0 /\ n \notin Good
    BY <1>1
<1>7. n - 1 \in Nat /\ n - 1 < n /\ (n - 1) + 1 = n
    BY <1>6
<1>8. <<n - 1, n>> \in R
    BY <1>2, <1>6, <1>7 DEF OpToRel
<1>9. n - 1 \in Good
    BY <1>1, <1>5, <1>7, <1>8
<1>10. QED
    BY <1>6, <1>7, <1>9

\* There is a function that its recursion by divisions describes.
LEMMA QuotientsExist ==
    ASSUME NEW n \in Nat
    PROVE  \A k \in Nat : \E q : q = [j \in 0 .. k |-> IF j = 0 THEN n ELSE q[j - 1] \div 256]
<1>1. PICK Good : Good = {k \in Nat : \E q :
                             q = [j \in 0 .. k |-> IF j = 0 THEN n ELSE q[j - 1] \div 256]}
    OBVIOUS
<1>2. 0 \in Good
    <2>1. PICK q : q = [j \in 0 .. 0 |-> n]
        OBVIOUS
    <2>2. q = [j \in 0 .. 0 |-> IF j = 0 THEN n ELSE q[j - 1] \div 256]
        BY <2>1
    <2>3. QED
        BY <1>1, <2>2
<1>3. ASSUME NEW k \in Nat, k \in Good PROVE k + 1 \in Good
    <2>1. PICK q : q = [j \in 0 .. k |-> IF j = 0 THEN n ELSE q[j - 1] \div 256]
        BY <1>1, <1>3
    <2>2. PICK r : r = [j \in 0 .. k + 1 |-> IF j = k + 1 THEN q[k] \div 256 ELSE q[j]]
        OBVIOUS
    <2>3. ASSUME NEW j \in 0 .. k + 1
          PROVE  r[j] = IF j = 0 THEN n ELSE r[j - 1] \div 256
        <3>1. CASE j = 0
            <4>1. r[0] = q[0] /\ q[0] = n
                BY <2>1, <2>2
            <4>2. QED
                BY <3>1, <4>1
        <3>2. CASE j \in 1 .. k
            <4>1. j \in 0 .. k /\ j - 1 \in 0 .. k /\ j # 0 /\ j # k + 1 /\ j - 1 # k + 1
                BY <3>2
            <4>2. r[j] = q[j] /\ r[j - 1] = q[j - 1]
                BY <2>2, <4>1
            <4>3. q[j] = q[j - 1] \div 256
                BY <2>1, <4>1
            <4>4. QED
                BY <4>1, <4>2, <4>3
        <3>3. CASE j = k + 1
            <4>1. j - 1 = k /\ k \in 0 .. k + 1 /\ k # k + 1 /\ j # 0
                BY <3>3
            <4>2. r[j] = q[k] \div 256 /\ r[k] = q[k]
                BY <2>2, <3>3, <4>1
            <4>3. QED
                BY <4>1, <4>2
        <3>4. QED
            BY <3>1, <3>2, <3>3
    <2>4. r = [j \in 0 .. k + 1 |-> IF j = 0 THEN n ELSE r[j - 1] \div 256]
        BY <2>2, <2>3
    <2>5. QED
        BY <1>1, <2>4
<1>4. \A k \in Nat : k \in Good
    BY <1>2, <1>3, ByNumbers
<1>5. QED
    BY <1>1, <1>4

\* Each quotient is the last one divided by 256.
LEMMA QuotientSteps ==
    ASSUME NEW n \in Nat, NEW k \in Nat
    PROVE  LET q == Quotients(n, k)
           IN  /\ q[0] = n
               /\ \A j \in 1 .. k : q[j] = q[j - 1] \div 256
               /\ \A j \in 0 .. k : q[j] \in Nat
<1>1. PICK q : q = Quotients(n, k)
    OBVIOUS
<1>2. q = CHOOSE r : r = [j \in 0 .. k |-> IF j = 0 THEN n ELSE r[j - 1] \div 256]
    BY <1>1 DEF Quotients
<1>3. q = [j \in 0 .. k |-> IF j = 0 THEN n ELSE q[j - 1] \div 256]
    <2>1. \E r : r = [j \in 0 .. k |-> IF j = 0 THEN n ELSE r[j - 1] \div 256]
        <3>1. \A l \in Nat : \E r :
                  r = [j \in 0 .. l |-> IF j = 0 THEN n ELSE r[j - 1] \div 256]
            BY QuotientsExist
        <3>2. QED
            BY <3>1
    <2>2. QED
        BY <1>2, <2>1
<1>4. q[0] = n /\ \A j \in 1 .. k : q[j] = q[j - 1] \div 256
    <2>1. \A j \in 0 .. k : q[j] = IF j = 0 THEN n ELSE q[j - 1] \div 256
        BY <1>3
    <2>2. 0 \in 0 .. k /\ \A j \in 1 .. k : j \in 0 .. k /\ j # 0
        OBVIOUS
    <2>3. QED
        BY <2>1, <2>2
<1>5. \A j \in Nat : j <= k => q[j] \in Nat
    <2>1. PICK Good : Good = {j \in Nat : j <= k => q[j] \in Nat}
        OBVIOUS
    <2>2. 0 \in Good
        BY <1>4, <2>1
    <2>3. ASSUME NEW j \in Nat, j \in Good PROVE j + 1 \in Good
        <3>1. SUFFICES ASSUME j + 1 <= k PROVE q[j + 1] \in Nat
            BY <2>1
        <3>2. q[j] \in Nat /\ j + 1 \in 1 .. k /\ (j + 1) - 1 = j
            BY <2>1, <2>3, <3>1
        <3>3. q[j + 1] = q[j] \div 256
            BY <1>4, <3>2
        <3>4. QED
            BY <3>2, <3>3
    <2>4. QED
        BY <2>1, <2>2, <2>3, ByNumbers
<1>6. QED
    BY <1>1, <1>4, <1>5

\* A number is put together from what is left of it and its last byte.
LEMMA LastByte ==
    ASSUME NEW n \in Nat
    PROVE  256 * (n \div 256) + (n % 256) = n
    OBVIOUS

\* There is one for the values of a sequence of bytes.
LEMMA ValuesExist ==
    ASSUME NEW bytes
    PROVE  \A k \in Nat : \E v :
               v = [i \in 0 .. k |-> IF i = 0 THEN 0 ELSE 256 * v[i - 1] + bytes[i]]
<1>1. PICK Good : Good = {k \in Nat : \E v :
              v = [i \in 0 .. k |-> IF i = 0 THEN 0 ELSE 256 * v[i - 1] + bytes[i]]}
    OBVIOUS
<1>2. 0 \in Good
    <2>1. PICK v : v = [i \in 0 .. 0 |-> 0]
        OBVIOUS
    <2>2. v = [i \in 0 .. 0 |-> IF i = 0 THEN 0 ELSE 256 * v[i - 1] + bytes[i]]
        BY <2>1
    <2>3. QED
        BY <1>1, <2>2
<1>3. ASSUME NEW k \in Nat, k \in Good PROVE k + 1 \in Good
    <2>1. PICK v : v = [i \in 0 .. k |-> IF i = 0 THEN 0 ELSE 256 * v[i - 1] + bytes[i]]
        BY <1>1, <1>3
    <2>2. PICK u : u = [i \in 0 .. k + 1 |-> IF i = k + 1 THEN 256 * v[k] + bytes[k + 1]
                                                          ELSE v[i]]
        OBVIOUS
    <2>3. ASSUME NEW i \in 0 .. k + 1
          PROVE  u[i] = IF i = 0 THEN 0 ELSE 256 * u[i - 1] + bytes[i]
        <3>1. CASE i = 0
            <4>1. u[0] = v[0] /\ v[0] = 0
                BY <2>1, <2>2
            <4>2. QED
                BY <3>1, <4>1
        <3>2. CASE i \in 1 .. k
            <4>1. i \in 0 .. k /\ i - 1 \in 0 .. k /\ i # 0 /\ i # k + 1 /\ i - 1 # k + 1
                BY <3>2
            <4>2. u[i] = v[i] /\ u[i - 1] = v[i - 1]
                BY <2>2, <4>1
            <4>3. v[i] = 256 * v[i - 1] + bytes[i]
                BY <2>1, <4>1
            <4>4. QED
                BY <4>1, <4>2, <4>3
        <3>3. CASE i = k + 1
            <4>1. i - 1 = k /\ k \in 0 .. k + 1 /\ k # k + 1 /\ i # 0
                BY <3>3
            <4>2. u[i] = 256 * v[k] + bytes[i] /\ u[k] = v[k]
                BY <2>2, <3>3, <4>1
            <4>3. QED
                BY <4>1, <4>2
        <3>4. QED
            BY <3>1, <3>2, <3>3
    <2>4. u = [i \in 0 .. k + 1 |-> IF i = 0 THEN 0 ELSE 256 * u[i - 1] + bytes[i]]
        BY <2>2, <2>3
    <2>5. QED
        BY <1>1, <2>4
<1>4. \A k \in Nat : k \in Good
    BY <1>2, <1>3, ByNumbers
<1>5. QED
    BY <1>1, <1>4

\* The bytes of a length.
LEMMA BigEndianBytes ==
    ASSUME NEW n \in Nat, NEW k \in Nat
    PROVE  /\ BigEndian(n, k) \in Seq(Nat)
           /\ Len(BigEndian(n, k)) = k
<1>1. PICK q : q = Quotients(n, k)
    OBVIOUS
<1>2. \A j \in 0 .. k : q[j] \in Nat
    BY <1>1, QuotientSteps
<1>3. \A i \in 1 .. k : q[k - i] % 256 \in Nat
    <2>1. \A i \in 1 .. k : k - i \in 0 .. k
        OBVIOUS
    <2>2. QED
        BY <1>2, <2>1
<1>4. PICK b : b = [i \in 1 .. k |-> q[k - i] % 256]
    OBVIOUS
<1>5. b \in [1 .. k -> Nat]
    BY <1>3, <1>4
<1>6. b \in Seq(Nat) /\ Len(b) = k
    BY <1>5
<1>7. b = BigEndian(n, k)
    BY <1>1, <1>4 DEF BigEndian
<1>8. QED
    BY <1>6, <1>7

\* A length that fits into some bytes is read back from them.
LEMMA LengthsAreReadBack ==
    ASSUME NEW n \in Nat, NEW k \in Nat, FitsInto(n, k)
    PROVE  FromBigEndian(BigEndian(n, k)) = n
<1>1. PICK q : q = Quotients(n, k)
    OBVIOUS
<1>2. q[0] = n /\ (\A j \in 1 .. k : q[j] = q[j - 1] \div 256) /\ \A j \in 0 .. k : q[j] \in Nat
    BY <1>1, QuotientSteps
<1>3. q[k] = 0
    BY <1>1 DEF FitsInto
<1>4. PICK b : b = BigEndian(n, k)
    OBVIOUS
<1>5. \A i \in 1 .. k : b[i] = q[k - i] % 256
    BY <1>1, <1>4 DEF BigEndian
<1>6. Len(b) = k
    BY <1>4, BigEndianBytes
<1>7. PICK v : v = CHOOSE u : u = [i \in 0 .. k |-> IF i = 0 THEN 0 ELSE 256 * u[i - 1] + b[i]]
    OBVIOUS
<1>8. v = [i \in 0 .. k |-> IF i = 0 THEN 0 ELSE 256 * v[i - 1] + b[i]]
    <2>1. \A l \in Nat : \E u :
              u = [i \in 0 .. l |-> IF i = 0 THEN 0 ELSE 256 * u[i - 1] + b[i]]
        BY ValuesExist
    <2>2. \E u : u = [i \in 0 .. k |-> IF i = 0 THEN 0 ELSE 256 * u[i - 1] + b[i]]
        BY <2>1
    <2>3. QED
        BY <1>7, <2>2
<1>9. \A i \in 0 .. k : v[i] = IF i = 0 THEN 0 ELSE 256 * v[i - 1] + b[i]
    BY <1>8
<1>10. \A i \in Nat : i <= k => v[i] = q[k - i]
    <2>1. PICK Good : Good = {i \in Nat : i <= k => v[i] = q[k - i]}
        OBVIOUS
    <2>2. 0 \in Good
        <3>1. v[0] = 0
            BY <1>9
        <3>2. QED
            BY <1>3, <2>1, <3>1
    <2>3. ASSUME NEW i \in Nat, i \in Good PROVE i + 1 \in Good
        <3>1. SUFFICES ASSUME i + 1 <= k PROVE v[i + 1] = q[k - (i + 1)]
            BY <2>1
        <3>2. /\ v[i] = q[k - i] /\ i + 1 \in 0 .. k /\ i + 1 \in 1 .. k /\ (i + 1) - 1 = i
              /\ k - (i + 1) \in 0 .. k /\ k - i \in 1 .. k /\ (k - i) - 1 = k - (i + 1)
              /\ i + 1 # 0
            BY <2>1, <2>3, <3>1
        <3>3. PICK a : a = q[k - (i + 1)]
            OBVIOUS
        <3>4. a \in Nat /\ q[k - i] = a \div 256
            BY <1>2, <3>2, <3>3
        <3>5. b[i + 1] = a % 256
            BY <1>5, <3>2, <3>3
        <3>6. v[i + 1] = 256 * v[i] + b[i + 1]
            BY <1>9, <3>2
        <3>7. 256 * (a \div 256) + (a % 256) = a
            BY <3>4, LastByte
        <3>8. v[i + 1] = 256 * (a \div 256) + (a % 256)
            BY <3>2, <3>4, <3>5, <3>6
        <3>9. QED
            BY <3>3, <3>7, <3>8
    <2>4. QED
        BY <2>1, <2>2, <2>3, ByNumbers
<1>11. v[k] = n
    BY <1>2, <1>10
<1>12. FromBigEndian(b) = v[k]
    BY <1>6, <1>7 DEF FromBigEndian
<1>13. QED
    BY <1>4, <1>11, <1>12

\* What is below 2^16 fits into two bytes.
LEMMA TwoBytes ==
    ASSUME NEW n \in Nat, n <= 65535
    PROVE  FitsInto(n, 2)
<1>1. PICK q : q = Quotients(n, 2)
    OBVIOUS
<1>2. q[0] = n /\ \A j \in 1 .. 2 : q[j] = q[j - 1] \div 256
    BY <1>1, QuotientSteps
<1>3. q[1] = n \div 256 /\ q[2] = q[1] \div 256
    BY <1>2
<1>4. (n \div 256) \div 256 = 0
    OBVIOUS
<1>5. QED
    BY <1>1, <1>3, <1>4 DEF FitsInto

-----------------------------------------------------------------------------
(* Sequences joined.                                                       *)

\* And one for what the first sequences join to.
LEMMA PartsExist ==
    ASSUME NEW seqs
    PROVE  \A k \in Nat : \E p :
               p = [i \in 1 .. k |-> IF i = 1 THEN seqs[i] ELSE p[i - 1] \o seqs[i]]
<1>1. PICK Good : Good = {k \in Nat : \E p :
              p = [i \in 1 .. k |-> IF i = 1 THEN seqs[i] ELSE p[i - 1] \o seqs[i]]}
    OBVIOUS
<1>2. 0 \in Good
    <2>1. PICK p : p = [i \in 1 .. 0 |-> seqs[i]]
        OBVIOUS
    <2>2. p = [i \in 1 .. 0 |-> IF i = 1 THEN seqs[i] ELSE p[i - 1] \o seqs[i]]
        BY <2>1
    <2>3. QED
        BY <1>1, <2>2
<1>3. ASSUME NEW k \in Nat, k \in Good PROVE k + 1 \in Good
    <2>1. PICK p : p = [i \in 1 .. k |-> IF i = 1 THEN seqs[i] ELSE p[i - 1] \o seqs[i]]
        BY <1>1, <1>3
    <2>2. PICK last : last = IF k = 0 THEN seqs[1] ELSE p[k] \o seqs[k + 1]
        OBVIOUS
    <2>3. PICK r : r = [i \in 1 .. k + 1 |-> IF i = k + 1 THEN last ELSE p[i]]
        OBVIOUS
    <2>4. ASSUME NEW i \in 1 .. k + 1
          PROVE  r[i] = IF i = 1 THEN seqs[i] ELSE r[i - 1] \o seqs[i]
        <3>1. CASE i \in 1 .. k
            <4>1. r[i] = p[i] /\ i # k + 1
                BY <2>3, <3>1
            <4>2. p[i] = IF i = 1 THEN seqs[i] ELSE p[i - 1] \o seqs[i]
                BY <2>1, <3>1
            <4>3. i # 1 => r[i - 1] = p[i - 1]
                <5>1. i # 1 => i - 1 \in 1 .. k + 1 /\ i - 1 # k + 1
                    BY <3>1
                <5>2. QED
                    BY <2>3, <5>1
            <4>4. QED
                BY <4>1, <4>2, <4>3
        <3>2. CASE i = k + 1
            <4>1. r[i] = last
                BY <2>3, <3>2
            <4>2. CASE k = 0
                BY <2>2, <3>2, <4>1, <4>2
            <4>3. CASE k # 0
                <5>1. i # 1 /\ i - 1 = k /\ k \in 1 .. k + 1 /\ k # k + 1
                    BY <3>2, <4>3
                <5>2. r[i - 1] = p[k]
                    BY <2>3, <5>1
                <5>3. last = p[k] \o seqs[i]
                    BY <2>2, <3>2, <4>3
                <5>4. QED
                    BY <4>1, <5>1, <5>2, <5>3
            <4>4. QED
                BY <4>2, <4>3
        <3>3. QED
            BY <3>1, <3>2
    <2>5. r = [i \in 1 .. k + 1 |-> IF i = 1 THEN seqs[i] ELSE r[i - 1] \o seqs[i]]
        BY <2>3, <2>4
    <2>6. \E f : f = [i \in 1 .. k + 1 |-> IF i = 1 THEN seqs[i] ELSE f[i - 1] \o seqs[i]]
        BY <2>5
    <2>7. k + 1 \in Nat
        OBVIOUS
    <2>8. QED
        BY <1>1, <2>6, <2>7
<1>4. \A k \in Nat : k \in Good
    BY <1>2, <1>3, ByNumbers
<1>5. QED
    BY <1>1, <1>4

\* FlattenSeq joins sequences one after the other.
LEMMA JoinedByParts ==
    ASSUME NEW seqs, Len(seqs) \in Nat \ {0}
    PROVE  \E p : /\ FlattenSeq(seqs) = p[Len(seqs)]
                  /\ p[1] = seqs[1]
                  /\ \A i \in 2 .. Len(seqs) : p[i] = p[i - 1] \o seqs[i]
<1>1. PICK k \in Nat : k = Len(seqs) /\ k # 0
    OBVIOUS
<1>2. PICK p : p = CHOOSE f : f = [i \in 1 .. k |-> IF i = 1 THEN seqs[i]
                                                   ELSE f[i - 1] \o seqs[i]]
    OBVIOUS
<1>3. \E f : f = [i \in 1 .. k |-> IF i = 1 THEN seqs[i] ELSE f[i - 1] \o seqs[i]]
    <2>1. \A l \in Nat : \E f :
              f = [i \in 1 .. l |-> IF i = 1 THEN seqs[i] ELSE f[i - 1] \o seqs[i]]
        BY PartsExist, Zenon
    <2>2. QED
        BY <2>1
<1>4. p = [i \in 1 .. k |-> IF i = 1 THEN seqs[i] ELSE p[i - 1] \o seqs[i]]
    BY <1>2, <1>3, Zenon
<1>5. \A i \in 1 .. k : p[i] = IF i = 1 THEN seqs[i] ELSE p[i - 1] \o seqs[i]
    BY <1>4
<1>6. p[1] = seqs[1]
    BY <1>1, <1>5
<1>7. \A i \in 2 .. k : p[i] = p[i - 1] \o seqs[i]
    <2>1. \A i \in 2 .. k : i \in 1 .. k /\ i # 1
        OBVIOUS
    <2>2. QED
        BY <1>5, <2>1
<1>8. FlattenSeq(seqs) = p[k]
    BY <1>1, <1>2 DEF FlattenSeq
<1>9. QED
    BY <1>1, <1>6, <1>7, <1>8

LEMMA JoinedNothing ==
    ASSUME NEW V, NEW s \in Seq(V), Len(s) = 0
    PROVE  FlattenSeq(s) = <<>>
<1>1. s = <<>>
    BY EmptySeq
<1>2. QED
    BY <1>1 DEF FlattenSeq

\* Joining sequences gives a sequence, and one sequence more is appended.
LEMMA JoinedIsASeq ==
    ASSUME NEW V, NEW seqs \in Seq(Seq(V))
    PROVE  FlattenSeq(seqs) \in Seq(V)
<1>1. CASE Len(seqs) = 0
    BY <1>1, JoinedNothing, EmptySeq
<1>2. CASE Len(seqs) # 0
    <2>1. Len(seqs) \in Nat \ {0}
        BY <1>2
    <2>2. PICK p : /\ FlattenSeq(seqs) = p[Len(seqs)]
                   /\ p[1] = seqs[1]
                   /\ \A i \in 2 .. Len(seqs) : p[i] = p[i - 1] \o seqs[i]
        BY <2>1, JoinedByParts
    <2>3. \A i \in 1 .. Len(seqs) : seqs[i] \in Seq(V)
        OBVIOUS
    <2>4. \A i \in Nat : i + 1 <= Len(seqs) => p[i + 1] \in Seq(V)
        <3>1. PICK Good : Good = {i \in Nat : i + 1 <= Len(seqs) => p[i + 1] \in Seq(V)}
            OBVIOUS
        <3>2. 0 \in Good
            BY <2>1, <2>2, <2>3, <3>1
        <3>3. ASSUME NEW i \in Nat, i \in Good PROVE i + 1 \in Good
            <4>1. SUFFICES ASSUME (i + 1) + 1 <= Len(seqs) PROVE p[(i + 1) + 1] \in Seq(V)
                BY <3>1
            <4>2. p[i + 1] \in Seq(V)
                BY <2>1, <3>1, <3>3, <4>1
            <4>3. PICK j : j = (i + 1) + 1
                OBVIOUS
            <4>4. j \in 2 .. Len(seqs) /\ j \in 1 .. Len(seqs) /\ j - 1 = i + 1
                BY <2>1, <4>1, <4>3
            <4>5. p[j] = p[i + 1] \o seqs[j] /\ seqs[j] \in Seq(V)
                BY <2>2, <2>3, <4>4, Zenon
            <4>6. QED
                BY <4>2, <4>3, <4>5
        <3>4. QED
            BY <3>1, <3>2, <3>3, ByNumbers
    <2>5. PICK i \in Nat : i + 1 = Len(seqs)
        <3>1. Len(seqs) - 1 \in Nat /\ (Len(seqs) - 1) + 1 = Len(seqs)
            BY <2>1
        <3>2. QED
            BY <3>1, Zenon
    <2>6. p[i + 1] \in Seq(V)
        <3>1. i + 1 <= Len(seqs)
            BY <2>5
        <3>2. QED
            BY <2>4, <3>1
    <2>7. QED
        BY <2>2, <2>5, <2>6
<1>3. QED
    BY <1>1, <1>2

\* One sequence more is appended.
LEMMA JoinedOneMore ==
    ASSUME NEW V, NEW s \in Seq(Seq(V)), NEW t \in Seq(Seq(V)),
           Len(t) = Len(s) + 1, \A i \in 1 .. Len(s) : t[i] = s[i]
    PROVE  FlattenSeq(t) = FlattenSeq(s) \o t[Len(s) + 1]
<1>1. PICK k \in Nat : k = Len(s) /\ k + 1 = Len(t)
    OBVIOUS
<1>2. PICK r : /\ FlattenSeq(t) = r[k + 1]
               /\ r[1] = t[1]
               /\ \A i \in 2 .. k + 1 : r[i] = r[i - 1] \o t[i]
    <2>1. Len(t) \in Nat \ {0}
        BY <1>1
    <2>2. \E r : /\ FlattenSeq(t) = r[Len(t)]
                 /\ r[1] = t[1]
                 /\ \A i \in 2 .. Len(t) : r[i] = r[i - 1] \o t[i]
        BY <2>1, JoinedByParts
    <2>3. QED
        BY <1>1, <2>2
<1>3. t[k + 1] \in Seq(V)
    BY <1>1
<1>4. CASE k = 0
    <2>1. FlattenSeq(s) = <<>>
        BY <1>1, <1>4, JoinedNothing
    <2>2. <<>> \o t[k + 1] = t[k + 1]
        BY <1>3, ConcatEmptySeq
    <2>3. QED
        BY <1>1, <1>2, <1>4, <2>1, <2>2
<1>5. CASE k # 0
    <2>1. PICK p : /\ FlattenSeq(s) = p[k]
                   /\ p[1] = s[1]
                   /\ \A i \in 2 .. k : p[i] = p[i - 1] \o s[i]
        <3>1. Len(s) \in Nat \ {0}
            BY <1>1, <1>5
        <3>2. \E p : /\ FlattenSeq(s) = p[Len(s)]
                     /\ p[1] = s[1]
                     /\ \A i \in 2 .. Len(s) : p[i] = p[i - 1] \o s[i]
            BY <3>1, JoinedByParts
        <3>3. QED
            BY <1>1, <3>2
    <2>2. \A i \in Nat : i + 1 <= k => p[i + 1] = r[i + 1]
        <3>1. PICK Good : Good = {i \in Nat : i + 1 <= k => p[i + 1] = r[i + 1]}
            OBVIOUS
        <3>2. 0 \in Good
            <4>1. 1 \in 1 .. k
                BY <1>5
            <4>2. p[1] = r[1]
                BY <1>1, <1>2, <2>1, <4>1
            <4>3. QED
                BY <3>1, <4>2
        <3>3. ASSUME NEW i \in Nat, i \in Good PROVE i + 1 \in Good
            <4>1. SUFFICES ASSUME (i + 1) + 1 <= k PROVE p[(i + 1) + 1] = r[(i + 1) + 1]
                BY <3>1
            <4>2. PICK j : j = (i + 1) + 1
                OBVIOUS
            <4>3. j \in 2 .. k /\ j \in 2 .. k + 1 /\ j \in 1 .. k /\ j - 1 = i + 1
                BY <4>1, <4>2
            <4>4. p[i + 1] = r[i + 1]
                BY <3>1, <3>3, <4>1
            <4>5. p[j] = p[i + 1] \o s[j] /\ r[j] = r[i + 1] \o t[j] /\ t[j] = s[j]
                BY <1>1, <1>2, <2>1, <4>3
            <4>6. QED
                BY <4>2, <4>4, <4>5
        <3>4. \A i \in Nat : i \in Good
            BY <3>2, <3>3, ByNumbers
        <3>5. QED
            BY <3>1, <3>4
    <2>3. p[k] = r[k]
        <3>1. PICK i \in Nat : i + 1 = k
            <4>1. k - 1 \in Nat /\ (k - 1) + 1 = k
                BY <1>5
            <4>2. QED
                BY <4>1
        <3>2. i + 1 <= k
            BY <3>1
        <3>3. p[i + 1] = r[i + 1]
            BY <2>2, <3>2
        <3>4. QED
            BY <3>1, <3>3
    <2>4. r[k + 1] = r[k] \o t[k + 1]
        <3>1. k + 1 \in 2 .. k + 1 /\ (k + 1) - 1 = k
            BY <1>5
        <3>2. QED
            BY <1>2, <3>1
    <2>5. QED
        BY <1>1, <1>2, <2>1, <2>3, <2>4
<1>6. QED
    BY <1>4, <1>5

-----------------------------------------------------------------------------
(* Headers.                                                                *)

\* What a header is written from, and how long it is.
Writable(f) ==
    /\ f.fin \in BOOLEAN /\ f.opcode \in 0 .. 15 /\ f.masked \in BOOLEAN
    /\ f.announced \in Nat /\ f.width \in {7, 16, 64}
    /\ IF f.width = 7 THEN f.announced < 126 ELSE FitsInto(f.announced, LengthBytes(f.width))
HeaderLength(f) == 2 + LengthBytes(f.width) + (IF f.masked THEN 4 ELSE 0)

\* The code in the second byte tells the three widths apart.
LEMMA WidthFacts ==
    ASSUME NEW f, Writable(f)
    PROVE  /\ LengthBytes(f.width) \in {0, 2, 8}
           /\ LengthCode(f.announced, f.width) \in 0 .. 127
           /\ f.width = 7 => /\ LengthBytes(f.width) = 0
                             /\ LengthCode(f.announced, f.width) = f.announced
                             /\ f.announced < 126
           /\ f.width # 7 => FitsInto(f.announced, LengthBytes(f.width))
           /\ LengthBytes(f.width) = 2 <=> LengthCode(f.announced, f.width) = 126
           /\ LengthBytes(f.width) = 8 <=> LengthCode(f.announced, f.width) = 127
           /\ LengthBytes(f.width) = 0 <=> f.width = 7
<1>1. f.width = 7 \/ f.width = 16 \/ f.width = 64
    BY DEF Writable
<1>2. f.announced \in Nat /\ (f.width = 7 => f.announced < 126)
    BY DEF Writable
<1>3. f.width # 7 => FitsInto(f.announced, LengthBytes(f.width))
    BY DEF Writable
<1>4. CASE f.width = 7
    BY <1>2, <1>4 DEF LengthBytes, LengthCode
<1>5. CASE f.width = 16
    BY <1>2, <1>3, <1>5 DEF LengthBytes, LengthCode
<1>6. CASE f.width = 64
    BY <1>2, <1>3, <1>6 DEF LengthBytes, LengthCode
<1>7. QED
    BY <1>1, <1>4, <1>5, <1>6

LEMMA MaskKeyIsASeq == MaskKey \in Seq(Nat) /\ Len(MaskKey) = 4
<1>1. PICK n \in Nat : n = 4
    OBVIOUS
<1>2. MaskKey \in [1 .. n -> Nat]
    BY <1>1, MaskKeyAssumption
<1>3. MaskKey \in Seq(Nat) /\ Len(MaskKey) = n
    BY <1>2
<1>4. QED
    BY <1>1, <1>3

\* A header, byte by byte.
LEMMA HeaderParts ==
    ASSUME NEW f, Writable(f)
    PROVE  LET k == LengthBytes(f.width)
           IN  /\ Header(f) \in Seq(Nat) /\ Len(Header(f)) = HeaderLength(f)
               /\ HeaderLength(f) \in Nat /\ HeaderLength(f) >= 2
               /\ Header(f)[1] = Flag(f.fin) + f.opcode
               /\ Header(f)[2] = Flag(f.masked) + LengthCode(f.announced, f.width)
               /\ \A i \in 1 .. k : Header(f)[2 + i] = BigEndian(f.announced, k)[i]
               /\ f.masked => \A i \in 1 .. 4 : Header(f)[2 + k + i] = MaskKey[i]
<1>1. PICK k : k = LengthBytes(f.width)
    OBVIOUS
<1>2. k \in Nat /\ f.announced \in Nat /\ f.opcode \in Nat
    BY <1>1, WidthFacts DEF Writable
<1>3. PICK a : a = Flag(f.fin) + f.opcode
    OBVIOUS
<1>4. PICK b : b = Flag(f.masked) + LengthCode(f.announced, f.width)
    OBVIOUS
<1>5. a \in Nat /\ b \in Nat
    BY <1>2, <1>3, <1>4, WidthFacts DEF Flag
<1>6. PICK two : two = <<a, b>>
    OBVIOUS
<1>7. two \in Seq(Nat) /\ Len(two) = 2 /\ two[1] = a /\ two[2] = b
    BY <1>5, <1>6
<1>8. PICK be : be = BigEndian(f.announced, k)
    OBVIOUS
<1>9. be \in Seq(Nat) /\ Len(be) = k
    BY <1>2, <1>8, BigEndianBytes
<1>10. PICK key : key = IF f.masked THEN MaskKey ELSE <<>>
    OBVIOUS
<1>11. key \in Seq(Nat) /\ Len(key) = (IF f.masked THEN 4 ELSE 0)
    <2>1. CASE f.masked
        BY <1>10, <2>1, MaskKeyIsASeq
    <2>2. CASE ~f.masked
        BY <1>10, <2>2
    <2>3. QED
        BY <2>1, <2>2
<1>12. PICK start : start = two \o be
    OBVIOUS
<1>13. /\ start \in Seq(Nat) /\ Len(start) = 2 + k
       /\ \A i \in 1 .. 2 + k : start[i] = IF i <= 2 THEN two[i] ELSE be[i - 2]
    <2>1. /\ start \in Seq(Nat) /\ Len(start) = Len(two) + Len(be)
          /\ \A i \in 1 .. Len(two) + Len(be) :
                start[i] = IF i <= Len(two) THEN two[i] ELSE be[i - Len(two)]
        BY <1>7, <1>9, <1>12, ConcatProperties
    <2>2. QED
        BY <1>7, <1>9, <2>1
<1>14. PICK h : h = start \o key
    OBVIOUS
<1>15. /\ h \in Seq(Nat) /\ Len(h) = (2 + k) + Len(key)
       /\ \A i \in 1 .. (2 + k) + Len(key) :
             h[i] = IF i <= 2 + k THEN start[i] ELSE key[i - (2 + k)]
    <2>1. /\ h \in Seq(Nat) /\ Len(h) = Len(start) + Len(key)
          /\ \A i \in 1 .. Len(start) + Len(key) :
                h[i] = IF i <= Len(start) THEN start[i] ELSE key[i - Len(start)]
        BY <1>11, <1>13, <1>14, ConcatProperties
    <2>2. QED
        BY <1>13, <2>1
<1>16. Header(f) = h
    BY <1>1, <1>3, <1>4, <1>6, <1>8, <1>10, <1>12, <1>14 DEF Header
<1>17. Len(h) = HeaderLength(f) /\ HeaderLength(f) \in Nat /\ HeaderLength(f) >= 2
    BY <1>1, <1>2, <1>11, <1>15 DEF HeaderLength
<1>18. h[1] = a /\ h[2] = b
    <2>1. /\ 1 \in 1 .. 2 + k /\ 2 \in 1 .. 2 + k
          /\ 1 \in 1 .. (2 + k) + Len(key) /\ 2 \in 1 .. (2 + k) + Len(key)
        BY <1>2, <1>11
    <2>2. start[1] = a /\ start[2] = b
        BY <1>7, <1>13, <2>1
    <2>3. h[1] = start[1] /\ h[2] = start[2]
        BY <1>2, <1>15, <2>1
    <2>4. QED
        BY <2>2, <2>3
<1>19. ASSUME NEW i \in 1 .. k PROVE h[2 + i] = be[i]
    <2>1. /\ 2 + i \in 1 .. 2 + k /\ 2 + i \in 1 .. (2 + k) + Len(key)
          /\ ~(2 + i <= 2) /\ 2 + i <= 2 + k /\ (2 + i) - 2 = i
        BY <1>2, <1>11
    <2>2. h[2 + i] = start[2 + i]
        BY <1>15, <2>1
    <2>3. start[2 + i] = be[i]
        BY <1>13, <2>1
    <2>4. QED
        BY <2>2, <2>3
<1>20. ASSUME f.masked, NEW i \in 1 .. 4 PROVE h[2 + k + i] = MaskKey[i]
    <2>1. /\ 2 + k + i \in 1 .. (2 + k) + Len(key) /\ ~(2 + k + i <= 2 + k)
          /\ (2 + k + i) - (2 + k) = i
        BY <1>2, <1>11, <1>20
    <2>2. QED
        BY <1>10, <1>15, <1>20, <2>1
<1>21. QED
    BY <1>1, <1>3, <1>4, <1>8, <1>15, <1>16, <1>17, <1>18, <1>19, <1>20

\* The second byte alone says how long a header is.
LEMMA HeaderTotalIsRead ==
    ASSUME NEW f, Writable(f), NEW h,
           h[2] = Flag(f.masked) + LengthCode(f.announced, f.width)
    PROVE  /\ HeaderTotal(h) = HeaderLength(f)
           /\ h[2] % 128 = LengthCode(f.announced, f.width)
           /\ h[2] >= 128 <=> f.masked
<1>1. PICK c : c = LengthCode(f.announced, f.width)
    OBVIOUS
<1>2. c \in 0 .. 127
    BY <1>1, WidthFacts
<1>3. f.masked \in BOOLEAN
    BY DEF Writable
<1>4. h[2] = (IF f.masked THEN 128 ELSE 0) + c
    BY <1>1 DEF Flag
<1>5. /\ h[2] % 128 = c
      /\ h[2] >= 128 <=> f.masked
    BY <1>2, <1>3, <1>4
<1>6. LengthBytes(f.width) = IF c = 126 THEN 2 ELSE IF c = 127 THEN 8 ELSE 0
    BY <1>1, WidthFacts
<1>7. PICK b : b = h[2]
    OBVIOUS
<1>8. HeaderTotal(h) = 2 + (IF b % 128 = 126 THEN 2 ELSE IF b % 128 = 127 THEN 8 ELSE 0)
                         + (IF b >= 128 THEN 4 ELSE 0)
    BY <1>7 DEF HeaderTotal
<1>9. HeaderTotal(h) = 2 + LengthBytes(f.width) + (IF f.masked THEN 4 ELSE 0)
    BY <1>5, <1>6, <1>7, <1>8
<1>10. QED
    BY <1>1, <1>5, <1>9 DEF HeaderLength

\* A header that is written is read back.
LEMMA FieldsAreRead ==
    ASSUME NEW f, Writable(f)
    PROVE  /\ Fields(Header(f)).fin = f.fin
           /\ Fields(Header(f)).opcode = f.opcode
           /\ Fields(Header(f)).masked = f.masked
           /\ Fields(Header(f)).payload_len = f.announced
           /\ Fields(Header(f)).mask_key = IF f.masked THEN MaskKey ELSE frame.mask_key
<1>1. PICK h : h = Header(f)
    OBVIOUS
<1>2. PICK k : k = LengthBytes(f.width)
    OBVIOUS
<1>3. PICK c : c = LengthCode(f.announced, f.width)
    OBVIOUS
<1>4. /\ h \in Seq(Nat) /\ Len(h) = 2 + k + (IF f.masked THEN 4 ELSE 0)
      /\ h[1] = Flag(f.fin) + f.opcode /\ h[2] = Flag(f.masked) + c
      /\ \A i \in 1 .. k : h[2 + i] = BigEndian(f.announced, k)[i]
      /\ f.masked => \A i \in 1 .. 4 : h[2 + k + i] = MaskKey[i]
    BY <1>1, <1>2, <1>3, HeaderParts DEF HeaderLength
<1>5. h[2] % 128 = c /\ (h[2] >= 128 <=> f.masked)
    BY <1>3, <1>4, HeaderTotalIsRead
<1>6. f.fin \in BOOLEAN /\ f.masked \in BOOLEAN /\ f.opcode \in 0 .. 15 /\ f.announced \in Nat
    BY DEF Writable
<1>7. (h[1] >= 128 <=> f.fin) /\ h[1] % 16 = f.opcode
    <2>1. h[1] = (IF f.fin THEN 128 ELSE 0) + f.opcode
        BY <1>4 DEF Flag
    <2>2. QED
        BY <1>6, <2>1
<1>8. k = IF c = 126 THEN 2 ELSE IF c = 127 THEN 8 ELSE 0
    BY <1>2, <1>3, WidthFacts
<1>9. k \in Nat /\ k \in {0, 2, 8}
    BY <1>8
<1>10. SubSeq(h, 3, 2 + k) = BigEndian(f.announced, k)
    <2>1. PICK s : s = SubSeq(h, 3, 2 + k)
        OBVIOUS
    <2>2. \A i \in 3 .. 2 + k : h[i] \in Nat
        BY <1>4, <1>9
    <2>3. /\ s \in Seq(Nat) /\ Len(s) = (IF 3 <= 2 + k THEN (2 + k) - 3 + 1 ELSE 0)
          /\ \A i \in 1 .. (2 + k) - 3 + 1 : s[i] = h[3 + i - 1]
        BY <1>9, <2>1, <2>2, SubSeqProperties
    <2>4. Len(s) = k
        BY <1>9, <2>3
    <2>5. \A i \in 1 .. k : s[i] = h[2 + i]
        BY <1>9, <2>3
    <2>6. PICK b : b = BigEndian(f.announced, k)
        OBVIOUS
    <2>7. b \in Seq(Nat) /\ Len(b) = k
        BY <1>6, <1>9, <2>6, BigEndianBytes
    <2>8. \A i \in 1 .. k : s[i] = b[i]
        BY <1>4, <2>5, <2>6
    <2>9. s = b
        BY <2>3, <2>4, <2>7, <2>8, SeqEqual
    <2>10. QED
        BY <2>1, <2>6, <2>9
<1>11. f.masked => SubSeq(h, 3 + k, 6 + k) = MaskKey
    <2>1. SUFFICES ASSUME f.masked PROVE SubSeq(h, 3 + k, 6 + k) = MaskKey
        OBVIOUS
    <2>2. PICK s : s = SubSeq(h, 3 + k, 6 + k)
        OBVIOUS
    <2>3. \A i \in 3 + k .. 6 + k : h[i] \in Nat
        BY <1>4, <1>9, <2>1, SMTT(30)
    <2>4. /\ s \in Seq(Nat)
          /\ Len(s) = (IF 3 + k <= 6 + k THEN (6 + k) - (3 + k) + 1 ELSE 0)
          /\ \A i \in 1 .. (6 + k) - (3 + k) + 1 : s[i] = h[(3 + k) + i - 1]
        BY <1>9, <2>2, <2>3, SubSeqProperties
    <2>5. Len(s) = 4
        BY <1>9, <2>4
    <2>6. \A i \in 1 .. 4 : s[i] = h[2 + k + i]
        BY <1>9, <2>4
    <2>7. \A i \in 1 .. 4 : s[i] = MaskKey[i]
        BY <1>4, <2>1, <2>6
    <2>8. s = MaskKey
        BY <2>4, <2>5, <2>7, MaskKeyIsASeq, SeqEqual
    <2>9. QED
        BY <2>2, <2>8
<1>12. k # 0 => FromBigEndian(BigEndian(f.announced, k)) = f.announced
    <2>1. k # 0 => FitsInto(f.announced, k)
        BY <1>2, WidthFacts
    <2>2. QED
        BY <1>6, <1>9, <2>1, LengthsAreReadBack
<1>13. k = 0 => c = f.announced
    BY <1>2, <1>3, WidthFacts
<1>14. Fields(h) = [fin |-> h[1] >= 128, opcode |-> h[1] % 16, masked |-> h[2] >= 128,
                    payload_len |-> IF k = 0 THEN c
                                    ELSE FromBigEndian(SubSeq(h, 3, 2 + k)),
                    mask_key |-> IF h[2] >= 128 THEN SubSeq(h, 3 + k, 6 + k)
                                 ELSE frame.mask_key]
    BY <1>5, <1>8 DEF Fields
<1>15. /\ Fields(h).fin = (h[1] >= 128) /\ Fields(h).opcode = h[1] % 16
       /\ Fields(h).masked = (h[2] >= 128)
       /\ Fields(h).payload_len = IF k = 0 THEN c ELSE FromBigEndian(SubSeq(h, 3, 2 + k))
       /\ Fields(h).mask_key = IF h[2] >= 128 THEN SubSeq(h, 3 + k, 6 + k) ELSE frame.mask_key
    BY <1>14
<1>16. Fields(h).payload_len = f.announced
    BY <1>10, <1>12, <1>13, <1>15
<1>17. Fields(h).mask_key = IF f.masked THEN MaskKey ELSE frame.mask_key
    BY <1>5, <1>11, <1>15
<1>18. Fields(h).fin = f.fin /\ Fields(h).masked = f.masked
    BY <1>5, <1>6, <1>7, <1>15
<1>19. QED
    BY <1>1, <1>7, <1>15, <1>16, <1>17, <1>18

\* What build_frame writes is Writable.
LEMMA BuiltIsWritable ==
    ASSUME NEW n \in Nat, FitsInto(n, 8), NEW opcode \in 0 .. 15
    PROVE  Writable([fin |-> TRUE, opcode |-> opcode, masked |-> TRUE, announced |-> n,
                     width |-> BuiltWidth(n)])
<1>1. PICK w : w = BuiltWidth(n)
    OBVIOUS
<1>2. w \in {7, 16, 64} /\ (w = 7 => n < 126) /\ (w = 16 => n <= 65535)
    BY <1>1 DEF BuiltWidth
<1>3. w # 7 => FitsInto(n, LengthBytes(w))
    <2>1. CASE w = 16
        <3>1. FitsInto(n, 2) /\ LengthBytes(w) = 2
            BY <1>2, <2>1, TwoBytes DEF LengthBytes
        <3>2. QED
            BY <3>1
    <2>2. CASE w = 64
        <3>1. LengthBytes(w) = 8
            BY <2>2 DEF LengthBytes
        <3>2. QED
            BY <3>1
    <2>3. QED
        BY <1>2, <2>1, <2>2
<1>4. QED
    BY <1>1, <1>2, <1>3 DEF Writable

\* What build_frame writes for any payload is read back: its header is as long
\* as the parser takes it to be and gives the length, the opcode and the mask.
THEOREM BuiltHeadersAreRead == ParserSpec => []BuiltHeadersParse
<1>1. BuiltHeadersParse
    <2>1. SUFFICES ASSUME NEW n \in Lengths, NEW opcode \in {1, 2, 8, 9, 10}
                   PROVE  LET built == BuiltHeader(opcode, n)
                          IN  /\ HeaderTotal(built) = Len(built)
                              /\ Fields(built).payload_len = n
                              /\ Fields(built).opcode = opcode /\ Fields(built).fin
                              /\ Fields(built).mask_key = MaskKey
        BY DEF BuiltHeadersParse
    <2>2. n \in Nat /\ FitsInto(n, 8) /\ opcode \in 0 .. 15
        BY LengthsAssumption
    <2>3. PICK f : f = [fin |-> TRUE, opcode |-> opcode, masked |-> TRUE, announced |-> n,
                        width |-> BuiltWidth(n)]
        OBVIOUS
    <2>4. Writable(f)
        BY <2>2, <2>3, BuiltIsWritable
    <2>5. f.fin = TRUE /\ f.opcode = opcode /\ f.masked = TRUE /\ f.announced = n
        BY <2>3
    <2>6. BuiltHeader(opcode, n) = Header(f)
        BY <2>3 DEF BuiltHeader
    <2>7. PICK h : h = Header(f)
        OBVIOUS
    <2>8. HeaderTotal(h) = HeaderLength(f) /\ Len(h) = HeaderLength(f)
        BY <2>4, <2>7, HeaderParts, HeaderTotalIsRead
    <2>9. /\ Fields(h).payload_len = n /\ Fields(h).opcode = opcode
          /\ Fields(h).fin = TRUE /\ Fields(h).mask_key = MaskKey
        BY <2>4, <2>5, <2>7, FieldsAreRead
    <2>10. QED
        BY <2>6, <2>7, <2>8, <2>9
<1>2. QED
    BY <1>1, PTL

-----------------------------------------------------------------------------
(* Frames in the stream.                                                   *)

Bit == {0, 1}

\* Masking twice gives the bits back.
LEMMA MaskedTwice ==
    ASSUME NEW b \in Seq(Bit), NEW key \in [1 .. 4 -> Bit]
    PROVE  /\ Masked(b, key) \in Seq(Bit)
           /\ Len(Masked(b, key)) = Len(b)
           /\ Masked(Masked(b, key), key) = b
<1>1. PICK n \in Nat : n = Len(b)
    OBVIOUS
<1>2. DOMAIN b = 1 .. n /\ \A i \in 1 .. n : b[i] \in Bit
    BY <1>1
<1>3. \A i \in 1 .. n : key[((i - 1) % 4) + 1] \in Bit
    <2>1. \A i \in 1 .. n : ((i - 1) % 4) + 1 \in 1 .. 4
        OBVIOUS
    <2>2. QED
        BY <2>1
<1>4. PICK c : c = Masked(b, key)
    OBVIOUS
<1>5. c = [i \in 1 .. n |-> (b[i] + key[((i - 1) % 4) + 1]) % 2]
    BY <1>2, <1>4 DEF Masked
<1>6. \A i \in 1 .. n : (b[i] + key[((i - 1) % 4) + 1]) % 2 \in Bit
    BY <1>2, <1>3 DEF Bit
<1>7. c \in [1 .. n -> Bit]
    BY <1>5, <1>6
<1>8. c \in Seq(Bit) /\ Len(c) = n /\ DOMAIN c = 1 .. n
    BY <1>7
<1>9. PICK d : d = Masked(c, key)
    OBVIOUS
<1>10. d = [i \in 1 .. n |-> (c[i] + key[((i - 1) % 4) + 1]) % 2]
    BY <1>8, <1>9 DEF Masked
<1>11. \A i \in 1 .. n : (c[i] + key[((i - 1) % 4) + 1]) % 2 = b[i]
    <2>1. TAKE i \in 1 .. n
    <2>2. PICK k : k = key[((i - 1) % 4) + 1]
        OBVIOUS
    <2>3. k \in Bit /\ b[i] \in Bit
        BY <1>2, <1>3, <2>2
    <2>4. c[i] = (b[i] + k) % 2
        BY <1>5, <2>2
    <2>5. (((b[i] + k) % 2) + k) % 2 = b[i]
        BY <2>3 DEF Bit
    <2>6. QED
        BY <2>2, <2>4, <2>5
<1>12. d \in [1 .. n -> Bit] /\ \A i \in 1 .. n : d[i] = b[i]
    BY <1>2, <1>10, <1>11
<1>13. d \in Seq(Bit) /\ Len(d) = n
    BY <1>12
<1>14. d = b
    BY <1>1, <1>12, <1>13, SeqEqual
<1>15. QED
    BY <1>1, <1>4, <1>8, <1>9, <1>14

\* The payload of a frame on the wire.
OnWire(f) == IF f.masked THEN Masked(f.payload, MaskKey) ELSE f.payload

\* A frame on the wire is its header and its payload, masked or not.
LEMMA EncodeParts ==
    ASSUME NEW f \in Frame, Announced(f)
    PROVE  /\ Writable(f)
           /\ OnWire(f) \in Seq(Nat) /\ Len(OnWire(f)) = Len(f.payload)
           /\ Len(f.payload) \in Nat
           /\ Encode(f) = Header(f) \o OnWire(f)
           /\ Encode(f) \in Seq(Nat)
           /\ Len(Encode(f)) = HeaderLength(f) + Len(f.payload)
<1>1. /\ f.fin \in BOOLEAN /\ f.opcode \in 0 .. 15 /\ f.masked \in BOOLEAN
      /\ f.announced \in Nat /\ f.width \in {7, 16, 64} /\ f.payload \in Seq(Bit)
    BY DEF Frame, Bit
<1>2. Writable(f)
    BY <1>1 DEF Writable, Announced
<1>3. MaskKey \in [1 .. 4 -> Bit]
    BY MaskKeyAssumption DEF Bit
<1>4. OnWire(f) \in Seq(Bit) /\ Len(OnWire(f)) = Len(f.payload)
    BY <1>1, <1>3, MaskedTwice DEF OnWire
<1>5. OnWire(f) \in Seq(Nat)
    <2>1. Bit \subseteq Nat
        BY DEF Bit
    <2>2. QED
        BY <1>4, <2>1, SeqMonotonic
<1>6. Encode(f) = Header(f) \o OnWire(f)
    BY DEF Encode, OnWire
<1>7. Header(f) \in Seq(Nat) /\ Len(Header(f)) = HeaderLength(f)
    BY <1>2, HeaderParts
<1>8. Header(f) \o OnWire(f) \in Seq(Nat)
      /\ Len(Header(f) \o OnWire(f)) = Len(Header(f)) + Len(OnWire(f))
    BY <1>5, <1>7, ConcatProperties
<1>9. QED
    BY <1>1, <1>2, <1>4, <1>5, <1>6, <1>7, <1>8

\* Unmasking what is on the wire gives the payload.
LEMMA PayloadIsUnmasked ==
    ASSUME NEW f \in Frame, NEW g, g.masked = f.masked, f.masked => g.mask_key = MaskKey
    PROVE  Unmasked(g, OnWire(f)) = f.payload
<1>1. f.payload \in Seq(Bit) /\ f.masked \in BOOLEAN
    BY DEF Frame, Bit
<1>2. MaskKey \in [1 .. 4 -> Bit]
    BY MaskKeyAssumption DEF Bit
<1>3. CASE f.masked
    <2>1. Unmasked(g, OnWire(f)) = Masked(Masked(f.payload, MaskKey), MaskKey)
        BY <1>3 DEF Unmasked, OnWire
    <2>2. QED
        BY <1>1, <1>2, <2>1, MaskedTwice
<1>4. CASE ~f.masked
    BY <1>4 DEF Unmasked, OnWire
<1>5. QED
    BY <1>3, <1>4

\* Where frame n ends, and that a sequence is the part of the stream w after a place.
EndOf(fs, n) == Len(BytesOf(fs, n))
At(seq, w, place) == \A j \in 1 .. Len(seq) : seq[j] = w[place + j]
Sendable == {fs \in Seq(Frame) : WellFormed(fs)}

LEMMA FrameFacts ==
    ASSUME NEW fs \in Sendable
    PROVE  /\ fs \in Seq(Frame) /\ Len(fs) \in Nat
           /\ \A i \in 1 .. Len(fs) :
                 /\ fs[i] \in Frame /\ Announced(fs[i])
                 /\ IsControl(fs[i].opcode) => fs[i].fin
                 /\ IsData(fs, i) => (fs[i].opcode = Continuation <=> OpenBefore(fs, i))
<1>1. fs \in Seq(Frame) /\ WellFormed(fs)
    BY DEF Sendable
<1>2. DOMAIN fs = 1 .. Len(fs) /\ Len(fs) \in Nat
    BY <1>1, LenProperties
<1>3. \A i \in 1 .. Len(fs) : fs[i] \in Frame
    BY <1>1, ElementOfSeq
<1>4. QED
    BY <1>1, <1>2, <1>3 DEF WellFormed

\* The frames of a stream are bytes.
LEMMA EncodedFrames ==
    ASSUME NEW fs \in Sendable, NEW n \in 0 .. Len(fs)
    PROVE  /\ [i \in 1 .. n |-> Encode(fs[i])] \in Seq(Seq(Nat))
           /\ Len([i \in 1 .. n |-> Encode(fs[i])]) = n
           /\ BytesOf(fs, n) \in Seq(Nat)
           /\ EndOf(fs, n) \in Nat
<1>1. Len(fs) \in Nat /\ n \in Nat
    BY FrameFacts
<1>2. \A i \in 1 .. n : Encode(fs[i]) \in Seq(Nat)
    <2>1. TAKE i \in 1 .. n
    <2>2. i \in 1 .. Len(fs)
        BY <1>1
    <2>3. fs[i] \in Frame /\ Announced(fs[i])
        BY <2>2, FrameFacts
    <2>4. QED
        BY <2>3, EncodeParts
<1>3. PICK s : s = [i \in 1 .. n |-> Encode(fs[i])]
    OBVIOUS
<1>4. s \in [1 .. n -> Seq(Nat)]
    BY <1>2, <1>3
<1>5. s \in Seq(Seq(Nat)) /\ Len(s) = n
    BY <1>1, <1>4
<1>6. FlattenSeq(s) \in Seq(Nat)
    BY <1>5, JoinedIsASeq
<1>7. QED
    BY <1>3, <1>5, <1>6 DEF BytesOf, EndOf

\* The bytes of one frame more.
LEMMA BytesGrow ==
    ASSUME NEW fs \in Sendable, NEW n \in Nat, n < Len(fs)
    PROVE  /\ BytesOf(fs, n + 1) = BytesOf(fs, n) \o Encode(fs[n + 1])
           /\ EndOf(fs, n + 1) = EndOf(fs, n) + Len(Encode(fs[n + 1]))
           /\ Len(Encode(fs[n + 1])) \in Nat
<1>1. Len(fs) \in Nat /\ n \in 0 .. Len(fs) /\ n + 1 \in 0 .. Len(fs) /\ n + 1 \in 1 .. Len(fs)
    BY FrameFacts
<1>2. PICK s : s = [i \in 1 .. n |-> Encode(fs[i])]
    OBVIOUS
<1>3. PICK m \in Nat : m = n + 1
    OBVIOUS
<1>4. PICK t : t = [i \in 1 .. m |-> Encode(fs[i])]
    OBVIOUS
<1>5. s \in Seq(Seq(Nat)) /\ Len(s) = n /\ BytesOf(fs, n) \in Seq(Nat)
    BY <1>1, <1>2, EncodedFrames
<1>6. t \in Seq(Seq(Nat)) /\ Len(t) = m
    BY <1>1, <1>3, <1>4, EncodedFrames
<1>7. (\A i \in 1 .. n : t[i] = s[i]) /\ t[n + 1] = Encode(fs[n + 1])
    BY <1>2, <1>3, <1>4
<1>8. FlattenSeq(t) = FlattenSeq(s) \o t[n + 1]
    <2>1. Len(t) = Len(s) + 1 /\ \A i \in 1 .. Len(s) : t[i] = s[i]
        BY <1>3, <1>5, <1>6, <1>7
    <2>2. FlattenSeq(t) = FlattenSeq(s) \o t[Len(s) + 1]
        BY <1>5, <1>6, <2>1, JoinedOneMore
    <2>3. QED
        BY <1>5, <2>2
<1>9. BytesOf(fs, n + 1) = BytesOf(fs, n) \o Encode(fs[n + 1])
    BY <1>2, <1>3, <1>4, <1>7, <1>8 DEF BytesOf
<1>10. Encode(fs[n + 1]) \in Seq(Nat)
    BY <1>1, EncodeParts, FrameFacts
<1>11. Len(BytesOf(fs, n) \o Encode(fs[n + 1])) = Len(BytesOf(fs, n)) + Len(Encode(fs[n + 1]))
    BY <1>5, <1>10, ConcatProperties
<1>12. QED
    BY <1>9, <1>10, <1>11 DEF EndOf

\* Frames end one after the other.
LEMMA EndsGrow ==
    ASSUME NEW fs \in Sendable, NEW m \in Nat, NEW n \in Nat, m <= n, n <= Len(fs)
    PROVE  EndOf(fs, m) <= EndOf(fs, n)
<1>1. Len(fs) \in Nat
    BY FrameFacts
<1>2. PICK Good : Good = {d \in Nat : m + d <= Len(fs) => EndOf(fs, m) <= EndOf(fs, m + d)}
    OBVIOUS
<1>3. 0 \in Good
    <2>1. m \in 0 .. Len(fs) /\ m + 0 = m
        BY <1>1
    <2>2. EndOf(fs, m) \in Nat
        BY <2>1, EncodedFrames
    <2>3. QED
        BY <1>2, <2>1, <2>2
<1>4. ASSUME NEW d \in Nat, d \in Good PROVE d + 1 \in Good
    <2>1. SUFFICES ASSUME m + (d + 1) <= Len(fs)
                   PROVE  EndOf(fs, m) <= EndOf(fs, m + (d + 1))
        BY <1>2
    <2>2. PICK k \in Nat : k = m + d
        OBVIOUS
    <2>3. k < Len(fs) /\ k \in 0 .. Len(fs) /\ m \in 0 .. Len(fs) /\ m + (d + 1) = k + 1
        BY <1>1, <2>1, <2>2
    <2>4. EndOf(fs, m) <= EndOf(fs, k)
        BY <1>2, <1>4, <2>2, <2>3
    <2>5. EndOf(fs, k + 1) = EndOf(fs, k) + Len(Encode(fs[k + 1])) /\ Len(Encode(fs[k + 1])) \in Nat
        BY <2>3, BytesGrow
    <2>6. EndOf(fs, k) \in Nat /\ EndOf(fs, m) \in Nat
        BY <2>3, EncodedFrames
    <2>7. QED
        BY <2>3, <2>4, <2>5, <2>6
<1>5. \A d \in Nat : d \in Good
    BY <1>3, <1>4, ByNumbers
<1>6. n - m \in Nat /\ m + (n - m) = n
    OBVIOUS
<1>7. QED
    BY <1>2, <1>5, <1>6

\* Frame m + 1 stands in the stream where frame m ends.
LEMMA FrameInStream ==
    ASSUME NEW fs \in Sendable, NEW m \in Nat, m < Len(fs)
    PROVE  At(Encode(fs[m + 1]), Wire(fs), EndOf(fs, m))
<1>1. Len(fs) \in Nat
    BY FrameFacts
<1>2. PICK e : e = Encode(fs[m + 1])
    OBVIOUS
<1>3. m + 1 \in 1 .. Len(fs) /\ m \in 0 .. Len(fs)
    BY <1>1
<1>4. e \in Seq(Nat) /\ Len(e) \in Nat
    BY <1>2, <1>3, EncodeParts, FrameFacts
<1>5. PICK x \in Nat : x = EndOf(fs, m)
    BY <1>3, EncodedFrames
<1>6. PICK Good : Good = {d \in Nat : m + 1 + d <= Len(fs) =>
                                         \A j \in 1 .. Len(e) : e[j] = BytesOf(fs, m + 1 + d)[x + j]}
    OBVIOUS
<1>7. 0 \in Good
    <2>1. PICK b : b = BytesOf(fs, m)
        OBVIOUS
    <2>2. b \in Seq(Nat) /\ Len(b) = x
        BY <1>3, <1>5, <2>1, EncodedFrames DEF EndOf
    <2>3. \A j \in 1 .. Len(b) + Len(e) : (b \o e)[j] = IF j <= Len(b) THEN b[j] ELSE e[j - Len(b)]
        BY <1>4, <2>2, ConcatProperties
    <2>4. BytesOf(fs, m + 1) = b \o e
        BY <1>2, <2>1, BytesGrow
    <2>5. \A j \in 1 .. Len(e) : e[j] = (b \o e)[x + j]
        <3>1. \A j \in 1 .. Len(e) : x + j \in 1 .. x + Len(e) /\ ~(x + j <= x) /\ (x + j) - x = j
            BY <1>4
        <3>2. QED
            BY <2>2, <2>3, <3>1
    <2>6. m + 1 + 0 = m + 1
        OBVIOUS
    <2>7. QED
        BY <1>6, <2>4, <2>5, <2>6
<1>8. ASSUME NEW d \in Nat, d \in Good PROVE d + 1 \in Good
    <2>1. SUFFICES ASSUME m + 1 + (d + 1) <= Len(fs)
                   PROVE  \A j \in 1 .. Len(e) : e[j] = BytesOf(fs, m + 1 + (d + 1))[x + j]
        BY <1>6
    <2>2. PICK k \in Nat : k = m + 1 + d
        OBVIOUS
    <2>3. /\ k < Len(fs) /\ k <= Len(fs) /\ k \in 0 .. Len(fs) /\ m + 1 + (d + 1) = k + 1
          /\ m + 1 <= k
        BY <1>1, <2>1, <2>2
    <2>4. \A j \in 1 .. Len(e) : e[j] = BytesOf(fs, k)[x + j]
        BY <1>6, <1>8, <2>2, <2>3
    <2>5. PICK b : b = BytesOf(fs, k)
        OBVIOUS
    <2>6. b \in Seq(Nat) /\ Len(b) = EndOf(fs, k)
        BY <2>3, <2>5, EncodedFrames DEF EndOf
    <2>7. x + Len(e) <= Len(b)
        <3>1. EndOf(fs, m + 1) = x + Len(e)
            BY <1>2, <1>5, BytesGrow
        <3>2. EndOf(fs, m + 1) <= EndOf(fs, k)
            BY <2>3, EndsGrow
        <3>3. QED
            BY <2>6, <3>1, <3>2
    <2>8. PICK g : g = Encode(fs[k + 1])
        OBVIOUS
    <2>9. g \in Seq(Nat)
        <3>1. k + 1 \in 1 .. Len(fs)
            BY <1>1, <2>3
        <3>2. QED
            BY <2>8, <3>1, EncodeParts, FrameFacts
    <2>10. BytesOf(fs, k + 1) = b \o g
        BY <2>3, <2>5, <2>8, BytesGrow
    <2>11. \A j \in 1 .. Len(b) + Len(g) : (b \o g)[j] = IF j <= Len(b) THEN b[j] ELSE g[j - Len(b)]
        BY <2>6, <2>9, ConcatProperties
    <2>12. \A j \in 1 .. Len(e) : (b \o g)[x + j] = b[x + j]
        <3>1. \A j \in 1 .. Len(e) : x + j \in 1 .. Len(b) + Len(g) /\ x + j <= Len(b)
            BY <1>4, <2>6, <2>7, <2>9, SMTT(30)
        <3>2. QED
            BY <2>11, <3>1
    <2>13. QED
        BY <2>3, <2>4, <2>5, <2>10, <2>12
<1>9. \A d \in Nat : d \in Good
    BY <1>7, <1>8, ByNumbers
<1>10. Len(fs) - (m + 1) \in Nat /\ m + 1 + (Len(fs) - (m + 1)) = Len(fs)
    BY <1>1
<1>11. \A j \in 1 .. Len(e) : e[j] = BytesOf(fs, Len(fs))[x + j]
    <2>1. PICK d \in Nat : m + 1 + d = Len(fs)
        BY <1>10
    <2>2. m + 1 + d <= Len(fs)
        BY <1>1, <2>1
    <2>3. QED
        BY <1>6, <1>9, <2>1, <2>2
<1>12. QED
    BY <1>2, <1>5, <1>11 DEF At, Wire

-----------------------------------------------------------------------------
(* Messages.                                                               *)

DataOf(fs, i) == IF IsData(fs, i) THEN fs[i].payload ELSE <<>>

LEMMA DataIsASeq ==
    ASSUME NEW fs \in Sendable, NEW i \in 1 .. Len(fs)
    PROVE  DataOf(fs, i) \in Seq(Bit) /\ fs[i].payload \in Seq(Bit) /\ fs[i].fin \in BOOLEAN
<1>1. fs[i] \in Frame
    BY FrameFacts
<1>2. fs[i].payload \in Seq(Bit) /\ fs[i].fin \in BOOLEAN
    BY <1>1 DEF Frame, Bit
<1>3. <<>> \in Seq(Bit)
    OBVIOUS
<1>4. QED
    BY <1>2, <1>3 DEF DataOf

LEMMA JoinedDataIsASeq ==
    ASSUME NEW fs \in Sendable, NEW a \in Nat \ {0}, NEW b \in Nat, a <= b + 1, b <= Len(fs)
    PROVE  /\ JoinedData(fs, a, b) \in Seq(Bit)
           /\ \E s \in Seq(Seq(Bit)) : /\ Len(s) = b - a + 1
                                       /\ \A i \in 1 .. Len(s) : s[i] = DataOf(fs, a + i - 1)
                                       /\ JoinedData(fs, a, b) = FlattenSeq(s)
<1>1. Len(fs) \in Nat
    BY FrameFacts
<1>2. PICK n \in Nat : n = b - a + 1
    <2>1. b - a + 1 \in Nat
        OBVIOUS
    <2>2. QED
        BY <2>1
<1>3. \A i \in 1 .. n : DataOf(fs, a + i - 1) \in Seq(Bit)
    <2>1. \A i \in 1 .. n : a + i - 1 \in 1 .. Len(fs)
        BY <1>1, <1>2
    <2>2. QED
        BY <2>1, DataIsASeq
<1>4. PICK s : s = [i \in 1 .. n |-> DataOf(fs, a + i - 1)]
    OBVIOUS
<1>5. s \in [1 .. n -> Seq(Bit)] /\ \A i \in 1 .. n : s[i] = DataOf(fs, a + i - 1)
    BY <1>3, <1>4
<1>6. s \in Seq(Seq(Bit)) /\ Len(s) = n
    BY <1>5
<1>7. JoinedData(fs, a, b) = FlattenSeq(s)
    BY <1>2, <1>4 DEF JoinedData, DataOf
<1>8. QED
    BY <1>2, <1>5, <1>6, <1>7, JoinedIsASeq

\* What one data frame more carries is appended.
LEMMA JoinedDataGrows ==
    ASSUME NEW fs \in Sendable, NEW a \in Nat \ {0}, NEW n \in Nat, a <= n + 1, n < Len(fs)
    PROVE  /\ JoinedData(fs, a, n + 1) = JoinedData(fs, a, n) \o DataOf(fs, n + 1)
           /\ JoinedData(fs, a, n) \in Seq(Bit)
           /\ a = n + 1 => JoinedData(fs, a, n) = <<>>
<1>1. Len(fs) \in Nat /\ n <= Len(fs) /\ n + 1 <= Len(fs) /\ n + 1 \in Nat /\ a <= (n + 1) + 1
    BY FrameFacts
<1>2. PICK s \in Seq(Seq(Bit)) : /\ Len(s) = n - a + 1
                                 /\ \A i \in 1 .. Len(s) : s[i] = DataOf(fs, a + i - 1)
                                 /\ JoinedData(fs, a, n) = FlattenSeq(s)
    BY <1>1, JoinedDataIsASeq
<1>3. PICK m \in Nat : m = n + 1
    OBVIOUS
<1>4. m <= Len(fs) /\ a <= m + 1
    BY <1>1, <1>3
<1>5. PICK t \in Seq(Seq(Bit)) : /\ Len(t) = m - a + 1
                                 /\ \A i \in 1 .. Len(t) : t[i] = DataOf(fs, a + i - 1)
                                 /\ JoinedData(fs, a, m) = FlattenSeq(t)
    BY <1>4, JoinedDataIsASeq
<1>6. JoinedData(fs, a, n) \in Seq(Bit)
    BY <1>1, JoinedDataIsASeq
<1>7. PICK k \in Nat : k = Len(s) /\ k + 1 = Len(t)
    BY <1>2, <1>3, <1>5
<1>8. \A i \in 1 .. k : t[i] = s[i]
    <2>1. \A i \in 1 .. k : i \in 1 .. Len(s) /\ i \in 1 .. Len(t)
        BY <1>7
    <2>2. QED
        BY <1>2, <1>5, <2>1
<1>9. t[k + 1] = DataOf(fs, n + 1)
    <2>1. k + 1 \in 1 .. Len(t) /\ a + (k + 1) - 1 = n + 1
        BY <1>2, <1>3, <1>5, <1>7
    <2>2. QED
        BY <1>5, <2>1
<1>10. FlattenSeq(t) = FlattenSeq(s) \o t[k + 1]
    <2>1. Len(t) = Len(s) + 1 /\ \A i \in 1 .. Len(s) : t[i] = s[i]
        BY <1>7, <1>8
    <2>2. FlattenSeq(t) = FlattenSeq(s) \o t[Len(s) + 1]
        BY <2>1, JoinedOneMore
    <2>3. QED
        BY <1>7, <2>2
<1>11. a = n + 1 => FlattenSeq(s) = <<>>
    <2>1. a = n + 1 => Len(s) = 0
        BY <1>2
    <2>2. QED
        BY <2>1, JoinedNothing
<1>12. QED
    BY <1>2, <1>3, <1>5, <1>6, <1>9, <1>10, <1>11

CompletedBy(fs, i) == IF fs[i].fin THEN <<MessageAt(fs, i)>> ELSE <<>>

\* A frame completes one message if it is final, and none if it is not.
LEMMA MessagesGrow ==
    ASSUME NEW fs \in Sendable, NEW n \in Nat, n < Len(fs)
    PROVE  MessagesOf(fs, n + 1) =
               IF fs[n + 1].fin THEN Append(MessagesOf(fs, n), MessageAt(fs, n + 1))
               ELSE MessagesOf(fs, n)
<1>1. Len(fs) \in Nat
    BY FrameFacts
<1>2. PICK V : V = {MessageAt(fs, i) : i \in 1 .. Len(fs)}
    OBVIOUS
<1>3. \A i \in 1 .. Len(fs) : CompletedBy(fs, i) \in Seq(V)
    <2>1. TAKE i \in 1 .. Len(fs)
    <2>2. MessageAt(fs, i) \in V
        BY <1>2
    <2>3. <<MessageAt(fs, i)>> \in Seq(V)
        BY <2>2
    <2>4. <<>> \in Seq(V)
        OBVIOUS
    <2>5. QED
        BY <2>3, <2>4 DEF CompletedBy
<1>4. PICK s : s = [i \in 1 .. n |-> CompletedBy(fs, i)]
    OBVIOUS
<1>5. PICK m \in Nat : m = n + 1
    OBVIOUS
<1>6. PICK t : t = [i \in 1 .. m |-> CompletedBy(fs, i)]
    OBVIOUS
<1>7. s \in Seq(Seq(V)) /\ Len(s) = n
    <2>1. s \in [1 .. n -> Seq(V)]
        BY <1>1, <1>3, <1>4
    <2>2. QED
        BY <2>1
<1>8. t \in Seq(Seq(V)) /\ Len(t) = m
    <2>1. t \in [1 .. m -> Seq(V)]
        BY <1>1, <1>3, <1>5, <1>6
    <2>2. QED
        BY <2>1
<1>9. (\A i \in 1 .. n : t[i] = s[i]) /\ t[n + 1] = CompletedBy(fs, n + 1)
    BY <1>4, <1>5, <1>6
<1>10. FlattenSeq(t) = FlattenSeq(s) \o t[n + 1]
    <2>1. Len(t) = Len(s) + 1 /\ \A i \in 1 .. Len(s) : t[i] = s[i]
        BY <1>5, <1>7, <1>8, <1>9
    <2>2. FlattenSeq(t) = FlattenSeq(s) \o t[Len(s) + 1]
        BY <1>7, <1>8, <2>1, JoinedOneMore
    <2>3. QED
        BY <1>7, <2>2
<1>11. MessagesOf(fs, n) = FlattenSeq(s) /\ MessagesOf(fs, m) = FlattenSeq(t)
    BY <1>4, <1>6 DEF MessagesOf, CompletedBy
<1>12. MessagesOf(fs, n + 1) = MessagesOf(fs, n) \o CompletedBy(fs, n + 1)
    BY <1>5, <1>9, <1>10, <1>11
<1>13. PICK e : e = MessagesOf(fs, n)
    OBVIOUS
<1>14. e \in Seq(V)
    BY <1>7, <1>11, <1>13, JoinedIsASeq
<1>15. PICK x : x = MessageAt(fs, n + 1)
    OBVIOUS
<1>16. x \in V
    <2>1. n + 1 \in 1 .. Len(fs)
        BY <1>1
    <2>2. QED
        BY <1>2, <1>15, <2>1
<1>17. Append(e, x) = e \o <<x>> /\ e \o <<>> = e
    BY <1>14, <1>16, AppendIsConcat, ConcatEmptySeq
<1>18. QED
    BY <1>12, <1>13, <1>15, <1>17 DEF CompletedBy

LEMMA NoFrames ==
    ASSUME NEW fs
    PROVE  MessagesOf(fs, 0) = <<>> /\ BytesOf(fs, 0) = <<>> /\ EndOf(fs, 0) = 0
<1>1. PICK s : s = [i \in 1 .. 0 |-> CompletedBy(fs, i)]
    OBVIOUS
<1>2. PICK t : t = [i \in 1 .. 0 |-> Encode(fs[i])]
    OBVIOUS
<1>3. PICK n \in Nat : n = 0
    OBVIOUS
<1>4. s \in [1 .. n -> {}] /\ t \in [1 .. n -> {}]
    BY <1>1, <1>2, <1>3
<1>5. s \in Seq({}) /\ Len(s) = n /\ t \in Seq({}) /\ Len(t) = n
    BY <1>4
<1>6. FlattenSeq(s) = <<>> /\ FlattenSeq(t) = <<>>
    BY <1>3, <1>5, JoinedNothing
<1>7. MessagesOf(fs, 0) = FlattenSeq(s) /\ BytesOf(fs, 0) = FlattenSeq(t)
    BY <1>1, <1>2 DEF MessagesOf, CompletedBy, BytesOf
<1>8. QED
    BY <1>6, <1>7 DEF EndOf

\* The last frame up to i that begins a message.
LEMMA LastBeginning ==
    ASSUME NEW fs, NEW i \in Nat, NEW first \in 1 .. i, Begins(fs, first),
           \A j \in first + 1 .. i : ~Begins(fs, j)
    PROVE  Max({j \in 1 .. i : Begins(fs, j)}) = first
<1>1. PICK S : S = {j \in 1 .. i : Begins(fs, j)}
    OBVIOUS
<1>2. first \in S /\ \A j \in S : first >= j /\ j \in Nat
    <2>1. first \in S
        BY <1>1
    <2>2. ASSUME NEW j \in S PROVE first >= j /\ j \in Nat
        <3>1. j \in 1 .. i /\ Begins(fs, j)
            BY <1>1
        <3>2. j \notin first + 1 .. i
            BY <3>1
        <3>3. QED
            BY <3>1, <3>2
    <2>3. QED
        BY <2>1, <2>2
<1>3. \E x \in S : \A j \in S : x >= j
    BY <1>2
<1>4. PICK x : x = CHOOSE y \in S : \A j \in S : y >= j
    OBVIOUS
<1>5. x \in S /\ \A j \in S : x >= j
    BY <1>3, <1>4
<1>6. x = first
    BY <1>2, <1>5
<1>7. QED
    BY <1>1, <1>4, <1>6 DEF Max

\* Whether a message is open after a frame: what a data frame says, else as before.
LEMMA OpenAfter ==
    ASSUME NEW fs, NEW n \in Nat
    PROVE  OpenBefore(fs, (n + 1) + 1) <=>
               IF IsData(fs, n + 1) THEN ~fs[n + 1].fin ELSE OpenBefore(fs, n + 1)
<1>1. PICK m \in Nat : m = n + 1
    OBVIOUS
<1>2. OpenBefore(fs, m + 1) <=> \E j \in 1 .. m : /\ IsData(fs, j) /\ ~fs[j].fin
                                                 /\ \A k \in j + 1 .. m : ~IsData(fs, k)
    <2>1. (m + 1) - 1 = m
        OBVIOUS
    <2>2. QED
        BY <2>1 DEF OpenBefore
<1>3. OpenBefore(fs, m) <=> \E j \in 1 .. n : /\ IsData(fs, j) /\ ~fs[j].fin
                                             /\ \A k \in j + 1 .. n : ~IsData(fs, k)
    <2>1. m - 1 = n
        BY <1>1
    <2>2. QED
        BY <2>1 DEF OpenBefore
<1>4. CASE IsData(fs, m)
    <2>1. ASSUME NEW j \in 1 .. m, IsData(fs, j), ~fs[j].fin, \A k \in j + 1 .. m : ~IsData(fs, k)
          PROVE  ~fs[m].fin
        <3>1. m \notin j + 1 .. m
            BY <1>4, <2>1
        <3>2. j = m
            BY <3>1
        <3>3. QED
            BY <2>1, <3>2
    <2>2. ASSUME ~fs[m].fin
          PROVE  \E j \in 1 .. m : /\ IsData(fs, j) /\ ~fs[j].fin
                                   /\ \A k \in j + 1 .. m : ~IsData(fs, k)
        <3>1. m \in 1 .. m /\ \A k \in m + 1 .. m : FALSE
            BY <1>1
        <3>2. QED
            BY <1>4, <2>2, <3>1
    <2>3. QED
        BY <1>1, <1>2, <1>4, <2>1, <2>2
<1>5. CASE ~IsData(fs, m)
    <2>1. ASSUME NEW j \in 1 .. m, IsData(fs, j), ~fs[j].fin, \A k \in j + 1 .. m : ~IsData(fs, k)
          PROVE  OpenBefore(fs, m)
        <3>1. j # m
            BY <1>5, <2>1
        <3>2. j \in 1 .. n /\ \A k \in j + 1 .. n : k \in j + 1 .. m
            BY <1>1, <3>1
        <3>3. QED
            BY <1>3, <2>1, <3>2
    <2>2. ASSUME NEW j \in 1 .. n, IsData(fs, j), ~fs[j].fin, \A k \in j + 1 .. n : ~IsData(fs, k)
          PROVE  OpenBefore(fs, m + 1)
        <3>1. j \in 1 .. m /\ \A k \in j + 1 .. m : k \in j + 1 .. n \/ k = m
            BY <1>1
        <3>2. \A k \in j + 1 .. m : ~IsData(fs, k)
            BY <1>5, <2>2, <3>1
        <3>3. QED
            BY <1>2, <2>2, <3>1, <3>2
    <2>3. QED
        BY <1>1, <1>2, <1>3, <1>5, <2>1, <2>2
<1>6. QED
    BY <1>4, <1>5

-----------------------------------------------------------------------------
(* A frame is delivered.                                                   *)

Fragments == [opcode : Nat, buf : Seq(Nat), open : BOOLEAN]

\* While a message is open after n frames, the fragment is what they carried of it.
FragmentIs(fs, n, frag) ==
    OpenBefore(fs, n + 1) =>
        \E first \in 1 .. n : /\ Begins(fs, first)
                              /\ \A j \in first + 1 .. n : ~Begins(fs, j)
                              /\ frag.opcode = fs[first].opcode
                              /\ frag.buf = JoinedData(fs, first, n)

\* The visitor is called when a frame completes a message, and with that message.
LEMMA MessageIsDelivered ==
    ASSUME NEW fs \in Sendable, NEW n \in Nat, n < Len(fs), FragmentIs(fs, n, fragment),
           NEW g, g.fin = fs[n + 1].fin, g.opcode = fs[n + 1].opcode
    PROVE  /\ IsEmitted(g) <=> fs[n + 1].fin
           /\ IsEmitted(g) => Emission(g, fs[n + 1].payload) = MessageAt(fs, n + 1)
<1>1. PICK i \in Nat : i = n + 1
    OBVIOUS
<1>2. i \in 1 .. Len(fs) /\ Len(fs) \in Nat
    BY <1>1, FrameFacts
<1>3. IsEmitted(g) <=> fs[i].fin
    <2>1. IsControl(fs[i].opcode) => fs[i].fin
        BY <1>2, FrameFacts
    <2>2. QED
        BY <1>1, <2>1 DEF IsEmitted
<1>4. Emission(g, fs[i].payload) = MessageAt(fs, i)
    <2>1. CASE fs[i].opcode # Continuation
        BY <1>1, <2>1 DEF Emission, MessageAt
    <2>2. CASE fs[i].opcode = Continuation
        <3>1. IsData(fs, i) /\ ~Begins(fs, i)
            BY <2>2 DEF IsData, Begins, IsControl, Continuation
        <3>2. OpenBefore(fs, n + 1)
            BY <1>1, <1>2, <2>2, <3>1, FrameFacts
        <3>3. PICK first \in 1 .. n : /\ Begins(fs, first)
                                      /\ \A j \in first + 1 .. n : ~Begins(fs, j)
                                      /\ fragment.opcode = fs[first].opcode
                                      /\ fragment.buf = JoinedData(fs, first, n)
            BY <3>2 DEF FragmentIs
        <3>4. first \in 1 .. i /\ \A j \in first + 1 .. i : ~Begins(fs, j)
            <4>1. \A j \in first + 1 .. i : j \in first + 1 .. n \/ j = i
                BY <1>1
            <4>2. first \in 1 .. i
                BY <1>1
            <4>3. QED
                BY <3>1, <3>3, <4>1, <4>2
        <3>5. Max({j \in 1 .. i : Begins(fs, j)}) = first
            BY <3>3, <3>4, LastBeginning
        <3>6. MessageAt(fs, i) =
                  [opcode |-> fs[first].opcode, payload |-> JoinedData(fs, first, i)]
            BY <2>2, <3>5 DEF MessageAt
        <3>7. JoinedData(fs, first, n + 1) = JoinedData(fs, first, n) \o DataOf(fs, n + 1)
            <4>1. first \in Nat \ {0} /\ first <= n + 1
                OBVIOUS
            <4>2. QED
                BY <4>1, JoinedDataGrows
        <3>8. DataOf(fs, n + 1) = fs[i].payload
            BY <1>1, <3>1 DEF DataOf
        <3>9. Emission(g, fs[i].payload) =
                  [opcode |-> fragment.opcode, payload |-> fragment.buf \o fs[i].payload]
            BY <1>1, <2>2 DEF Emission
        <3>10. QED
            BY <1>1, <3>3, <3>6, <3>7, <3>8, <3>9
    <2>3. QED
        BY <2>1, <2>2
<1>5. QED
    BY <1>1, <1>3, <1>4

\* After the frame the fragment is again what the open message carried so far.
LEMMA FragmentIsKept ==
    ASSUME NEW fs \in Sendable, NEW n \in Nat, n < Len(fs), FragmentIs(fs, n, fragment),
           fragment \in Fragments,
           NEW g, g.fin = fs[n + 1].fin, g.opcode = fs[n + 1].opcode
    PROVE  /\ FragmentIs(fs, n + 1, FragmentAfter(g, fs[n + 1].payload))
           /\ FragmentAfter(g, fs[n + 1].payload) \in Fragments
<1>1. PICK i \in Nat : i = n + 1
    OBVIOUS
<1>2. i \in 1 .. Len(fs) /\ Len(fs) \in Nat /\ i # 0 /\ n <= i
    BY <1>1, FrameFacts
<1>3. PICK p : p = fs[i].payload
    OBVIOUS
<1>4. p \in Seq(Bit) /\ p \in Seq(Nat)
    <2>1. p \in Seq(Bit)
        BY <1>2, <1>3, DataIsASeq
    <2>2. Bit \subseteq Nat
        BY DEF Bit
    <2>3. QED
        BY <2>1, <2>2, SeqMonotonic
<1>5. fs[i].opcode \in Nat
    <2>1. PICK o : o = fs[i].opcode
        OBVIOUS
    <2>2. fs[i] \in Frame
        BY <1>2, FrameFacts
    <2>3. o \in 0 .. 15
        BY <2>1, <2>2 DEF Frame
    <2>4. o \in Nat
        BY <2>3
    <2>5. QED
        BY <2>1, <2>4
<1>6. OpenBefore(fs, i + 1) <=> IF IsData(fs, i) THEN ~fs[i].fin ELSE OpenBefore(fs, i)
    BY <1>1, OpenAfter
<1>7. PICK a : a = FragmentAfter(g, p)
    OBVIOUS
<1>8. fragment.opcode \in Nat /\ fragment.buf \in Seq(Nat) /\ fragment.open \in BOOLEAN
    BY DEF Fragments
<1>9. PICK b : b = fragment.buf \o p
    OBVIOUS
<1>10. b \in Seq(Nat)
    BY <1>4, <1>8, <1>9, ConcatProperties
<1>11. CASE IsControl(fs[i].opcode)
    <2>1. a = fragment
        BY <1>1, <1>7, <1>11 DEF FragmentAfter
    <2>2. ~IsData(fs, i) /\ ~Begins(fs, i)
        BY <1>11 DEF IsData, Begins
    <2>3. ASSUME OpenBefore(fs, i + 1)
          PROVE  \E first \in 1 .. i : /\ Begins(fs, first)
                                       /\ \A j \in first + 1 .. i : ~Begins(fs, j)
                                       /\ a.opcode = fs[first].opcode
                                       /\ a.buf = JoinedData(fs, first, i)
        <3>1. OpenBefore(fs, n + 1)
            BY <1>1, <1>6, <2>2, <2>3
        <3>2. PICK first \in 1 .. n : /\ Begins(fs, first)
                                      /\ \A j \in first + 1 .. n : ~Begins(fs, j)
                                      /\ fragment.opcode = fs[first].opcode
                                      /\ fragment.buf = JoinedData(fs, first, n)
            BY <3>1 DEF FragmentIs
        <3>3. first \in 1 .. i /\ \A j \in first + 1 .. i : ~Begins(fs, j)
            <4>1. (\A j \in first + 1 .. i : j \in first + 1 .. n \/ j = i) /\ first \in 1 .. i
                BY <1>1
            <4>2. QED
                BY <2>2, <3>2, <4>1
        <3>4. first \in Nat \ {0} /\ first <= n + 1
            OBVIOUS
        <3>5. /\ JoinedData(fs, first, n + 1) = JoinedData(fs, first, n) \o DataOf(fs, n + 1)
              /\ JoinedData(fs, first, n) \in Seq(Bit)
            BY <3>4, JoinedDataGrows
        <3>6. DataOf(fs, n + 1) = <<>>
            BY <1>1, <2>2 DEF DataOf
        <3>7. JoinedData(fs, first, i) = JoinedData(fs, first, n)
            BY <1>1, <3>5, <3>6, ConcatEmptySeq
        <3>8. QED
            BY <2>1, <3>2, <3>3, <3>7
    <2>4. FragmentIs(fs, i, a)
        BY <2>3 DEF FragmentIs
    <2>5. QED
        BY <1>1, <1>3, <1>7, <2>1, <2>4
<1>12. CASE ~IsControl(fs[i].opcode) /\ fs[i].fin
    <2>1. ~OpenBefore(fs, i + 1)
        BY <1>6, <1>12 DEF IsData
    <2>2. FragmentIs(fs, i, a)
        BY <2>1 DEF FragmentIs
    <2>3. a = fragment \/ a = [fragment EXCEPT !.buf = <<>>, !.open = FALSE]
        BY <1>1, <1>7, <1>12 DEF FragmentAfter
    <2>4. <<>> \in Seq(Nat)
        OBVIOUS
    <2>5. a \in Fragments
        BY <2>3, <2>4 DEF Fragments
    <2>6. QED
        BY <1>1, <1>3, <1>7, <2>2, <2>5
<1>13. CASE ~IsControl(fs[i].opcode) /\ ~fs[i].fin /\ fs[i].opcode # Continuation
    <2>1. a = [opcode |-> fs[i].opcode, buf |-> p, open |-> TRUE]
        BY <1>1, <1>7, <1>13 DEF FragmentAfter
    <2>2. a \in Fragments /\ a.opcode = fs[i].opcode /\ a.buf = p
        BY <1>4, <1>5, <2>1 DEF Fragments
    <2>3. IsData(fs, i) /\ Begins(fs, i)
        BY <1>13 DEF IsData, Begins
    <2>4. JoinedData(fs, i, i) = p
        <3>1. i \in Nat \ {0} /\ i <= n + 1
            BY <1>1, <1>2
        <3>2. JoinedData(fs, i, n + 1) = JoinedData(fs, i, n) \o DataOf(fs, n + 1)
            BY <3>1, JoinedDataGrows
        <3>3. JoinedData(fs, i, n) = <<>>
            BY <1>1, <3>1, JoinedDataGrows
        <3>4. DataOf(fs, n + 1) = p
            BY <1>1, <1>3, <2>3 DEF DataOf
        <3>5. <<>> \o p = p
            BY <1>4, ConcatEmptySeq
        <3>6. QED
            BY <1>1, <3>2, <3>3, <3>4, <3>5
    <2>5. i \in 1 .. i /\ \A j \in i + 1 .. i : ~Begins(fs, j)
        BY <1>2
    <2>6. FragmentIs(fs, i, a)
        BY <2>2, <2>3, <2>4, <2>5 DEF FragmentIs
    <2>7. QED
        BY <1>1, <1>3, <1>7, <2>2, <2>6
<1>14. CASE ~fs[i].fin /\ fs[i].opcode = Continuation
    <2>1. IsData(fs, i) /\ ~Begins(fs, i) /\ ~IsControl(fs[i].opcode)
        BY <1>14 DEF IsData, Begins, IsControl, Continuation
    <2>2. a = [fragment EXCEPT !.buf = b]
        BY <1>1, <1>7, <1>9, <1>14, <2>1 DEF FragmentAfter
    <2>3. a \in Fragments /\ a.opcode = fragment.opcode /\ a.buf = b
        BY <1>8, <1>10, <2>2 DEF Fragments
    <2>4. OpenBefore(fs, n + 1)
        BY <1>1, <1>2, <1>14, <2>1, FrameFacts
    <2>5. PICK first \in 1 .. n : /\ Begins(fs, first)
                                  /\ \A j \in first + 1 .. n : ~Begins(fs, j)
                                  /\ fragment.opcode = fs[first].opcode
                                  /\ fragment.buf = JoinedData(fs, first, n)
        BY <2>4 DEF FragmentIs
    <2>6. first \in 1 .. i /\ \A j \in first + 1 .. i : ~Begins(fs, j)
        <3>1. (\A j \in first + 1 .. i : j \in first + 1 .. n \/ j = i) /\ first \in 1 .. i
            BY <1>1
        <3>2. QED
            BY <2>1, <2>5, <3>1
    <2>7. JoinedData(fs, first, n + 1) = JoinedData(fs, first, n) \o DataOf(fs, n + 1)
        <3>1. first \in Nat \ {0} /\ first <= n + 1
            OBVIOUS
        <3>2. QED
            BY <3>1, JoinedDataGrows
    <2>8. DataOf(fs, n + 1) = p
        BY <1>1, <1>3, <2>1 DEF DataOf
    <2>9. a.buf = JoinedData(fs, first, i)
        BY <1>1, <1>9, <2>3, <2>5, <2>7, <2>8
    <2>10. FragmentIs(fs, i, a)
        BY <2>3, <2>5, <2>6, <2>9 DEF FragmentIs
    <2>11. QED
        BY <1>1, <1>3, <1>7, <2>3, <2>10
<1>15. QED
    BY <1>11, <1>12, <1>13, <1>14

-----------------------------------------------------------------------------
(* The buffers hold what comes next in the stream.                         *)

LEMMA PartsOfASeq ==
    ASSUME NEW c \in Seq(Nat), NEW t \in 0 .. Len(c), NEW w, NEW p \in Nat, At(c, w, p)
    PROVE  /\ Upto(c, t) \in Seq(Nat) /\ Len(Upto(c, t)) = t /\ At(Upto(c, t), w, p)
           /\ After(c, t) \in Seq(Nat) /\ Len(After(c, t)) = Len(c) - t
           /\ At(After(c, t), w, p + t)
<1>1. PICK l \in Nat : l = Len(c)
    OBVIOUS
<1>2. t \in Nat /\ t <= l /\ \A i \in 1 .. l : c[i] \in Nat /\ c[i] = w[p + i]
    BY <1>1 DEF At
<1>3. PICK a : a = Upto(c, t)
    OBVIOUS
<1>4. /\ a \in Seq(Nat) /\ Len(a) = (IF 1 <= t THEN t - 1 + 1 ELSE 0)
      /\ \A i \in 1 .. t - 1 + 1 : a[i] = c[1 + i - 1]
    <2>1. \A i \in 1 .. t : c[i] \in Nat
        BY <1>2
    <2>2. a = SubSeq(c, 1, t)
        BY <1>3 DEF Upto
    <2>3. QED
        BY <1>2, <2>1, <2>2, SubSeqProperties
<1>5. Len(a) = t
    BY <1>2, <1>4
<1>6. \A i \in 1 .. t : a[i] = c[i]
    BY <1>2, <1>4
<1>7. At(a, w, p)
    <2>1. \A i \in 1 .. t : i \in 1 .. l
        BY <1>2
    <2>2. QED
        BY <1>2, <1>5, <1>6, <2>1 DEF At
<1>8. PICK b : b = After(c, t)
    OBVIOUS
<1>9. /\ b \in Seq(Nat) /\ Len(b) = (IF t + 1 <= l THEN l - (t + 1) + 1 ELSE 0)
      /\ \A i \in 1 .. l - (t + 1) + 1 : b[i] = c[(t + 1) + i - 1]
    <2>1. \A i \in t + 1 .. l : c[i] \in Nat
        BY <1>2
    <2>2. b = SubSeq(c, t + 1, l)
        BY <1>1, <1>8 DEF After
    <2>3. QED
        BY <1>2, <2>1, <2>2, SubSeqProperties
<1>10. Len(b) = l - t
    BY <1>2, <1>9
<1>11. \A i \in 1 .. l - t : b[i] = c[t + i]
    BY <1>2, <1>9
<1>12. At(b, w, p + t)
    <2>1. \A i \in 1 .. l - t : t + i \in 1 .. l /\ p + (t + i) = (p + t) + i
        BY <1>2
    <2>2. \A i \in 1 .. l - t : b[i] = w[(p + t) + i]
        BY <1>2, <1>11, <2>1
    <2>3. QED
        BY <1>10, <2>2 DEF At
<1>13. QED
    BY <1>1, <1>3, <1>4, <1>5, <1>7, <1>8, <1>9, <1>10, <1>12

\* Two pieces of the stream that follow each other are one piece.
LEMMA JoinedAt ==
    ASSUME NEW s \in Seq(Nat), NEW a \in Seq(Nat), NEW w, NEW p \in Nat,
           At(s, w, p), At(a, w, p + Len(s))
    PROVE  /\ s \o a \in Seq(Nat) /\ Len(s \o a) = Len(s) + Len(a)
           /\ At(s \o a, w, p)
<1>1. PICK c : c = s \o a
    OBVIOUS
<1>2. /\ c \in Seq(Nat) /\ Len(c) = Len(s) + Len(a)
      /\ \A i \in 1 .. Len(s) + Len(a) : c[i] = IF i <= Len(s) THEN s[i] ELSE a[i - Len(s)]
    BY <1>1, ConcatProperties
<1>3. ASSUME NEW i \in 1 .. Len(c) PROVE c[i] = w[p + i]
    <2>1. CASE i <= Len(s)
        <3>1. i \in 1 .. Len(s) /\ i \in 1 .. Len(s) + Len(a)
            BY <1>2, <2>1
        <3>2. c[i] = s[i]
            BY <1>2, <2>1, <3>1
        <3>3. s[i] = w[p + i]
            BY <3>1 DEF At
        <3>4. QED
            BY <3>2, <3>3
    <2>2. CASE ~(i <= Len(s))
        <3>1. /\ i - Len(s) \in 1 .. Len(a) /\ i \in 1 .. Len(s) + Len(a)
              /\ (p + Len(s)) + (i - Len(s)) = p + i
            BY <1>2, <2>2
        <3>2. c[i] = a[i - Len(s)]
            BY <1>2, <2>2, <3>1
        <3>3. a[i - Len(s)] = w[(p + Len(s)) + (i - Len(s))]
            BY <3>1 DEF At
        <3>4. QED
            BY <3>1, <3>2, <3>3
    <2>3. QED
        BY <2>1, <2>2
<1>4. At(c, w, p)
    BY <1>3 DEF At
<1>5. QED
    BY <1>1, <1>2, <1>4

\* Two pieces of one length at one place are the same.
LEMMA SamePlace ==
    ASSUME NEW s \in Seq(Nat), NEW t \in Seq(Nat), NEW w, NEW p \in Nat,
           Len(s) = Len(t), At(s, w, p), At(t, w, p)
    PROVE  s = t
<1>1. \A i \in 1 .. Len(s) : s[i] = t[i]
    BY DEF At
<1>2. QED
    BY <1>1, SeqEqual

\* h, b, c and r are what follows place p of the stream w, up to its end.
Holds(w, p, h, b, c, r) ==
    /\ At(h, w, p) /\ At(b, w, p + Len(h)) /\ At(c, w, p + Len(h) + Len(b))
    /\ At(r, w, p + Len(h) + Len(b) + Len(c))
    /\ p + Len(h) + Len(b) + Len(c) + Len(r) = Len(w)

LEMMA NothingIsHeld == \A w, p : At(<<>>, w, p) /\ <<>> \in Seq(Nat) /\ Len(<<>>) = 0
<1>1. Len(<<>>) = 0 /\ <<>> \in Seq(Nat)
    BY EmptySeq
<1>2. ASSUME NEW w, NEW p PROVE At(<<>>, w, p)
    BY <1>1 DEF At
<1>3. QED
    BY <1>1, <1>2

\* Feed moves bytes from the stream to the chunk.
LEMMA MoreIsFed ==
    ASSUME NEW h \in Seq(Nat), NEW b \in Seq(Nat), NEW r \in Seq(Nat), NEW w \in Seq(Nat),
           NEW p \in Nat, Holds(w, p, h, b, <<>>, r), NEW t \in 0 .. Len(r)
    PROVE  /\ Upto(r, t) \in Seq(Nat) /\ After(r, t) \in Seq(Nat)
           /\ Holds(w, p, h, b, Upto(r, t), After(r, t))
<1>1. PICK q \in Nat : q = p + Len(h) + Len(b)
    OBVIOUS
<1>2. At(h, w, p) /\ At(b, w, p + Len(h)) /\ At(r, w, q) /\ q + Len(r) = Len(w)
    BY <1>1, NothingIsHeld DEF Holds
<1>3. PICK x : x = Upto(r, t)
    OBVIOUS
<1>4. PICK y : y = After(r, t)
    OBVIOUS
<1>5. /\ x \in Seq(Nat) /\ Len(x) = t /\ At(x, w, q)
      /\ y \in Seq(Nat) /\ Len(y) = Len(r) - t /\ At(y, w, q + t)
    BY <1>2, <1>3, <1>4, PartsOfASeq
<1>6. Holds(w, p, h, b, x, y)
    <2>1. p + Len(h) + Len(b) = q /\ Len(x) = t /\ Len(y) = Len(r) - t /\ q + Len(r) = Len(w)
        BY <1>1, <1>2, <1>5
    <2>2. t \in Nat /\ Len(r) \in Nat
        OBVIOUS
    <2>3. q + t + (Len(r) - t) = q + Len(r)
        BY <2>2
    <2>4. /\ p + Len(h) + Len(b) + Len(x) = q + t
          /\ p + Len(h) + Len(b) + Len(x) + Len(y) = Len(w)
        BY <2>1, <2>3
    <2>5. QED
        BY <1>1, <1>2, <1>5, <2>4 DEF Holds
<1>7. QED
    BY <1>3, <1>4, <1>5, <1>6

\* A turn moves bytes from the chunk to the header.
LEMMA MoreOfTheHeader ==
    ASSUME NEW h \in Seq(Nat), NEW c \in Seq(Nat), NEW r \in Seq(Nat), NEW w \in Seq(Nat),
           NEW p \in Nat, Holds(w, p, h, <<>>, c, r), NEW t \in 0 .. Len(c)
    PROVE  /\ h \o Upto(c, t) \in Seq(Nat) /\ After(c, t) \in Seq(Nat)
           /\ Len(h \o Upto(c, t)) = Len(h) + t
           /\ Holds(w, p, h \o Upto(c, t), <<>>, After(c, t), r)
<1>1. PICK q \in Nat : q = p + Len(h)
    OBVIOUS
<1>2. At(h, w, p) /\ At(c, w, q) /\ At(r, w, q + Len(c)) /\ q + Len(c) + Len(r) = Len(w)
    BY <1>1, NothingIsHeld DEF Holds
<1>3. PICK x : x = Upto(c, t)
    OBVIOUS
<1>4. PICK y : y = After(c, t)
    OBVIOUS
<1>5. /\ x \in Seq(Nat) /\ Len(x) = t /\ At(x, w, q)
      /\ y \in Seq(Nat) /\ Len(y) = Len(c) - t /\ At(y, w, q + t)
    BY <1>2, <1>3, <1>4, PartsOfASeq
<1>6. PICK z : z = h \o x
    OBVIOUS
<1>7. z \in Seq(Nat) /\ Len(z) = Len(h) + t /\ At(z, w, p)
    BY <1>1, <1>2, <1>5, <1>6, JoinedAt
<1>8. Holds(w, p, z, <<>>, y, r)
    <2>1. Len(<<>>) = 0 /\ At(<<>>, w, p + Len(z))
        BY NothingIsHeld
    <2>2. /\ p + Len(h) = q /\ Len(z) = Len(h) + t /\ Len(y) = Len(c) - t
          /\ q + Len(c) + Len(r) = Len(w)
        BY <1>1, <1>2, <1>5, <1>7
    <2>3. t \in Nat /\ Len(c) \in Nat /\ Len(h) \in Nat
        OBVIOUS
    <2>4. p + (Len(h) + t) + 0 = (p + Len(h)) + t /\ q + t + (Len(c) - t) = q + Len(c)
        BY <2>3
    <2>5. /\ p + Len(z) + Len(<<>>) = q + t /\ p + Len(z) + Len(<<>>) + Len(y) = q + Len(c)
        BY <2>1, <2>2, <2>4
    <2>6. p + Len(z) + Len(<<>>) + Len(y) + Len(r) = Len(w)
        BY <2>2, <2>5
    <2>7. QED
        BY <1>2, <1>5, <1>7, <2>1, <2>5, <2>6 DEF Holds
<1>9. QED
    BY <1>3, <1>4, <1>5, <1>6, <1>7, <1>8

\* A turn moves bytes from the chunk to the payload.
LEMMA MoreOfThePayload ==
    ASSUME NEW h \in Seq(Nat), NEW b \in Seq(Nat), NEW c \in Seq(Nat), NEW r \in Seq(Nat),
           NEW w \in Seq(Nat), NEW p \in Nat, Holds(w, p, h, b, c, r), NEW t \in 0 .. Len(c)
    PROVE  /\ b \o Upto(c, t) \in Seq(Nat) /\ After(c, t) \in Seq(Nat)
           /\ Len(b \o Upto(c, t)) = Len(b) + t
           /\ Holds(w, p, h, b \o Upto(c, t), After(c, t), r)
<1>1. PICK o \in Nat : o = p + Len(h)
    OBVIOUS
<1>2. PICK q \in Nat : q = o + Len(b)
    OBVIOUS
<1>3. /\ At(h, w, p) /\ At(b, w, o) /\ At(c, w, q) /\ At(r, w, q + Len(c))
      /\ q + Len(c) + Len(r) = Len(w)
    BY <1>1, <1>2 DEF Holds
<1>4. PICK x : x = Upto(c, t)
    OBVIOUS
<1>5. PICK y : y = After(c, t)
    OBVIOUS
<1>6. /\ x \in Seq(Nat) /\ Len(x) = t /\ At(x, w, q)
      /\ y \in Seq(Nat) /\ Len(y) = Len(c) - t /\ At(y, w, q + t)
    BY <1>3, <1>4, <1>5, PartsOfASeq
<1>7. PICK z : z = b \o x
    OBVIOUS
<1>8. z \in Seq(Nat) /\ Len(z) = Len(b) + t /\ At(z, w, o)
    BY <1>2, <1>3, <1>6, <1>7, JoinedAt
<1>9. Holds(w, p, h, z, y, r)
    <2>1. /\ p + Len(h) = o /\ o + Len(b) = q /\ Len(z) = Len(b) + t /\ Len(y) = Len(c) - t
          /\ q + Len(c) + Len(r) = Len(w)
        BY <1>1, <1>2, <1>3, <1>6, <1>8
    <2>2. t \in Nat /\ Len(c) \in Nat /\ Len(b) \in Nat
        OBVIOUS
    <2>3. o + (Len(b) + t) = (o + Len(b)) + t /\ q + t + (Len(c) - t) = q + Len(c)
        BY <2>2
    <2>4. /\ p + Len(h) = o /\ p + Len(h) + Len(z) = q + t
          /\ p + Len(h) + Len(z) + Len(y) = q + Len(c)
        BY <2>1, <2>3
    <2>5. p + Len(h) + Len(z) + Len(y) + Len(r) = Len(w)
        BY <2>1, <2>4
    <2>6. QED
        BY <1>3, <1>6, <1>8, <2>4, <2>5 DEF Holds
<1>10. QED
    BY <1>4, <1>5, <1>6, <1>7, <1>8, <1>9

\* Once a frame is complete its bytes are behind.
LEMMA NextFrame ==
    ASSUME NEW h \in Seq(Nat), NEW b \in Seq(Nat), NEW c \in Seq(Nat), NEW r \in Seq(Nat),
           NEW w \in Seq(Nat), NEW p \in Nat, Holds(w, p, h, b, c, r)
    PROVE  Holds(w, p + Len(h) + Len(b), <<>>, <<>>, c, r)
<1>1. PICK q \in Nat : q = p + Len(h) + Len(b)
    OBVIOUS
<1>2. At(c, w, q) /\ At(r, w, q + Len(c)) /\ q + Len(c) + Len(r) = Len(w)
    BY <1>1 DEF Holds
<1>3. Holds(w, q, <<>>, <<>>, c, r)
    <2>1. Len(<<>>) = 0 /\ At(<<>>, w, q) /\ At(<<>>, w, q + Len(<<>>))
        BY NothingIsHeld
    <2>2. /\ q + Len(<<>>) + Len(<<>>) = q /\ q + Len(<<>>) + Len(<<>>) + Len(c) = q + Len(c)
          /\ q + Len(<<>>) + Len(<<>>) + Len(c) + Len(r) = Len(w)
        BY <1>2, <2>1
    <2>3. QED
        BY <1>2, <2>1, <2>2 DEF Holds
<1>4. QED
    BY <1>1, <1>3

\* A new connection has its stream before it.
LEMMA NothingIsRead ==
    ASSUME NEW w \in Seq(Nat)
    PROVE  Holds(w, 0, <<>>, <<>>, <<>>, w)
<1>1. At(w, w, 0)
    BY DEF At
<1>2. QED
    BY <1>1, NothingIsHeld DEF Holds

-----------------------------------------------------------------------------
(* The inductive invariant.                                                *)

Buffers ==
    /\ frames \in Sendable
    /\ wire \in Seq(Nat) /\ chunk \in Seq(Nat)
    /\ header \in Seq(Nat) /\ payload_buf \in Seq(Nat)
    /\ fragment \in Fragments

\* The parser holds the bytes of the stream after frame m, chunk and wire the rest.
InStream(m) == Holds(Wire(frames), EndOf(frames, m), header, payload_buf, chunk, wire)

\* What the parser knows of the frame it reads, by state.
InMinHeader ==
    state = "ReadMinHeader" /\ header_total = 2 /\ Len(header) < 2 /\ payload_buf = <<>>
InExtHeader(f) ==
    /\ state = "ReadExtHeader" /\ header_total = HeaderLength(f) /\ payload_buf = <<>>
    /\ 2 <= Len(header) /\ Len(header) < header_total
InPayload(f) ==
    /\ state = "ReadPayload" /\ Len(header) = HeaderLength(f)
    /\ Len(payload_buf) < f.announced /\ f.announced <= kMaxPayloadSize
    /\ frame.payload_len = f.announced /\ frame.fin = f.fin /\ frame.opcode = f.opcode
    /\ frame.masked = f.masked /\ (f.masked => frame.mask_key = MaskKey)

\* A header that announces too much is held for good, and what follows is lost.
GivenUp(f, m) ==
    /\ f.announced > kMaxPayloadSize
    /\ state = "ReadExtHeader" /\ header = Header(f)
    /\ header_total = HeaderLength(f) /\ payload_buf = <<>>
    /\ EndOf(frames, m) + Len(chunk) + Len(wire) <= Len(Wire(frames))

\* Of the first n frames the messages were delivered, but for what the fragment holds.
Delivered(fs, n, out, frag) ==
    /\ \A i \in 1 .. n : fs[i].announced <= kMaxPayloadSize
    /\ out = MessagesOf(fs, n)
    /\ FragmentIs(fs, n, frag)

Reading(m) ==
    \/ InStream(m) /\ InMinHeader
    \/ m < Len(frames) /\ InStream(m) /\ (InExtHeader(frames[m + 1]) \/ InPayload(frames[m + 1]))
    \/ m < Len(frames) /\ GivenUp(frames[m + 1], m)

FrameInv ==
    Buffers /\ \E m \in 0 .. Len(frames) : Delivered(frames, m, emitted, fragment) /\ Reading(m)

\* All that the proofs use of the limit of a payload.
LEMMA Limit == kMaxPayloadSize \in Nat /\ kMaxPayloadSize > 126
    BY SMT DEF kMaxPayloadSize

LEMMA StreamFacts ==
    ASSUME NEW fs \in Sendable, NEW m \in 0 .. Len(fs)
    PROVE  /\ Len(fs) \in Nat /\ m \in Nat
           /\ Wire(fs) \in Seq(Nat) /\ Len(Wire(fs)) = EndOf(fs, Len(fs))
           /\ EndOf(fs, m) \in Nat /\ EndOf(fs, m) <= Len(Wire(fs))
<1>1. Len(fs) \in Nat /\ m \in Nat /\ Len(fs) \in 0 .. Len(fs) /\ m <= Len(fs)
      /\ Len(fs) <= Len(fs)
    BY FrameFacts
<1>2. EndOf(fs, m) \in Nat
    BY EncodedFrames
<1>3. Wire(fs) \in Seq(Nat)
    BY <1>1, EncodedFrames DEF Wire
<1>4. EndOf(fs, m) <= EndOf(fs, Len(fs))
    BY <1>1, EndsGrow
<1>5. QED
    BY <1>1, <1>2, <1>3, <1>4 DEF EndOf, Wire

\* The frame that is being read.
LEMMA NextFrameFacts ==
    ASSUME NEW fs \in Sendable, NEW m \in Nat, m < Len(fs), NEW f, f = fs[m + 1]
    PROVE  /\ f \in Frame /\ Announced(f) /\ Writable(f)
           /\ Len(f.payload) \in Nat /\ HeaderLength(f) \in Nat /\ HeaderLength(f) >= 2
           /\ f.announced \in Nat
           /\ f.announced <= kMaxPayloadSize => f.announced = Len(f.payload)
           /\ f.announced > kMaxPayloadSize => HeaderLength(f) > 2
           /\ EndOf(fs, m + 1) = EndOf(fs, m) + HeaderLength(f) + Len(f.payload)
<1>1. m + 1 \in 1 .. Len(fs) /\ m \in 0 .. Len(fs) /\ Len(fs) \in Nat
    BY FrameFacts
<1>2. f \in Frame /\ Announced(f)
    BY <1>1, FrameFacts
<1>3. Writable(f) /\ Len(f.payload) \in Nat /\ Len(Encode(f)) = HeaderLength(f) + Len(f.payload)
    BY <1>2, EncodeParts
<1>4. HeaderLength(f) \in Nat /\ HeaderLength(f) >= 2
    BY <1>3, HeaderParts
<1>5. f.announced \in Nat
    BY <1>3 DEF Writable
<1>6. f.announced <= kMaxPayloadSize => f.announced = Len(f.payload)
    BY <1>2, <1>5, Limit DEF Announced
<1>7. f.announced > kMaxPayloadSize => HeaderLength(f) > 2
    <2>1. SUFFICES ASSUME f.announced > kMaxPayloadSize PROVE HeaderLength(f) > 2
        OBVIOUS
    <2>2. f.width # 7
        BY <1>3, <1>5, <2>1, Limit, WidthFacts
    <2>3. LengthBytes(f.width) \in {2, 8}
        BY <1>3, <2>2, WidthFacts
    <2>4. f.masked \in BOOLEAN
        BY <1>3 DEF Writable
    <2>5. QED
        BY <2>3, <2>4 DEF HeaderLength
<1>8. EndOf(fs, m + 1) = EndOf(fs, m) + (HeaderLength(f) + Len(f.payload))
    BY <1>3, BytesGrow
<1>9. EndOf(fs, m) \in Nat
    BY <1>1, EncodedFrames
<1>10. QED
    BY <1>2, <1>3, <1>4, <1>5, <1>6, <1>7, <1>8, <1>9

\* The bytes after frame m are the next header: two of them say how long it is.
LEMMA HeaderIsHeld ==
    ASSUME NEW fs \in Sendable, NEW m \in Nat, m < Len(fs), NEW f, f = fs[m + 1],
           NEW h \in Seq(Nat), At(h, Wire(fs), EndOf(fs, m)), Len(h) <= HeaderLength(f)
    PROVE  /\ Len(h) >= 2 => HeaderTotal(h) = HeaderLength(f)
           /\ Len(h) = HeaderLength(f) => h = Header(f)
<1>1. f \in Frame /\ Announced(f) /\ Writable(f)
    BY NextFrameFacts
<1>2. PICK g : g = Header(f)
    OBVIOUS
<1>3. PICK y : y = OnWire(f)
    OBVIOUS
<1>4. /\ g \in Seq(Nat) /\ Len(g) = HeaderLength(f) /\ HeaderLength(f) \in Nat
      /\ g[2] = Flag(f.masked) + LengthCode(f.announced, f.width)
    BY <1>1, <1>2, HeaderParts
<1>5. y \in Seq(Nat) /\ Encode(f) = g \o y
    BY <1>1, <1>2, <1>3, EncodeParts
<1>6. PICK x : x = EndOf(fs, m)
    OBVIOUS
<1>7. PICK w : w = Wire(fs)
    OBVIOUS
<1>8. At(g \o y, w, x)
    BY <1>5, <1>6, <1>7, FrameInStream
<1>9. /\ Len(g \o y) = Len(g) + Len(y)
      /\ \A i \in 1 .. Len(g) + Len(y) : (g \o y)[i] = IF i <= Len(g) THEN g[i] ELSE y[i - Len(g)]
    BY <1>4, <1>5, ConcatProperties
<1>10. \A i \in 1 .. Len(h) : h[i] = g[i]
    <2>1. TAKE i \in 1 .. Len(h)
    <2>2. i \in 1 .. Len(g) + Len(y) /\ i <= Len(g)
        BY <1>4, <1>5, SMTT(30)
    <2>3. (g \o y)[i] = g[i]
        BY <1>9, <2>2
    <2>4. (g \o y)[i] = w[x + i]
        BY <1>8, <1>9, <2>2 DEF At
    <2>5. h[i] = w[x + i]
        BY <1>6, <1>7 DEF At
    <2>6. QED
        BY <2>3, <2>4, <2>5
<1>11. Len(h) >= 2 => HeaderTotal(h) = HeaderLength(f)
    <2>1. SUFFICES ASSUME Len(h) >= 2 PROVE HeaderTotal(h) = HeaderLength(f)
        OBVIOUS
    <2>2. 2 \in 1 .. Len(h)
        BY <2>1
    <2>3. h[2] = Flag(f.masked) + LengthCode(f.announced, f.width)
        BY <1>4, <1>10, <2>2
    <2>4. QED
        BY <1>1, <2>3, HeaderTotalIsRead
<1>12. Len(h) = HeaderLength(f) => h = g
    BY <1>4, <1>10, SeqEqual
<1>13. QED
    BY <1>2, <1>11, <1>12

\* The bytes after that header are the payload.
LEMMA PayloadIsHeld ==
    ASSUME NEW fs \in Sendable, NEW m \in Nat, m < Len(fs), NEW f, f = fs[m + 1],
           NEW b \in Seq(Nat), At(b, Wire(fs), EndOf(fs, m) + HeaderLength(f)),
           Len(b) = Len(f.payload)
    PROVE  b = OnWire(f)
<1>1. f \in Frame /\ Announced(f) /\ Writable(f) /\ HeaderLength(f) \in Nat
    BY NextFrameFacts
<1>2. PICK g : g = Header(f)
    OBVIOUS
<1>3. PICK y : y = OnWire(f)
    OBVIOUS
<1>4. g \in Seq(Nat) /\ Len(g) = HeaderLength(f)
    BY <1>1, <1>2, HeaderParts
<1>5. y \in Seq(Nat) /\ Encode(f) = g \o y /\ Len(y) = Len(f.payload)
    BY <1>1, <1>2, <1>3, EncodeParts
<1>6. PICK x \in Nat : x = EndOf(fs, m)
    <2>1. m \in 0 .. Len(fs)
        BY FrameFacts
    <2>2. QED
        BY <2>1, EncodedFrames
<1>7. PICK w : w = Wire(fs)
    OBVIOUS
<1>8. At(g \o y, w, x)
    BY <1>5, <1>6, <1>7, FrameInStream
<1>9. /\ Len(g \o y) = Len(g) + Len(y)
      /\ \A i \in 1 .. Len(g) + Len(y) : (g \o y)[i] = IF i <= Len(g) THEN g[i] ELSE y[i - Len(g)]
    BY <1>4, <1>5, ConcatProperties
<1>10. \A i \in 1 .. Len(b) : b[i] = y[i]
    <2>1. TAKE i \in 1 .. Len(b)
    <2>2. PICK l \in Nat : l = Len(g)
        BY <1>4
    <2>3. /\ l + i \in 1 .. Len(g) + Len(y) /\ ~(l + i <= Len(g)) /\ (l + i) - Len(g) = i
          /\ x + (l + i) = (x + l) + i
        BY <1>5, <2>2, SMTT(30)
    <2>4. (g \o y)[l + i] = y[i]
        BY <1>9, <2>3
    <2>5. (g \o y)[l + i] = w[x + (l + i)]
        BY <1>8, <1>9, <2>3 DEF At
    <2>6. b[i] = w[(x + l) + i]
        BY <1>4, <1>6, <1>7, <2>2 DEF At
    <2>7. QED
        BY <2>3, <2>4, <2>5, <2>6
<1>11. QED
    BY <1>3, <1>5, <1>10, SeqEqual

\* Only while frames are left can there be something to read.
LEMMA FramesAreLeft ==
    ASSUME Buffers, NEW m \in 0 .. Len(frames), InStream(m), chunk # <<>>
    PROVE  m \in Nat /\ m < Len(frames)
<1>1. frames \in Sendable /\ chunk \in Seq(Nat) /\ header \in Seq(Nat)
      /\ payload_buf \in Seq(Nat) /\ wire \in Seq(Nat)
    BY DEF Buffers
<1>2. /\ Len(frames) \in Nat /\ m \in Nat /\ m <= Len(frames)
      /\ Len(Wire(frames)) = EndOf(frames, Len(frames)) /\ EndOf(frames, m) \in Nat
    BY <1>1, StreamFacts
<1>3. Len(chunk) \in Nat /\ Len(chunk) # 0
    BY <1>1, EmptySeq
<1>4. EndOf(frames, m) + Len(header) + Len(payload_buf) + Len(chunk) + Len(wire)
          = Len(Wire(frames))
    BY DEF InStream, Holds
<1>5. Len(header) \in Nat /\ Len(payload_buf) \in Nat /\ Len(wire) \in Nat
    BY <1>1
<1>6. m # Len(frames)
    BY <1>2, <1>3, <1>4, <1>5
<1>7. QED
    BY <1>2, <1>6

-----------------------------------------------------------------------------
(* What a turn of the loop reads.                                          *)

\* No turn takes more than the header lacks, or than there is.
LEMMA TakenOfTheHeader ==
    ASSUME chunk \in Seq(Nat), header \in Seq(Nat), state # "ReadPayload",
           header_total \in Nat, Len(header) <= header_total
    PROVE  /\ Taken \in 0 .. Len(chunk) /\ Len(header) + Taken <= header_total
           /\ Len(header) = header_total => Taken = 0
<1>1. Len(chunk) \in Nat /\ Len(header) \in Nat
    OBVIOUS
<1>2. Taken = Smallest(header_total - Len(header), Len(chunk))
    BY DEF Taken
<1>3. QED
    BY <1>1, <1>2 DEF Smallest

\* No turn takes more than the payload lacks, or than there is.
LEMMA TakenOfThePayload ==
    ASSUME chunk \in Seq(Nat), payload_buf \in Seq(Nat), state = "ReadPayload",
           NEW n \in Nat, frame.payload_len = n, Len(payload_buf) <= n
    PROVE  Taken \in 0 .. Len(chunk) /\ Len(payload_buf) + Taken <= n
<1>1. Len(chunk) \in Nat /\ Len(payload_buf) \in Nat
    OBVIOUS
<1>2. Taken = Smallest(n - Len(payload_buf), Len(chunk))
    BY DEF Taken
<1>3. QED
    BY <1>1, <1>2 DEF Smallest

\* What a turn knows that reads a header.
LEMMA HeaderTurn ==
    ASSUME Buffers, NEW m \in 0 .. Len(frames), InStream(m), chunk # <<>>,
           NEW f, f = frames[m + 1], InMinHeader \/ InExtHeader(f)
    PROVE  /\ m \in Nat /\ m < Len(frames)
           /\ HeaderRead \in Seq(Nat) /\ Rest \in Seq(Nat)
           /\ Holds(Wire(frames), EndOf(frames, m), HeaderRead, <<>>, Rest, wire)
           /\ Len(header) <= Len(HeaderRead) /\ Len(HeaderRead) <= header_total
           /\ header_total <= HeaderLength(f)
           /\ Len(HeaderRead) >= 2 => HeaderTotal(HeaderRead) = HeaderLength(f)
           /\ Len(HeaderRead) = HeaderLength(f) => HeaderRead = Header(f)
<1>1. m \in Nat /\ m < Len(frames)
    BY FramesAreLeft
<1>2. /\ frames \in Sendable /\ chunk \in Seq(Nat) /\ header \in Seq(Nat) /\ wire \in Seq(Nat)
    BY DEF Buffers
<1>3. Writable(f) /\ HeaderLength(f) \in Nat /\ HeaderLength(f) >= 2
    BY <1>1, <1>2, NextFrameFacts
<1>4. payload_buf = <<>>
    BY DEF InMinHeader, InExtHeader
<1>5. /\ header_total \in Nat /\ Len(header) <= header_total /\ header_total <= HeaderLength(f)
      /\ state # "ReadPayload"
    BY <1>2, <1>3, SMTT(30) DEF InMinHeader, InExtHeader
<1>6. PICK t : t = Taken
    OBVIOUS
<1>7. t \in 0 .. Len(chunk) /\ Len(header) + t <= header_total
    BY <1>2, <1>5, <1>6, TakenOfTheHeader
<1>8. PICK w : w = Wire(frames)
    OBVIOUS
<1>9. PICK x : x = EndOf(frames, m)
    OBVIOUS
<1>10. w \in Seq(Nat) /\ x \in Nat
    BY <1>2, <1>8, <1>9, StreamFacts
<1>11. Holds(w, x, header, <<>>, chunk, wire)
    BY <1>4, <1>8, <1>9 DEF InStream
<1>12. PICK h : h = header \o Upto(chunk, t)
    OBVIOUS
<1>13. PICK r : r = After(chunk, t)
    OBVIOUS
<1>14. h \in Seq(Nat) /\ r \in Seq(Nat) /\ Len(h) = Len(header) + t /\ Holds(w, x, h, <<>>, r, wire)
    BY <1>2, <1>7, <1>10, <1>11, <1>12, <1>13, MoreOfTheHeader
<1>15. HeaderRead = h /\ Rest = r
    BY <1>6, <1>12, <1>13 DEF HeaderRead, Rest
<1>16. Len(header) <= Len(h) /\ Len(h) <= header_total /\ Len(h) <= HeaderLength(f)
    BY <1>2, <1>3, <1>5, <1>7, <1>14, SMTT(30)
<1>17. At(h, Wire(frames), EndOf(frames, m))
    BY <1>8, <1>9, <1>14 DEF Holds
<1>18. /\ Len(h) >= 2 => HeaderTotal(h) = HeaderLength(f)
       /\ Len(h) = HeaderLength(f) => h = Header(f)
    BY <1>1, <1>2, <1>14, <1>16, <1>17, HeaderIsHeld
<1>19. QED
    BY <1>1, <1>5, <1>8, <1>9, <1>14, <1>15, <1>16, <1>18

\* A header that has ended is the header of the frame, and its fields are the frame's.
LEMMA HeaderIsComplete ==
    ASSUME Buffers, NEW m \in 0 .. Len(frames), InStream(m), chunk # <<>>,
           NEW f, f = frames[m + 1], InMinHeader \/ InExtHeader(f), HeaderEnds
    PROVE  /\ HeaderRead = Header(f) /\ header_total = HeaderLength(f)
           /\ Len(HeaderRead) = HeaderLength(f)
           /\ Fields(HeaderRead).payload_len = f.announced
           /\ Fields(HeaderRead).fin = f.fin /\ Fields(HeaderRead).opcode = f.opcode
           /\ Fields(HeaderRead).masked = f.masked
           /\ f.masked => Fields(HeaderRead).mask_key = MaskKey
<1>1. m \in Nat /\ m < Len(frames) /\ frames \in Sendable
    BY HeaderTurn DEF Buffers
<1>2. Writable(f)
    BY <1>1, NextFrameFacts
<1>3. Len(HeaderRead) = header_total /\ (state = "ReadExtHeader" \/ HeaderTotal(HeaderRead) = 2)
    BY DEF HeaderEnds
<1>4. /\ Len(HeaderRead) >= 2 => HeaderTotal(HeaderRead) = HeaderLength(f)
      /\ Len(HeaderRead) = HeaderLength(f) => HeaderRead = Header(f)
    BY HeaderTurn
<1>5. header_total = HeaderLength(f)
    <2>1. CASE InExtHeader(f)
        BY <2>1 DEF InExtHeader
    <2>2. CASE InMinHeader
        <3>1. state = "ReadMinHeader" /\ header_total = 2
            BY <2>2 DEF InMinHeader
        <3>2. QED
            BY <1>3, <1>4, <3>1
    <2>3. QED
        BY <2>1, <2>2
<1>6. HeaderRead = Header(f)
    BY <1>3, <1>4, <1>5
<1>7. PICK h : h = Header(f)
    OBVIOUS
<1>8. /\ Fields(h).payload_len = f.announced
      /\ Fields(h).fin = f.fin /\ Fields(h).opcode = f.opcode /\ Fields(h).masked = f.masked
      /\ f.masked => Fields(h).mask_key = MaskKey
    BY <1>2, <1>7, FieldsAreRead
<1>9. QED
    BY <1>3, <1>5, <1>6, <1>7, <1>8

\* A header that was given up is not read on.
LEMMA GivenUpTurn ==
    ASSUME Buffers, NEW m \in Nat, m < Len(frames), NEW f, f = frames[m + 1], GivenUp(f, m)
    PROVE  /\ HeaderRead = header /\ Len(HeaderRead) = header_total
           /\ Fields(HeaderRead).payload_len = f.announced
           /\ f.announced \in Nat /\ f.announced > kMaxPayloadSize
           /\ state = "ReadExtHeader" /\ HeaderLength(f) \in Nat /\ header_total \in Nat
<1>1. frames \in Sendable /\ chunk \in Seq(Nat) /\ header \in Seq(Nat)
    BY DEF Buffers
<1>2. Writable(f) /\ HeaderLength(f) \in Nat /\ f.announced \in Nat
    BY <1>1, NextFrameFacts
<1>3. /\ state = "ReadExtHeader" /\ header = Header(f) /\ header_total = HeaderLength(f)
      /\ f.announced > kMaxPayloadSize
    BY DEF GivenUp
<1>4. Len(Header(f)) = HeaderLength(f)
    BY <1>2, HeaderParts
<1>5. Len(header) = header_total /\ header_total \in Nat /\ state # "ReadPayload"
      /\ Len(header) <= header_total
    BY <1>2, <1>3, <1>4
<1>6. Taken = 0
    BY <1>1, <1>5, TakenOfTheHeader
<1>7. Upto(chunk, 0) = <<>>
    BY SubSeqEmpty DEF Upto
<1>8. header \o <<>> = header
    BY <1>1, ConcatEmptySeq
<1>9. HeaderRead = header
    BY <1>6, <1>7, <1>8 DEF HeaderRead
<1>10. Fields(Header(f)).payload_len = f.announced
    BY <1>2, FieldsAreRead
<1>11. QED
    BY <1>2, <1>3, <1>5, <1>9, <1>10

\* What a turn knows that reads a payload.
LEMMA PayloadTurn ==
    ASSUME Buffers, NEW m \in 0 .. Len(frames), InStream(m), m < Len(frames),
           NEW f, f = frames[m + 1], InPayload(f)
    PROVE  /\ PayloadRead \in Seq(Nat) /\ Rest \in Seq(Nat)
           /\ Holds(Wire(frames), EndOf(frames, m), header, PayloadRead, Rest, wire)
           /\ Len(PayloadRead) <= Len(f.payload) /\ f.announced = Len(f.payload)
           /\ Len(PayloadRead) = Len(f.payload) => PayloadRead = OnWire(f)
<1>1. /\ frames \in Sendable /\ chunk \in Seq(Nat) /\ header \in Seq(Nat)
      /\ payload_buf \in Seq(Nat) /\ wire \in Seq(Nat)
    BY DEF Buffers
<1>2. m \in Nat /\ Len(frames) \in Nat
    BY <1>1, StreamFacts
<1>3. /\ state = "ReadPayload" /\ frame.payload_len = f.announced
      /\ Len(payload_buf) < f.announced /\ f.announced <= kMaxPayloadSize
      /\ Len(header) = HeaderLength(f)
    BY DEF InPayload
<1>4. f.announced = Len(f.payload) /\ f.announced \in Nat
    BY <1>1, <1>2, <1>3, NextFrameFacts
<1>5. PICK t : t = Taken
    OBVIOUS
<1>6. t \in 0 .. Len(chunk) /\ Len(payload_buf) + t <= f.announced
    <2>1. PICK n \in Nat : n = f.announced
        BY <1>4
    <2>2. Len(payload_buf) <= n /\ frame.payload_len = n
        BY <1>1, <1>3, <2>1
    <2>3. QED
        BY <1>1, <1>3, <1>5, <2>1, <2>2, TakenOfThePayload
<1>7. PICK w : w = Wire(frames)
    OBVIOUS
<1>8. PICK x : x = EndOf(frames, m)
    OBVIOUS
<1>9. w \in Seq(Nat) /\ x \in Nat
    BY <1>1, <1>7, <1>8, StreamFacts
<1>10. Holds(w, x, header, payload_buf, chunk, wire)
    BY <1>7, <1>8 DEF InStream
<1>11. PICK b : b = payload_buf \o Upto(chunk, t)
    OBVIOUS
<1>12. PICK r : r = After(chunk, t)
    OBVIOUS
<1>13. /\ b \in Seq(Nat) /\ r \in Seq(Nat) /\ Len(b) = Len(payload_buf) + t
       /\ Holds(w, x, header, b, r, wire)
    BY <1>1, <1>6, <1>9, <1>10, <1>11, <1>12, MoreOfThePayload, SMTT(30)
<1>14. PayloadRead = b /\ Rest = r
    BY <1>5, <1>11, <1>12 DEF PayloadRead, Rest
<1>15. At(b, Wire(frames), EndOf(frames, m) + HeaderLength(f))
    BY <1>3, <1>7, <1>8, <1>13 DEF Holds
<1>16. Len(b) = Len(f.payload) => b = OnWire(f)
    BY <1>1, <1>2, <1>13, <1>15, PayloadIsHeld
<1>17. Len(b) <= Len(f.payload)
    BY <1>4, <1>6, <1>13
<1>18. QED
    BY <1>4, <1>7, <1>8, <1>13, <1>14, <1>16, <1>17

-----------------------------------------------------------------------------
(* Every step preserves the invariant.                                     *)

\* The frame that was read is delivered, and the parser waits for the next one.
LEMMA FrameEnds ==
    ASSUME Buffers, NEW m \in Nat, m < Len(frames), Delivered(frames, m, emitted, fragment),
           NEW f, f = frames[m + 1], f.announced <= kMaxPayloadSize,
           NEW g, g.fin = f.fin, g.opcode = f.opcode,
           NEW buf, Unmasked(g, buf) = f.payload,
           NEW rest \in Seq(Nat), FrameComplete(g, buf, rest),
           UNCHANGED <<frames, wire>>,
           Holds(Wire(frames), EndOf(frames, m + 1), <<>>, <<>>, rest, wire)
    PROVE  FrameInv'
<1>1. frames \in Sendable /\ wire \in Seq(Nat) /\ fragment \in Fragments
    BY DEF Buffers
<1>2. Len(frames) \in Nat
    BY <1>1, FrameFacts
<1>3. PICK k : k \in 0 .. Len(frames) /\ k = m + 1
    BY <1>2
<1>4. /\ emitted' = IF IsEmitted(g) THEN Append(emitted, Emission(g, f.payload)) ELSE emitted
      /\ fragment' = FragmentAfter(g, f.payload)
      /\ state' = "ReadMinHeader" /\ header' = <<>> /\ header_total' = 2
      /\ payload_buf' = <<>> /\ chunk' = rest
    BY DEF FrameComplete
<1>5. frames' = frames /\ wire' = wire
    OBVIOUS
<1>6. /\ \A i \in 1 .. m : frames[i].announced <= kMaxPayloadSize
      /\ emitted = MessagesOf(frames, m) /\ FragmentIs(frames, m, fragment)
    BY DEF Delivered
<1>7. \A i \in 1 .. k : frames[i].announced <= kMaxPayloadSize
    <2>1. \A i \in 1 .. k : i \in 1 .. m \/ i = m + 1
        BY <1>3
    <2>2. QED
        BY <1>6, <2>1
<1>8. emitted' = MessagesOf(frames, m + 1)
    <2>1. /\ IsEmitted(g) <=> f.fin
          /\ IsEmitted(g) => Emission(g, f.payload) = MessageAt(frames, m + 1)
        BY <1>1, <1>6, MessageIsDelivered
    <2>2. MessagesOf(frames, m + 1) =
              IF f.fin THEN Append(MessagesOf(frames, m), MessageAt(frames, m + 1))
              ELSE MessagesOf(frames, m)
        BY <1>1, MessagesGrow
    <2>3. QED
        BY <1>4, <1>6, <2>1, <2>2
<1>9. FragmentIs(frames, m + 1, fragment') /\ fragment' \in Fragments
    BY <1>1, <1>4, <1>6, FragmentIsKept
<1>10. Delivered(frames', k, emitted', fragment')
    BY <1>3, <1>5, <1>7, <1>8, <1>9 DEF Delivered
<1>11. Buffers'
    <2>1. <<>> \in Seq(Nat)
        OBVIOUS
    <2>2. QED
        BY <1>1, <1>4, <1>5, <1>9, <2>1 DEF Buffers
<1>12. Reading(k)'
    <2>1. InMinHeader'
        <3>1. Len(<<>>) < 2
            BY NothingIsHeld
        <3>2. QED
            BY <1>4, <3>1 DEF InMinHeader
    <2>2. InStream(k)'
        BY <1>3, <1>4, <1>5 DEF InStream
    <2>3. QED
        BY <2>1, <2>2 DEF Reading
<1>13. QED
    BY <1>3, <1>5, <1>10, <1>11, <1>12 DEF FrameInv

LEMMA FeedStep ==
    ASSUME Buffers, NEW m \in 0 .. Len(frames), Delivered(frames, m, emitted, fragment),
           Reading(m), Feed
    PROVE  FrameInv'
<1>1. /\ frames \in Sendable /\ wire \in Seq(Nat) /\ header \in Seq(Nat)
      /\ payload_buf \in Seq(Nat) /\ fragment \in Fragments
    BY DEF Buffers
<1>2. /\ frames' = frames /\ state' = state /\ header' = header /\ header_total' = header_total
      /\ frame' = frame /\ payload_buf' = payload_buf /\ fragment' = fragment
      /\ emitted' = emitted /\ chunk = <<>>
    BY DEF Feed, parserVars
<1>3. PICK t \in 1 .. Smallest(MaxChunk, Len(wire)) :
          chunk' = Upto(wire, t) /\ wire' = After(wire, t)
    BY DEF Feed
<1>4. t \in 0 .. Len(wire)
    <2>1. MaxChunk \in Nat /\ Len(wire) \in Nat
        BY <1>1, ChunkAssumption
    <2>2. QED
        BY <2>1 DEF Smallest
<1>5. At(wire, wire, 0)
    BY <1>1 DEF At
<1>6. chunk' \in Seq(Nat) /\ wire' \in Seq(Nat) /\ Len(chunk') + Len(wire') = Len(wire)
    <2>1. /\ Upto(wire, t) \in Seq(Nat) /\ Len(Upto(wire, t)) = t
          /\ After(wire, t) \in Seq(Nat) /\ Len(After(wire, t)) = Len(wire) - t
        BY <1>1, <1>4, <1>5, PartsOfASeq
    <2>2. QED
        BY <1>1, <1>3, <1>4, <2>1
<1>7. PICK w : w = Wire(frames)
    OBVIOUS
<1>8. PICK x : x = EndOf(frames, m)
    OBVIOUS
<1>9. w \in Seq(Nat) /\ x \in Nat
    BY <1>1, <1>7, <1>8, StreamFacts
<1>10. Buffers'
    BY <1>1, <1>2, <1>6 DEF Buffers
<1>11. Delivered(frames', m, emitted', fragment')
    BY <1>2
<1>12. ASSUME InStream(m) PROVE InStream(m)'
    <2>1. Holds(w, x, header, payload_buf, <<>>, wire)
        BY <1>2, <1>7, <1>8, <1>12 DEF InStream
    <2>2. Holds(w, x, header, payload_buf, Upto(wire, t), After(wire, t))
        BY <1>1, <1>4, <1>9, <2>1, MoreIsFed
    <2>3. QED
        BY <1>2, <1>3, <1>7, <1>8, <2>2 DEF InStream
<1>13. ASSUME NEW f, GivenUp(f, m) PROVE GivenUp(f, m)'
    <2>1. Len(<<>>) = 0 /\ Len(wire) \in Nat /\ x + Len(<<>>) + Len(wire) <= Len(w)
        BY <1>1, <1>2, <1>7, <1>8, <1>13, NothingIsHeld DEF GivenUp
    <2>2. Len(chunk') \in Nat /\ Len(wire') \in Nat
        BY <1>6
    <2>3. x + Len(chunk') + Len(wire') <= Len(w)
        BY <1>6, <1>9, <2>1, <2>2
    <2>4. QED
        BY <1>2, <1>7, <1>8, <1>13, <2>3 DEF GivenUp
<1>14. PICK f : f = frames[m + 1]
    OBVIOUS
<1>15. /\ InMinHeader => InMinHeader'
       /\ InExtHeader(f) => InExtHeader(f)'
       /\ InPayload(f) => InPayload(f)'
    BY <1>2 DEF InMinHeader, InExtHeader, InPayload
<1>16. Reading(m)'
    BY <1>2, <1>12, <1>13, <1>14, <1>15 DEF Reading
<1>17. QED
    BY <1>2, <1>10, <1>11, <1>16 DEF FrameInv

\* The parser goes on in the frame after frame m.
LEMMA SameFrame ==
    ASSUME Buffers, NEW m \in 0 .. Len(frames), Delivered(frames, m, emitted, fragment),
           UNCHANGED <<frames, wire, fragment, emitted>>,
           header' \in Seq(Nat), payload_buf' \in Seq(Nat), chunk' \in Seq(Nat), Reading(m)'
    PROVE  FrameInv'
<1>1. Buffers'
    BY DEF Buffers
<1>2. Delivered(frames', m, emitted', fragment')
    OBVIOUS
<1>3. QED
    BY <1>1, <1>2 DEF FrameInv

LEMMA HeaderIsPartialStep ==
    ASSUME Buffers, NEW m \in 0 .. Len(frames), Delivered(frames, m, emitted, fragment),
           Reading(m), HeaderIsPartial
    PROVE  FrameInv'
<1>1. /\ chunk # <<>> /\ state \in {"ReadMinHeader", "ReadExtHeader"}
      /\ frames' = frames /\ wire' = wire /\ state' = state /\ header_total' = header_total
      /\ payload_buf' = payload_buf /\ fragment' = fragment /\ emitted' = emitted
      /\ Len(HeaderRead) < header_total /\ header' = HeaderRead /\ chunk' = Rest
    BY DEF HeaderIsPartial, ReadsHeader, Turn
<1>2. PICK f : f = frames[m + 1]
    OBVIOUS
<1>3. CASE InStream(m) /\ (InMinHeader \/ InExtHeader(f))
    <2>1. /\ m < Len(frames) /\ HeaderRead \in Seq(Nat) /\ Rest \in Seq(Nat)
          /\ Holds(Wire(frames), EndOf(frames, m), HeaderRead, <<>>, Rest, wire)
          /\ Len(header) <= Len(HeaderRead)
        BY <1>1, <1>2, <1>3, HeaderTurn
    <2>2. Len(header) \in Nat /\ Len(HeaderRead) \in Nat
        BY <2>1 DEF Buffers
    <2>3. payload_buf = <<>> /\ payload_buf' \in Seq(Nat)
        BY <1>1, <1>3 DEF InMinHeader, InExtHeader, Buffers
    <2>4. InStream(m)'
        BY <1>1, <2>1, <2>3 DEF InStream
    <2>5. InMinHeader => InMinHeader'
        BY <1>1 DEF InMinHeader
    <2>6. InExtHeader(f) => InExtHeader(f)'
        BY <1>1, <2>1, <2>2 DEF InExtHeader
    <2>7. Reading(m)'
        BY <1>1, <1>2, <1>3, <2>1, <2>4, <2>5, <2>6 DEF Reading
    <2>8. QED
        BY <1>1, <2>1, <2>3, <2>7, SameFrame
<1>4. CASE m < Len(frames) /\ GivenUp(f, m)
    <2>1. m \in Nat
        BY StreamFacts DEF Buffers
    <2>2. Len(HeaderRead) = header_total /\ header_total \in Nat
        BY <1>2, <1>4, <2>1, GivenUpTurn
    <2>3. QED
        BY <1>1, <2>2
<1>5. ~InPayload(f)
    BY <1>1 DEF InPayload
<1>6. QED
    BY <1>2, <1>3, <1>4, <1>5 DEF Reading

LEMMA HeaderGrowsStep ==
    ASSUME Buffers, NEW m \in 0 .. Len(frames), Delivered(frames, m, emitted, fragment),
           Reading(m), HeaderGrows
    PROVE  FrameInv'
<1>1. /\ chunk # <<>> /\ state = "ReadMinHeader"
      /\ frames' = frames /\ wire' = wire /\ state' = "ReadExtHeader"
      /\ header_total' = HeaderTotal(HeaderRead)
      /\ payload_buf' = payload_buf /\ fragment' = fragment /\ emitted' = emitted
      /\ Len(HeaderRead) = 2 /\ HeaderTotal(HeaderRead) > 2
      /\ header' = HeaderRead /\ chunk' = Rest
    BY DEF HeaderGrows, Turn
<1>2. PICK f : f = frames[m + 1]
    OBVIOUS
<1>3. InStream(m) /\ InMinHeader
    BY <1>1 DEF Reading, InExtHeader, InPayload, GivenUp
<1>4. /\ m < Len(frames) /\ HeaderRead \in Seq(Nat) /\ Rest \in Seq(Nat)
      /\ Holds(Wire(frames), EndOf(frames, m), HeaderRead, <<>>, Rest, wire)
      /\ HeaderTotal(HeaderRead) = HeaderLength(f)
    BY <1>1, <1>2, <1>3, HeaderTurn
<1>5. PICK l \in Nat : l = HeaderLength(f)
    <2>1. m \in Nat /\ frames \in Sendable
        BY StreamFacts DEF Buffers
    <2>2. QED
        BY <1>2, <1>4, <2>1, NextFrameFacts
<1>6. 2 <= Len(HeaderRead) /\ Len(HeaderRead) < l
    BY <1>1, <1>4, <1>5
<1>7. payload_buf = <<>> /\ payload_buf' \in Seq(Nat)
    BY <1>1, <1>3 DEF InMinHeader, Buffers
<1>8. InStream(m)'
    BY <1>1, <1>4, <1>7 DEF InStream
<1>9. InExtHeader(f)'
    BY <1>1, <1>4, <1>7, <1>5, <1>6 DEF InExtHeader
<1>10. Reading(m)'
    BY <1>1, <1>2, <1>4, <1>8, <1>9 DEF Reading
<1>11. QED
    BY <1>1, <1>4, <1>7, <1>10, SameFrame

LEMMA PayloadFollowsStep ==
    ASSUME Buffers, NEW m \in 0 .. Len(frames), Delivered(frames, m, emitted, fragment),
           Reading(m), PayloadFollows
    PROVE  FrameInv'
<1>1. /\ chunk # <<>> /\ state \in {"ReadMinHeader", "ReadExtHeader"} /\ HeaderEnds
      /\ frames' = frames /\ wire' = wire /\ state' = "ReadPayload"
      /\ payload_buf' = payload_buf /\ fragment' = fragment /\ emitted' = emitted
      /\ header' = HeaderRead /\ chunk' = Rest /\ frame' = Fields(HeaderRead)
      /\ Fields(HeaderRead).payload_len \in 1 .. kMaxPayloadSize
    BY DEF PayloadFollows, HeaderEnds, ReadsHeader, Turn
<1>2. PICK f : f = frames[m + 1]
    OBVIOUS
<1>3. CASE InStream(m) /\ (InMinHeader \/ InExtHeader(f))
    <2>1. /\ m < Len(frames) /\ HeaderRead \in Seq(Nat) /\ Rest \in Seq(Nat)
          /\ Holds(Wire(frames), EndOf(frames, m), HeaderRead, <<>>, Rest, wire)
        BY <1>1, <1>2, <1>3, HeaderTurn
    <2>2. /\ Len(HeaderRead) = HeaderLength(f)
          /\ Fields(HeaderRead).payload_len = f.announced
          /\ Fields(HeaderRead).fin = f.fin /\ Fields(HeaderRead).opcode = f.opcode
          /\ Fields(HeaderRead).masked = f.masked
          /\ f.masked => Fields(HeaderRead).mask_key = MaskKey
        BY <1>1, <1>2, <1>3, HeaderIsComplete
    <2>3. payload_buf = <<>> /\ payload_buf' \in Seq(Nat) /\ Len(payload_buf') = 0
        BY <1>1, <1>3, NothingIsHeld DEF InMinHeader, InExtHeader, Buffers
    <2>4. InStream(m)'
        BY <1>1, <2>1, <2>3 DEF InStream
    <2>5. PICK n : n = f.announced
        OBVIOUS
    <2>6. 0 < n /\ n <= kMaxPayloadSize
        BY <1>1, <2>2, <2>5, Limit
    <2>7. InPayload(f)'
        BY <1>1, <2>2, <2>3, <2>5, <2>6 DEF InPayload
    <2>8. Reading(m)'
        BY <1>1, <1>2, <2>1, <2>4, <2>7 DEF Reading
    <2>9. QED
        BY <1>1, <2>1, <2>3, <2>8, SameFrame
<1>4. CASE m < Len(frames) /\ GivenUp(f, m)
    <2>1. m \in Nat
        BY StreamFacts DEF Buffers
    <2>2. /\ Fields(HeaderRead).payload_len = f.announced
          /\ f.announced \in Nat /\ f.announced > kMaxPayloadSize
        BY <1>2, <1>4, <2>1, GivenUpTurn
    <2>3. QED
        BY <1>1, <2>2, Limit
<1>5. ~InPayload(f)
    BY <1>1 DEF InPayload
<1>6. QED
    BY <1>2, <1>3, <1>4, <1>5 DEF Reading

LEMMA PayloadTooLargeStep ==
    ASSUME Buffers, NEW m \in 0 .. Len(frames), Delivered(frames, m, emitted, fragment),
           Reading(m), PayloadTooLarge
    PROVE  FrameInv'
<1>1. /\ chunk # <<>> /\ state \in {"ReadMinHeader", "ReadExtHeader"} /\ HeaderEnds
      /\ frames' = frames /\ wire' = wire /\ state' = state /\ header_total' = header_total
      /\ payload_buf' = payload_buf /\ fragment' = fragment /\ emitted' = emitted
      /\ header' = HeaderRead /\ chunk' = <<>>
      /\ Fields(HeaderRead).payload_len > kMaxPayloadSize
    BY DEF PayloadTooLarge, HeaderEnds, ReadsHeader, Turn
<1>2. PICK f : f = frames[m + 1]
    OBVIOUS
<1>3. frames \in Sendable /\ wire \in Seq(Nat) /\ chunk \in Seq(Nat) /\ payload_buf' \in Seq(Nat)
    BY <1>1 DEF Buffers
<1>4. m \in Nat
    BY <1>3, StreamFacts
<1>5. PICK x \in Nat : x = EndOf(frames, m)
    BY <1>3, StreamFacts
<1>6. chunk' \in Seq(Nat) /\ Len(chunk') = 0
    BY <1>1, NothingIsHeld
<1>7. PICK l \in Nat : l = Len(wire)
    BY <1>3
<1>8. CASE InStream(m) /\ (InMinHeader \/ InExtHeader(f))
    <2>1. /\ m < Len(frames) /\ HeaderRead \in Seq(Nat) /\ Rest \in Seq(Nat)
          /\ Holds(Wire(frames), EndOf(frames, m), HeaderRead, <<>>, Rest, wire)
        BY <1>1, <1>2, <1>8, HeaderTurn
    <2>2. /\ HeaderRead = Header(f) /\ header_total = HeaderLength(f)
          /\ Fields(HeaderRead).payload_len = f.announced
        BY <1>1, <1>2, <1>8, HeaderIsComplete
    <2>3. f.announced > kMaxPayloadSize
        BY <1>1, <2>2
    <2>4. HeaderLength(f) > 2
        BY <1>2, <1>3, <1>4, <2>1, <2>3, NextFrameFacts
    <2>5. HeaderLength(f) \in Nat
        BY <1>2, <1>3, <1>4, <2>1, NextFrameFacts
    <2>6. InExtHeader(f)
        BY <1>8, <2>2, <2>4, <2>5 DEF InMinHeader
    <2>7. state' = "ReadExtHeader" /\ payload_buf' = <<>>
        BY <1>1, <2>6 DEF InExtHeader
    <2>8. x + Len(chunk') + l <= Len(Wire(frames))
        <3>1. x + Len(HeaderRead) + Len(<<>>) + Len(Rest) + l = Len(Wire(frames))
            BY <1>5, <1>7, <2>1 DEF Holds
        <3>2. Len(HeaderRead) \in Nat /\ Len(Rest) \in Nat /\ Len(<<>>) = 0
            BY <2>1, NothingIsHeld
        <3>3. QED
            BY <1>6, <3>1, <3>2
    <2>9. GivenUp(f, m)'
        BY <1>1, <1>5, <1>7, <2>2, <2>3, <2>7, <2>8 DEF GivenUp
    <2>10. Reading(m)'
        BY <1>1, <1>2, <2>1, <2>9 DEF Reading
    <2>11. QED
        BY <1>1, <1>3, <1>6, <2>1, <2>10, SameFrame
<1>9. CASE m < Len(frames) /\ GivenUp(f, m)
    <2>1. HeaderRead = header /\ header \in Seq(Nat)
        BY <1>2, <1>4, <1>9, GivenUpTurn DEF Buffers
    <2>2. x + Len(chunk') + l <= Len(Wire(frames))
        <3>1. x + Len(chunk) + l <= Len(Wire(frames))
            BY <1>5, <1>7, <1>9 DEF GivenUp
        <3>2. Len(chunk) \in Nat /\ Len(Wire(frames)) \in Nat
            BY <1>3, StreamFacts
        <3>3. QED
            BY <1>6, <3>1, <3>2
    <2>3. GivenUp(f, m)'
        BY <1>1, <1>5, <1>7, <1>9, <2>1, <2>2 DEF GivenUp
    <2>4. Reading(m)'
        BY <1>1, <1>2, <1>9, <2>3 DEF Reading
    <2>5. QED
        BY <1>1, <1>3, <1>6, <2>1, <2>4, SameFrame
<1>10. ~InPayload(f)
    BY <1>1 DEF InPayload
<1>11. QED
    BY <1>2, <1>8, <1>9, <1>10 DEF Reading

LEMMA EmptyFrameEndsStep ==
    ASSUME Buffers, NEW m \in 0 .. Len(frames), Delivered(frames, m, emitted, fragment),
           Reading(m), EmptyFrameEnds
    PROVE  FrameInv'
<1>1. /\ chunk # <<>> /\ state \in {"ReadMinHeader", "ReadExtHeader"} /\ HeaderEnds
      /\ frames' = frames /\ wire' = wire
      /\ Fields(HeaderRead).payload_len = 0
      /\ FrameComplete(Fields(HeaderRead), <<>>, Rest)
    BY DEF EmptyFrameEnds, EmptyFrameRead, HeaderEnds, ReadsHeader, Turn
<1>2. PICK f : f = frames[m + 1]
    OBVIOUS
<1>3. frames \in Sendable /\ wire \in Seq(Nat)
    BY DEF Buffers
<1>4. m \in Nat
    BY <1>3, StreamFacts
<1>5. CASE InStream(m) /\ (InMinHeader \/ InExtHeader(f))
    <2>1. /\ m < Len(frames) /\ HeaderRead \in Seq(Nat) /\ Rest \in Seq(Nat)
          /\ Holds(Wire(frames), EndOf(frames, m), HeaderRead, <<>>, Rest, wire)
        BY <1>1, <1>2, <1>5, HeaderTurn
    <2>2. PICK g : g = Fields(HeaderRead)
        OBVIOUS
    <2>3. /\ Len(HeaderRead) = HeaderLength(f)
          /\ g.payload_len = f.announced
          /\ g.fin = f.fin /\ g.opcode = f.opcode /\ g.masked = f.masked
          /\ f.masked => g.mask_key = MaskKey
        BY <1>1, <1>2, <1>5, <2>2, HeaderIsComplete
    <2>4. /\ f \in Frame /\ f.announced = 0 /\ f.announced <= kMaxPayloadSize
          /\ Len(f.payload) = 0 /\ HeaderLength(f) \in Nat
          /\ EndOf(frames, m + 1) = EndOf(frames, m) + HeaderLength(f) + Len(f.payload)
        <3>1. f.announced = 0 /\ f.announced <= kMaxPayloadSize
            BY <1>1, <2>2, <2>3, Limit
        <3>2. QED
            BY <1>2, <1>3, <1>4, <2>1, <3>1, NextFrameFacts
    <2>5. f.payload \in Seq(Bit)
        BY <2>4 DEF Frame, Bit
    <2>6. f.payload = <<>>
        BY <2>4, <2>5, EmptySeq
    <2>7. OnWire(f) = <<>>
        <3>1. OnWire(f) \in Seq(Nat) /\ Len(OnWire(f)) = 0
            BY <1>2, <1>3, <1>4, <2>1, <2>4, EncodeParts, NextFrameFacts
        <3>2. QED
            BY <3>1, EmptySeq
    <2>8. Unmasked(g, <<>>) = f.payload
        BY <2>3, <2>4, <2>7, PayloadIsUnmasked
    <2>9. PICK x \in Nat : x = EndOf(frames, m)
        BY <1>3, StreamFacts
    <2>10. PICK w \in Seq(Nat) : w = Wire(frames)
        BY <1>3, StreamFacts
    <2>11. <<>> \in Seq(Nat) /\ Len(<<>>) = 0
        BY NothingIsHeld
    <2>12. Holds(w, x + Len(HeaderRead) + Len(<<>>), <<>>, <<>>, Rest, wire)
        BY <1>3, <2>1, <2>9, <2>10, <2>11, NextFrame
    <2>13. x + Len(HeaderRead) + Len(<<>>) = EndOf(frames, m + 1)
        BY <2>3, <2>4, <2>9, <2>11
    <2>14. Holds(Wire(frames), EndOf(frames, m + 1), <<>>, <<>>, Rest, wire)
        BY <2>10, <2>12, <2>13
    <2>15. FrameComplete(g, <<>>, Rest)
        BY <1>1, <2>2
    <2>16. QED
        BY <1>1, <1>2, <1>4, <2>1, <2>3, <2>4, <2>8, <2>14, <2>15, FrameEnds
<1>6. CASE m < Len(frames) /\ GivenUp(f, m)
    <2>1. /\ Fields(HeaderRead).payload_len = f.announced
          /\ f.announced \in Nat /\ f.announced > kMaxPayloadSize
        BY <1>2, <1>4, <1>6, GivenUpTurn
    <2>2. QED
        BY <1>1, <2>1, Limit
<1>7. ~InPayload(f)
    BY <1>1 DEF InPayload
<1>8. QED
    BY <1>2, <1>5, <1>6, <1>7 DEF Reading

LEMMA PayloadIsPartialStep ==
    ASSUME Buffers, NEW m \in 0 .. Len(frames), Delivered(frames, m, emitted, fragment),
           Reading(m), PayloadIsPartial
    PROVE  FrameInv'
<1>1. /\ chunk # <<>> /\ state = "ReadPayload"
      /\ frames' = frames /\ wire' = wire /\ state' = state /\ header' = header
      /\ frame' = frame /\ fragment' = fragment /\ emitted' = emitted
      /\ Len(PayloadRead) < frame.payload_len /\ payload_buf' = PayloadRead /\ chunk' = Rest
    BY DEF PayloadIsPartial, ReadsPayload, Turn
<1>2. PICK f : f = frames[m + 1]
    OBVIOUS
<1>3. m < Len(frames) /\ InStream(m) /\ InPayload(f)
    BY <1>1, <1>2 DEF Reading, InMinHeader, InExtHeader, GivenUp
<1>4. /\ PayloadRead \in Seq(Nat) /\ Rest \in Seq(Nat)
      /\ Holds(Wire(frames), EndOf(frames, m), header, PayloadRead, Rest, wire)
    BY <1>2, <1>3, PayloadTurn
<1>5. header' \in Seq(Nat)
    BY <1>1 DEF Buffers
<1>6. InStream(m)'
    BY <1>1, <1>4 DEF InStream
<1>7. InPayload(f)'
    BY <1>1, <1>3 DEF InPayload
<1>8. Reading(m)'
    BY <1>1, <1>2, <1>3, <1>6, <1>7 DEF Reading
<1>9. QED
    BY <1>1, <1>4, <1>5, <1>8, SameFrame

LEMMA PayloadEndsStep ==
    ASSUME Buffers, NEW m \in 0 .. Len(frames), Delivered(frames, m, emitted, fragment),
           Reading(m), PayloadEnds
    PROVE  FrameInv'
<1>1. /\ chunk # <<>> /\ state = "ReadPayload" /\ frames' = frames /\ wire' = wire
      /\ Len(PayloadRead) >= frame.payload_len /\ FrameComplete(frame, PayloadRead, Rest)
    BY DEF PayloadEnds, PayloadIsRead, ReadsPayload, Turn
<1>2. PICK f : f = frames[m + 1]
    OBVIOUS
<1>3. m < Len(frames) /\ InStream(m) /\ InPayload(f)
    BY <1>1, <1>2 DEF Reading, InMinHeader, InExtHeader, GivenUp
<1>4. frames \in Sendable /\ wire \in Seq(Nat) /\ header \in Seq(Nat)
    BY DEF Buffers
<1>5. m \in Nat
    BY <1>4, StreamFacts
<1>6. PICK b : b = PayloadRead
    OBVIOUS
<1>7. /\ b \in Seq(Nat) /\ Rest \in Seq(Nat)
      /\ Holds(Wire(frames), EndOf(frames, m), header, b, Rest, wire)
      /\ Len(b) <= Len(f.payload) /\ f.announced = Len(f.payload)
      /\ Len(b) = Len(f.payload) => b = OnWire(f)
    BY <1>2, <1>3, <1>6, PayloadTurn
<1>8. /\ f.announced <= kMaxPayloadSize /\ frame.payload_len = f.announced
      /\ frame.fin = f.fin /\ frame.opcode = f.opcode /\ frame.masked = f.masked
      /\ (f.masked => frame.mask_key = MaskKey) /\ Len(header) = HeaderLength(f)
    BY <1>3 DEF InPayload
<1>9. /\ f \in Frame /\ Len(f.payload) \in Nat
      /\ EndOf(frames, m + 1) = EndOf(frames, m) + HeaderLength(f) + Len(f.payload)
    BY <1>2, <1>3, <1>4, <1>5, NextFrameFacts
<1>10. Len(b) = Len(f.payload)
    <2>1. Len(b) \in Nat /\ Len(b) >= Len(f.payload)
        BY <1>1, <1>6, <1>7, <1>8
    <2>2. QED
        BY <1>7, <1>9, <2>1
<1>11. Unmasked(frame, b) = f.payload
    BY <1>7, <1>8, <1>9, <1>10, PayloadIsUnmasked
<1>12. PICK x \in Nat : x = EndOf(frames, m)
    BY <1>4, StreamFacts
<1>13. PICK w \in Seq(Nat) : w = Wire(frames)
    BY <1>4, StreamFacts
<1>14. Holds(w, x + Len(header) + Len(b), <<>>, <<>>, Rest, wire)
    BY <1>4, <1>7, <1>12, <1>13, NextFrame
<1>15. Holds(Wire(frames), EndOf(frames, m + 1), <<>>, <<>>, Rest, wire)
    BY <1>8, <1>9, <1>10, <1>12, <1>13, <1>14
<1>16. FrameComplete(frame, b, Rest)
    BY <1>1, <1>6
<1>17. QED
    BY <1>1, <1>2, <1>3, <1>5, <1>7, <1>8, <1>11, <1>15, <1>16, FrameEnds

\* A connection begins with nothing read.
LEMMA ConnectionBegins ==
    ASSUME NEW fs \in Streams
    PROVE  /\ fs \in Sendable /\ Wire(fs) \in Seq(Nat) /\ 0 \in 0 .. Len(fs)
           /\ Holds(Wire(fs), EndOf(fs, 0), <<>>, <<>>, <<>>, Wire(fs))
           /\ \A frag : Delivered(fs, 0, <<>>, frag)
<1>1. fs \in Sendable
    BY StreamsAssumption DEF Sendable
<1>2. Len(fs) \in Nat /\ 0 \in 0 .. Len(fs)
    BY <1>1, FrameFacts
<1>3. Wire(fs) \in Seq(Nat)
    BY <1>1, <1>2, StreamFacts
<1>4. Holds(Wire(fs), EndOf(fs, 0), <<>>, <<>>, <<>>, Wire(fs))
    BY <1>3, NothingIsRead, NoFrames
<1>5. ~OpenBefore(fs, 0 + 1)
    <2>1. \A j \in 1 .. (0 + 1) - 1 : FALSE
        OBVIOUS
    <2>2. QED
        BY <2>1 DEF OpenBefore
<1>6. ASSUME NEW frag PROVE Delivered(fs, 0, <<>>, frag)
    <2>1. \A i \in 1 .. 0 : FALSE
        OBVIOUS
    <2>2. QED
        BY <1>5, <2>1, NoFrames DEF Delivered, FragmentIs
<1>7. QED
    BY <1>1, <1>2, <1>3, <1>4, <1>6

LEMMA ReconnectStep ==
    ASSUME Buffers, Reconnect
    PROVE  FrameInv'
<1>1. /\ frames' \in Streams /\ wire' = Wire(frames') /\ emitted' = <<>> /\ chunk' = <<>>
      /\ state' = "ReadMinHeader" /\ header' = <<>> /\ header_total' = 2 /\ payload_buf' = <<>>
      /\ fragment' = [fragment EXCEPT !.buf = <<>>, !.open = FALSE]
    BY DEF Reconnect, Reset
<1>2. PICK fs \in Streams : fs = frames'
    BY <1>1
<1>3. /\ fs \in Sendable /\ Wire(fs) \in Seq(Nat) /\ 0 \in 0 .. Len(fs)
      /\ Holds(Wire(fs), EndOf(fs, 0), <<>>, <<>>, <<>>, Wire(fs))
      /\ \A frag : Delivered(fs, 0, <<>>, frag)
    BY ConnectionBegins
<1>4. <<>> \in Seq(Nat) /\ Len(<<>>) = 0
    BY NothingIsHeld
<1>5. fragment' \in Fragments
    <2>1. fragment \in Fragments
        BY DEF Buffers
    <2>2. QED
        BY <1>1, <1>4, <2>1 DEF Fragments
<1>6. Buffers'
    BY <1>1, <1>2, <1>3, <1>4, <1>5 DEF Buffers
<1>7. Delivered(frames', 0, emitted', fragment')
    BY <1>1, <1>2, <1>3
<1>8. Reading(0)'
    <2>1. InMinHeader'
        BY <1>1, <1>4 DEF InMinHeader
    <2>2. InStream(0)'
        BY <1>1, <1>2, <1>3 DEF InStream
    <2>3. QED
        BY <2>1, <2>2 DEF Reading
<1>9. QED
    BY <1>2, <1>3, <1>6, <1>7, <1>8 DEF FrameInv

LEMMA ParserStarts == ParserInit => FrameInv
<1> SUFFICES ASSUME ParserInit PROVE FrameInv
    OBVIOUS
<1>1. /\ frames \in Streams /\ wire = Wire(frames) /\ emitted = <<>> /\ chunk = <<>>
      /\ state = "ReadMinHeader" /\ header = <<>> /\ header_total = 2 /\ payload_buf = <<>>
      /\ fragment = [opcode |-> 1, buf |-> <<>>, open |-> FALSE]
    BY DEF ParserInit
<1>2. /\ frames \in Sendable /\ wire \in Seq(Nat) /\ 0 \in 0 .. Len(frames)
      /\ Holds(Wire(frames), EndOf(frames, 0), <<>>, <<>>, <<>>, wire)
      /\ Delivered(frames, 0, emitted, fragment)
    BY <1>1, ConnectionBegins
<1>3. <<>> \in Seq(Nat) /\ Len(<<>>) = 0
    BY NothingIsHeld
<1>4. Buffers
    BY <1>1, <1>2, <1>3 DEF Buffers, Fragments
<1>5. Reading(0)
    BY <1>1, <1>2, <1>3 DEF Reading, InMinHeader, InStream
<1>6. QED
    BY <1>2, <1>4, <1>5 DEF FrameInv

LEMMA ParserSteps == FrameInv /\ [ParserNext]_allParserVars => FrameInv'
<1> SUFFICES ASSUME FrameInv, [ParserNext]_allParserVars PROVE FrameInv'
    OBVIOUS
<1>1. Buffers
    BY DEF FrameInv
<1>2. PICK m \in 0 .. Len(frames) : Delivered(frames, m, emitted, fragment) /\ Reading(m)
    BY DEF FrameInv
<1>3. CASE Feed
    BY <1>1, <1>2, <1>3, FeedStep
<1>4. CASE HeaderIsPartial
    BY <1>1, <1>2, <1>4, HeaderIsPartialStep
<1>5. CASE HeaderGrows
    BY <1>1, <1>2, <1>5, HeaderGrowsStep
<1>6. CASE PayloadFollows
    BY <1>1, <1>2, <1>6, PayloadFollowsStep
<1>7. CASE EmptyFrameEnds
    BY <1>1, <1>2, <1>7, EmptyFrameEndsStep
<1>8. CASE PayloadTooLarge
    BY <1>1, <1>2, <1>8, PayloadTooLargeStep
<1>9. CASE PayloadIsPartial
    BY <1>1, <1>2, <1>9, PayloadIsPartialStep
<1>10. CASE PayloadEnds
    BY <1>1, <1>2, <1>10, PayloadEndsStep
<1>11. CASE Reconnect
    BY <1>1, <1>11, ReconnectStep
<1>12. CASE UNCHANGED allParserVars
    BY <1>12 DEF allParserVars, parserVars, FrameInv, Buffers, Reading, InStream, InMinHeader,
                 InExtHeader, InPayload, GivenUp
<1>13. QED
    BY <1>3, <1>4, <1>5, <1>6, <1>7, <1>8, <1>9, <1>10, <1>11, <1>12 DEF ParserNext

\* The frames that were read are those before the one the parser is in.
LEMMA FramesReadIs ==
    ASSUME Buffers, NEW m \in 0 .. Len(frames), Delivered(frames, m, emitted, fragment),
           Reading(m)
    PROVE  FramesRead = m
<1>1. /\ frames \in Sendable /\ wire \in Seq(Nat) /\ chunk \in Seq(Nat) /\ header \in Seq(Nat)
      /\ payload_buf \in Seq(Nat)
    BY DEF Buffers
<1>2. Len(frames) \in Nat /\ m \in Nat /\ EndOf(frames, m) \in Nat /\ Len(Wire(frames)) \in Nat
    BY <1>1, StreamFacts
<1>3. PICK u \in Nat : u = Len(chunk) + Len(wire)
    BY <1>1
<1>4. PICK w \in Nat : w = Len(Wire(frames))
    BY <1>2
<1>5. PICK S : S = {n \in 0 .. Len(frames) :
                       /\ Len(BytesOf(frames, n)) + Len(chunk) + Len(wire) <= Len(Wire(frames))
                       /\ \A i \in 1 .. n : frames[i].announced <= kMaxPayloadSize}
    OBVIOUS
<1>6. \A n \in 0 .. Len(frames) :
          n \in S <=> /\ EndOf(frames, n) + u <= w
                      /\ \A i \in 1 .. n : frames[i].announced <= kMaxPayloadSize
    <2>1. TAKE n \in 0 .. Len(frames)
    <2>2. EndOf(frames, n) \in Nat /\ EndOf(frames, n) = Len(BytesOf(frames, n))
        BY <1>1, EncodedFrames DEF EndOf
    <2>3. EndOf(frames, n) + Len(chunk) + Len(wire) = EndOf(frames, n) + u
        BY <1>1, <1>3, <2>2
    <2>4. QED
        BY <1>4, <1>5, <2>2, <2>3
<1>7. PICK f : f = frames[m + 1]
    OBVIOUS
<1>8. EndOf(frames, m) + u <= w
    <2>1. CASE InStream(m)
        <3>1. EndOf(frames, m) + Len(header) + Len(payload_buf) + Len(chunk) + Len(wire) = w
            BY <1>4, <2>1 DEF InStream, Holds
        <3>2. QED
            BY <1>1, <1>2, <1>3, <3>1, SMTT(30)
    <2>2. CASE GivenUp(f, m)
        BY <1>1, <1>2, <1>3, <1>4, <2>2 DEF GivenUp
    <2>3. QED
        BY <1>7, <2>1, <2>2 DEF Reading
<1>9. m \in S
    BY <1>6, <1>8 DEF Delivered
<1>10. ASSUME NEW n \in S, n > m PROVE FALSE
    <2>1. n \in 0 .. Len(frames)
        BY <1>5
    <2>2. n \in Nat /\ m + 1 <= n /\ n <= Len(frames) /\ m < Len(frames) /\ m + 1 \in 1 .. n
          /\ m + 1 \in Nat
        BY <1>2, <1>10, <2>1
    <2>3. EndOf(frames, n) + u <= w /\ f.announced <= kMaxPayloadSize
        BY <1>6, <1>7, <2>1, <2>2
    <2>4. /\ f.announced \in Nat /\ HeaderLength(f) \in Nat /\ HeaderLength(f) >= 2
          /\ Len(f.payload) \in Nat /\ f.announced = Len(f.payload)
          /\ EndOf(frames, m + 1) = EndOf(frames, m) + HeaderLength(f) + Len(f.payload)
        BY <1>1, <1>2, <1>7, <2>2, <2>3, NextFrameFacts, ZenonT(60)
    <2>5. EndOf(frames, m + 1) <= EndOf(frames, n)
        BY <1>1, <2>2, EndsGrow
    <2>6. EndOf(frames, n) \in Nat
        BY <1>1, <2>1, EncodedFrames
    <2>7. ~GivenUp(f, m)
        BY <2>3, <2>4, Limit DEF GivenUp
    <2>8. InStream(m) /\ (InMinHeader \/ InExtHeader(f) \/ InPayload(f))
        BY <1>7, <2>7 DEF Reading
    <2>9. EndOf(frames, m) + Len(header) + Len(payload_buf) + u = w
        <3>1. EndOf(frames, m) + Len(header) + Len(payload_buf) + Len(chunk) + Len(wire) = w
            BY <1>4, <2>8 DEF InStream, Holds
        <3>2. QED
            BY <1>1, <1>2, <1>3, <3>1
    <2>10. Len(header) + Len(payload_buf) < HeaderLength(f) + Len(f.payload)
        <3>1. CASE InMinHeader
            <4>1. Len(header) < 2 /\ Len(payload_buf) = 0
                BY <3>1, NothingIsHeld DEF InMinHeader
            <4>2. QED
                BY <1>1, <2>4, <4>1
        <3>2. CASE InExtHeader(f)
            <4>1. Len(header) < HeaderLength(f) /\ Len(payload_buf) = 0
                BY <3>2, NothingIsHeld DEF InExtHeader
            <4>2. QED
                BY <1>1, <2>4, <4>1
        <3>3. CASE InPayload(f)
            <4>1. Len(header) = HeaderLength(f) /\ Len(payload_buf) < f.announced
                BY <3>3 DEF InPayload
            <4>2. QED
                BY <1>1, <2>4, <4>1
        <3>4. QED
            BY <2>8, <3>1, <3>2, <3>3
    <2>11. Len(header) \in Nat /\ Len(payload_buf) \in Nat
        BY <1>1
    <2>12. PICK held \in Nat : held = Len(header) + Len(payload_buf)
        BY <2>11
    <2>13. PICK size \in Nat : size = HeaderLength(f) + Len(f.payload)
        BY <2>4
    <2>14. EndOf(frames, m) + held + u = w /\ held < size
        BY <1>2, <2>9, <2>10, <2>11, <2>12, <2>13
    <2>15. EndOf(frames, m) + size <= EndOf(frames, n)
        BY <1>2, <2>4, <2>5, <2>13
    <2>16. QED
        BY <1>2, <2>3, <2>6, <2>14, <2>15
<1>11. m \in S /\ \A n \in S : m >= n /\ n \in Nat
    <2>1. ASSUME NEW n \in S PROVE m >= n /\ n \in Nat
        <3>1. n \in Nat
            BY <1>2, <1>5
        <3>2. QED
            BY <1>2, <1>10, <3>1
    <2>2. QED
        BY <1>9, <2>1
<1>12. PICK x : x = CHOOSE y \in S : \A n \in S : y >= n
    OBVIOUS
<1>13. x \in S /\ \A n \in S : x >= n
    BY <1>11, <1>12
<1>14. x = m
    BY <1>2, <1>11, <1>13
<1>15. QED
    BY <1>5, <1>12, <1>14 DEF FramesRead, Max

\* However the stream of any frames that a server may send is cut into chunks, feed()
\* delivers the messages that the frames read so far make up, and nothing else.
THEOREM MessagesAreEmitted == ParserSpec => []EmitsMessages
<1>1. ParserInit => FrameInv
    BY ParserStarts
<1>2. FrameInv /\ [ParserNext]_allParserVars => FrameInv'
    BY ParserSteps
<1>3. FrameInv => EmitsMessages
    <2>1. SUFFICES ASSUME FrameInv PROVE EmitsMessages
        OBVIOUS
    <2>2. PICK m \in 0 .. Len(frames) : Delivered(frames, m, emitted, fragment) /\ Reading(m)
        BY <2>1 DEF FrameInv
    <2>3. FramesRead = m
        BY <2>1, <2>2, FramesReadIs DEF FrameInv
    <2>4. QED
        BY <2>2, <2>3 DEF EmitsMessages, Delivered
<1>4. QED
    BY <1>1, <1>2, <1>3, PTL DEF ParserSpec

-----------------------------------------------------------------------------
(* The end of the process, and the subscriptions.                          *)

BeforeThread == {"configure", "publish", "run", "start", "spawn"}
BeforeLog == BeforeThread \cup {"startlog", "spawnlog"}
InLoop == {"loop", "batch", "erase", "check", "send", "lockset", "inset", "locksend", "insend",
           "retire", "unpublish"}

Callers == {"main", "handler"}
InStop == {"idle", "test", "clear", "log", "joinlog", "transport", "jointransport", "end"}

TypeOK ==
    /\ transport \in Transports /\ perf \in BOOLEAN
    /\ mpc \in BeforeLog \cup InLoop
                  \cup {"stopping", "~Engine", "~Transport", "~PerfStats", "gone"}
    /\ wpc \in {"none", "trying", "opened", "reading", "sending", "up", "looping", "drain",
                "draining", "subscribe", "subscribing", "ended", "joined", "crashed"}
    /\ lpc \in {"none", "running", "ended", "joined"}
    /\ running \in BOOLEAN /\ ioRunning \in BOOLEAN
    /\ stopper \in [Callers -> InStop]
    /\ handlerOn \in {"none"} \cup Threads /\ inStart \in BOOLEAN
    /\ outcome \in {"alive", "exited", "terminated"}

\* Where main is says where it is in stop(), and which threads it has started.
MainInPlace ==
    /\ mpc \in BeforeThread => wpc = "none"
    /\ mpc \in BeforeLog => lpc = "none"
    /\ mpc = "spawn" => transport = "uring"
    /\ mpc \in BeforeLog \cup InLoop => stopper["main"] = "idle"
    /\ mpc \in {"stopping", "~Engine"} => stopper["main"] # "idle"
    /\ mpc = "~Transport" => stopper["main"] \in {"transport", "jointransport", "end"}
    /\ mpc = "~PerfStats" => stopper["main"] \in {"log", "joinlog", "end"}
    /\ running => stopper["main"] \in {"idle", "test", "clear"}

\* No signal so far, or one on the main thread and outside IoUringWS::start.
Ordinary == handlerOn = "none" \/ (handlerOn = "main" /\ ~inStart)

\* A handler that is stopping the engine has interrupted main before main began.
HandlerInPlace ==
    /\ stopper["handler"] # "idle" => handlerOn # "none"
    /\ Ordinary /\ HandlerRuns /\ stopper["handler"] # "test" =>
          stopper["main"] \in {"idle", "test", "clear"}
    /\ Ordinary /\ mpc = "spawn" => ioRunning /\ ~HandlerRuns

\* A join finds a thread; a thread whose running_ is off is being joined.
JoinsFindThreads ==
    Ordinary =>
        /\ \A w \in Callers :
              /\ stopper[w] = "joinlog" => lpc \in {"running", "ended"}
              /\ stopper[w] = "jointransport" => ~Joined(wpc)
        /\ transport = "uring" /\ ~ioRunning /\ ~Joined(wpc) =>
              \E w \in Callers : stopper[w] = "jointransport"

DestructorsJoin ==
    Ordinary =>
        /\ mpc = "~Transport" /\ stopper["main"] = "end" => Joined(wpc)
        /\ mpc = "~PerfStats" => Joined(wpc)
        /\ mpc = "~PerfStats" /\ stopper["main"] = "end" => Joined(lpc)

StopInv ==
    /\ TypeOK /\ MainInPlace /\ HandlerInPlace
    /\ JoinsFindThreads /\ DestructorsJoin /\ StopIsSafe

\* What the thread of the connection knows: connected_ is set, and what it is
\* about to ask for holds the whole set, and else what is being dropped.
Dropped(a) == a \in overtaken \/ (a = market /\ mpc \in {"check", "send"})

SetInv ==
    /\ mpc \in BeforeThread => wpc = "none"
    /\ mpc \in {"check", "send"} => market \notin subscriptions
    /\ wpc # "up" => served = {}
    /\ wpc \in {"reading", "sending", "up"} => connected
    /\ wpc \in {"reading", "sending"} =>
          subscriptions \subseteq outgoing /\ \A a \in outgoing \ subscriptions : Dropped(a)
    /\ ServerFollowsSet

USE TransportsAssumption, ThreadsAssumption

-----------------------------------------------------------------------------
(* Stopping.                                                               *)

LEMMA StopInit == Init => StopInv
BY DEF Init, WsInit, StopInv, TypeOK, MainInPlace, HandlerInPlace, JoinsFindThreads,
       DestructorsJoin, StopIsSafe, Callers, InStop, BeforeThread, BeforeLog, InLoop,
       Ordinary, HandlerRuns, Joined

\* Main moves only while no handler on it runs.
LEMMA MainRunsAlone ==
    ASSUME StopInv, Ordinary, Free("main")
    PROVE  ~HandlerRuns
BY DEF StopInv, HandlerInPlace, Ordinary, Free, HandlerRuns

LEMMA SignalStopInv ==
    ASSUME StopInv, NEW thread \in Threads, Signal(thread)
    PROVE  StopInv'
<1>1. /\ handlerOn = "none" /\ handlerOn' = thread /\ inStart' = (mpc = "spawn")
      /\ stopper' = [stopper EXCEPT !["handler"] = IF published THEN "test" ELSE "end"]
      /\ UNCHANGED <<wpc, lpc, transport, perf, mpc, running, ioRunning, outcome>>
    BY DEF Signal, mainVars, wsVars, logVars
<1>2. /\ stopper'["main"] = stopper["main"] /\ stopper'["handler"] \in {"test", "end"}
      /\ TypeOK'
    BY <1>1 DEF StopInv, TypeOK, Callers, InStop
<1>3. MainInPlace'
    BY <1>1, <1>2 DEF StopInv, MainInPlace
<1>4. HandlerInPlace'
    BY <1>1, <1>2 DEF StopInv, HandlerInPlace, Ordinary, HandlerRuns
<1>5. JoinsFindThreads' /\ DestructorsJoin'
    BY <1>1, <1>2
       DEF StopInv, JoinsFindThreads, DestructorsJoin, Ordinary, Joined, HandlerInPlace, Callers
<1>6. StopIsSafe'
    BY <1>1, <1>2 DEF StopInv, StopIsSafe, Signal, Alive
<1>7. QED
    BY <1>2, <1>3, <1>4, <1>5, <1>6 DEF StopInv

\* Steps of main outside stop(): each is taken while no handler on main runs.
LEMMA MainStopInv ==
    ASSUME StopInv, Main \/ BatchEnds \/ (\E m \in Assets : Resolution(m)), ~Stop("main")
    PROVE  StopInv'
<1> USE DEF StopInv, TypeOK, MainInPlace, HandlerInPlace, JoinsFindThreads,
            DestructorsJoin, StopIsSafe, Callers, InStop, BeforeThread, BeforeLog,
            InLoop, Ordinary, HandlerRuns, Joined, MainAt, MainGoes, Free, Alive,
            wsVars, logVars, mainVars, signalVars
<1>1. CASE Configures
    BY <1>1, MainRunsAlone DEF Configures
<1>2. CASE Publishes
    BY <1>2, MainRunsAlone DEF Publishes
<1>3. CASE SetsRunning
    BY <1>3, MainRunsAlone DEF SetsRunning
<1>4. CASE StartsTransport
    BY <1>4, MainRunsAlone DEF StartsTransport, WsStart
<1>5. CASE SpawnsIoThread
    BY <1>5, MainRunsAlone DEF SpawnsIoThread
<1>6. CASE StartsLogging
    BY <1>6, MainRunsAlone DEF StartsLogging
<1>7. CASE SpawnsLogThread
    BY <1>7, MainRunsAlone DEF SpawnsLogThread
<1>8. CASE LoopTop
    BY <1>8, MainRunsAlone DEF LoopTop
<1>9. CASE BatchEnds
    BY <1>9, MainRunsAlone DEF BatchEnds
<1>10. CASE Unsubscribes
    BY <1>10, MainRunsAlone DEF Unsubscribes, UnsubscribeErases, UnsubscribeSends
<1>11. CASE Retires
    BY <1>11, MainRunsAlone DEF Retires
<1>12. CASE StopReturns
    BY <1>12, MainRunsAlone DEF StopReturns, Destructor
<1>13. CASE Unpublishes
    BY <1>13, MainRunsAlone DEF Unpublishes
<1>14. CASE Destroys
    BY <1>14, MainRunsAlone DEF Destroys, Destructor
<1>15. CASE Exits
    BY <1>15, MainRunsAlone DEF Exits
<1>16. ASSUME NEW m \in Assets, Resolution(m) PROVE StopInv'
    BY <1>16, MainRunsAlone DEF Resolution
<1>17. CASE UnsubscribesLocking
    BY <1>17, MainRunsAlone DEF UnsubscribesLocking
<1>18. QED
    BY <1>1, <1>2, <1>3, <1>4, <1>5, <1>6, <1>7, <1>8, <1>9, <1>10, <1>11, <1>12,
       <1>13, <1>14, <1>15, <1>16, <1>17 DEF Main

\* A caller of stop() that moves on leaves the other where it is.
LEMMA StopGoesOn ==
    ASSUME TypeOK, NEW w \in Callers, NEW pc \in InStop, StopGoes(w, pc)
    PROVE  /\ stopper' \in [Callers -> InStop] /\ stopper'[w] = pc
           /\ \A v \in Callers : v # w => stopper'[v] = stopper[v]
BY DEF TypeOK, StopGoes

LEMMA StopTypes ==
    ASSUME TypeOK, NEW w \in Callers, Stop(w)
    PROVE  TypeOK'
<1>1. \E pc \in InStop : StopGoes(w, pc)
    BY DEF InStop, Stop, StopTests, StopClears, StopsLogging, JoinsLogThread,
           StopsTransport, JoinsTransport
<1>2. stopper' \in [Callers -> InStop]
    BY <1>1, StopGoesOn
<1>3. UNCHANGED <<mainVars, signalVars>>
    BY <1>1 DEF StopGoes
<1>4. /\ wpc' \in {wpc, "joined"} /\ lpc' \in {lpc, "joined"}
      /\ running' \in BOOLEAN /\ ioRunning' \in BOOLEAN
      /\ outcome' \in {outcome, "terminated"}
    <2>1. CASE StopTests(w) \/ StopClears(w)
        BY <2>1 DEF TypeOK, StopTests, StopClears, wsVars, logVars
    <2>2. CASE StopsLogging(w) \/ JoinsLogThread(w)
        BY <2>2 DEF TypeOK, StopsLogging, JoinsLogThread, wsVars
    <2>3. CASE StopsTransport(w)
        BY <2>3 DEF TypeOK, StopsTransport, WsHalt, wsVars, logVars
    <2>4. CASE JoinsTransport(w)
        BY <2>4 DEF TypeOK, JoinsTransport, WsJoined, wsVars, logVars
    <2>5. QED
        BY <2>1, <2>2, <2>3, <2>4 DEF Stop
<1>5. QED
    BY <1>2, <1>3, <1>4 DEF TypeOK, mainVars, signalVars

\* The steps of stop(), for either caller.
LEMMA StopStopInv ==
    ASSUME StopInv, NEW w \in Callers, Stop(w)
    PROVE  StopInv'
<1> USE DEF StopInv, TypeOK, MainInPlace, HandlerInPlace, JoinsFindThreads,
            DestructorsJoin, StopIsSafe, Callers, InStop, BeforeThread, BeforeLog,
            InLoop, Ordinary, HandlerRuns, Joined, StopAt, StopGoes, RunsOn, Free, Alive,
            wsVars, logVars, mainVars, signalVars
<1>1. CASE StopTests(w)
    BY <1>1, MainRunsAlone DEF StopTests
<1>2. CASE StopClears(w)
    <2>1. TypeOK'
        BY StopTypes
    <2>2. MainInPlace'
        BY <1>2 DEF StopClears
    <2>3. HandlerInPlace'
        BY <1>2, MainRunsAlone DEF StopClears
    <2>4. JoinsFindThreads'
        BY <1>2, MainRunsAlone DEF StopClears
    <2>5. DestructorsJoin'
        BY <1>2, MainRunsAlone DEF StopClears
    <2>6. StopIsSafe'
        BY <1>2 DEF StopClears
    <2>7. QED
        BY <2>1, <2>2, <2>3, <2>4, <2>5, <2>6
<1>3. CASE StopsLogging(w)
    BY <1>3, MainRunsAlone DEF StopsLogging
<1>4. CASE JoinsLogThread(w)
    BY <1>4, MainRunsAlone DEF JoinsLogThread
<1>5. CASE StopsTransport(w)
    <2>1. TypeOK'
        BY StopTypes
    <2>2. MainInPlace'
        BY <1>5 DEF StopsTransport, WsHalt
    <2>3. HandlerInPlace'
        BY <1>5, MainRunsAlone DEF StopsTransport, WsHalt
    <2>4. JoinsFindThreads'
        BY <1>5, MainRunsAlone DEF StopsTransport, WsHalt
    <2>5. DestructorsJoin'
        BY <1>5, MainRunsAlone DEF StopsTransport, WsHalt
    <2>6. StopIsSafe'
        BY <1>5 DEF StopsTransport, WsHalt
    <2>7. QED
        BY <2>1, <2>2, <2>3, <2>4, <2>5, <2>6
<1>6. CASE JoinsTransport(w)
    BY <1>6, MainRunsAlone DEF JoinsTransport, WsJoined
<1>7. QED
    BY <1>1, <1>2, <1>3, <1>4, <1>5, <1>6 DEF Stop

\* The other threads and the network: no thread is joined, and none is new.
LEMMA OthersStopInv ==
    ASSUME StopInv, OtherThreads \/ Network \/ UNCHANGED vars
    PROVE  StopInv'
<1> USE DEF StopInv, TypeOK, MainInPlace, HandlerInPlace, JoinsFindThreads,
            DestructorsJoin, StopIsSafe, Callers, InStop, BeforeThread, BeforeLog,
            InLoop, Ordinary, HandlerRuns, Joined, Free, Alive, wsVars, logVars, mainVars, signalVars
<1>1. CASE LogThreadEnds
    BY <1>1 DEF LogThreadEnds
<1>2. CASE IoThread
    <2>1. /\ UNCHANGED <<transport, perf, mpc, lpc, running, ioRunning, stopper, handlerOn,
                         inStart, outcome>>
          /\ wpc' \in {"looping", "drain", "draining", "subscribe", "subscribing", "ended"}
          /\ ~Joined(wpc)
        BY <1>2 DEF IoThread
    <2>2. TypeOK'
        BY <2>1
    <2>3. MainInPlace' /\ HandlerInPlace' /\ StopIsSafe'
        BY <2>1
    <2>4. JoinsFindThreads' /\ DestructorsJoin'
        BY <2>1
    <2>5. QED
        BY <2>2, <2>3, <2>4
<1>3. CASE WsThreadSteps
    BY <1>3
       DEF WsThreadSteps, WsThread, OpenBegins, OpenReads, OpenSends, Closes, WsThreadEnds
<1>4. CASE Network
    BY <1>4 DEF Network, LinkUp, LinkLost
<1>5. CASE UNCHANGED vars
    BY <1>5 DEF vars
<1>6. QED
    BY <1>1, <1>2, <1>3, <1>4, <1>5 DEF OtherThreads

LEMMA NextStopInv == StopInv /\ [Next]_vars => StopInv'
BY SignalStopInv, MainStopInv, StopStopInv, OthersStopInv DEF Next, Main, Callers

\* A signal on the main thread, or no signal, never lets stop() or a destructor
\* join a thread twice or leave one unjoined: while the handler runs main stands
\* still, and what the handler has joined main finds joined. Only a signal
\* between running_ and io_thread_ in IoUringWS::start is excepted.
THEOREM EveryThreadIsJoinedOnce == Spec => []StopIsSafe
<1>1. Init => StopInv
    BY StopInit
<1>2. StopInv /\ [Next]_vars => StopInv'
    BY NextStopInv
<1>3. StopInv => StopIsSafe
    BY DEF StopInv
<1>4. QED
    BY <1>1, <1>2, <1>3, PTL DEF Spec

-----------------------------------------------------------------------------
(* Subscriptions.                                                          *)

LEMMA SetInit == Init => SetInv
BY DEF Init, WsInit, SetInv, ServerFollowsSet

\* Main changes the set in three steps, and the market in between.
LEMMA MainSetInv ==
    ASSUME SetInv, Main \/ BatchEnds \/ (\E m \in Assets : Resolution(m)), ~Stop("main")
    PROVE  SetInv'
<1> USE DEF SetInv, ServerFollowsSet, Dropped, BeforeThread, MainAt, MainGoes, wsVars
<1>1. CASE Configures
    BY <1>1 DEF Configures
<1>2. CASE Publishes
    BY <1>2 DEF Publishes
<1>3. CASE SetsRunning
    BY <1>3 DEF SetsRunning
<1>4. CASE StartsTransport
    BY <1>4 DEF StartsTransport, WsStart
<1>5. CASE SpawnsIoThread
    BY <1>5 DEF SpawnsIoThread
<1>6. CASE StartsLogging
    BY <1>6 DEF StartsLogging
<1>7. CASE SpawnsLogThread
    BY <1>7 DEF SpawnsLogThread
<1>8. CASE LoopTop
    BY <1>8 DEF LoopTop
<1>9. CASE BatchEnds
    BY <1>9 DEF BatchEnds
<1>10. CASE Unsubscribes
    <2>1. CASE MainAt("erase") /\ UnsubscribeErases(market) /\ MainGoes("check")
        BY <1>10, <2>1 DEF Unsubscribes, UnsubscribeErases
    <2>2. CASE MainAt("check") /\ UNCHANGED wsVars
        BY <1>10, <2>2 DEF Unsubscribes
    <2>3. CASE MainAt("send") /\ UnsubscribeSends(market) /\ MainGoes("retire")
        BY <1>10, <2>3 DEF Unsubscribes, UnsubscribeSends
    <2>4. QED
        BY <1>10, <2>1, <2>2, <2>3 DEF Unsubscribes
<1>11. CASE Retires
    BY <1>11 DEF Retires
<1>12. CASE StopReturns
    BY <1>12 DEF StopReturns, Destructor
<1>13. CASE Unpublishes
    BY <1>13 DEF Unpublishes
<1>14. CASE Destroys
    BY <1>14 DEF Destroys, Destructor
<1>15. CASE Exits
    BY <1>15 DEF Exits
<1>16. ASSUME NEW m \in Assets, Resolution(m) PROVE SetInv'
    BY <1>16 DEF Resolution
<1>17. CASE UnsubscribesLocking
    BY <1>17 DEF UnsubscribesLocking
<1>18. QED
    BY <1>1, <1>2, <1>3, <1>4, <1>5, <1>6, <1>7, <1>8, <1>9, <1>10, <1>11, <1>12,
       <1>13, <1>14, <1>15, <1>16, <1>17 DEF Main

\* stop() touches the connection by its halt and by its join.
LEMMA StopSetInv ==
    ASSUME SetInv, NEW w \in Callers, Stop(w)
    PROVE  SetInv'
<1>1. UNCHANGED <<market, mpc>>
    BY DEF Stop, StopTests, StopClears, StopsLogging, JoinsLogThread, StopsTransport,
           JoinsTransport, StopGoes, mainVars
<1>2. \/ UNCHANGED wsVars \/ WsHalt \/ (wpc = "ended" /\ WsJoined)
    BY DEF Stop, StopTests, StopClears, StopsLogging, JoinsLogThread, StopsTransport,
           JoinsTransport
<1>3. QED
    BY <1>1, <1>2
       DEF SetInv, ServerFollowsSet, Dropped, BeforeThread, wsVars, WsHalt, WsJoined

LEMMA WsThreadSetInv ==
    ASSUME SetInv, WsThread \/ LinkUp \/ LinkLost, UNCHANGED <<market, mpc>>
    PROVE  SetInv'
<1> USE DEF SetInv, ServerFollowsSet, Dropped, BeforeThread
<1>1. CASE LinkUp
    BY <1>1 DEF LinkUp
<1>2. CASE LinkLost
    BY <1>2 DEF LinkLost
<1>3. CASE OpenBegins
    BY <1>3 DEF OpenBegins
<1>4. CASE OpenReads
    BY <1>4 DEF OpenReads
<1>5. CASE OpenSends
    BY <1>5 DEF OpenSends
<1>6. CASE Closes
    BY <1>6 DEF Closes
<1>7. CASE WsThreadEnds
    BY <1>7 DEF WsThreadEnds
<1>8. QED
    BY <1>1, <1>2, <1>3, <1>4, <1>5, <1>6, <1>7 DEF WsThread

LEMMA OthersSetInv ==
    ASSUME SetInv,
           OtherThreads \/ Network \/ (\E thread \in Threads : Signal(thread)) \/ UNCHANGED vars
    PROVE  SetInv'
<1>1. CASE WsThreadSteps \/ Network
    BY <1>1, WsThreadSetInv DEF WsThreadSteps, Network, mainVars
<1>2. CASE IoThread
    BY <1>2 DEF IoThread, mainVars, SetInv, ServerFollowsSet, Dropped, BeforeThread
<1>3. CASE LogThreadEnds \/ (\E thread \in Threads : Signal(thread)) \/ UNCHANGED vars
    BY <1>3 DEF LogThreadEnds, Signal, vars, wsVars, mainVars, SetInv, ServerFollowsSet,
                Dropped, BeforeThread
<1>4. QED
    BY <1>1, <1>2, <1>3 DEF OtherThreads

LEMMA NextSetInv == SetInv /\ [Next]_vars => SetInv'
BY MainSetInv, StopSetInv, OthersSetInv DEF Next, Main, Callers

\* What the callback Open asks for after it set connected_, and what unsubscribe
\* takes back after it looked at connected_, leave on the server what the set
\* holds and no more than the asset in hand or one that was taken back between
\* the reading of the set and the sending, however often the link is lost.
THEOREM ServedIsSubscribed == Spec => []ServerFollowsSet
<1>1. Init => SetInv
    BY SetInit
<1>2. SetInv /\ [Next]_vars => SetInv'
    BY NextSetInv
<1>3. SetInv => ServerFollowsSet
    BY DEF SetInv
<1>4. QED
    BY <1>1, <1>2, <1>3, PTL DEF Spec
=============================================================================
