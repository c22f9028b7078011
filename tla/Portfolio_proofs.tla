-------------------------- MODULE Portfolio_proofs --------------------------
(***************************************************************************)
(* Theorems about Portfolio for any markets, prices, quantities and bounds.*)
(*                                                                         *)
(* First what sums over finite sets do when an element is added, changed   *)
(* or scaled; then the invariants: IInv (types, flat positions), CashInv   *)
(* (profit is cash) with the neutrality of fills and settlements, and      *)
(* ReturnsInv (the running mean and variance).                             *)
(***************************************************************************)
EXTENDS Portfolio, FiniteSetTheorems, SequenceTheorems, WellFoundedInduction, TLAPS

-----------------------------------------------------------------------------
(* Sums over finite sets.                                                  *)

\* What holds of the empty set, and of a set if it holds of all that have one
\* element less, holds of a finite set.
LEMMA SetByElements ==
    ASSUME NEW S, IsFiniteSet(S), NEW Good, {} \in Good,
           \A T \in SUBSET S : T # {} /\ (\A x \in T : T \ {x} \in Good) => T \in Good
    PROVE  S \in Good
<1> SUFFICES ASSUME S \notin Good PROVE FALSE
    OBVIOUS
<1>1. PICK R : R = StrictSubsetOrdering(S)
    OBVIOUS
<1>2. PICK Bad : Bad = {T \in SUBSET S : T \notin Good}
    OBVIOUS
<1>3. Bad \subseteq SUBSET S /\ Bad # {}
    BY <1>2
<1>4. IsWellFoundedOn(R, SUBSET S)
    <2>1. IsWellFoundedOn(StrictSubsetOrdering(S), FiniteSubsetsOf(S))
        BY FS_StrictSubsetOrderingWellFounded
    <2>2. FiniteSubsetsOf(S) = SUBSET S
        BY FS_FiniteSubsetsOfFinite
    <2>3. QED
        BY <1>1, <2>1, <2>2
<1>5. PICK T \in Bad : \A U \in Bad : <<U, T>> \notin R
    BY <1>3, <1>4, WFMin
<1>6. ASSUME NEW x \in T PROVE T \ {x} \in Good
    <2>1. <<T \ {x}, T>> \in R
        BY <1>1, <1>2 DEF StrictSubsetOrdering
    <2>2. QED
        BY <1>2, <1>5, <2>1
<1>7. QED
    BY <1>2, <1>5, <1>6

\* The element that a fold takes first.
First(s) == CHOOSE x \in s : TRUE

LEMMA FirstInSet ==
    ASSUME NEW s, s # {}
    PROVE  First(s) \in s
BY DEF First

\* What a fold computes: the sum of g over each part of S.
IsSum(f, g, S) ==
    f = [s \in SUBSET S |-> IF s = {} THEN 0 ELSE g[First(s)] + f[s \ {First(s)}]]

LEMMA IsSumSteps ==
    ASSUME NEW f, NEW g, NEW S, IsSum(f, g, S)
    PROVE  /\ f[{}] = 0
           /\ \A s \in SUBSET S : s # {} => f[s] = g[First(s)] + f[s \ {First(s)}]
<1>1. \A s \in SUBSET S : f[s] = IF s = {} THEN 0 ELSE g[First(s)] + f[s \ {First(s)}]
    BY DEF IsSum
<1>2. QED
    BY <1>1

LEMMA SumsAgree ==
    ASSUME NEW f, NEW h, NEW g, NEW S, NEW T, IsSum(f, g, S), IsSum(h, g, T),
           NEW s, s \subseteq S, s \subseteq T, IsFiniteSet(s)
    PROVE  f[s] = h[s]
<1>1. PICK Good : Good = {u \in SUBSET s : f[u] = h[u]}
    OBVIOUS
<1>2. {} \in Good
    BY <1>1, IsSumSteps
<1>3. ASSUME NEW u \in SUBSET s, u # {}, \A x \in u : u \ {x} \in Good
      PROVE  u \in Good
    <2>1. First(u) \in u
        BY <1>3, FirstInSet
    <2>2. f[u] = g[First(u)] + f[u \ {First(u)}]
        BY <1>3, IsSumSteps
    <2>3. h[u] = g[First(u)] + h[u \ {First(u)}]
        BY <1>3, IsSumSteps
    <2>4. f[u \ {First(u)}] = h[u \ {First(u)}]
        BY <1>1, <1>3, <2>1
    <2>5. QED
        BY <1>1, <2>2, <2>3, <2>4
<1>4. s \in Good
    BY <1>2, <1>3, SetByElements
<1>5. QED
    BY <1>1, <1>4

LEMMA SumExists ==
    ASSUME NEW g, NEW S, IsFiniteSet(S)
    PROVE  \E f : IsSum(f, g, S)
<1>1. PICK Good : Good = {T \in SUBSET S : \E f : IsSum(f, g, T)}
    OBVIOUS
<1>2. {} \in Good
    <2>1. IsSum([s \in SUBSET {} |-> 0], g, {})
        BY DEF IsSum
    <2>2. QED
        BY <1>1, <2>1
<1>3. ASSUME NEW T \in SUBSET S, T # {}, \A x \in T : T \ {x} \in Good
      PROVE  T \in Good
    <2>1. PICK F : F = [x \in T |-> CHOOSE f : IsSum(f, g, T \ {x})]
        OBVIOUS
    <2>2. \A x \in T : IsSum(F[x], g, T \ {x})
        BY <1>1, <1>3, <2>1
    <2>3. PICK out : out = [s \in SUBSET T |-> CHOOSE x \in T : x \notin s]
        OBVIOUS
    <2>4. \A s \in SUBSET T : s # T => out[s] \in T /\ out[s] \notin s
        BY <2>3
    <2>5. PICK f : f = [s \in SUBSET T |->
                           IF s = {} THEN 0
                           ELSE IF s = T THEN g[First(T)] + F[First(T)][T \ {First(T)}]
                           ELSE F[out[s]][s]]
        OBVIOUS
    <2>6. ASSUME NEW s \in SUBSET T, s # {}, NEW x \in T, x \notin s
          PROVE  f[s] = F[x][s]
        <3>1. s # T /\ out[s] \in T /\ out[s] \notin s
            BY <2>4, <2>6
        <3>2. f[s] = F[out[s]][s]
            BY <2>5, <2>6, <3>1
        <3>3. IsFiniteSet(s)
            BY FS_Subset
        <3>4. s \subseteq T \ {x} /\ s \subseteq T \ {out[s]}
            BY <2>6, <3>1
        <3>5. PICK a, b : a = F[x] /\ b = F[out[s]]
            OBVIOUS
        <3>6. IsSum(a, g, T \ {x}) /\ IsSum(b, g, T \ {out[s]})
            BY <2>2, <2>6, <3>1, <3>5
        <3>7. b[s] = a[s]
            BY <3>3, <3>4, <3>6, SumsAgree
        <3>8. QED
            BY <3>2, <3>5, <3>7
    <2>7. ASSUME NEW s \in SUBSET T, s # {}
          PROVE  f[s] = g[First(s)] + f[s \ {First(s)}]
        <3>1. First(s) \in s
            BY <2>7, FirstInSet
        <3>2. PICK u : u = s \ {First(s)}
            OBVIOUS
        <3>3. u \in SUBSET T /\ u # T
            BY <3>1, <3>2
        <3>4. ASSUME NEW x \in T, u \subseteq T \ {x}
              PROVE  f[u] = F[x][u]
            <4>1. CASE u = {}
                <5>1. F[x][{}] = 0
                    BY <2>2, IsSumSteps
                <5>2. QED
                    BY <2>5, <4>1, <5>1
            <4>2. CASE u # {}
                BY <2>6, <3>3, <3>4, <4>2
            <4>3. QED
                BY <4>1, <4>2
        <3>5. CASE s = T
            <4>1. f[s] = g[First(s)] + F[First(s)][u]
                BY <2>5, <2>7, <3>2, <3>5
            <4>2. QED
                BY <3>1, <3>2, <3>4, <3>5, <4>1
        <3>6. CASE s # T
            <4>1. PICK x \in T : x \notin s
                BY <3>6
            <4>2. f[s] = F[x][s]
                BY <2>6, <2>7, <4>1
            <4>3. s \in SUBSET (T \ {x}) /\ IsSum(F[x], g, T \ {x})
                BY <2>2, <4>1
            <4>4. F[x][s] = g[First(s)] + F[x][u]
                BY <2>7, <3>2, <4>3, IsSumSteps, SMTT(30)
            <4>5. f[u] = F[x][u]
                BY <3>2, <3>4, <4>1
            <4>6. QED
                BY <3>2, <4>2, <4>4, <4>5
        <3>7. QED
            BY <3>5, <3>6
    <2>8. f[{}] = 0
        BY <2>5
    <2>9. PICK d : d = [s \in SUBSET T |->
                           IF s = {} THEN 0 ELSE g[First(s)] + f[s \ {First(s)}]]
        OBVIOUS
    <2>10. \A s \in SUBSET T : f[s] = d[s]
        BY <2>7, <2>8, <2>9
    <2>11. f = d
        BY <2>5, <2>9, <2>10
    <2>12. IsSum(f, g, T)
        BY <2>9, <2>11 DEF IsSum
    <2>13. QED
        BY <1>1, <2>12
<1>4. S \in Good
    BY <1>2, <1>3, SetByElements
<1>5. QED
    BY <1>1, <1>4

LEMMA SumUnfolds ==
    ASSUME NEW g, NEW S
    PROVE  SumFunctionOnSet(g, S) = (CHOOSE f : IsSum(f, g, S))[S]
BY DEF SumFunctionOnSet, FoldFunctionOnSet, MapThenFoldSet, IsSum, First

LEMMA SumFound ==
    ASSUME NEW g, NEW S, IsFiniteSet(S), NEW f, IsSum(f, g, S), NEW T \in SUBSET S
    PROVE  f[T] = SumFunctionOnSet(g, T)
<1>1. IsFiniteSet(T)
    BY FS_Subset
<1>2. PICK h : h = CHOOSE d : IsSum(d, g, T)
    OBVIOUS
<1>3. IsSum(h, g, T)
    BY <1>1, <1>2, SumExists
<1>4. f[T] = h[T]
    BY <1>1, <1>3, SumsAgree
<1>5. QED
    BY <1>2, <1>4, SumUnfolds

LEMMA SumSteps ==
    ASSUME NEW g, NEW S, IsFiniteSet(S)
    PROVE  /\ SumFunctionOnSet(g, {}) = 0
           /\ S # {} => SumFunctionOnSet(g, S)
                           = g[First(S)] + SumFunctionOnSet(g, S \ {First(S)})
<1>1. PICK f : IsSum(f, g, S)
    BY SumExists
<1>2. \A T \in SUBSET S : f[T] = SumFunctionOnSet(g, T)
    BY <1>1, SumFound
<1>3. {} \in SUBSET S /\ S \in SUBSET S /\ S \ {First(S)} \in SUBSET S
    OBVIOUS
<1>4. f[{}] = 0 /\ (S # {} => f[S] = g[First(S)] + f[S \ {First(S)}])
    BY <1>1, <1>3, IsSumSteps, ZenonT(60)
<1>5. QED
    BY <1>2, <1>3, <1>4

LEMMA SumInt ==
    ASSUME NEW g, NEW S, IsFiniteSet(S), \A x \in S : g[x] \in Int
    PROVE  SumFunctionOnSet(g, S) \in Int
<1>1. PICK Good : Good = {T \in SUBSET S : SumFunctionOnSet(g, T) \in Int}
    OBVIOUS
<1>2. {} \in Good
    <2>1. SumFunctionOnSet(g, {}) = 0
        BY SumSteps
    <2>2. QED
        BY <1>1, <2>1
<1>3. ASSUME NEW T \in SUBSET S, T # {}, \A x \in T : T \ {x} \in Good
      PROVE  T \in Good
    <2>1. IsFiniteSet(T) /\ First(T) \in T
        BY <1>3, FS_Subset, FirstInSet
    <2>2. SumFunctionOnSet(g, T) = g[First(T)] + SumFunctionOnSet(g, T \ {First(T)})
        BY <1>3, <2>1, SumSteps
    <2>3. SumFunctionOnSet(g, T \ {First(T)}) \in Int
        BY <1>1, <1>3, <2>1
    <2>4. SumFunctionOnSet(g, T) \in Int
        BY <2>1, <2>2, <2>3
    <2>5. QED
        BY <1>1, <2>4
<1>4. S \in Good
    BY <1>2, <1>3, SetByElements
<1>5. QED
    BY <1>1, <1>4

\* Any element may be the first.
LEMMA SumSplit ==
    ASSUME NEW g, NEW S, IsFiniteSet(S), \A x \in S : g[x] \in Int, NEW k \in S
    PROVE  SumFunctionOnSet(g, S) = g[k] + SumFunctionOnSet(g, S \ {k})
<1>1. PICK Good : Good = {T \in SUBSET S : \A x \in T :
                             SumFunctionOnSet(g, T) = g[x] + SumFunctionOnSet(g, T \ {x})}
    OBVIOUS
<1>2. {} \in Good
    BY <1>1
<1>3. ASSUME NEW T \in SUBSET S, T # {}, \A x \in T : T \ {x} \in Good
      PROVE  T \in Good
    <2>1. IsFiniteSet(T) /\ First(T) \in T
        BY <1>3, FS_Subset, FirstInSet
    <2>2. PICK y \in T : y = First(T)
        BY <2>1
    <2>3. SumFunctionOnSet(g, T) = g[y] + SumFunctionOnSet(g, T \ {y})
        BY <1>3, <2>1, <2>2, SumSteps
    <2>4. ASSUME NEW x \in T
          PROVE  SumFunctionOnSet(g, T) = g[x] + SumFunctionOnSet(g, T \ {x})
        <3>1. CASE x = y
            BY <2>3, <3>1
        <3>2. CASE x # y
            <4>1. PICK u : u = T \ {x, y}
                OBVIOUS
            <4>2. u = (T \ {y}) \ {x} /\ u = (T \ {x}) \ {y} /\ IsFiniteSet(u)
                BY <2>1, <4>1, FS_Subset
            <4>3. SumFunctionOnSet(g, T \ {y}) = g[x] + SumFunctionOnSet(g, u)
                BY <1>1, <1>3, <3>2, <4>2
            <4>4. SumFunctionOnSet(g, T \ {x}) = g[y] + SumFunctionOnSet(g, u)
                BY <1>1, <1>3, <3>2, <4>2
            <4>5. SumFunctionOnSet(g, u) \in Int
                BY <4>1, <4>2, SumInt
            <4>6. g[x] \in Int /\ g[y] \in Int
                OBVIOUS
            <4>7. QED
                BY <2>3, <4>3, <4>4, <4>5, <4>6
        <3>3. QED
            BY <3>1, <3>2
    <2>5. QED
        BY <1>1, <2>4
<1>4. S \in Good
    BY <1>2, <1>3, SetByElements
<1>5. QED
    BY <1>1, <1>4

\* A sum depends on the values at the elements.
LEMMA SumSame ==
    ASSUME NEW g, NEW h, NEW S, IsFiniteSet(S), \A x \in S : g[x] = h[x]
    PROVE  SumFunctionOnSet(g, S) = SumFunctionOnSet(h, S)
<1>1. PICK Good : Good = {T \in SUBSET S :
                             SumFunctionOnSet(g, T) = SumFunctionOnSet(h, T)}
    OBVIOUS
<1>2. {} \in Good
    <2>1. SumFunctionOnSet(g, {}) = 0 /\ SumFunctionOnSet(h, {}) = 0
        BY SumSteps
    <2>2. QED
        BY <1>1, <2>1
<1>3. ASSUME NEW T \in SUBSET S, T # {}, \A x \in T : T \ {x} \in Good
      PROVE  T \in Good
    <2>1. IsFiniteSet(T) /\ First(T) \in T
        BY <1>3, FS_Subset, FirstInSet
    <2>2. /\ SumFunctionOnSet(g, T) = g[First(T)] + SumFunctionOnSet(g, T \ {First(T)})
          /\ SumFunctionOnSet(h, T) = h[First(T)] + SumFunctionOnSet(h, T \ {First(T)})
        BY <1>3, <2>1, SumSteps
    <2>3. SumFunctionOnSet(g, T \ {First(T)}) = SumFunctionOnSet(h, T \ {First(T)})
        BY <1>1, <1>3, <2>1
    <2>4. QED
        BY <1>1, <2>1, <2>2, <2>3
<1>4. S \in Good
    BY <1>2, <1>3, SetByElements
<1>5. QED
    BY <1>1, <1>4

\* The sum after a change at one element.
LEMMA SumChanged ==
    ASSUME NEW g, NEW h, NEW S, IsFiniteSet(S), NEW k \in S,
           \A x \in S : g[x] \in Int /\ h[x] \in Int,
           \A x \in S \ {k} : g[x] = h[x]
    PROVE  SumFunctionOnSet(h, S) = SumFunctionOnSet(g, S) - g[k] + h[k]
<1>1. /\ SumFunctionOnSet(g, S) = g[k] + SumFunctionOnSet(g, S \ {k})
      /\ SumFunctionOnSet(h, S) = h[k] + SumFunctionOnSet(h, S \ {k})
    BY SumSplit
<1>2. IsFiniteSet(S \ {k})
    BY FS_Subset
<1>3. /\ SumFunctionOnSet(g, S \ {k}) = SumFunctionOnSet(h, S \ {k})
      /\ SumFunctionOnSet(g, S \ {k}) \in Int
    BY <1>2, SumSame, SumInt
<1>4. QED
    BY <1>1, <1>3

\* Elements at which there is nothing need not be added.
LEMMA SumOfPart ==
    ASSUME NEW g, NEW S, IsFiniteSet(S), NEW T \in SUBSET S,
           \A x \in S : g[x] \in Int, \A x \in S \ T : g[x] = 0
    PROVE  SumFunctionOnSet(g, S) = SumFunctionOnSet(g, T)
<1>1. PICK Good : Good = {U \in SUBSET S :
                             SumFunctionOnSet(g, U) = SumFunctionOnSet(g, U \cap T)}
    OBVIOUS
<1>2. {} \in Good
    <2>1. {} \cap T = {}
        OBVIOUS
    <2>2. QED
        BY <1>1, <2>1
<1>3. ASSUME NEW U \in SUBSET S, U # {}, \A x \in U : U \ {x} \in Good
      PROVE  U \in Good
    <2>1. PICK x \in U : TRUE
        BY <1>3
    <2>2. IsFiniteSet(U) /\ IsFiniteSet(U \cap T) /\ IsFiniteSet(U \ {x})
        BY FS_Subset
    <2>3. SumFunctionOnSet(g, U) = g[x] + SumFunctionOnSet(g, U \ {x})
        BY <2>2, SumSplit
    <2>4. /\ SumFunctionOnSet(g, U \ {x}) = SumFunctionOnSet(g, (U \ {x}) \cap T)
          /\ SumFunctionOnSet(g, U \ {x}) \in Int
        BY <1>1, <1>3, <2>2, SumInt
    <2>5. CASE x \in T
        <3>1. (U \ {x}) \cap T = (U \cap T) \ {x} /\ x \in U \cap T
            BY <2>5
        <3>2. \A y \in U \cap T : g[y] \in Int
            OBVIOUS
        <3>3. PICK V : V = U \cap T
            OBVIOUS
        <3>4. SumFunctionOnSet(g, V) = g[x] + SumFunctionOnSet(g, V \ {x})
            BY <2>2, <3>1, <3>2, <3>3, SumSplit
        <3>5. QED
            BY <1>1, <2>3, <2>4, <3>1, <3>3, <3>4
    <2>6. CASE x \notin T
        <3>1. (U \ {x}) \cap T = U \cap T /\ g[x] = 0
            BY <2>6
        <3>2. SumFunctionOnSet(g, U \ {x}) = SumFunctionOnSet(g, U \cap T)
            BY <2>4, <3>1
        <3>3. SumFunctionOnSet(g, U) = SumFunctionOnSet(g, U \cap T)
            BY <2>3, <2>4, <3>1, <3>2
        <3>4. QED
            BY <1>1, <3>3
    <2>7. QED
        BY <2>5, <2>6
<1>4. S \in Good
    BY <1>2, <1>3, SetByElements
<1>5. S \cap T = T
    OBVIOUS
<1>6. QED
    BY <1>1, <1>4, <1>5

\* A sum of what is not negative is zero if all of it is.
LEMMA SumOfNaturals ==
    ASSUME NEW g, NEW S, IsFiniteSet(S), \A x \in S : g[x] \in Nat
    PROVE  /\ SumFunctionOnSet(g, S) \in Nat
           /\ SumFunctionOnSet(g, S) = 0 <=> \A x \in S : g[x] = 0
<1>1. PICK Good : Good = {T \in SUBSET S : SumFunctionOnSet(g, T) \in Nat}
    OBVIOUS
<1>2. {} \in Good
    <2>1. SumFunctionOnSet(g, {}) = 0
        BY SumSteps
    <2>2. QED
        BY <1>1, <2>1
<1>3. ASSUME NEW T \in SUBSET S, T # {}, \A x \in T : T \ {x} \in Good
      PROVE  T \in Good
    <2>1. IsFiniteSet(T) /\ First(T) \in T
        BY <1>3, FS_Subset, FirstInSet
    <2>2. SumFunctionOnSet(g, T) = g[First(T)] + SumFunctionOnSet(g, T \ {First(T)})
        BY <1>3, <2>1, SumSteps
    <2>3. SumFunctionOnSet(g, T \ {First(T)}) \in Nat /\ g[First(T)] \in Nat
        BY <1>1, <1>3, <2>1
    <2>4. SumFunctionOnSet(g, T) \in Nat
        BY <2>2, <2>3
    <2>5. QED
        BY <1>1, <2>4
<1>4. S \in Good
    BY <1>2, <1>3, SetByElements
<1>5. SumFunctionOnSet(g, S) \in Nat
    BY <1>1, <1>4
<1>6. ASSUME SumFunctionOnSet(g, S) = 0, NEW x \in S PROVE g[x] = 0
    <2>1. \A y \in S : g[y] \in Int
        OBVIOUS
    <2>2. SumFunctionOnSet(g, S) = g[x] + SumFunctionOnSet(g, S \ {x})
        BY <2>1, SumSplit
    <2>3. IsFiniteSet(S \ {x}) /\ \A y \in S \ {x} : g[y] \in Nat
        BY FS_Subset
    <2>4. PICK T : T = S \ {x}
        OBVIOUS
    <2>5. T \in Good
        <3>1. \A U \in SUBSET T : U # {} /\ (\A z \in U : U \ {z} \in Good) => U \in Good
            BY <1>3, <2>4
        <3>2. QED
            BY <1>2, <2>3, <2>4, <3>1, SetByElements
    <2>6. SumFunctionOnSet(g, T) \in Nat /\ g[x] \in Nat
        BY <1>1, <2>5
    <2>7. QED
        BY <1>6, <2>2, <2>4, <2>6
<1>7. ASSUME \A x \in S : g[x] = 0 PROVE SumFunctionOnSet(g, S) = 0
    <2>1. PICK T \in SUBSET S : T = {}
        OBVIOUS
    <2>2. SumFunctionOnSet(g, T) = 0
        BY <2>1, SumSteps
    <2>3. \A x \in S : g[x] \in Int
        OBVIOUS
    <2>4. SumFunctionOnSet(g, S) = SumFunctionOnSet(g, T)
        BY <1>7, <2>3, SumOfPart
    <2>5. QED
        BY <2>2, <2>4
<1>8. QED
    BY <1>5, <1>6, <1>7

\* Squared deviations from b, in terms of those from a.
LEMMA SquareShifted ==
    ASSUME NEW z \in Int, NEW a \in Int, NEW b \in Int
    PROVE  (z - b) * (z - b) = (z - a) * (z - a) + 2 * (a - b) * (z - a) + (a - b) * (a - b)
OBVIOUS

LEMMA QuotientOfProduct ==
    ASSUME NEW x \in Int, NEW d \in Nat \ {0}
    PROVE  (d * x) \div d = x
OBVIOUS

\* The squared deviations of f from x, and what they add up to when x moves.
Squares(f, S, x) == [i \in S |-> (f[i] - x) * (f[i] - x)]

LEMMA SquaresShifted ==
    ASSUME NEW S, IsFiniteSet(S), NEW f, \A i \in S : f[i] \in Int,
           NEW a \in Int, NEW b \in Int
    PROVE  /\ SumFunctionOnSet(Squares(f, S, a), S) \in Int
           /\ SumFunctionOnSet(f, S) \in Int /\ Cardinality(S) \in Nat
           /\ SumFunctionOnSet(Squares(f, S, b), S)
                 = SumFunctionOnSet(Squares(f, S, a), S)
                   + 2 * (a - b) * (SumFunctionOnSet(f, S) - Cardinality(S) * a)
                   + Cardinality(S) * ((a - b) * (a - b))
<1>1. PICK g, h : g = Squares(f, S, a) /\ h = Squares(f, S, b)
    OBVIOUS
<1>2. ASSUME NEW i \in S
      PROVE  /\ g[i] \in Int /\ h[i] \in Int
             /\ h[i] = g[i] + 2 * (a - b) * (f[i] - a) + (a - b) * (a - b)
    <2>1. g[i] = (f[i] - a) * (f[i] - a) /\ h[i] = (f[i] - b) * (f[i] - b)
        BY <1>1 DEF Squares
    <2>2. PICK z \in Int : z = f[i]
        OBVIOUS
    <2>3. (z - a) * (z - a) \in Int /\ (z - b) * (z - b) \in Int
        OBVIOUS
    <2>4. QED
        BY <2>1, <2>2, <2>3, SquareShifted
<1>3. PICK Good : Good = {T \in SUBSET S :
                             SumFunctionOnSet(h, T)
                                = SumFunctionOnSet(g, T)
                                  + 2 * (a - b) * (SumFunctionOnSet(f, T) - Cardinality(T) * a)
                                  + Cardinality(T) * ((a - b) * (a - b))}
    OBVIOUS
<1>4. ASSUME NEW T \in SUBSET S
      PROVE  /\ IsFiniteSet(T) /\ Cardinality(T) \in Nat
             /\ SumFunctionOnSet(g, T) \in Int /\ SumFunctionOnSet(h, T) \in Int
             /\ SumFunctionOnSet(f, T) \in Int
    <2>1. IsFiniteSet(T)
        BY FS_Subset
    <2>2. \A i \in T : g[i] \in Int /\ h[i] \in Int /\ f[i] \in Int
        BY <1>2
    <2>3. QED
        BY <2>1, <2>2, SumInt, FS_CardinalityType
<1>5. {} \in Good
    <2>1. /\ SumFunctionOnSet(g, {}) = 0 /\ SumFunctionOnSet(h, {}) = 0
          /\ SumFunctionOnSet(f, {}) = 0 /\ Cardinality({}) = 0
        BY SumSteps, FS_EmptySet
    <2>2. 0 = 0 + 2 * (a - b) * (0 - 0 * a) + 0 * ((a - b) * (a - b))
        OBVIOUS
    <2>3. QED
        BY <1>3, <2>1, <2>2
<1>6. ASSUME NEW T \in SUBSET S, T # {}, \A x \in T : T \ {x} \in Good
      PROVE  T \in Good
    <2>1. PICK x \in T : TRUE
        BY <1>6
    <2>2. PICK U \in SUBSET S : U = T \ {x}
        OBVIOUS
    <2>3. \A i \in T : g[i] \in Int /\ h[i] \in Int /\ f[i] \in Int
        BY <1>2
    <2>4. /\ SumFunctionOnSet(g, T) = g[x] + SumFunctionOnSet(g, U)
          /\ SumFunctionOnSet(h, T) = h[x] + SumFunctionOnSet(h, U)
          /\ SumFunctionOnSet(f, T) = f[x] + SumFunctionOnSet(f, U)
        BY <1>4, <2>2, <2>3, SumSplit
    <2>5. Cardinality(U) = Cardinality(T) - 1
        BY <1>4, <2>2, FS_RemoveElement
    <2>6. PICK n, G, H, F, y : /\ n = Cardinality(U) /\ G = SumFunctionOnSet(g, U)
                               /\ H = SumFunctionOnSet(h, U) /\ F = SumFunctionOnSet(f, U)
                               /\ y = f[x]
        OBVIOUS
    <2>7. n \in Int /\ G \in Int /\ H \in Int /\ F \in Int /\ y \in Int /\ g[x] \in Int
        BY <1>4, <2>3, <2>6
    <2>8. H = G + 2 * (a - b) * (F - n * a) + n * ((a - b) * (a - b))
        BY <1>3, <1>6, <2>2, <2>6
    <2>9. h[x] = g[x] + 2 * (a - b) * (y - a) + (a - b) * (a - b)
        BY <1>2, <2>6
    <2>10. Cardinality(T) = n + 1
        BY <1>4, <2>5, <2>6
    <2>11. 2 * (a - b) * (F - n * a) + 2 * (a - b) * (y - a)
              = 2 * (a - b) * ((y + F) - (n + 1) * a)
        BY <2>7
    <2>12. n * ((a - b) * (a - b)) + (a - b) * (a - b) = (n + 1) * ((a - b) * (a - b))
        BY <2>7
    <2>13. h[x] + H = (g[x] + G) + 2 * (a - b) * ((y + F) - (n + 1) * a)
                                 + (n + 1) * ((a - b) * (a - b))
        <3>1. PICK p, q, r, s, u, v :
                 /\ p = 2 * (a - b) * (F - n * a) /\ q = 2 * (a - b) * (y - a)
                 /\ r = n * ((a - b) * (a - b)) /\ s = (a - b) * (a - b)
                 /\ u = 2 * (a - b) * ((y + F) - (n + 1) * a)
                 /\ v = (n + 1) * ((a - b) * (a - b))
            OBVIOUS
        <3>2. p \in Int /\ q \in Int /\ r \in Int /\ s \in Int /\ u \in Int /\ v \in Int
            BY <2>7, <3>1
        <3>3. H = G + p + r /\ h[x] = g[x] + q + s /\ p + q = u /\ r + s = v
            BY <2>8, <2>9, <2>11, <2>12, <3>1
        <3>4. h[x] + H = (g[x] + G) + u + v
            BY <2>7, <3>2, <3>3
        <3>5. QED
            BY <3>1, <3>4
    <2>14. QED
        BY <1>3, <2>4, <2>6, <2>10, <2>13
<1>7. S \in Good
    BY <1>5, <1>6, SetByElements
<1>8. QED
    BY <1>1, <1>3, <1>4, <1>7

LEMMA SumScaled ==
    ASSUME NEW S, IsFiniteSet(S), NEW f, NEW g, NEW c \in Int,
           \A i \in S : f[i] \in Int /\ g[i] = c * f[i]
    PROVE  SumFunctionOnSet(g, S) = c * SumFunctionOnSet(f, S)
<1>1. PICK Good : Good = {T \in SUBSET S :
                             SumFunctionOnSet(g, T) = c * SumFunctionOnSet(f, T)}
    OBVIOUS
<1>2. {} \in Good
    <2>1. SumFunctionOnSet(g, {}) = 0 /\ SumFunctionOnSet(f, {}) = 0
        BY SumSteps
    <2>2. QED
        BY <1>1, <2>1
<1>3. ASSUME NEW T \in SUBSET S, T # {}, \A x \in T : T \ {x} \in Good
      PROVE  T \in Good
    <2>1. PICK x \in T : x = First(T)
        BY <1>3, FirstInSet
    <2>2. IsFiniteSet(T) /\ IsFiniteSet(T \ {x})
        BY FS_Subset
    <2>3. /\ SumFunctionOnSet(f, T) = f[x] + SumFunctionOnSet(f, T \ {x})
          /\ SumFunctionOnSet(g, T) = g[x] + SumFunctionOnSet(g, T \ {x})
        BY <1>3, <2>1, <2>2, SumSteps
    <2>4. SumFunctionOnSet(g, T \ {x}) = c * SumFunctionOnSet(f, T \ {x})
        BY <1>1, <1>3
    <2>5. PICK y, F : y = f[x] /\ F = SumFunctionOnSet(f, T \ {x})
        OBVIOUS
    <2>6. y \in Int /\ F \in Int
        BY <2>2, <2>5, SumInt
    <2>7. c * y + c * F = c * (y + F)
        BY <2>6
    <2>8. g[x] = c * y
        BY <2>5
    <2>9. SumFunctionOnSet(g, T) = c * SumFunctionOnSet(f, T)
        BY <2>3, <2>4, <2>5, <2>7, <2>8
    <2>10. QED
        BY <1>1, <2>9
<1>4. S \in Good
    BY <1>2, <1>3, SetByElements
<1>5. QED
    BY <1>1, <1>4

LEMMA SquareUpdated ==
    ASSUME NEW n \in Nat, NEW a \in Int, NEW b \in Int, NEW z \in Int,
           (n + 1) * (b - a) = z - a
    PROVE  n * ((a - b) * (a - b)) + (z - b) * (z - b) = (z - a) * (z - b)
<1>1. PICK d \in Int : d = b - a
    OBVIOUS
<1>2. z - a = (n + 1) * d
    BY <1>1
<1>3. z - b = n * d
    <2>1. (n + 1) * d = n * d + d
        OBVIOUS
    <2>2. n * d \in Int
        OBVIOUS
    <2>3. QED
        BY <1>1, <1>2, <2>1, <2>2
<1>4. (a - b) * (a - b) = d * d
    BY <1>1
<1>5. n * (d * d) + (n * d) * (n * d) = ((n + 1) * d) * (n * d)
    OBVIOUS
<1>6. QED
    BY <1>2, <1>3, <1>4, <1>5

-----------------------------------------------------------------------------
USE PricesAssumption, MarksAssumption, QuantitiesAssumption, BoundsAssumption,
    ScaleAssumption, PartsAssumption

Positions == [quantity : -MaxPosition .. MaxPosition,
              avg_entry_price : Int, cost_basis : Int]

-----------------------------------------------------------------------------
(* One position under one fill.                                            *)

LEMMA SignedType ==
    ASSUME NEW side \in Sides, NEW qty \in Int
    PROVE  Signed(side, qty) \in Int /\ (Signed(side, qty) = 0 <=> qty = 0)
BY DEF Signed, Sides

LEMMA AverageType ==
    ASSUME NEW total \in Int, NEW qty \in Int
    PROVE  Average(total, qty) \in Int /\ (total = 0 => Average(total, qty) = 0)
<1>1. CASE qty > 0
    <2>1. Scale \div qty \in Int
        BY <1>1
    <2>2. QED
        BY <1>1, <2>1 DEF Average
<1>2. CASE ~(qty > 0)
    BY <1>2 DEF Average
<1>3. QED
    BY <1>1, <1>2

\* A fill keeps a position well formed, and one that ends flat is cleared if the
\* position was clear when it was flat before.
LEMMA PositionAfterType ==
    ASSUME NEW pos \in Positions, NEW side \in Sides,
           NEW qty \in Quantities, NEW price \in Prices,
           AbsOf(pos.quantity + Signed(side, qty)) <= MaxPosition,
           pos.quantity = 0 => pos = NoPosition
    PROVE  LET new == PositionAfter(pos, side, qty, price)
           IN  new \in Positions /\ (new.quantity = 0 => new = NoPosition)
<1> DEFINE new == PositionAfter(pos, side, qty, price)
           q == pos.quantity + Signed(side, qty)
           total == pos.cost_basis + qty * price
<1>1. /\ qty \in Nat /\ price \in Int /\ pos.quantity \in Int
      /\ pos.avg_entry_price \in Int /\ pos.cost_basis \in Int
      /\ Signed(side, qty) \in Int /\ q \in Int
    BY SignedType DEF Positions
<1>2. q \in -MaxPosition .. MaxPosition
    BY <1>1 DEF AbsOf
<1>3. CASE Extends(pos, side)
    <2>1. total \in Int
        BY <1>1
    <2>2. AbsOf(pos.quantity) + qty \in Int
        BY <1>1 DEF AbsOf
    <2> DEFINE avg == Average(total, AbsOf(pos.quantity) + qty)
    <2>3. avg \in Int /\ (total = 0 => avg = 0)
        BY <2>1, <2>2, AverageType
    <2> HIDE DEF avg
    <2>4. new = [quantity |-> q, avg_entry_price |-> avg, cost_basis |-> total]
        BY <1>3 DEF PositionAfter, Extended, avg
    <2>5. q = 0 => pos.quantity = 0 /\ qty = 0
        BY <1>1, <1>3 DEF Extends, Signed, Sides
    <2>6. q = 0 => total = 0
        <3> SUFFICES ASSUME q = 0 PROVE total = 0
            OBVIOUS
        <3>1. pos.cost_basis = 0 /\ qty = 0
            BY <2>5 DEF NoPosition
        <3>2. qty * price = 0
            BY <1>1, <3>1
        <3>3. QED
            BY <3>1, <3>2
    <2>7. new \in Positions
        BY <1>2, <2>1, <2>3, <2>4 DEF Positions
    <2>8. new.quantity = 0 => new = NoPosition
        BY <2>3, <2>4, <2>6 DEF NoPosition
    <2>9. QED
        BY <2>7, <2>8
<1>4. CASE ~Extends(pos, side)
    <2> DEFINE remaining == qty - ClosedQty(pos, qty)
    <2>1. remaining \in Int
        BY <1>1 DEF ClosedQty, Smaller, AbsOf
    <2>2. Scale * price \in Int /\ remaining * price \in Int
        BY <1>1, <2>1
    <2>3. CASE remaining > 0
        <3>1. new = [quantity |-> q, avg_entry_price |-> Scale * price,
                     cost_basis |-> remaining * price]
            BY <1>4, <2>3 DEF PositionAfter, Reduced
        <3>2. q # 0
            BY <1>1, <1>4, <2>3 DEF Extends, Signed, Sides, ClosedQty, Smaller, AbsOf
        <3>3. QED
            BY <1>2, <2>2, <3>1, <3>2 DEF Positions
    <2>4. CASE ~(remaining > 0) /\ q = 0
        <3>1. new = NoPosition
            BY <1>4, <2>4 DEF PositionAfter, Reduced
        <3>2. QED
            BY <3>1, <2>4, <1>2 DEF NoPosition, Positions
    <2>5. CASE ~(remaining > 0) /\ q # 0
        <3>1. new = [pos EXCEPT !.quantity = q]
            BY <1>4, <2>5 DEF PositionAfter, Reduced
        <3>2. QED
            BY <1>2, <2>5, <3>1 DEF Positions
    <2>6. QED
        BY <2>3, <2>4, <2>5
<1>5. QED
    BY <1>3, <1>4

LEMMA ProfitType ==
    ASSUME NEW pos \in Positions, NEW side \in Sides,
           NEW qty \in Quantities, NEW price \in Prices
    PROVE  Profit(pos, side, qty, price) \in Int
<1>1. /\ qty \in Int /\ price \in Int /\ pos.avg_entry_price \in Int
      /\ pos.quantity \in Int
    BY DEF Positions
<1>2. ClosedQty(pos, qty) \in Int
    BY <1>1 DEF ClosedQty, Smaller, AbsOf
<1>3. Signed(side, ClosedQty(pos, qty)) \in Int
    BY <1>2, SignedType
<1>4. pos.avg_entry_price - Scale * price \in Int
    BY <1>1
<1>5. QED
    BY <1>3, <1>4 DEF Profit

\* What a position cost, in Scale-ths, by its average; and whether its cost
\* basis says the same.
Worth(pos) == pos.quantity * pos.avg_entry_price
CostMatches(pos) == AbsOf(pos.quantity) * pos.avg_entry_price = Scale * pos.cost_basis

LEMMA AverageTimesQuantity ==
    ASSUME NEW total \in Int, NEW n \in 1 .. MaxPosition
    PROVE  n * Average(total, n) = Scale * total
<1>1. n > 0 /\ n \in Int
    OBVIOUS
<1>2. PICK share : share = Scale \div n
    OBVIOUS
<1>3. share \in Int /\ share * n = Scale
    BY <1>1, <1>2, SMTT(30)
<1>4. Average(total, n) = total * share
    BY <1>1, <1>2 DEF Average
<1>5. n * (total * share) = (share * n) * total
    BY <1>1, <1>3
<1>6. QED
    BY <1>3, <1>4, <1>5

LEMMA ExtendedBalances ==
    ASSUME NEW pos \in Positions, NEW side \in Sides,
           NEW qty \in Quantities, NEW price \in Prices,
           AbsOf(pos.quantity + Signed(side, qty)) <= MaxPosition,
           Extends(pos, side), CostMatches(pos)
    PROVE  LET new == PositionAfter(pos, side, qty, price)
           IN  /\ CostMatches(new)
               /\ Worth(new) = Worth(pos) + Scale * price * Signed(side, qty)
<1>1. PICK q, a, b : q = pos.quantity /\ a = pos.avg_entry_price /\ b = pos.cost_basis
    OBVIOUS
<1>2. q \in Int /\ a \in Int /\ b \in Int /\ qty \in Nat /\ price \in Int /\ Scale \in Int
    BY <1>1 DEF Positions
<1>3. PICK n : n = AbsOf(q) + qty
    OBVIOUS
<1>4. PICK total : total = b + qty * price
    OBVIOUS
<1>5. PICK avg : avg = Average(total, n)
    OBVIOUS
<1>6. n \in 0 .. MaxPosition /\ AbsOf(q + Signed(side, qty)) = n
      /\ AbsOf(q) \in Nat
    BY <1>1, <1>2, <1>3 DEF Extends, AbsOf, Signed, Sides
<1>7. total \in Int /\ qty * price \in Int /\ avg \in Int
    BY <1>2, <1>4, <1>5, <1>6, AverageType
<1>8. AbsOf(q) * a = Scale * b
    BY <1>1 DEF CostMatches
<1>9. n * avg = Scale * total
    <2>1. CASE n = 0
        <3>1. AbsOf(q) = 0 /\ qty = 0
            BY <1>2, <1>3, <1>6, <2>1
        <3>2. AbsOf(q) * a = 0
            BY <1>2, <3>1
        <3>3. b = 0
            BY <1>2, <1>8, <3>2
        <3>4. qty * price = 0
            BY <1>2, <3>1
        <3>5. total = 0
            BY <1>4, <3>3, <3>4
        <3>6. QED
            BY <1>7, <2>1, <3>5
    <2>2. CASE n # 0
        BY <1>5, <1>6, <1>7, <2>2, AverageTimesQuantity
    <2>3. QED
        BY <2>1, <2>2
<1>10. PICK new : new = PositionAfter(pos, side, qty, price)
    OBVIOUS
<1>11. /\ new.quantity = q + Signed(side, qty) /\ new.avg_entry_price = avg
       /\ new.cost_basis = total
    BY <1>1, <1>3, <1>4, <1>5, <1>10 DEF PositionAfter, Extended
<1>12. CostMatches(new)
    BY <1>6, <1>9, <1>11 DEF CostMatches
<1>13. Scale * total = Scale * b + Scale * price * qty
    BY <1>2, <1>4, <1>7
<1>14. Worth(new) = Worth(pos) + Scale * price * Signed(side, qty)
    <2>1. CASE side = "Buy"
        <3>1. Signed(side, qty) = qty /\ AbsOf(q) = q /\ q + qty = n
            BY <1>1, <1>2, <1>3, <2>1 DEF Extends, Signed, AbsOf
        <3>2. Worth(new) = n * avg /\ Worth(pos) = AbsOf(q) * a
            BY <1>1, <1>11, <3>1 DEF Worth
        <3>3. QED
            BY <1>8, <1>9, <1>13, <3>1, <3>2
    <2>2. CASE side = "Sell"
        <3>1. Signed(side, qty) = -qty /\ AbsOf(q) = -q /\ q - qty = -n
            BY <1>1, <1>2, <1>3, <2>2 DEF Extends, Signed, AbsOf
        <3>2. Worth(new) = (-n) * avg /\ Worth(pos) = q * a
            BY <1>1, <1>2, <1>11, <3>1 DEF Worth
        <3>3. (-n) * avg = -(n * avg) /\ q * a = -((-q) * a)
            BY <1>2, <1>6, <1>7
        <3>4. Scale * price * (-qty) = -(Scale * price * qty)
            BY <1>2
        <3>5. Worth(new) = -(Scale * total) /\ Worth(pos) = -(Scale * b)
            BY <1>8, <1>9, <3>1, <3>2, <3>3
        <3>6. Scale * b \in Int /\ Scale * price * qty \in Int
            BY <1>2
        <3>7. QED
            BY <1>13, <3>1, <3>4, <3>5, <3>6
    <2>3. QED
        BY <2>1, <2>2 DEF Sides
<1>15. QED
    BY <1>10, <1>12, <1>14

LEMMA ReducedBalances ==
    ASSUME NEW pos \in Positions, NEW side \in Sides,
           NEW qty \in Quantities, NEW price \in Prices,
           ~Extends(pos, side)
    PROVE  LET new == PositionAfter(pos, side, qty, price)
           IN  /\ qty >= AbsOf(pos.quantity) => CostMatches(new)
               /\ qty = 0 => new = pos
               /\ Worth(new) = Worth(pos) + Scale * price * Signed(side, qty)
                                          + Profit(pos, side, qty, price)
<1>1. PICK q, a, s, c, P : /\ q = pos.quantity /\ a = pos.avg_entry_price
                           /\ s = Signed(side, qty) /\ c = Signed(side, ClosedQty(pos, qty))
                           /\ P = Scale * price
    OBVIOUS
<1>2. q \in Int /\ a \in Int /\ qty \in Nat /\ price \in Int /\ Scale \in Int
    BY <1>1 DEF Positions
<1>3. ClosedQty(pos, qty) \in Int
    BY <1>1, <1>2 DEF ClosedQty, Smaller, AbsOf
<1>4. P \in Int /\ s \in Int /\ c \in Int
    BY <1>1, <1>2, <1>3, SignedType
<1>5. Profit(pos, side, qty, price) = c * (a - P) /\ Worth(pos) = q * a
    BY <1>1 DEF Profit, Worth
<1>6. PICK new : new = PositionAfter(pos, side, qty, price)
    OBVIOUS
<1>7. CASE qty > AbsOf(q)
    <2>1. PICK r : r = qty - ClosedQty(pos, qty)
        OBVIOUS
    <2>2. r \in Int /\ r > 0 /\ c = -q /\ AbsOf(q + s) = r
        BY <1>1, <1>2, <1>7, <2>1 DEF ClosedQty, Smaller, AbsOf, Signed, Sides, Extends
    <2>3. new.quantity = q + s /\ new.avg_entry_price = P /\ new.cost_basis = r * price
        BY <1>1, <1>6, <2>1, <2>2 DEF PositionAfter, Reduced
    <2>4. Worth(new) = (q + s) * P
        BY <2>3 DEF Worth
    <2>5. (q + s) * P = q * a + P * s + (-q) * (a - P)
        BY <1>2, <1>4
    <2>6. r * P = Scale * (r * price)
        BY <1>1, <1>2, <2>2
    <2>7. CostMatches(new)
        BY <2>2, <2>3, <2>6 DEF CostMatches
    <2>8. qty # 0
        BY <1>2, <1>7 DEF AbsOf
    <2>9. QED
        BY <1>1, <1>5, <1>6, <2>2, <2>4, <2>5, <2>7, <2>8
<1>8. CASE qty = AbsOf(q)
    <2>1. qty - ClosedQty(pos, qty) = 0 /\ c = -q /\ s = -q /\ q + s = 0 /\ qty # 0
        BY <1>1, <1>2, <1>8 DEF ClosedQty, Smaller, AbsOf, Signed, Sides, Extends
    <2>2. new = NoPosition
        BY <1>1, <1>6, <2>1 DEF PositionAfter, Reduced
    <2>3. Worth(new) = 0 /\ CostMatches(new)
        BY <1>2, <2>2 DEF Worth, CostMatches, NoPosition, AbsOf
    <2>4. 0 = q * a + P * (-q) + (-q) * (a - P)
        BY <1>2, <1>4
    <2>5. QED
        BY <1>1, <1>5, <1>6, <2>1, <2>3, <2>4
<1>9. CASE qty < AbsOf(q)
    <2>1. qty - ClosedQty(pos, qty) = 0 /\ c = s /\ q + s # 0 /\ (qty = 0 => s = 0)
        BY <1>1, <1>2, <1>9 DEF ClosedQty, Smaller, AbsOf, Signed, Sides, Extends
    <2>2. new = [pos EXCEPT !.quantity = q + s]
        BY <1>1, <1>6, <2>1 DEF PositionAfter, Reduced
    <2>3. Worth(new) = (q + s) * a
        BY <1>1, <2>2 DEF Worth, Positions
    <2>4. (q + s) * a = q * a + P * s + s * (a - P)
        BY <1>2, <1>4
    <2>5. qty = 0 => new = pos
        BY <1>1, <1>2, <2>1, <2>2 DEF Positions
    <2>6. ~(qty >= AbsOf(q))
        BY <1>2, <1>9 DEF AbsOf
    <2>7. QED
        BY <1>1, <1>5, <1>6, <2>1, <2>3, <2>4, <2>5, <2>6
<1>10. AbsOf(q) \in Int
    BY <1>2 DEF AbsOf
<1>11. QED
    BY <1>2, <1>7, <1>8, <1>9, <1>10

\* However a fill changes a position, the quantity is the signed sum.
LEMMA QuantityAfter ==
    ASSUME NEW pos \in Positions, NEW side \in Sides,
           NEW qty \in Quantities, NEW price \in Prices
    PROVE  PositionAfter(pos, side, qty, price).quantity
              = pos.quantity + Signed(side, qty)
<1>1. pos.quantity + Signed(side, qty) \in Int
    BY SignedType DEF Positions
<1>2. CASE Extends(pos, side)
    BY <1>2 DEF PositionAfter, Extended
<1>3. CASE ~Extends(pos, side)
    BY <1>1, <1>3 DEF PositionAfter, Reduced, NoPosition, Positions
<1>4. QED
    BY <1>2, <1>3

-----------------------------------------------------------------------------
(* The inductive invariant.                                                *)

IInv == TypeOK /\ FlatCarriesNothing

LEMMA InitIInv == Init => IInv
BY DEF Init, IInv, TypeOK, FlatCarriesNothing, NoPosition, NoMarks

LEMMA ReportFillIInv == IInv /\ ReportFill => IInv'
<1> SUFFICES ASSUME IInv, fillCount < MaxFills, fillCount' = fillCount + 1,
                    NEW k \in Keys, NEW side \in Sides,
                    NEW qty \in Quantities, NEW price \in Prices,
                    AbsOf(positions[k].quantity + Signed(side, qty)) <= MaxPosition,
                    OnFill(k, side, qty, price)
             PROVE  IInv'
    BY DEF ReportFill
<1> DEFINE new == PositionAfter(positions[k], side, qty, price)
<1>1. positions[k] \in Positions
    BY DEF IInv, TypeOK, Positions
<1>2. new \in Positions /\ (new.quantity = 0 => new = NoPosition)
    BY <1>1, PositionAfterType DEF IInv, FlatCarriesNothing
<1>3. positions' = [positions EXCEPT ![k] = new]
    BY DEF OnFill
<1> HIDE DEF new
<1>4. FlatCarriesNothing'
    BY <1>2, <1>3 DEF IInv, TypeOK, FlatCarriesNothing
<1>5. positions' \in [Keys -> Positions]
    BY <1>2, <1>3 DEF IInv, TypeOK, Positions
<1>6. realized' \in Int
    <2>1. realized' = realized + Profit(positions[k], side, qty, price)
        BY DEF OnFill
    <2>2. QED
        BY <1>1, <2>1, ProfitType DEF IInv, TypeOK
<1>7. cash' \in Int
    <2>1. Signed(side, qty) \in Int /\ Scale * price \in Int
        BY SignedType
    <2>2. QED
        BY <2>1 DEF OnFill, IInv, TypeOK
<1>8. entries' \in [Keys -> SUBSET Prices]
    BY DEF OnFill, EntriesAfter, IInv, TypeOK
<1>9. trimmed' \subseteq Keys /\ reopened' \subseteq Keys
    BY DEF OnFill, TrimmedAfter, IInv, TypeOK
<1>10. fillCount' \in 0 .. MaxFills /\ mid_prices' = mid_prices
    BY DEF OnFill, IInv, TypeOK
<1>11. UNCHANGED returns_count
    BY DEF OnFill, equityVars
<1>12. TypeOK'
    BY <1>5, <1>6, <1>7, <1>8, <1>9, <1>10, <1>11 DEF IInv, TypeOK, Positions
<1>13. QED
    BY <1>4, <1>12 DEF IInv

LEMMA UpdateMarkIInv ==
    ASSUME IInv, NEW k \in Keys, NEW mid \in Marks, UpdateMarkToMarket(k, mid)
    PROVE  IInv'
BY DEF UpdateMarkToMarket, equityVars, historyVars, IInv, TypeOK, FlatCarriesNothing

LEMMA OnMarketResolvedIInv ==
    ASSUME IInv, NEW m \in Markets, NEW winner \in Outcomes, OnMarketResolved(m, winner)
    PROVE  IInv'
<1>1. <<m, "Yes">> \in Keys /\ <<m, "No">> \in Keys
    BY DEF Keys, Outcomes
<1>2. \A k \in Keys : SettlementProfit(k, winner) \in Int /\ Payout(k, winner) \in Int
    <2> SUFFICES ASSUME NEW k \in Keys
                 PROVE  SettlementProfit(k, winner) \in Int /\ Payout(k, winner) \in Int
        OBVIOUS
    <2>1. positions[k].quantity \in Int /\ positions[k].avg_entry_price \in Int
        BY DEF IInv, TypeOK
    <2>2. SettlementPrice(k[2], winner) \in Int
        BY DEF SettlementPrice
    <2>3. Scale * SettlementPrice(k[2], winner) \in Int
        BY <2>2
    <2>4. QED
        BY <2>1, <2>3 DEF SettlementProfit, Payout
<1>3. realized' \in Int /\ cash' \in Int
    <2>1. realized' = realized + SettlementProfit(<<m, "Yes">>, winner)
                               + SettlementProfit(<<m, "No">>, winner)
        BY DEF OnMarketResolved
    <2>2. cash' = cash + Payout(<<m, "Yes">>, winner) + Payout(<<m, "No">>, winner)
        BY DEF OnMarketResolved
    <2>3. realized \in Int /\ cash \in Int
        BY DEF IInv, TypeOK
    <2>4. QED
        BY <1>1, <1>2, <2>1, <2>2, <2>3
<1>4. NoPosition \in Positions
    BY DEF NoPosition, Positions
<1>5. positions' \in [Keys -> Positions] /\ FlatCarriesNothing'
    BY <1>4 DEF OnMarketResolved, IInv, TypeOK, FlatCarriesNothing, Positions
<1>6. DOMAIN mid_prices' \subseteq Keys
      /\ \A k \in DOMAIN mid_prices' : mid_prices'[k] \in Marks
    BY DEF OnMarketResolved, IInv, TypeOK
<1>7. /\ entries' \in [Keys -> SUBSET Prices]
      /\ trimmed' \subseteq Keys /\ reopened' \subseteq Keys
      /\ fillCount' \in 0 .. MaxFills
    BY DEF OnMarketResolved, IInv, TypeOK
<1>8. UNCHANGED returns_count
    BY DEF OnMarketResolved, equityVars
<1>9. QED
    BY <1>3, <1>5, <1>6, <1>7, <1>8 DEF IInv, TypeOK, Positions

\* A snapshot leaves the positions alone, and counts as one return.
LEMMA RecordEquitySnapshotIInv == IInv /\ RecordEquitySnapshot => IInv'
<1> SUFFICES ASSUME IInv, RecordEquitySnapshot PROVE IInv'
    OBVIOUS
<1>1. returns_count' = returns_count + 1 /\ returns_count' \in 0 .. MaxSnapshots
    BY DEF RecordEquitySnapshot, IInv, TypeOK
<1>2. UNCHANGED <<positions, mid_prices, realized, cash, entries, reopened, trimmed,
                  fillCount>>
    BY DEF RecordEquitySnapshot, historyVars
<1>3. QED
    BY <1>1, <1>2 DEF IInv, TypeOK, FlatCarriesNothing

LEMMA NextIInv == IInv /\ [Next]_vars => IInv'
<1> SUFFICES ASSUME IInv, [Next]_vars PROVE IInv'
    OBVIOUS
<1>1. CASE ReportFill
    BY <1>1, ReportFillIInv
<1>2. CASE \E k \in Keys, mid \in Marks : UpdateMarkToMarket(k, mid)
    BY <1>2, UpdateMarkIInv
<1>3. CASE RecordEquitySnapshot
    BY <1>3, RecordEquitySnapshotIInv
<1>4. CASE \E m \in Markets, winner \in Outcomes : OnMarketResolved(m, winner)
    BY <1>4, OnMarketResolvedIInv
<1>5. CASE UNCHANGED vars
    BY <1>5 DEF vars, equityVars, historyVars, IInv, TypeOK, FlatCarriesNothing
<1>6. QED
    BY <1>1, <1>2, <1>3, <1>4, <1>5 DEF Next

LEMMA PortfolioInvariant == Spec => []IInv
BY InitIInv, NextIInv, PTL DEF Spec

-----------------------------------------------------------------------------
(* Profit and cash.                                                        *)

\* The cost basis is that of the average as long as the position is neither
\* partially closed nor was ever extended after that.
MatchInv == \A k \in Keys \ (trimmed \cup reopened) : CostMatches(positions[k])

CashInv == IInv /\ MatchInv /\ ProfitIsCash

LEMMA KeysFinite == IsFiniteSet(Keys)
<1>1. IsFiniteSet({"Yes"}) /\ IsFiniteSet({"No"})
    BY FS_Singleton
<1>2. IsFiniteSet({"Yes"} \cup {"No"})
    BY <1>1, FS_Union
<1>3. Outcomes = {"Yes"} \cup {"No"}
    BY DEF Outcomes
<1>4. IsFiniteSet(Outcomes)
    BY <1>2, <1>3
<1>5. QED
    BY <1>4, MarketsAssumption, FS_Product DEF Keys

Costs(p) == [k \in Keys |-> Worth(p[k])]

LEMMA CostsAdded ==
    ASSUME NEW p
    PROVE  SumFunction([k \in Keys |-> p[k].quantity * p[k].avg_entry_price])
              = SumFunctionOnSet(Costs(p), Keys)
<1>1. Costs(p) = [k \in Keys |-> p[k].quantity * p[k].avg_entry_price]
    BY DEF Costs, Worth
<1>2. PICK g : g = Costs(p)
    OBVIOUS
<1>3. DOMAIN g = Keys
    BY <1>2 DEF Costs
<1>4. SumFunction(g) = SumFunctionOnSet(g, Keys)
    BY <1>3 DEF SumFunction
<1>5. QED
    BY <1>1, <1>2, <1>4

LEMMA CostsInt ==
    ASSUME NEW p \in [Keys -> Positions], NEW k \in Keys
    PROVE  Costs(p)[k] = Worth(p[k]) /\ Costs(p)[k] \in Int
BY DEF Costs, Worth, Positions

\* The cost of all positions after one of them changed.
LEMMA CostsChanged ==
    ASSUME NEW p \in [Keys -> Positions], NEW r \in [Keys -> Positions], NEW k \in Keys,
           \A j \in Keys \ {k} : r[j] = p[j]
    PROVE  /\ SumFunctionOnSet(Costs(p), Keys) \in Int
           /\ SumFunctionOnSet(Costs(r), Keys)
                 = SumFunctionOnSet(Costs(p), Keys) - Worth(p[k]) + Worth(r[k])
<1>1. PICK g, h : g = Costs(p) /\ h = Costs(r)
    OBVIOUS
<1>2. \A x \in Keys : g[x] \in Int /\ h[x] \in Int /\ g[x] = Worth(p[x]) /\ h[x] = Worth(r[x])
    BY <1>1, CostsInt
<1>3. \A x \in Keys \ {k} : g[x] = h[x]
    BY <1>2
<1>4. SumFunctionOnSet(g, Keys) \in Int
    BY <1>2, KeysFinite, SumInt
<1>5. SumFunctionOnSet(h, Keys) = SumFunctionOnSet(g, Keys) - g[k] + h[k]
    BY <1>2, <1>3, KeysFinite, SumChanged
<1>6. QED
    BY <1>1, <1>2, <1>4, <1>5

LEMMA InitCashInv == Init => CashInv
<1> SUFFICES ASSUME Init PROVE CashInv
    OBVIOUS
<1>1. IInv
    BY InitIInv
<1>2. MatchInv
    BY DEF Init, MatchInv, CostMatches, NoPosition, AbsOf
<1>3. \A k \in Keys : Costs(positions)[k] = 0
    BY DEF Init, Costs, Worth, NoPosition
<1>4. PICK g : g = Costs(positions)
    OBVIOUS
<1>5. SumFunctionOnSet(g, {}) = 0
    BY KeysFinite, SumSteps
<1>6. \A x \in Keys : g[x] \in Int /\ g[x] = 0
    BY <1>3, <1>4
<1>7. PICK T \in SUBSET Keys : T = {}
    OBVIOUS
<1>8. SumFunctionOnSet(g, Keys) = SumFunctionOnSet(g, T)
    BY <1>6, KeysFinite, SumOfPart
<1>9. CostOfPositions = 0
    BY <1>4, <1>5, <1>7, <1>8, CostsAdded DEF CostOfPositions
<1>10. ProfitIsCash
    BY <1>9 DEF Init, ProfitIsCash
<1>11. QED
    BY <1>1, <1>2, <1>10 DEF CashInv

\* What a fill does to the position of its key, and to profit and cash.
LEMMA OnFillBalances ==
    ASSUME IInv, MatchInv, NEW k \in Keys, NEW side \in Sides,
           NEW qty \in Quantities, NEW price \in Prices,
           AbsOf(positions[k].quantity + Signed(side, qty)) <= MaxPosition,
           OnFill(k, side, qty, price), k \notin reopened'
    PROVE  /\ Worth(positions'[k]) = Worth(positions[k])
                  + Scale * price * Signed(side, qty) + (realized' - realized)
           /\ k \notin trimmed' => CostMatches(positions'[k])
<1>1. PICK pos, new : pos = positions[k] /\ new = PositionAfter(pos, side, qty, price)
    OBVIOUS
<1>2. pos \in Positions /\ (pos.quantity = 0 => pos = NoPosition)
    BY <1>1 DEF IInv, TypeOK, Positions, FlatCarriesNothing
<1>3. positions'[k] = new
    BY <1>1 DEF OnFill, IInv, TypeOK
<1>4. /\ Profit(pos, side, qty, price) \in Int /\ realized \in Int
      /\ realized' = realized + Profit(pos, side, qty, price)
    BY <1>1, <1>2, ProfitType DEF OnFill, IInv, TypeOK
<1>5. realized' - realized = Profit(pos, side, qty, price)
    BY <1>4
<1>6. qty \in Nat /\ price \in Int /\ pos.quantity \in Int /\ AbsOf(pos.quantity) \in Int
    <2>1. qty \in Nat /\ price \in Int
        OBVIOUS
    <2>2. PICK n \in Int : n = pos.quantity
        BY <1>2 DEF Positions
    <2>3. AbsOf(n) \in Int
        BY <2>2 DEF AbsOf
    <2>4. QED
        BY <2>1, <2>2, <2>3
<1>7. CASE Extends(pos, side)
    <2>1. k \notin trimmed /\ k \notin reopened
        BY <1>1, <1>7 DEF OnFill
    <2>2. CostMatches(pos)
        BY <1>1, <2>1 DEF MatchInv
    <2>3. CostMatches(new) /\ Worth(new) = Worth(pos) + Scale * price * Signed(side, qty)
        BY <1>1, <1>2, <1>7, <2>2, ExtendedBalances
    <2>4. Profit(pos, side, qty, price) = 0
        BY <1>7 DEF Profit
    <2>5. Worth(pos) \in Int /\ Scale * price * Signed(side, qty) \in Int
        <3>1. Signed(side, qty) \in Int
            BY <1>6, SignedType
        <3>2. Scale * price * Signed(side, qty) \in Int
            BY <1>6, <3>1
        <3>3. QED
            BY <1>2, <3>2 DEF Worth, Positions
    <2>6. QED
        BY <1>1, <1>3, <1>5, <2>3, <2>4, <2>5
<1>8. CASE ~Extends(pos, side)
    <2>1. /\ qty >= AbsOf(pos.quantity) => CostMatches(new)
          /\ qty = 0 => new = pos
          /\ Worth(new) = Worth(pos) + Scale * price * Signed(side, qty)
                             + Profit(pos, side, qty, price)
        BY <1>1, <1>2, <1>8, ReducedBalances
    <2>2. ASSUME k \notin trimmed' PROVE CostMatches(new)
        <3>1. CASE qty >= AbsOf(pos.quantity)
            BY <2>1, <3>1
        <3>2. CASE qty < AbsOf(pos.quantity)
            <4>1. trimmed' = TrimmedAfter(k, side, qty) /\ k \notin reopened
                BY DEF OnFill
            <4>2. qty = 0
                BY <1>1, <1>6, <1>8, <2>2, <3>2, <4>1 DEF TrimmedAfter
            <4>3. trimmed' = trimmed
                BY <1>1, <1>6, <1>8, <3>2, <4>1, <4>2 DEF TrimmedAfter
            <4>4. CostMatches(pos)
                BY <1>1, <2>2, <4>1, <4>3 DEF MatchInv
            <4>5. QED
                BY <2>1, <4>2, <4>4
        <3>3. QED
            BY <1>6, <3>1, <3>2
    <2>3. QED
        BY <1>1, <1>3, <1>5, <2>1, <2>2
<1>9. QED
    BY <1>7, <1>8

LEMMA ReportFillCashInv == CashInv /\ ReportFill => CashInv'
<1> SUFFICES ASSUME CashInv, ReportFill,
                    NEW k \in Keys, NEW side \in Sides,
                    NEW qty \in Quantities, NEW price \in Prices,
                    AbsOf(positions[k].quantity + Signed(side, qty)) <= MaxPosition,
                    OnFill(k, side, qty, price)
             PROVE  CashInv'
    BY DEF ReportFill
<1>1. IInv /\ IInv' /\ MatchInv /\ ProfitIsCash
    BY ReportFillIInv DEF CashInv
<1>2. positions \in [Keys -> Positions] /\ positions' \in [Keys -> Positions]
    BY <1>1 DEF IInv, TypeOK, Positions
<1>3. \A j \in Keys \ {k} : positions'[j] = positions[j]
    BY <1>2 DEF OnFill
<1>4. reopened \subseteq reopened' /\ trimmed \ {k} \subseteq trimmed'
    BY DEF OnFill, TrimmedAfter
<1>5. MatchInv'
    <2> SUFFICES ASSUME NEW j \in Keys, j \notin trimmed', j \notin reopened'
                 PROVE  CostMatches(positions'[j])
        BY DEF MatchInv, CostMatches
    <2>1. CASE j = k
        BY <1>1, <2>1, OnFillBalances
    <2>2. CASE j # k
        BY <1>1, <1>3, <1>4, <2>2 DEF MatchInv
    <2>3. QED
        BY <2>1, <2>2
<1>6. ProfitIsCash'
    <2> SUFFICES ASSUME reopened' = {} PROVE realized' = cash' + CostOfPositions'
        BY DEF ProfitIsCash
    <2>1. reopened = {} /\ k \notin reopened'
        BY <1>4
    <2>2. realized = cash + CostOfPositions
        BY <1>1, <2>1 DEF ProfitIsCash
    <2>3. PICK a, b : /\ a = SumFunctionOnSet(Costs(positions), Keys)
                      /\ b = SumFunctionOnSet(Costs(positions'), Keys)
        OBVIOUS
    <2>4. CostOfPositions = a /\ CostOfPositions' = b
        BY <2>3, CostsAdded DEF CostOfPositions
    <2>5. a \in Int /\ b = a - Worth(positions[k]) + Worth(positions'[k])
        BY <1>2, <1>3, <2>3, CostsChanged
    <2>6. PICK v, w, d : /\ v = Worth(positions[k]) /\ w = Worth(positions'[k])
                         /\ d = Scale * price * Signed(side, qty)
        OBVIOUS
    <2>7. qty \in Int /\ price \in Int /\ Signed(side, qty) \in Int
        <3>1. qty \in Nat /\ price \in Int
            BY Zenon
        <3>2. qty \in Int
            BY <3>1
        <3>3. QED
            BY <3>1, <3>2, SignedType
    <2>8. v \in Int /\ w \in Int /\ d \in Int
        <3>1. d \in Int
            BY <2>6, <2>7
        <3>2. QED
            BY <1>2, <2>6, <3>1 DEF Worth, Positions
    <2>9. w = v + d + (realized' - realized)
        BY <1>1, <2>1, <2>6, OnFillBalances
    <2>10. cash' = cash - d
        BY <2>6 DEF OnFill
    <2>11. realized \in Int /\ realized' \in Int /\ cash \in Int
        BY <1>1 DEF IInv, TypeOK
    <2>12. realized = cash + a /\ b = a - v + w
        BY <2>2, <2>4, <2>5, <2>6
    <2>13. realized' = cash' + b
        BY <2>5, <2>8, <2>9, <2>10, <2>11, <2>12
    <2>14. QED
        BY <2>4, <2>13
<1>7. QED
    BY <1>1, <1>5, <1>6 DEF CashInv

\* What a settlement does: the two positions of the market are closed.
LEMMA SettledPositions ==
    ASSUME IInv, NEW m \in Markets, NEW winner \in Outcomes, OnMarketResolved(m, winner)
    PROVE  /\ <<m, "Yes">> \in Keys /\ <<m, "No">> \in Keys
           /\ KeysOf(m) = {<<m, "Yes">>, <<m, "No">>}
           /\ \A k \in KeysOf(m) : positions'[k] = NoPosition
           /\ \A k \in Keys \ KeysOf(m) : positions'[k] = positions[k]
<1>1. <<m, "Yes">> \in Keys /\ <<m, "No">> \in Keys
    BY DEF Keys, Outcomes
<1>2. KeysOf(m) = {<<m, "Yes">>, <<m, "No">>}
    BY DEF KeysOf, Outcomes
<1>3. positions' = [k \in Keys |-> IF k \in KeysOf(m) /\ positions[k].quantity # 0
                                      THEN NoPosition ELSE positions[k]]
    BY DEF OnMarketResolved
<1>4. \A k \in Keys : positions[k].quantity = 0 => positions[k] = NoPosition
    BY DEF IInv, FlatCarriesNothing
<1>5. QED
    BY <1>1, <1>2, <1>3, <1>4

\* One position closed at its settlement earns what it pays out less its cost.
LEMMA SettlementBalances ==
    ASSUME IInv, NEW k \in Keys, NEW winner \in Outcomes
    PROVE  /\ SettlementProfit(k, winner) \in Int /\ Payout(k, winner) \in Int
           /\ Worth(positions[k]) \in Int
           /\ SettlementProfit(k, winner) = Payout(k, winner) - Worth(positions[k])
<1>1. PICK q, a, u : /\ q = positions[k].quantity /\ a = positions[k].avg_entry_price
                     /\ u = SettlementPrice(k[2], winner)
    OBVIOUS
<1>2. q \in Int /\ a \in Int
    BY <1>1 DEF IInv, TypeOK
<1>3. u \in Int /\ Scale \in Int
    BY <1>1 DEF SettlementPrice
<1>4. /\ SettlementProfit(k, winner) = q * (Scale * u - a) /\ Payout(k, winner) = Scale * u * q
      /\ Worth(positions[k]) = q * a
    BY <1>1 DEF SettlementProfit, Payout, Worth
<1>5. /\ q * (Scale * u - a) = Scale * u * q - q * a
      /\ q * (Scale * u - a) \in Int /\ Scale * u * q \in Int /\ q * a \in Int
    BY <1>2, <1>3
<1>6. QED
    BY <1>4, <1>5

LEMMA OnMarketResolvedCashInv ==
    ASSUME CashInv, NEW m \in Markets, NEW winner \in Outcomes, OnMarketResolved(m, winner)
    PROVE  CashInv'
<1>1. IInv /\ IInv' /\ MatchInv /\ ProfitIsCash
    BY OnMarketResolvedIInv DEF CashInv
<1>2. PICK y, n : y = <<m, "Yes">> /\ n = <<m, "No">>
    OBVIOUS
<1>3. y # n
    BY <1>2
<1>4. /\ y \in Keys /\ n \in Keys /\ KeysOf(m) = {y, n}
      /\ positions'[y] = NoPosition /\ positions'[n] = NoPosition
      /\ \A k \in Keys \ {y, n} : positions'[k] = positions[k]
    BY <1>1, <1>2, SettledPositions
<1>5. positions \in [Keys -> Positions] /\ positions' \in [Keys -> Positions]
    BY <1>1 DEF IInv, TypeOK, Positions
<1>6. Worth(NoPosition) = 0 /\ CostMatches(NoPosition)
    BY DEF Worth, CostMatches, NoPosition, AbsOf
<1>7. MatchInv'
    <2> SUFFICES ASSUME NEW k \in Keys, k \notin trimmed', k \notin reopened'
                 PROVE  CostMatches(positions'[k])
        BY DEF MatchInv, CostMatches
    <2>1. CASE k \in {y, n}
        BY <1>4, <1>6, <2>1
    <2>2. CASE k \notin {y, n}
        <3>1. k \notin trimmed /\ k \notin reopened
            BY <1>4, <2>2 DEF OnMarketResolved
        <3>2. QED
            BY <1>1, <1>4, <2>2, <3>1 DEF MatchInv
    <2>3. QED
        BY <2>1, <2>2
<1>8. PICK p : p = [positions EXCEPT ![y] = NoPosition]
    OBVIOUS
<1>9. /\ p \in [Keys -> Positions] /\ p[y] = NoPosition /\ p[n] = positions[n]
      /\ \A k \in Keys \ {y} : p[k] = positions[k]
      /\ \A k \in Keys \ {n} : positions'[k] = p[k]
    <2>1. NoPosition \in Positions
        BY DEF NoPosition, Positions
    <2>2. QED
        BY <1>3, <1>4, <1>5, <1>8, <2>1
<1>10. PICK a, b, c : /\ a = SumFunctionOnSet(Costs(positions), Keys)
                      /\ b = SumFunctionOnSet(Costs(p), Keys)
                      /\ c = SumFunctionOnSet(Costs(positions'), Keys)
    OBVIOUS
<1>11. a \in Int /\ b = a - Worth(positions[y]) + Worth(p[y])
    BY <1>4, <1>5, <1>9, <1>10, CostsChanged
<1>12. b \in Int /\ c = b - Worth(p[n]) + Worth(positions'[n])
    BY <1>4, <1>5, <1>9, <1>10, CostsChanged
<1>13. CostOfPositions = a /\ CostOfPositions' = c
    BY <1>10, CostsAdded DEF CostOfPositions
<1>14. PICK sy, sn, py, pn, wy, wn :
          /\ sy = SettlementProfit(y, winner) /\ sn = SettlementProfit(n, winner)
          /\ py = Payout(y, winner) /\ pn = Payout(n, winner)
          /\ wy = Worth(positions[y]) /\ wn = Worth(positions[n])
    OBVIOUS
<1>15. /\ sy \in Int /\ py \in Int /\ wy \in Int /\ sy = py - wy
       /\ sn \in Int /\ pn \in Int /\ wn \in Int /\ sn = pn - wn
    BY <1>1, <1>4, <1>14, SettlementBalances
<1>16. realized' = realized + sy + sn /\ cash' = cash + py + pn /\ reopened' = reopened
    BY <1>2, <1>14 DEF OnMarketResolved
<1>17. c = a - wy - wn
    <2>1. Worth(p[y]) = 0 /\ Worth(positions'[n]) = 0 /\ Worth(p[n]) = wn
        BY <1>4, <1>6, <1>9, <1>14
    <2>2. QED
        BY <1>11, <1>12, <1>14, <1>15, <2>1
<1>18. ProfitIsCash'
    <2> SUFFICES ASSUME reopened' = {} PROVE realized' = cash' + CostOfPositions'
        BY DEF ProfitIsCash
    <2>1. realized = cash + a
        BY <1>1, <1>13, <1>16 DEF ProfitIsCash
    <2>2. realized \in Int /\ cash \in Int
        BY <1>1 DEF IInv, TypeOK
    <2>3. realized' = cash' + c
        BY <1>11, <1>15, <1>16, <1>17, <2>1, <2>2
    <2>4. QED
        BY <1>13, <2>3
<1>19. QED
    BY <1>1, <1>7, <1>18 DEF CashInv

LEMMA NextCashInv == CashInv /\ [Next]_vars => CashInv'
<1> SUFFICES ASSUME CashInv, [Next]_vars PROVE CashInv'
    OBVIOUS
<1>1. IInv'
    BY NextIInv DEF CashInv
<1>2. CASE ReportFill
    BY <1>2, ReportFillCashInv
<1>3. CASE \E m \in Markets, winner \in Outcomes : OnMarketResolved(m, winner)
    BY <1>3, OnMarketResolvedCashInv
<1>4. ASSUME UNCHANGED <<positions, realized, cash, reopened, trimmed>> PROVE CashInv'
    <2>1. MatchInv'
        BY <1>4 DEF CashInv, MatchInv, CostMatches
    <2>2. CostOfPositions' = CostOfPositions
        BY <1>4 DEF CostOfPositions
    <2>3. ProfitIsCash'
        BY <1>4, <2>2 DEF CashInv, ProfitIsCash
    <2>4. QED
        BY <1>1, <2>1, <2>3 DEF CashInv
<1>5. CASE \E k \in Keys, mid \in Marks : UpdateMarkToMarket(k, mid)
    BY <1>4, <1>5 DEF UpdateMarkToMarket, historyVars
<1>6. CASE RecordEquitySnapshot
    BY <1>4, <1>6 DEF RecordEquitySnapshot, historyVars
<1>7. CASE UNCHANGED vars
    BY <1>4, <1>7 DEF vars, historyVars
<1>8. QED
    BY <1>2, <1>3, <1>5, <1>6, <1>7 DEF Next

-----------------------------------------------------------------------------
(* Realized and unrealized profit.                                         *)

\* What a position would earn at a mark, and all positions at the marks there are.
Gain(pos, mark) == pos.quantity * (Scale * mark - pos.avg_entry_price)
Gains(p, mids) == [k \in Keys |-> IF k \in DOMAIN mids THEN Gain(p[k], mids[k]) ELSE 0]

LEMMA GainsInt ==
    ASSUME NEW p \in [Keys -> Positions], NEW mids, \A j \in DOMAIN mids : mids[j] \in Marks,
           NEW k \in Keys
    PROVE  /\ Gains(p, mids)[k] \in Int
           /\ k \in DOMAIN mids => Gains(p, mids)[k] = Gain(p[k], mids[k])
           /\ k \notin DOMAIN mids => Gains(p, mids)[k] = 0
<1>1. CASE k \in DOMAIN mids
    <2>1. PICK q, a, u : q = p[k].quantity /\ a = p[k].avg_entry_price /\ u = mids[k]
        OBVIOUS
    <2>2. q \in Int /\ a \in Int /\ u \in Int /\ Scale \in Int
        <3>1. p[k] \in Positions /\ mids[k] \in Int
            BY <1>1
        <3>2. QED
            BY <2>1, <3>1 DEF Positions
    <2>3. q * (Scale * u - a) \in Int
        BY <2>2
    <2>4. Gains(p, mids)[k] = q * (Scale * u - a) /\ Gain(p[k], mids[k]) = q * (Scale * u - a)
        BY <1>1, <2>1 DEF Gains, Gain
    <2>5. QED
        BY <1>1, <2>3, <2>4
<1>2. CASE k \notin DOMAIN mids
    BY <1>2 DEF Gains
<1>3. QED
    BY <1>1, <1>2

\* Positions that are flat, or have no mark, add nothing.
LEMMA GainsAdded ==
    ASSUME NEW p \in [Keys -> Positions], NEW mids, DOMAIN mids \subseteq Keys,
           \A j \in DOMAIN mids : mids[j] \in Marks
    PROVE  SumFunction([k \in {k \in DOMAIN mids : p[k].quantity # 0} |->
                           p[k].quantity * (Scale * mids[k] - p[k].avg_entry_price)])
              = SumFunctionOnSet(Gains(p, mids), Keys)
<1>1. PICK S \in SUBSET Keys : S = {k \in DOMAIN mids : p[k].quantity # 0}
    OBVIOUS
<1>2. PICK f : f = [k \in S |-> Gain(p[k], mids[k])]
    OBVIOUS
<1>3. PICK g : g = Gains(p, mids)
    OBVIOUS
<1>4. DOMAIN f = S
    BY <1>2
<1>5. SumFunction(f) = SumFunctionOnSet(f, S)
    BY <1>4 DEF SumFunction
<1>6. IsFiniteSet(S)
    BY KeysFinite, FS_Subset
<1>7. \A k \in Keys : g[k] \in Int
    BY <1>3, GainsInt
<1>8. \A k \in S : f[k] = g[k]
    BY <1>1, <1>2, <1>3, GainsInt
<1>9. SumFunctionOnSet(f, S) = SumFunctionOnSet(g, S)
    BY <1>6, <1>8, SumSame
<1>10. ASSUME NEW k \in Keys, k \notin S PROVE g[k] = 0
    <2>1. CASE k \in DOMAIN mids
        <3>1. p[k].quantity = 0 /\ mids[k] \in Int /\ p[k].avg_entry_price \in Int
            BY <1>1, <1>10, <2>1 DEF Positions
        <3>2. Gain(p[k], mids[k]) = 0
            BY <3>1 DEF Gain
        <3>3. QED
            BY <1>3, <2>1, <3>2, GainsInt
    <2>2. CASE k \notin DOMAIN mids
        BY <1>3, <2>2, GainsInt
    <2>3. QED
        BY <2>1, <2>2
<1>11. SumFunctionOnSet(g, Keys) = SumFunctionOnSet(g, S)
    BY <1>7, <1>10, KeysFinite, SumOfPart
<1>12. f = [k \in {k \in DOMAIN mids : p[k].quantity # 0} |->
               p[k].quantity * (Scale * mids[k] - p[k].avg_entry_price)]
    BY <1>1, <1>2 DEF Gain
<1>13. QED
    BY <1>3, <1>5, <1>9, <1>11, <1>12

LEMMA FillNeutral ==
    ASSUME IInv, MatchInv, IInv', ReportFill, NEW k \in DOMAIN mid_prices, k \notin reopened',
           positions'[k].quantity - positions[k].quantity # 0,
           cash' - cash = -(Scale * mid_prices[k]
                               * (positions'[k].quantity - positions[k].quantity))
    PROVE  TotalPnl' = TotalPnl
<1>1. PICK j \in Keys, side \in Sides, qty \in Quantities, price \in Prices :
          /\ AbsOf(positions[j].quantity + Signed(side, qty)) <= MaxPosition
          /\ OnFill(j, side, qty, price)
    BY DEF ReportFill
<1>2. positions \in [Keys -> Positions] /\ positions' \in [Keys -> Positions]
    BY DEF IInv, TypeOK, Positions
<1>3. \A i \in Keys \ {j} : positions'[i] = positions[i]
    BY <1>1, <1>2 DEF OnFill
<1>4. k \in Keys
    BY DEF IInv, TypeOK
<1>5. k = j
    <2> SUFFICES ASSUME k # j PROVE FALSE
        OBVIOUS
    <2>1. positions'[k] = positions[k] /\ positions[k].quantity \in Int
        BY <1>2, <1>3, <1>4 DEF Positions
    <2>2. QED
        BY <2>1
<1>6. PICK v, w, u, s, r : /\ v = Worth(positions[k]) /\ w = Worth(positions'[k])
                           /\ u = mid_prices[k] /\ s = Signed(side, qty)
                           /\ r = realized' - realized
    OBVIOUS
<1>7. PICK q, a, b : /\ q = positions[k].quantity /\ a = positions[k].avg_entry_price
                     /\ b = positions'[k].avg_entry_price
    OBVIOUS
<1>8. /\ q \in Int /\ a \in Int /\ b \in Int /\ u \in Int /\ Scale \in Int
      /\ price \in Int /\ qty \in Nat
    <2>1. q \in Int /\ a \in Int /\ b \in Int
        BY <1>2, <1>4, <1>7 DEF Positions
    <2>2. u \in Int
        BY <1>6 DEF IInv, TypeOK
    <2>3. price \in Int /\ qty \in Nat /\ Scale \in Int
        BY <1>1
    <2>4. QED
        BY <2>1, <2>2, <2>3
<1>9. realized \in Int /\ realized' \in Int /\ cash \in Int /\ cash' \in Int
    BY DEF IInv, TypeOK
<1>10. qty \in Int
    BY <1>8
<1>11. s \in Int /\ r \in Int
    BY <1>1, <1>6, <1>9, <1>10, SignedType
<1>12. positions'[k].quantity = q + s
    <2>1. positions'[k] = PositionAfter(positions[k], side, qty, price)
        BY <1>1, <1>4, <1>5 DEF OnFill, IInv, TypeOK
    <2>2. positions[k] \in Positions
        BY <1>2, <1>4
    <2>3. QED
        BY <1>1, <1>6, <1>7, <2>1, <2>2, QuantityAfter
<1>13. v = q * a /\ w = (q + s) * b
    BY <1>6, <1>7, <1>12 DEF Worth
<1>14. Scale * price * s = Scale * u * s
    <2>1. cash' = cash - Scale * price * s
        BY <1>1, <1>6 DEF OnFill
    <2>2. cash' - cash = -(Scale * u * s)
        <3>1. positions'[k].quantity - positions[k].quantity = s
            BY <1>7, <1>8, <1>11, <1>12
        <3>2. QED
            BY <1>6, <3>1
    <2>3. Scale * price * s \in Int /\ Scale * u * s \in Int
        BY <1>8, <1>11
    <2>4. QED
        BY <1>9, <2>1, <2>2, <2>3
<1>15. w = v + Scale * u * s + r
    BY <1>1, <1>5, <1>6, <1>14, OnFillBalances
<1>16. mid_prices' = mid_prices
    BY <1>1 DEF OnFill
<1>17. PICK g, h : g = Gains(positions, mid_prices) /\ h = Gains(positions', mid_prices)
    OBVIOUS
<1>18. DOMAIN mid_prices \subseteq Keys /\ \A i \in DOMAIN mid_prices : mid_prices[i] \in Marks
    BY DEF IInv, TypeOK
<1>19. \A i \in Keys : g[i] \in Int /\ h[i] \in Int
    BY <1>2, <1>17, <1>18, GainsInt
<1>20. \A i \in Keys \ {k} : g[i] = h[i]
    BY <1>3, <1>5, <1>17 DEF Gains
<1>21. PICK x, y : x = SumFunctionOnSet(g, Keys) /\ y = SumFunctionOnSet(h, Keys)
    OBVIOUS
<1>22. x \in Int
    BY <1>19, <1>21, KeysFinite, SumInt
<1>23. y = x - g[k] + h[k]
    BY <1>4, <1>19, <1>20, <1>21, KeysFinite, SumChanged
<1>24. g[k] = q * (Scale * u - a) /\ h[k] = (q + s) * (Scale * u - b)
    BY <1>4, <1>6, <1>7, <1>12, <1>17 DEF Gains, Gain
<1>25. h[k] - g[k] = -r
    <2>1. q * (Scale * u - a) = Scale * u * q - v
        BY <1>8, <1>13
    <2>2. (q + s) * (Scale * u - b) = Scale * u * q + Scale * u * s - w
        BY <1>8, <1>11, <1>13
    <2>3. v \in Int /\ w \in Int /\ Scale * u * q \in Int /\ Scale * u * s \in Int
        BY <1>8, <1>11, <1>13
    <2>4. QED
        BY <1>11, <1>15, <1>24, <2>1, <2>2, <2>3
<1>26. UnrealizedPnl = x /\ UnrealizedPnl' = y
    BY <1>2, <1>16, <1>17, <1>18, <1>21, GainsAdded DEF UnrealizedPnl
<1>27. y = x - r
    BY <1>4, <1>11, <1>19, <1>22, <1>23, <1>25
<1>28. realized' + y = realized + x
    <2>1. PICK before, after : before = realized /\ after = realized'
        OBVIOUS
    <2>2. before \in Int /\ after \in Int /\ r = after - before
        BY <1>6, <1>9, <2>1
    <2>3. after + y = before + x
        BY <1>22, <1>27, <2>2
    <2>4. QED
        BY <2>1, <2>3
<1>29. QED
    BY <1>26, <1>28 DEF TotalPnl

LEMMA SettlementNeutral ==
    ASSUME IInv, IInv', NEW m \in Markets, NEW winner \in Outcomes, OnMarketResolved(m, winner),
           \A k \in KeysOf(m) : k \in DOMAIN mid_prices
                                  /\ mid_prices[k] = SettlementPrice(k[2], winner)
    PROVE  TotalPnl' = TotalPnl
<1>1. PICK y, n : y = <<m, "Yes">> /\ n = <<m, "No">>
    OBVIOUS
<1>2. y # n
    BY <1>1
<1>3. /\ y \in Keys /\ n \in Keys /\ KeysOf(m) = {y, n}
      /\ \A k \in Keys \ {y, n} : positions'[k] = positions[k]
    BY <1>1, SettledPositions
<1>4. positions \in [Keys -> Positions] /\ positions' \in [Keys -> Positions]
    BY DEF IInv, TypeOK, Positions
<1>5. /\ DOMAIN mid_prices \subseteq Keys /\ \A k \in DOMAIN mid_prices : mid_prices[k] \in Marks
      /\ DOMAIN mid_prices' \subseteq Keys
      /\ \A k \in DOMAIN mid_prices' : mid_prices'[k] \in Marks
    BY DEF IInv, TypeOK
<1>6. PICK g, h : g = Gains(positions, mid_prices) /\ h = Gains(positions', mid_prices')
    OBVIOUS
<1>7. \A k \in Keys : g[k] \in Int /\ h[k] \in Int
    BY <1>4, <1>5, <1>6, GainsInt
<1>8. mid_prices' = [k \in DOMAIN mid_prices \ {y, n} |-> mid_prices[k]]
    BY <1>3 DEF OnMarketResolved
<1>9. h[y] = 0 /\ h[n] = 0 /\ \A k \in Keys \ {y, n} : h[k] = g[k]
    BY <1>3, <1>6, <1>8 DEF Gains
<1>10. /\ g[y] = SettlementProfit(y, winner)
       /\ g[n] = SettlementProfit(n, winner)
    <2>1. /\ y \in DOMAIN mid_prices /\ mid_prices[y] = SettlementPrice(y[2], winner)
          /\ n \in DOMAIN mid_prices /\ mid_prices[n] = SettlementPrice(n[2], winner)
        BY <1>3
    <2>2. /\ g[y] = Gain(positions[y], mid_prices[y])
          /\ g[n] = Gain(positions[n], mid_prices[n])
        BY <1>3, <1>4, <1>5, <1>6, <2>1, GainsInt
    <2>3. QED
        BY <2>1, <2>2 DEF Gain, SettlementProfit
<1>11. PICK e : e = [k \in Keys |-> IF k = y THEN 0 ELSE g[k]]
    OBVIOUS
<1>12. /\ \A k \in Keys : e[k] \in Int
       /\ e[y] = 0 /\ e[n] = g[n]
       /\ \A k \in Keys \ {y} : g[k] = e[k]
       /\ \A k \in Keys \ {n} : e[k] = h[k]
    BY <1>2, <1>3, <1>7, <1>9, <1>11
<1>13. PICK a, b, c : /\ a = SumFunctionOnSet(g, Keys) /\ b = SumFunctionOnSet(e, Keys)
                      /\ c = SumFunctionOnSet(h, Keys)
    OBVIOUS
<1>14. a \in Int
    BY <1>7, <1>13, KeysFinite, SumInt
<1>15. b = a - g[y] + e[y]
    BY <1>3, <1>7, <1>12, <1>13, KeysFinite, SumChanged
<1>16. c = b - e[n] + h[n]
    BY <1>3, <1>7, <1>12, <1>13, KeysFinite, SumChanged
<1>17. c = a - g[y] - g[n]
    BY <1>3, <1>7, <1>9, <1>12, <1>14, <1>15, <1>16
<1>18. PICK before, after : before = realized /\ after = realized'
    OBVIOUS
<1>19. after = before + g[y] + g[n] /\ before \in Int
    BY <1>1, <1>10, <1>18 DEF OnMarketResolved, IInv, TypeOK
<1>20. after + c = before + a
    BY <1>3, <1>7, <1>14, <1>17, <1>19
<1>21. UnrealizedPnl = a /\ UnrealizedPnl' = c
    BY <1>4, <1>5, <1>6, <1>13, GainsAdded, SMTT(30) DEF UnrealizedPnl
<1>22. QED
    BY <1>18, <1>20, <1>21 DEF TotalPnl

-----------------------------------------------------------------------------
(* The returns.                                                            *)

Scaled(seq) == [i \in DOMAIN seq |-> Parts * seq[i]]
SquaresOf(seq, mean) == SumFunctionOnSet(Squares(Scaled(seq), DOMAIN seq, mean), DOMAIN seq)
SumOf(seq) == SumFunctionOnSet(seq, DOMAIN seq)

\* Before the first return the mean is the zero that it is to start from.
ReturnsInv ==
    /\ returns \in Seq(Int) /\ returns_count = Len(returns)
    /\ returns_mean \in Int /\ returns_m2 \in Int /\ prev_equity \in Int
    /\ returns = <<>> => returns_mean = 0 /\ returns_m2 = 0
    /\ returns # <<>> => returns[1] = 0
    /\ returns_count * returns_mean = Parts * SumOf(returns)
    /\ returns_m2 = SquaresOf(returns, returns_mean)

LEMMA ReturnsTyped ==
    ASSUME NEW seq \in Seq(Int)
    PROVE  /\ Len(seq) \in Nat /\ DOMAIN seq = 1 .. Len(seq) /\ IsFiniteSet(DOMAIN seq)
           /\ Cardinality(DOMAIN seq) = Len(seq)
           /\ \A i \in DOMAIN seq : seq[i] \in Int /\ Scaled(seq)[i] = Parts * seq[i]
                                    /\ Scaled(seq)[i] \in Int
           /\ SumOf(seq) \in Int
           /\ SumFunctionOnSet(Scaled(seq), DOMAIN seq) = Parts * SumOf(seq)
<1>1. Len(seq) \in Nat /\ DOMAIN seq = 1 .. Len(seq) /\ \A i \in DOMAIN seq : seq[i] \in Int
    OBVIOUS
<1>2. IsFiniteSet(1 .. Len(seq)) /\ Cardinality(1 .. Len(seq)) = Len(seq)
    <2>1. PICK l \in Nat : l = Len(seq)
        BY <1>1
    <2>2. IsFiniteSet(1 .. l) /\ Cardinality(1 .. l) = IF 1 > l THEN 0 ELSE l - 1 + 1
        BY FS_Interval
    <2>3. QED
        BY <2>1, <2>2
<1>3. \A i \in DOMAIN seq : Scaled(seq)[i] = Parts * seq[i] /\ Scaled(seq)[i] \in Int
    BY <1>1 DEF Scaled
<1>4. PICK S : S = DOMAIN seq
    OBVIOUS
<1>5. IsFiniteSet(S) /\ \A i \in S : seq[i] \in Int
    BY <1>1, <1>2, <1>4
<1>6. SumFunctionOnSet(seq, S) \in Int
    BY <1>5, SumInt
<1>7. PICK g : g = Scaled(seq)
    OBVIOUS
<1>8. \A i \in S : seq[i] \in Int /\ g[i] = Parts * seq[i]
    BY <1>3, <1>4, <1>5, <1>7
<1>9. Parts \in Int
    OBVIOUS
<1>10. SumFunctionOnSet(g, S) = Parts * SumFunctionOnSet(seq, S)
    BY <1>5, <1>8, <1>9, SumScaled
<1>11. QED
    BY <1>1, <1>2, <1>3, <1>4, <1>6, <1>7, <1>10 DEF SumOf

\* One more return.
LEMMA ReturnAppended ==
    ASSUME NEW seq \in Seq(Int), NEW r \in Int, NEW mean \in Int
    PROVE  LET more == Append(seq, r)
           IN  /\ more \in Seq(Int) /\ Len(more) = Len(seq) + 1
               /\ SumOf(more) = r + SumOf(seq)
               /\ SquaresOf(seq, mean) \in Int
               /\ SquaresOf(more, mean)
                     = (Parts * r - mean) * (Parts * r - mean) + SquaresOf(seq, mean)
<1>1. PICK more, n : more = Append(seq, r) /\ n = Len(seq)
    OBVIOUS
<1>2. n \in Nat /\ DOMAIN seq = 1 .. n
    BY <1>1
<1>3. /\ more \in Seq(Int) /\ Len(more) = n + 1 /\ DOMAIN more = 1 .. n + 1
      /\ more[n + 1] = r /\ \A i \in 1 .. n : more[i] = seq[i]
    BY <1>1
<1>4. PICK S, T, l : S = 1 .. n /\ T = 1 .. n + 1 /\ l = n + 1
    OBVIOUS
<1>5. l \in T /\ T \ {l} = S /\ S \subseteq T /\ DOMAIN seq = S /\ DOMAIN more = T
    BY <1>2, <1>3, <1>4
<1>6. IsFiniteSet(S) /\ IsFiniteSet(T)
    BY <1>3, <1>5, ReturnsTyped
<1>7. SumOf(more) = r + SumOf(seq)
    <2>1. \A i \in T : more[i] \in Int
        BY <1>3, <1>5, ReturnsTyped
    <2>2. SumFunctionOnSet(more, T) = more[l] + SumFunctionOnSet(more, S)
        BY <1>5, <1>6, <2>1, SumSplit
    <2>3. \A i \in S : more[i] = seq[i]
        BY <1>3, <1>4
    <2>4. SumFunctionOnSet(more, S) = SumFunctionOnSet(seq, S)
        BY <1>6, <2>3, SumSame
    <2>5. QED
        BY <1>3, <1>4, <1>5, <2>2, <2>4 DEF SumOf
<1>8. PICK g, h : /\ g = Squares(Scaled(seq), S, mean) /\ h = Squares(Scaled(more), T, mean)
    OBVIOUS
<1>9. /\ \A i \in S : g[i] \in Int
      /\ \A i \in T : h[i] = (Parts * more[i] - mean) * (Parts * more[i] - mean) /\ h[i] \in Int
      /\ \A i \in S : h[i] = g[i]
    <2>1. ASSUME NEW i \in S
          PROVE  g[i] = (Parts * seq[i] - mean) * (Parts * seq[i] - mean) /\ g[i] \in Int
        <3>1. PICK z : z = Parts * seq[i]
            OBVIOUS
        <3>2. seq[i] \in Int /\ Scaled(seq)[i] = z /\ z \in Int
            BY <1>5, <3>1, ReturnsTyped
        <3>3. g[i] = (z - mean) * (z - mean)
            BY <1>8, <3>2 DEF Squares
        <3>4. QED
            BY <3>1, <3>2, <3>3
    <2>2. ASSUME NEW i \in T
          PROVE  h[i] = (Parts * more[i] - mean) * (Parts * more[i] - mean) /\ h[i] \in Int
        <3>1. PICK z : z = Parts * more[i]
            OBVIOUS
        <3>2. more[i] \in Int /\ Scaled(more)[i] = z /\ z \in Int
            BY <1>3, <1>5, <3>1, ReturnsTyped
        <3>3. h[i] = (z - mean) * (z - mean)
            BY <1>8, <3>2 DEF Squares
        <3>4. QED
            BY <3>1, <3>2, <3>3
    <2>3. \A i \in S : i \in T /\ more[i] = seq[i]
        BY <1>3, <1>4, <1>5
    <2>4. QED
        BY <2>1, <2>2, <2>3
<1>10. SumFunctionOnSet(h, T) = h[l] + SumFunctionOnSet(h, S)
    BY <1>5, <1>6, <1>9, SumSplit
<1>11. SumFunctionOnSet(h, S) = SumFunctionOnSet(g, S) /\ SumFunctionOnSet(g, S) \in Int
    BY <1>6, <1>9, SumSame, SumInt
<1>12. /\ SquaresOf(seq, mean) = SumFunctionOnSet(g, S)
       /\ SquaresOf(more, mean) = SumFunctionOnSet(h, T)
    BY <1>5, <1>8 DEF SquaresOf
<1>13. h[l] = (Parts * r - mean) * (Parts * r - mean)
    BY <1>3, <1>4, <1>5, <1>9
<1>14. QED
    BY <1>1, <1>3, <1>7, <1>10, <1>11, <1>12, <1>13

\* What RecordEquitySnapshot does to mean and squares keeps them those of the returns.
LEMMA ReturnCounted ==
    ASSUME NEW seq \in Seq(Int), Len(seq) < MaxSnapshots, NEW mean \in Int, NEW r \in Int,
           Len(seq) * mean = Parts * SumOf(seq)
    PROVE  LET more == Append(seq, r)
               new == mean + (Parts * r - mean) \div (Len(seq) + 1)
           IN  /\ new \in Int
               /\ Len(more) * new = Parts * SumOf(more)
               /\ SquaresOf(more, new)
                     = SquaresOf(seq, mean) + SquaredDeviation(Parts * r, mean, new)
<1>1. PICK more : more = Append(seq, r)
    OBVIOUS
<1>2. PICK n, F : n = Len(seq) /\ F = SumOf(seq)
    OBVIOUS
<1>3. n \in Nat /\ F \in Int /\ n * mean = Parts * F
    BY <1>2, ReturnsTyped
\* The division leaves no rest.
<1>4. (Parts \div (n + 1)) * (n + 1) = Parts
    <2>1. n + 1 \in 1 .. MaxSnapshots
        BY <1>2, <1>3
    <2>2. QED
        BY <2>1
<1>5. PICK new : new = mean + (Parts * r - mean) \div (n + 1)
    OBVIOUS
<1>6. new \in Int /\ (n + 1) * new = Parts * (r + F) /\ (n + 1) * (new - mean) = Parts * r - mean
    <2>1. PICK P \in Int : P = Parts
        OBVIOUS
    <2>2. PICK d \in Nat \ {0} : d = n + 1
        BY <1>3
    <2>3. PICK h : h = P \div d
        OBVIOUS
    <2>4. h \in Int /\ h * d = P
        BY <1>4, <2>1, <2>2, <2>3
    <2>5. PICK x \in Int : x = h * (r + F) - mean
        BY <1>3, <2>4
    <2>6. d * x = P * r - mean
        <3>1. d * (h * (r + F)) = (h * d) * (r + F)
            BY <1>3, <2>4
        <3>2. (h * d) * (r + F) = P * r + P * F
            BY <1>3, <2>4
        <3>3. d * x = d * (h * (r + F)) - d * mean
            BY <1>3, <2>4, <2>5
        <3>4. d * mean = n * mean + mean
            BY <1>3, <2>2
        <3>5. PICK A \in Int, B \in Int : A = P * r /\ B = P * F
            BY <1>3
        <3>6. d * (h * (r + F)) = A + B /\ d * mean = B + mean
            BY <1>3, <2>1, <3>1, <3>2, <3>4, <3>5
        <3>7. d * x = A + B - (B + mean)
            BY <3>3, <3>6
        <3>8. QED
            BY <3>5, <3>7
    <2>7. (P * r - mean) \div d = x
        BY <2>6, QuotientOfProduct
    <2>8. new = mean + x
        BY <1>5, <2>1, <2>2, <2>7
    <2>9. d * (new - mean) = P * r - mean
        BY <2>6, <2>8
    <2>10. d * new = P * (r + F)
        <3>1. PICK w \in Int : w = h * (r + F)
            BY <1>3, <2>4
        <3>2. new = w
            BY <2>5, <2>8, <3>1
        <3>3. d * w = (h * d) * (r + F)
            BY <1>3, <2>4, <3>1
        <3>4. QED
            BY <2>4, <3>2, <3>3
    <2>11. QED
        BY <2>1, <2>2, <2>8, <2>9, <2>10
<1>7. /\ Len(more) = n + 1 /\ SumOf(more) = r + F
      /\ SquaresOf(more, new)
            = (Parts * r - new) * (Parts * r - new) + SquaresOf(seq, new)
    BY <1>1, <1>2, <1>6, ReturnAppended
<1>8. /\ SquaresOf(seq, mean) \in Int
      /\ SquaresOf(seq, new) = SquaresOf(seq, mean) + n * ((mean - new) * (mean - new))
    <2>1. PICK S, f, V : S = DOMAIN seq /\ f = Scaled(seq) /\ V = SumFunctionOnSet(f, S)
        OBVIOUS
    <2>2. /\ IsFiniteSet(S) /\ Cardinality(S) = n /\ \A i \in S : f[i] \in Int
          /\ V = Parts * F
        BY <1>2, <2>1, ReturnsTyped
    <2>3. /\ SumFunctionOnSet(Squares(f, S, mean), S) \in Int
          /\ SumFunctionOnSet(Squares(f, S, new), S)
                = SumFunctionOnSet(Squares(f, S, mean), S)
                  + 2 * (mean - new) * (V - n * mean) + n * ((mean - new) * (mean - new))
        <3>1. IsFiniteSet(S) /\ Cardinality(S) = n /\ \A i \in S : f[i] \in Int
            BY <2>2
        <3>2. SumFunctionOnSet(f, S) = V /\ new \in Int
            BY <1>6, <2>1
        <3>3. QED
            BY <3>1, <3>2, SquaresShifted, ZenonT(60)
    <2>4. V - n * mean = 0
        BY <1>3, <2>2
    <2>5. 2 * (mean - new) * (V - n * mean) = 0
        BY <1>6, <2>4
    <2>6. PICK Q, R : /\ Q = SumFunctionOnSet(Squares(f, S, mean), S)
                      /\ R = n * ((mean - new) * (mean - new))
        OBVIOUS
    <2>7. Q \in Int /\ R \in Int
        BY <1>3, <1>6, <2>3, <2>6
    <2>8. SumFunctionOnSet(Squares(f, S, new), S) = Q + R
        BY <2>3, <2>5, <2>6, <2>7
    <2>9. QED
        BY <2>1, <2>6, <2>7, <2>8 DEF SquaresOf
<1>9. PICK z \in Int : z = Parts * r
    OBVIOUS
<1>10. n * ((mean - new) * (mean - new)) + (z - new) * (z - new) = (z - mean) * (z - new)
    BY <1>3, <1>6, <1>9, SquareUpdated
<1>11. SquaresOf(more, new) = SquaresOf(seq, mean) + (z - mean) * (z - new)
    <2>1. PICK A, B, C : /\ A = n * ((mean - new) * (mean - new))
                         /\ B = (z - new) * (z - new) /\ C = SquaresOf(seq, mean)
        OBVIOUS
    <2>2. A \in Int /\ B \in Int /\ C \in Int
        BY <1>3, <1>6, <1>8, <1>9, <2>1
    <2>3. SquaresOf(more, new) = B + (C + A)
        BY <1>7, <1>8, <1>9, <2>1
    <2>4. A + B = (z - mean) * (z - new)
        BY <1>10, <2>1
    <2>5. QED
        BY <2>1, <2>2, <2>3, <2>4
<1>12. QED
    BY <1>1, <1>2, <1>5, <1>6, <1>7, <1>9, <1>11 DEF SquaredDeviation

\* Unrealized profit is a number: a sum over finitely many positions.
LEMMA TotalPnlInt == IInv => TotalPnl \in Int
<1> SUFFICES ASSUME IInv PROVE TotalPnl \in Int
    OBVIOUS
<1>1. /\ positions \in [Keys -> Positions] /\ DOMAIN mid_prices \subseteq Keys
      /\ \A j \in DOMAIN mid_prices : mid_prices[j] \in Marks
      /\ realized \in Int
    BY DEF IInv, TypeOK, Positions
<1>2. PICK g : g = Gains(positions, mid_prices)
    OBVIOUS
<1>3. \A k \in Keys : g[k] \in Int
    BY <1>1, <1>2, GainsInt
<1>4. SumFunctionOnSet(g, Keys) \in Int
    BY <1>3, KeysFinite, SumInt
<1>5. UnrealizedPnl = SumFunctionOnSet(g, Keys)
    BY <1>1, <1>2, GainsAdded DEF UnrealizedPnl
<1>6. QED
    BY <1>1, <1>4, <1>5 DEF TotalPnl

LEMMA NoReturns == SumOf(<<>>) = 0 /\ SquaresOf(<<>>, 0) = 0
<1>1. PICK S : S = DOMAIN <<>>
    OBVIOUS
<1>2. S = {}
    BY <1>1
<1>3. IsFiniteSet(S)
    BY <1>2, FS_EmptySet
<1>4. \A g : SumFunctionOnSet(g, S) = 0
    BY <1>2, <1>3, SumSteps
<1>5. QED
    BY <1>1, <1>4 DEF SumOf, SquaresOf

LEMMA InitReturnsInv == Init => ReturnsInv
<1> SUFFICES ASSUME Init PROVE ReturnsInv
    OBVIOUS
<1>1. /\ returns = <<>> /\ returns_count = 0 /\ returns_mean = 0 /\ returns_m2 = 0
      /\ prev_equity = 0
    BY DEF Init
<1>2. returns \in Seq(Int) /\ Len(returns) = 0
    BY <1>1
<1>3. returns_count * returns_mean = Parts * SumOf(returns)
      /\ returns_m2 = SquaresOf(returns, returns_mean)
    <2>1. SumOf(returns) = 0 /\ SquaresOf(returns, returns_mean) = 0
        BY <1>1, NoReturns
    <2>2. QED
        BY <1>1, <2>1
<1>4. QED
    BY <1>1, <1>2, <1>3 DEF ReturnsInv

LEMMA SnapshotReturnsInv == IInv /\ ReturnsInv /\ RecordEquitySnapshot => ReturnsInv'
<1> SUFFICES ASSUME IInv, ReturnsInv, RecordEquitySnapshot PROVE ReturnsInv'
    OBVIOUS
<1>1. PICK seq, n, mean, m2 : /\ seq = returns /\ n = returns_count
                              /\ mean = returns_mean /\ m2 = returns_m2
    OBVIOUS
<1>2. /\ seq \in Seq(Int) /\ n = Len(seq) /\ n \in Nat /\ mean \in Int /\ m2 \in Int
      /\ (seq = <<>> => mean = 0 /\ m2 = 0) /\ (seq # <<>> => seq[1] = 0)
      /\ n * mean = Parts * SumOf(seq) /\ m2 = SquaresOf(seq, mean)
    BY <1>1 DEF ReturnsInv
<1>3. TotalPnl \in Int /\ prev_equity \in Int
    BY TotalPnlInt DEF ReturnsInv
<1>4. n < MaxSnapshots /\ returns_count' = n + 1 /\ prev_equity' = TotalPnl
    BY <1>1 DEF RecordEquitySnapshot
\* A first return of zero changes neither the mean nor the squares.
<1>5. PICK r \in Int : /\ returns' = Append(seq, r)
                       /\ returns_mean' = mean + (Parts * r - mean) \div (n + 1)
                       /\ returns_m2' = m2 + SquaredDeviation(Parts * r, mean, returns_mean')
                       /\ n = 0 => r = 0
    <2>1. CASE n = 0
        <3>1. seq = <<>>
            BY <1>2, <2>1, EmptySeq
        <3>2. mean = 0 /\ m2 = 0
            BY <1>2, <3>1
        <3>3. returns' = Append(seq, 0) /\ returns_mean' = 0 /\ returns_m2' = 0
            BY <1>1, <2>1, <3>1, <3>2 DEF RecordEquitySnapshot
        <3>4. /\ mean + (Parts * 0 - mean) \div (n + 1) = 0
              /\ SquaredDeviation(Parts * 0, mean, 0) = 0
            BY <2>1, <3>2 DEF SquaredDeviation
        <3>5. QED
            BY <3>2, <3>3, <3>4
    <2>2. CASE n # 0
        <3>1. TotalPnl - prev_equity \in Int
            BY <1>3
        <3>2. PICK r \in Int : r = TotalPnl - prev_equity
            BY <3>1
        <3>3. /\ returns' = Append(seq, r)
              /\ returns_mean' = mean + (Parts * r - mean) \div (n + 1)
              /\ returns_m2' = m2 + SquaredDeviation(Parts * r, mean, returns_mean')
            BY <1>1, <2>2, <3>2 DEF RecordEquitySnapshot
        <3>4. QED
            BY <2>2, <3>3
    <2>3. QED
        BY <2>1, <2>2
<1>6. PICK more, new, q : more = returns' /\ new = returns_mean' /\ q = returns_m2'
    OBVIOUS
<1>7. /\ more = Append(seq, r) /\ new = mean + (Parts * r - mean) \div (n + 1)
      /\ q = m2 + SquaredDeviation(Parts * r, mean, new)
    BY <1>5, <1>6
<1>8. more \in Seq(Int) /\ Len(more) = n + 1 /\ more # <<>> /\ more[1] = 0
    <2>1. more \in Seq(Int) /\ Len(more) = n + 1
        BY <1>2, <1>7
    <2>2. n # 0 => more[1] = seq[1] /\ seq # <<>>
        <3>1. n # 0 => 1 \in 1 .. Len(seq)
            BY <1>2
        <3>2. n # 0 => Append(seq, r)[1] = seq[1]
            BY <1>2, <3>1
        <3>3. Len(<<>>) = 0
            OBVIOUS
        <3>4. QED
            BY <1>2, <1>7, <3>2, <3>3
    <2>3. n = 0 => more[1] = r
        <3>1. Append(seq, r)[Len(seq) + 1] = r
            BY <1>2
        <3>2. n = 0 => Len(seq) + 1 = 1
            BY <1>2
        <3>3. QED
            BY <1>7, <3>1, <3>2
    <2>4. QED
        BY <1>2, <1>5, <2>1, <2>2, <2>3
<1>9. new \in Int /\ Len(more) * new = Parts * SumOf(more) /\ SquaresOf(more, new) = q
    BY <1>2, <1>4, <1>7, ReturnCounted
<1>10. q \in Int
    BY <1>2, <1>7, <1>9 DEF SquaredDeviation
<1>11. QED
    BY <1>3, <1>4, <1>6, <1>8, <1>9, <1>10 DEF ReturnsInv

LEMMA NextReturnsInv == IInv /\ ReturnsInv /\ [Next]_vars => ReturnsInv'
<1> SUFFICES ASSUME IInv, ReturnsInv, [Next]_vars PROVE ReturnsInv'
    OBVIOUS
<1>1. CASE RecordEquitySnapshot
    BY <1>1, SnapshotReturnsInv
<1>2. CASE UNCHANGED equityVars
    BY <1>2 DEF ReturnsInv, equityVars
<1>3. RecordEquitySnapshot \/ UNCHANGED equityVars
    BY DEF Next, vars, ReportFill, OnFill, UpdateMarkToMarket, OnMarketResolved
<1>4. QED
    BY <1>1, <1>2, <1>3

\* Squares are no less than zero, so they add up to zero only where every return
\* is at the mean, which the first one, a zero, then is as well.
LEMMA ReturnsTwoPass == ReturnsInv => WelfordIsTwoPass
<1> SUFFICES ASSUME ReturnsInv PROVE WelfordIsTwoPass
    OBVIOUS
<1>1. PICK S, f : S = DOMAIN returns /\ f = Scaled(returns)
    OBVIOUS
<1>2. /\ returns \in Seq(Int) /\ returns_count = Len(returns) /\ returns_mean \in Int
      /\ (returns # <<>> => returns[1] = 0) /\ (returns = <<>> => returns_m2 = 0)
      /\ returns_count * returns_mean = Parts * SumOf(returns)
      /\ returns_m2 = SquaresOf(returns, returns_mean)
    BY DEF ReturnsInv
<1>3. /\ Len(returns) \in Nat /\ S = 1 .. Len(returns) /\ IsFiniteSet(S)
      /\ \A i \in S : returns[i] \in Int /\ f[i] = Parts * returns[i] /\ f[i] \in Int
    BY <1>1, <1>2, ReturnsTyped
<1>4. PICK h : h = Squares(f, S, returns_mean)
    OBVIOUS
<1>5. h = [i \in S |-> (Parts * returns[i] - returns_mean) * (Parts * returns[i] - returns_mean)]
    BY <1>3, <1>4 DEF Squares
<1>6. SumFunction(h) = returns_m2
    <2>1. DOMAIN h = S
        BY <1>5
    <2>2. SumFunction(h) = SumFunctionOnSet(h, S)
        BY <2>1 DEF SumFunction
    <2>3. QED
        BY <1>1, <1>2, <1>4, <2>2 DEF SquaresOf
<1>7. SumFunction(returns) = SumOf(returns)
    BY DEF SumFunction, SumOf
<1>8. \A i \in S : /\ h[i] \in Nat
                   /\ h[i] = 0 <=> Parts * returns[i] = returns_mean
    <2>1. ASSUME NEW i \in S
          PROVE  h[i] \in Nat /\ (h[i] = 0 <=> Parts * returns[i] = returns_mean)
        <3>1. PICK d \in Int : d = Parts * returns[i] - returns_mean
            BY <1>2, <1>3
        <3>2. h[i] = d * d
            BY <1>5, <3>1
        <3>3. d * d \in Nat /\ (d * d = 0 <=> d = 0)
            OBVIOUS
        <3>4. d = 0 <=> Parts * returns[i] = returns_mean
            BY <1>2, <1>3, <3>1
        <3>5. QED
            BY <3>2, <3>3, <3>4
    <2>2. QED
        BY <2>1
<1>9. returns_m2 = 0 <=> \A i \in S : Parts * returns[i] = returns_mean
    <2>1. SumFunctionOnSet(h, S) = 0 <=> \A i \in S : h[i] = 0
        BY <1>3, <1>8, SumOfNaturals
    <2>2. returns_m2 = SumFunctionOnSet(h, S)
        BY <1>1, <1>2, <1>4 DEF SquaresOf
    <2>3. QED
        BY <1>8, <2>1, <2>2
<1>10. HasSharpeRatio <=> \E i \in S : returns[i] # 0
    <2>1. ASSUME returns_m2 = 0, NEW i \in S
          PROVE  returns[i] = 0
        <3>1. 1 \in S /\ returns[1] = 0
            BY <1>2, <1>3
        <3>2. returns_mean = 0
            BY <1>9, <2>1, <3>1
        <3>3. Parts * returns[i] = 0 /\ returns[i] \in Int
            BY <1>3, <1>9, <2>1, <3>2
        <3>4. QED
            BY <3>3
    <2>2. ASSUME \A i \in S : returns[i] = 0
          PROVE  returns_m2 = 0
        <3>1. CASE returns = <<>>
            BY <1>2, <3>1
        <3>2. CASE returns # <<>>
            <4>1. SumOf(returns) = 0
                <5>1. \A i \in S : returns[i] \in Nat
                    BY <2>2
                <5>2. SumFunctionOnSet(returns, S) = 0
                    BY <1>3, <2>2, <5>1, SumOfNaturals
                <5>3. QED
                    BY <1>1, <5>2 DEF SumOf
            <4>2. returns_count * returns_mean = 0 /\ returns_count # 0 /\ returns_count \in Int
                <5>1. Parts * SumOf(returns) = 0
                    BY <4>1
                <5>2. returns_count # 0
                    BY <1>2, <3>2
                <5>3. QED
                    BY <1>2, <1>3, <5>1, <5>2
            <4>3. returns_mean = 0
                BY <1>2, <4>2
            <4>4. \A i \in S : Parts * returns[i] = returns_mean
                BY <2>2, <4>3
            <4>5. QED
                BY <1>9, <4>4
        <3>3. QED
            BY <3>1, <3>2
    <2>3. ASSUME returns_count < 2, NEW i \in S
          PROVE  returns[i] = 0
        <3>1. i = 1 /\ returns # <<>>
            BY <1>2, <1>3, <2>3
        <3>2. QED
            BY <1>2, <3>1
    <2>4. returns_count \in Nat
        BY <1>2, <1>3
    <2>5. QED
        BY <2>1, <2>2, <2>3, <2>4 DEF HasSharpeRatio
<1>11. QED
    BY <1>1, <1>2, <1>5, <1>6, <1>7, <1>10 DEF WelfordIsTwoPass

LEMMA ReturnsAlways == Spec => [](IInv /\ ReturnsInv)
<1>1. Init => IInv /\ ReturnsInv
    BY InitIInv, InitReturnsInv
<1>2. IInv /\ ReturnsInv /\ [Next]_vars => (IInv /\ ReturnsInv)'
    BY NextIInv, NextReturnsInv
<1>3. QED
    BY <1>1, <1>2, PTL DEF Spec

-----------------------------------------------------------------------------
(* The theorems.                                                           *)

\* Positions, marks and profits keep their types.
THEOREM TypeCorrect == Spec => []TypeOK
<1>1. IInv => TypeOK
    BY DEF IInv
<1>2. QED
    BY <1>1, PortfolioInvariant, PTL

\* Whatever fills and settlements came before, a flat position is a clear one.
THEOREM FlatIsClear == Spec => []FlatCarriesNothing
<1>1. IInv => FlatCarriesNothing
    BY DEF IInv
<1>2. QED
    BY <1>1, PortfolioInvariant, PTL

LEMMA CashAlways == Spec => []CashInv
BY InitCashInv, NextCashInv, PTL DEF Spec

\* A fill of a position that was never extended after a partial close, and every
\* settlement, books what comes in less what the closed shares cost: the profit
\* is the cash, the open positions counted at their averages.
THEOREM ProfitMatchesCash == Spec => []ProfitIsCash
<1>1. CashInv => ProfitIsCash
    BY DEF CashInv
<1>2. QED
    BY <1>1, CashAlways, PTL

\* A fill at the mark moves profit between realized and unrealized and earns
\* nothing, whether it opens, adds to, closes or flips the position.
THEOREM FillsAtMarkEarnNothing == Spec => FillAtMarkIsNeutral
<1>1. ASSUME CashInv, CashInv', [Next]_vars
      PROVE  [\A k \in DOMAIN mid_prices \ reopened' :
                 LET bought == positions'[k].quantity - positions[k].quantity
                 IN  /\ fillCount' # fillCount
                     /\ bought # 0
                     /\ cash' - cash = -(Scale * mid_prices[k] * bought)
                     => TotalPnl' = TotalPnl]_vars
    <2>1. CASE UNCHANGED vars
        BY <2>1
    <2>2. CASE fillCount' = fillCount
        BY <2>2
    <2>3. CASE ReportFill
        BY <1>1, <2>3, FillNeutral DEF CashInv
    <2>4. \/ ReportFill \/ fillCount' = fillCount \/ UNCHANGED vars
        BY <1>1 DEF Next, UpdateMarkToMarket, RecordEquitySnapshot, OnMarketResolved, historyVars
    <2>5. QED
        BY <2>1, <2>2, <2>3, <2>4
<1>2. QED
    BY <1>1, CashAlways, PTL DEF Spec, FillAtMarkIsNeutral

\* A settlement at the marks makes unrealized profit final and earns nothing.
THEOREM SettlementsAtMarkEarnNothing == Spec => SettlementAtMarkIsNeutral
<1>1. ASSUME CashInv, CashInv', [Next]_vars
      PROVE  [\A m \in Markets, winner \in Outcomes :
                 (\A k \in KeysOf(m) : k \in DOMAIN mid_prices
                                         /\ mid_prices[k] = SettlementPrice(k[2], winner))
                 => (OnMarketResolved(m, winner) => TotalPnl' = TotalPnl)]_vars
    BY <1>1, SettlementNeutral DEF CashInv
<1>2. QED
    BY <1>1, CashAlways, PTL DEF Spec, SettlementAtMarkIsNeutral

\* However many snapshots are recorded, the mean and the squared deviations that
\* RecordEquitySnapshot updates in place are those of all the returns computed at
\* once, and the Sharpe ratio is defined once some return was not zero.
THEOREM WelfordIsExact == Spec => []WelfordIsTwoPass
<1>1. IInv /\ ReturnsInv => WelfordIsTwoPass
    BY ReturnsTwoPass
<1>2. QED
    BY <1>1, ReturnsAlways, PTL
=============================================================================
