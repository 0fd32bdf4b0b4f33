----------------------------- MODULE SetLemmas -----------------------------
(***************************************************************************)
(* Facts about finite sets and sequences that proofs need: least and       *)
(* greatest elements, numbers of elements, remainders, sums, folds, and    *)
(* sequences of sequences.                                                 *)
(*                                                                         *)
(* Facts about all finite sets, which need induction, are proved by way of *)
(* a smallest counterexample (SmallestSet).  A sum, which is recursive, is *)
(* shown to be a number of elements (SumIsUnits), so that the facts about  *)
(* finite sets apply to it.  A fold over a sequence is taken apart into    *)
(* its steps (FoldSteps), a flattened sequence into those it joins         *)
(* (FlattenIsJoin).                                                        *)
(***************************************************************************)
EXTENDS Integers, FiniteSets, FiniteSetsExt, FiniteSetTheorems, SequencesExt, SequenceTheorems,
        WellFoundedInduction, TLAPS

-----------------------------------------------------------------------------
\* A non-empty set of naturals has a least element.
LEMMA NatMinimum ==
    ASSUME NEW T \in SUBSET Nat, T # {}
    PROVE  \E x \in T : \A y \in T : x <= y
<1>1. \E x \in T : \A y \in T : ~ (<<y, x>> \in OpToRel(<, Nat))
  BY NatLessThanWellFounded, WFMin, Zenon
<1>2. \A x, y \in T : y < x => <<y, x>> \in OpToRel(<, Nat)
  BY DEF OpToRel
<1>3. PICK x \in T : \A y \in T : ~ (<<y, x>> \in OpToRel(<, Nat))
  BY <1>1, Zenon
<1>4. \A y \in T : ~ (y < x)
  BY <1>2, <1>3, Zenon
<1>. QED
  BY <1>4

\* Max is the greatest element of a non-empty set of numbers up to N.
LEMMA MaxOfBounded ==
    ASSUME NEW N \in Nat, NEW S \in SUBSET (1 .. N), S # {}
    PROVE  Max(S) \in S /\ \A x \in S : x <= Max(S)
<1>. DEFINE T == {N - x : x \in S}
<1>1. \A x \in S : N - x \in Nat
  OBVIOUS
<1>2. PICK y \in T : \A z \in T : y <= z
  <2>1. T \subseteq Nat /\ T # {}
    BY <1>1
  <2>. HIDE DEF T
  <2>. QED  BY <2>1, NatMinimum
<1>3. PICK m \in S : y = N - m
  BY <1>2
<1>4. \A x \in S : x <= m
  BY <1>2, <1>3
<1>. QED
  BY <1>4 DEF Max

\* Min is the least element of a non-empty set of numbers up to N.
LEMMA MinOfBounded ==
    ASSUME NEW N \in Nat, NEW S \in SUBSET (1 .. N), S # {}
    PROVE  Min(S) \in S /\ \A x \in S : Min(S) <= x
<1>1. S \in SUBSET Nat
  OBVIOUS
<1>2. \E x \in S : \A y \in S : x <= y
  BY <1>1, NatMinimum
<1>. QED
  BY <1>2 DEF Min

\* Cardinality of a union of disjoint finite sets.
LEMMA DisjointUnion ==
    ASSUME NEW S, NEW T, IsFiniteSet(S), IsFiniteSet(T), S \cap T = {}
    PROVE  /\ IsFiniteSet(S \cup T)
           /\ Cardinality(S \cup T) = Cardinality(S) + Cardinality(T)
           /\ Cardinality(S) \in Nat /\ Cardinality(T) \in Nat
<1>1. Cardinality(S) \in Nat /\ Cardinality(T) \in Nat
  BY FS_CardinalityType
<1>2. Cardinality(S \cap T) = 0
  BY FS_EmptySet
<1>3. /\ IsFiniteSet(S \cup T)
      /\ Cardinality(S \cup T) = Cardinality(S) + Cardinality(T) - Cardinality(S \cap T)
  BY FS_Union, Zenon
<1>. QED
  BY <1>1, <1>2, <1>3

\* The numbers from 1 to n are n numbers.
LEMMA CountOfInterval ==
    ASSUME NEW n \in Nat
    PROVE  IsFiniteSet(1 .. n) /\ Cardinality(1 .. n) = n
<1>1. /\ IsFiniteSet(1 .. n)
      /\ Cardinality(1 .. n) = IF 1 > n THEN 0 ELSE n - 1 + 1
  BY FS_Interval
<1>2. PICK c : c = Cardinality(1 .. n)
  OBVIOUS
<1>3. c = n
  BY <1>1, <1>2
<1>. QED
  BY <1>1, <1>2, <1>3

\* A set of subsets of a finite set has a smallest one, which is how facts about
\* all finite sets are proved here.
LEMMA SmallestSet ==
    ASSUME NEW S, IsFiniteSet(S), NEW C \in SUBSET (SUBSET S), C # {}
    PROVE  \E T \in C : \A U \in C : ~(U \subseteq T /\ U # T)
<1>1. C \subseteq FiniteSubsetsOf(S)
  BY FS_FiniteSubsetsOfFinite
<1>2. PICK T \in C : \A U \in C : ~(<<U, T>> \in StrictSubsetOrdering(S))
  BY <1>1, FS_StrictSubsetOrderingWellFounded, WFMin
<1>3. ASSUME NEW U \in C, U \subseteq T, U # T
      PROVE  FALSE
  <2>1. <<U, T>> \in (SUBSET S) \X (SUBSET S)
    OBVIOUS
  <2>2. <<U, T>> \in StrictSubsetOrdering(S)
    BY <1>3, <2>1 DEF StrictSubsetOrdering
  <2>. QED  BY <1>2, <2>2
<1>. QED
  BY <1>3

-----------------------------------------------------------------------------
(***************************************************************************)
(* Remainders                                                              *)
(***************************************************************************)
LEMMA DivMod ==
    ASSUME NEW W \in Nat \ {0}, NEW a \in Nat
    PROVE  a % W \in 0 .. W - 1 /\ a \div W \in Nat /\ a = W * (a \div W) + (a % W)
<1>1. a % W \in 0 .. W - 1
  OBVIOUS
<1>2. a \div W \in Nat
  OBVIOUS
<1>3. a = W * (a \div W) + (a % W)
  OBVIOUS
<1>. QED
  BY <1>1, <1>2, <1>3

LEMMA Distribute ==
    ASSUME NEW a \in Nat, NEW b \in Nat, NEW c \in Nat
    PROVE  a * (b + c) = a * b + a * c /\ a * b \in Nat /\ a * c \in Nat
  OBVIOUS

LEMMA TimesAtLeast ==
    ASSUME NEW a \in Nat, NEW b \in Nat \ {0}
    PROVE  a * b >= a /\ a * b \in Nat
  OBVIOUS

\* A number has one quotient.
LEMMA QuotientUnique ==
    ASSUME NEW W \in Nat \ {0}, NEW p \in Nat, NEW q \in Nat, p > q,
           NEW r \in 0 .. W - 1, NEW s \in 0 .. W - 1
    PROVE  W * p + s # W * q + r
<1>1. PICK d \in Nat \ {0} : p = q + d
  <2>1. p - q \in Nat \ {0} /\ p = q + (p - q)
    OBVIOUS
  <2>. QED  BY <2>1
<1>2. PICK x, z \in Nat : x = W * q /\ z = W * d /\ z >= W
  <2>1. W * q \in Nat
    OBVIOUS
  <2>. QED  BY <2>1, TimesAtLeast
<1>3. W * p = x + z
  BY <1>1, <1>2, Distribute
<1>. QED
  BY <1>2, <1>3

LEMMA ModUnique ==
    ASSUME NEW W \in Nat \ {0}, NEW q \in Nat, NEW r \in 0 .. W - 1
    PROVE  (W * q + r) % W = r
<1>1. PICK a, x \in Nat : x = W * q /\ a = x + r
  <2>1. W * q \in Nat
    OBVIOUS
  <2>. QED  BY <2>1
<1>2. PICK p, y \in Nat, s \in 0 .. W - 1 : y = W * p /\ a = y + s /\ s = a % W
  <2>1. PICK p \in Nat, s \in 0 .. W - 1 : a = W * p + s /\ s = a % W
    BY DivMod
  <2>2. W * p \in Nat
    OBVIOUS
  <2>. QED  BY <2>1, <2>2
<1>3. p = q
  <2>1. W * p + s = W * q + r
    BY <1>1, <1>2
  <2>2. ~(p > q) /\ ~(q > p)
    BY <2>1, QuotientUnique
  <2>. QED  BY <2>2
<1>4. y = x /\ s = r
  BY <1>1, <1>2, <1>3
<1>. QED
  BY <1>1, <1>2, <1>4

\* A remainder on the way does not change the remainder of a sum.
LEMMA ModAdd ==
    ASSUME NEW W \in Nat \ {0}, NEW a \in Nat, NEW b \in Nat
    PROVE  ((a % W) + b) % W = (a + b) % W
<1>1. PICK q \in Nat, r \in 0 .. W - 1 : a = W * q + r /\ r = a % W
  BY DivMod
<1>2. PICK p \in Nat, s \in 0 .. W - 1 : r + b = W * p + s /\ s = (r + b) % W
  <2>1. PICK c \in Nat : c = r + b
    OBVIOUS
  <2>. QED  BY <2>1, DivMod
<1>3. PICK k \in Nat : a + b = W * k + s
  <2>1. W * (q + p) = W * q + W * p /\ W * q \in Nat /\ W * p \in Nat
    BY Distribute
  <2>2. PICK x, y \in Nat : x = W * q /\ y = W * p
    BY <2>1
  <2>3. a = x + r /\ r + b = y + s /\ r \in Nat /\ s \in Nat
    BY <1>1, <1>2, <2>2
  <2>4. a + b = (x + y) + s
    BY <2>3
  <2>5. PICK k \in Nat : k = q + p
    OBVIOUS
  <2>. QED  BY <2>1, <2>2, <2>4, <2>5
<1>4. (a + b) % W = s
  BY <1>3, ModUnique
<1>. QED
  BY <1>1, <1>2, <1>4

-----------------------------------------------------------------------------
(***************************************************************************)
(* Sums                                                                    *)
(***************************************************************************)

\* A sum is the number of its units: f[x] of them for each x.
Units(f, S) == {u \in S \X Nat : 1 <= u[2] /\ u[2] <= f[u[1]]}

\* One more summand.
LEMMA UnitsOfOneMore ==
    ASSUME NEW f, NEW S, NEW x \in S, f[x] \in Nat, IsFiniteSet(Units(f, S \ {x}))
    PROVE  /\ IsFiniteSet(Units(f, S))
           /\ Cardinality(Units(f, S)) = f[x] + Cardinality(Units(f, S \ {x}))
<1>. DEFINE A == {x} \X (1 .. f[x])
            B == Units(f, S \ {x})
<1>1. Units(f, S) = A \cup B /\ A \cap B = {}
  BY DEF Units
<1>2. PICK n \in Nat : n = f[x]
  OBVIOUS
<1>3. IsFiniteSet(1 .. n) /\ Cardinality(1 .. n) = n
  BY CountOfInterval
<1>4. IsFiniteSet(A) /\ Cardinality(A) = n
  <2>1. IsFiniteSet({x}) /\ Cardinality({x}) = 1
    BY FS_Singleton
  <2>2. A = {x} \X (1 .. n)
    BY <1>2
  <2>. HIDE DEF A
  <2>3. IsFiniteSet(A) /\ Cardinality(A) = Cardinality({x}) * Cardinality(1 .. n)
    BY <1>3, <2>1, <2>2, FS_Product, Zenon
  <2>. QED  BY <1>3, <2>1, <2>3
<1>5. Cardinality(A) = f[x]
  BY <1>2, <1>4
<1>. HIDE DEF A, B
<1>6. IsFiniteSet(A \cup B) /\ Cardinality(A \cup B) = Cardinality(A) + Cardinality(B)
  <2>1. IsFiniteSet(B) BY DEF B
  <2>. QED BY <1>1, <1>4, <2>1, DisjointUnion
<1>. QED
  BY <1>1, <1>5, <1>6 DEF B

\* Sets of units are finite, by a smallest set whose units are not.
LEMMA UnitsAreFinite ==
    ASSUME NEW S, IsFiniteSet(S), NEW f, \A x \in S : f[x] \in Nat
    PROVE  \A T \in SUBSET S : IsFiniteSet(Units(f, T))
<1>. DEFINE C == {T \in SUBSET S : ~IsFiniteSet(Units(f, T))}
<1>. SUFFICES ASSUME C # {} PROVE FALSE
  OBVIOUS
<1>1. PICK T \in C : \A U \in C : ~(U \subseteq T /\ U # T)
  <2>1. C \in SUBSET (SUBSET S)
    OBVIOUS
  <2>. HIDE DEF C
  <2>. QED  BY <2>1, SmallestSet
<1>2. CASE T = {}
  <2>1. Units(f, T) = {}
    BY <1>2 DEF Units
  <2>. QED  BY <2>1, FS_EmptySet
<1>3. ASSUME NEW x \in T
      PROVE  FALSE
  <2>1. T \ {x} \notin C /\ T \in SUBSET S
    BY <1>1
  <2>2. IsFiniteSet(Units(f, T \ {x}))
    BY <2>1
  <2>3. IsFiniteSet(Units(f, T))
    BY <2>1, <2>2, UnitsOfOneMore
  <2>. QED  BY <2>3
<1>. QED
  BY <1>2, <1>3

\* The equation of a recursion over the subsets of S that adds up f, from the
\* element that pick takes.
SumsUp(f, S, pick, g) ==
    \A s \in SUBSET S :
        /\ s = {} => g[s] = 0
        /\ s # {} /\ g[s \ {pick[s]}] \in Nat => g[s] = f[pick[s]] + g[s \ {pick[s]}]

\* A recursive sum and the number of units satisfy the same equation, whatever
\* pick takes; a smallest set for which they differ would break it.
LEMMA SumRecursion ==
    ASSUME NEW S, IsFiniteSet(S), NEW f, \A x \in S : f[x] \in Nat,
           NEW pick, \A s \in SUBSET S : s # {} => pick[s] \in s
    PROVE  /\ \E g \in [SUBSET S -> Nat] : SumsUp(f, S, pick, g)
           /\ \A g : SumsUp(f, S, pick, g) => g[S] = Cardinality(Units(f, S))
<1>. DEFINE units == [s \in SUBSET S |-> Cardinality(Units(f, s))]
<1>1. ASSUME NEW s \in SUBSET S
      PROVE  /\ units[s] \in Nat
             /\ units[s] = IF s = {} THEN 0 ELSE f[pick[s]] + units[s \ {pick[s]}]
  <2>1. CASE s = {}
    <3>1. Units(f, s) = {}
      BY <2>1 DEF Units
    <3>. QED  BY <2>1, <3>1, FS_EmptySet
  <2>2. CASE s # {}
    <3>1. PICK x \in s : x = pick[s]
      BY <2>2
    <3>2. IsFiniteSet(Units(f, s \ {x})) /\ f[x] \in Nat
      BY UnitsAreFinite
    <3>3. Cardinality(Units(f, s)) = f[x] + Cardinality(Units(f, s \ {x}))
      BY <3>2, UnitsOfOneMore
    <3>4. Cardinality(Units(f, s \ {x})) \in Nat
      BY <3>2, FS_CardinalityType
    <3>. QED  BY <2>2, <3>1, <3>2, <3>3, <3>4
  <2>. QED  BY <2>1, <2>2
<1>2. units \in [SUBSET S -> Nat] /\ SumsUp(f, S, pick, units)
  <2>1. units \in [SUBSET S -> Nat]
    BY <1>1
  <2>. HIDE DEF units
  <2>. QED  BY <1>1, <2>1 DEF SumsUp
<1>. HIDE DEF units
<1>3. ASSUME NEW g, SumsUp(f, S, pick, g)
      PROVE  \A s \in SUBSET S : g[s] = units[s]
  <2>. DEFINE C == {s \in SUBSET S : g[s] # units[s]}
  <2>. SUFFICES ASSUME C # {} PROVE FALSE
    OBVIOUS
  <2>1. PICK s \in C : \A U \in C : ~(U \subseteq s /\ U # s)
    <3>1. C \in SUBSET (SUBSET S)
      OBVIOUS
    <3>. HIDE DEF C
    <3>. QED  BY <3>1, SmallestSet
  <2>2. s # {}
    BY <1>2, <1>3 DEF SumsUp
  <2>3. pick[s] \in s
    BY <2>2
  <2>4. s \ {pick[s]} \notin C
    BY <2>1, <2>3
  <2>5. g[s \ {pick[s]}] = units[s \ {pick[s]}] /\ units[s \ {pick[s]}] \in Nat
    BY <1>2, <2>4
  <2>6. g[s] = f[pick[s]] + g[s \ {pick[s]}]
    BY <1>3, <2>2, <2>5 DEF SumsUp
  <2>7. units[s] = f[pick[s]] + units[s \ {pick[s]}]
    BY <1>2, <2>2, <2>5 DEF SumsUp
  <2>. QED  BY <2>5, <2>6, <2>7
<1>4. S \in SUBSET S
  OBVIOUS
<1>5. units[S] = Cardinality(Units(f, S))
  BY <1>4 DEF units
<1>. QED
  BY <1>2, <1>3, <1>4, <1>5

Sum(f, S) == MapThenSumSet(LAMBDA x : f[x], S)

\* Sums over sets are numbers of units.
LEMMA SumIsUnits ==
    ASSUME NEW S, IsFiniteSet(S), NEW f, \A x \in S : f[x] \in Nat
    PROVE  Sum(f, S) = Cardinality(Units(f, S))
<1>. DEFINE some(s) == CHOOSE x \in s : TRUE
            rec(g) == [s \in SUBSET S |-> IF s = {} THEN 0 ELSE f[some(s)] + g[s \ {some(s)}]]
            iter == CHOOSE g : g = rec(g)
            pick == [s \in SUBSET S |-> some(s)]
<1>1. Sum(f, S) = iter[S]
  BY Zenon DEF Sum, MapThenSumSet, MapThenFoldSet
<1>2. \A s \in SUBSET S : s # {} => pick[s] \in s
  OBVIOUS
<1>3. \A s \in SUBSET S : pick[s] = some(s)
  OBVIOUS
<1>. HIDE DEF some, pick
<1>4. PICK g \in [SUBSET S -> Nat] : SumsUp(f, S, pick, g)
  BY <1>2, SumRecursion
<1>5. \A s \in SUBSET S : s # {} => s \ {some(s)} \in SUBSET S /\ g[s \ {some(s)}] \in Nat
  OBVIOUS
<1>6. g = rec(g)
  BY <1>3, <1>4, <1>5 DEF SumsUp
<1>7. iter = rec(iter)
  <2>. HIDE DEF rec
  <2>. QED  BY <1>6, Zenon
<1>8. SumsUp(f, S, pick, iter)
  <2>. HIDE DEF iter
  <2>. QED  BY <1>3, <1>7 DEF SumsUp
<1>. HIDE DEF iter
<1>9. iter[S] = Cardinality(Units(f, S))
  BY <1>2, <1>8, SumRecursion
<1>. QED
  BY <1>1, <1>9

\* A sum goes up by one with one of its summands.
LEMMA SumOneMore ==
    ASSUME NEW S, IsFiniteSet(S), NEW f \in [S -> Nat], NEW x \in S
    PROVE  /\ Sum(f, S) \in Nat
           /\ Sum([f EXCEPT ![x] = @ + 1], S) = Sum(f, S) + 1
<1>. DEFINE g == [f EXCEPT ![x] = @ + 1]
<1>1. g \in [S -> Nat] /\ g[x] = f[x] + 1 /\ \A y \in S \ {x} : g[y] = f[y]
  OBVIOUS
<1>2. IsFiniteSet(Units(f, S \ {x})) /\ IsFiniteSet(Units(f, S))
  BY UnitsAreFinite
<1>. HIDE DEF g
<1>3. Units(g, S \ {x}) = Units(f, S \ {x})
  BY <1>1 DEF Units
<1>4. /\ Cardinality(Units(f, S)) = f[x] + Cardinality(Units(f, S \ {x}))
      /\ Cardinality(Units(g, S)) = g[x] + Cardinality(Units(g, S \ {x}))
  BY <1>1, <1>2, <1>3, UnitsOfOneMore
<1>5. Sum(f, S) = Cardinality(Units(f, S)) /\ Sum(g, S) = Cardinality(Units(g, S))
  BY <1>1, SumIsUnits
<1>6. Cardinality(Units(f, S)) \in Nat /\ Cardinality(Units(f, S \ {x})) \in Nat
  BY <1>2, FS_CardinalityType
<1>7. Sum(g, S) = Sum(f, S) + 1
  BY <1>1, <1>3, <1>4, <1>5, <1>6
<1>. QED
  BY <1>5, <1>6, <1>7 DEF g

\* A sum of zeros is zero.
LEMMA SumOfNone ==
    ASSUME NEW S, IsFiniteSet(S)
    PROVE  Sum([x \in S |-> 0], S) = 0
<1>. DEFINE f == [x \in S |-> 0]
<1>1. f \in [S -> Nat] /\ Units(f, S) = {}
  BY DEF Units
<1>. HIDE DEF f
<1>2. Sum(f, S) = 0
  BY <1>1, SumIsUnits, FS_EmptySet
<1>. QED
  BY <1>2 DEF f

\* Sums over 1 .. n.
LEMMA SumOfMore ==
    ASSUME NEW n \in Nat, NEW f, \A m \in 1 .. n + 1 : f[m] \in Nat
    PROVE  /\ Sum(f, 1 .. n) \in Nat
           /\ Sum(f, 1 .. n + 1) = Sum(f, 1 .. n) + f[n + 1]
<1>1. /\ IsFiniteSet(1 .. n) /\ IsFiniteSet(1 .. n + 1) /\ n + 1 \in 1 .. n + 1
      /\ (1 .. n + 1) \ {n + 1} = 1 .. n
  <2>1. PICK k \in Nat : k = n + 1
    OBVIOUS
  <2>. QED  BY <2>1, CountOfInterval
<1>2. /\ \A m \in 1 .. n : f[m] \in Nat
      /\ f[n + 1] \in Nat
  BY <1>1
<1>3. Sum(f, 1 .. n) = Cardinality(Units(f, 1 .. n))
  BY <1>1, <1>2, SumIsUnits
<1>4. Sum(f, 1 .. n + 1) = Cardinality(Units(f, 1 .. n + 1))
  BY <1>1, SumIsUnits
<1>5. IsFiniteSet(Units(f, 1 .. n))
  <2>1. 1 .. n \in SUBSET (1 .. n)
    OBVIOUS
  <2>. QED  BY <1>1, <1>2, <2>1, UnitsAreFinite
<1>6. Cardinality(Units(f, 1 .. n)) \in Nat
  BY <1>5, FS_CardinalityType
<1>7. PICK S, x : S = 1 .. n + 1 /\ x = n + 1 /\ S \ {x} = 1 .. n /\ x \in S
  BY <1>1
<1>8. f[x] \in Nat /\ IsFiniteSet(Units(f, S \ {x}))
  BY <1>2, <1>5, <1>7
<1>9. Cardinality(Units(f, S)) = f[x] + Cardinality(Units(f, S \ {x}))
  <2>1. x \in S
    BY <1>7
  <2>. QED  BY <1>8, <2>1, UnitsOfOneMore, Zenon
<1>10. PICK a, b \in Nat : a = Cardinality(Units(f, S \ {x})) /\ b = f[x]
  BY <1>6, <1>7, <1>8
<1>11. Sum(f, 1 .. n) = a /\ Sum(f, 1 .. n + 1) = b + a /\ f[n + 1] = b
  BY <1>3, <1>4, <1>7, <1>9, <1>10
<1>. QED
  BY <1>11

LEMMA SumOfEqual ==
    ASSUME NEW S, IsFiniteSet(S), NEW f, NEW g, \A x \in S : f[x] = g[x] /\ f[x] \in Nat
    PROVE  Sum(f, S) = Sum(g, S)
<1>1. Units(f, S) = Units(g, S)
  BY DEF Units
<1>. QED
  BY <1>1, SumIsUnits

LEMMA SumOverNone == ASSUME NEW f PROVE Sum(f, 1 .. 0) = 0
<1>1. PICK S : S = 1 .. 0
  OBVIOUS
<1>2. S = {} /\ IsFiniteSet(S) /\ Units(f, S) = {}
  BY <1>1, FS_EmptySet DEF Units
<1>3. Sum(f, S) = 0
  BY <1>2, SumIsUnits, FS_EmptySet
<1>. QED
  BY <1>1, <1>3

-----------------------------------------------------------------------------
(***************************************************************************)
(* Folds                                                                   *)
(*                                                                         *)
(* A fold over a sequence of length n is a recursion over the subsets of   *)
(* 1 .. n, from the greatest element on.  op[<<m, t>>] is the step from t  *)
(* with the m-th element, which remains in the set T.                      *)
(***************************************************************************)
LEMMA MaxOfOneMore ==
    ASSUME NEW n \in Nat, NEW s \in SUBSET (1 .. n + 1), n + 1 \in s
    PROVE  Max(s) = n + 1
<1>1. /\ \E x \in s : \A y \in s : x >= y
      /\ \A x \in s : (\A y \in s : x >= y) => x = n + 1
  <2>1. n + 1 \in s /\ \A y \in s : n + 1 >= y
    OBVIOUS
  <2>. QED  BY <2>1
<1>. QED
  BY <1>1 DEF Max

\* The equation of the recursion.
FoldsUp(n, base, T, op, g) ==
    \A s \in SUBSET (1 .. n) :
        /\ s = {} => g[s] = base
        /\ s # {} /\ g[s \ {Max(s)}] \in T => g[s] = op[<<Max(s), g[s \ {Max(s)}]>>]

\* The recursive function exists, by a least n up to which it does not.
LEMMA FoldRecursion ==
    ASSUME NEW T, NEW base \in T, NEW n \in Nat, NEW op \in [(1 .. n) \X T -> T]
    PROVE  \E g \in [SUBSET (1 .. n) -> T] : FoldsUp(n, base, T, op, g)
<1>. DEFINE Bad == {m \in 0 .. n : ~ \E g \in [SUBSET (1 .. m) -> T] : FoldsUp(m, base, T, op, g)}
<1>. SUFFICES ASSUME Bad # {} PROVE FALSE
  <2>1. n \in 0 .. n
    OBVIOUS
  <2>. QED  BY <2>1
<1>1. PICK m \in Bad : \A k \in Bad : m <= k
  <2>1. Bad \in SUBSET Nat
    OBVIOUS
  <2>. HIDE DEF Bad
  <2>. QED  BY <2>1, NatMinimum
<1>2. m # 0
  <2>1. \A s \in SUBSET (1 .. 0) : s = {}
    <3>1. 1 .. 0 = {}
      OBVIOUS
    <3>. QED  BY <3>1
  <2>. DEFINE g == [s \in SUBSET (1 .. 0) |-> base]
  <2>2. g \in [SUBSET (1 .. 0) -> T]
    OBVIOUS
  <2>3. FoldsUp(0, base, T, op, g)
    BY <2>1 DEF FoldsUp
  <2>. QED  BY <2>2, <2>3
<1>3. PICK p \in 0 .. n : m = p + 1 /\ p \notin Bad
  <2>1. m \in 0 .. n /\ m - 1 \in 0 .. n /\ m = (m - 1) + 1 /\ ~(m <= m - 1)
    BY <1>2
  <2>2. m - 1 \notin Bad
    BY <1>1, <2>1
  <2>. QED  BY <2>1, <2>2
<1>4. PICK h \in [SUBSET (1 .. p) -> T] : FoldsUp(p, base, T, op, h)
  BY <1>3
<1>. DEFINE g == [s \in SUBSET (1 .. m) |->
                     IF m \in s THEN op[<<m, h[s \ {m}]>>] ELSE h[s]]
<1>5. ASSUME NEW s \in SUBSET (1 .. m)
      PROVE  /\ g[s] \in T
             /\ g[s] = IF s = {} THEN base ELSE op[<<Max(s), g[s \ {Max(s)}]>>]
  <2>1. CASE m \in s
    <3>1. s \ {m} \in SUBSET (1 .. p) /\ s \ {m} \in SUBSET (1 .. m) /\ m \notin s \ {m}
      BY <1>3
    <3>2. Max(s) = m
      BY <1>3, <2>1, MaxOfOneMore
    <3>3. g[s \ {m}] = h[s \ {m}] /\ h[s \ {m}] \in T
      BY <3>1
    <3>4. <<m, h[s \ {m}]>> \in (1 .. n) \X T
      BY <1>3, <3>3
    <3>. QED  BY <2>1, <3>2, <3>3, <3>4
  <2>2. CASE m \notin s
    <3>1. s \in SUBSET (1 .. p)
      <4>1. \A x \in s : x \in 1 .. p + 1 /\ x # p + 1
        BY <1>3, <2>2
      <4>. QED  BY <4>1
    <3>1a. s \ {Max(s)} \in SUBSET (1 .. p) /\ s \ {Max(s)} \in SUBSET (1 .. m)
          /\ m \notin s \ {Max(s)}
      BY <2>2, <3>1
    <3>2. g[s] = h[s] /\ g[s \ {Max(s)}] = h[s \ {Max(s)}]
      BY <2>2, <3>1a
    <3>. QED  BY <1>4, <2>2, <3>1, <3>1a, <3>2 DEF FoldsUp
  <2>. QED  BY <2>1, <2>2
<1>6. g \in [SUBSET (1 .. m) -> T] /\ FoldsUp(m, base, T, op, g)
  <2>1. g \in [SUBSET (1 .. m) -> T]
    BY <1>5
  <2>. HIDE DEF g
  <2>. QED  BY <1>5, <2>1 DEF FoldsUp
<1>. QED
  BY <1>6

\* The steps of a fold, one element after the other, to x.
Steps(n, base, op, F) ==
    /\ F[0] = base
    /\ \A l, m \in 0 .. n : m = l + 1 => F[m] = op[<<m, F[l]>>]

Folded(n, base, T, op, x) == \E F \in [0 .. n -> T] : Steps(n, base, op, F) /\ F[n] = x

LEMMA FoldSteps ==
    ASSUME NEW T, NEW base \in T, NEW n \in Nat, NEW op \in [(1 .. n) \X T -> T],
           NEW g, FoldsUp(n, base, T, op, g)
    PROVE  Folded(n, base, T, op, g[1 .. n])
<1>. DEFINE F == [m \in 0 .. n |-> g[1 .. m]]
<1>1. F[0] = base
  <2>1. 1 .. 0 = {} /\ {} \in SUBSET (1 .. n)
    OBVIOUS
  <2>2. g[{}] = base
    BY DEF FoldsUp
  <2>. QED  BY <2>1, <2>2
<1>2. ASSUME NEW l \in 0 .. n, NEW m \in 0 .. n, m = l + 1, F[l] \in T
      PROVE  F[m] = op[<<m, F[l]>>]
  <2>1. 1 .. m \in SUBSET (1 .. n) /\ 1 .. m \in SUBSET (1 .. l + 1) /\ m \in 1 .. m
        /\ 1 .. m # {} /\ (1 .. m) \ {m} = 1 .. l
    <3>1. l \in 0 .. n /\ m \in 0 .. n /\ m = l + 1
      BY <1>2
    <3>. HIDE DEF F
    <3>. QED  BY <3>1
  <2>2. Max(1 .. m) = m
    BY <1>2, <2>1, MaxOfOneMore
  <2>3. PICK s : s = 1 .. m
    OBVIOUS
  <2>4. g[s \ {Max(s)}] = F[l]
    BY <2>1, <2>2, <2>3
  <2>5. g[s] = op[<<Max(s), g[s \ {Max(s)}]>>]
    BY <1>2, <2>1, <2>3, <2>4 DEF FoldsUp
  <2>. QED  BY <2>2, <2>3, <2>4, <2>5
<1>. HIDE DEF F
<1>3. \A m \in 0 .. n : F[m] \in T
  <2>. DEFINE Bad == {m \in 0 .. n : F[m] \notin T}
  <2>. SUFFICES ASSUME Bad # {} PROVE FALSE
    OBVIOUS
  <2>1. PICK m \in Bad : \A k \in Bad : m <= k
    <3>1. Bad \in SUBSET Nat
      OBVIOUS
    <3>. HIDE DEF Bad
    <3>. QED  BY <3>1, NatMinimum
  <2>2. m # 0
    BY <1>1
  <2>3. PICK l \in 0 .. n : m = l + 1 /\ l \notin Bad
    BY <2>1, <2>2
  <2>4. <<m, F[l]>> \in (1 .. n) \X T
    BY <2>2, <2>3
  <2>. QED  BY <1>2, <2>3, <2>4
<1>4. F \in [0 .. n -> T] /\ F[n] = g[1 .. n]
  BY <1>3 DEF F
<1>. QED
  BY <1>1, <1>2, <1>3, <1>4 DEF Steps, Folded

-----------------------------------------------------------------------------
(***************************************************************************)
(* Sums over sequences, of which F[m] are the partial ones.                *)
(***************************************************************************)
Adds(n, f, F) ==
    /\ F[0] = 0
    /\ \A l, m \in 0 .. n : m = l + 1 => F[m] = F[l] + f[m]

\* One more summand at the end.
LEMMA AddsAppend ==
    ASSUME NEW n \in Nat, NEW f \in [1 .. n -> Nat], NEW F \in [0 .. n -> Nat], Adds(n, f, F),
           NEW e \in [1 .. n + 1 -> Nat], NEW E \in [0 .. n + 1 -> Nat], Adds(n + 1, e, E),
           \A m \in 1 .. n : e[m] = f[m]
    PROVE  E[n + 1] = F[n] + e[n + 1]
<1>. DEFINE Bad == {m \in 0 .. n : E[m] # F[m]}
<1>1. Bad = {}
  <2>. SUFFICES ASSUME Bad # {} PROVE FALSE
    OBVIOUS
  <2>1. PICK m \in Bad : \A k \in Bad : m <= k
    <3>1. Bad \in SUBSET Nat
      OBVIOUS
    <3>. HIDE DEF Bad
    <3>. QED  BY <3>1, NatMinimum
  <2>2. m # 0
    BY DEF Adds
  <2>3. PICK l \in 0 .. n : m = l + 1 /\ ~(m <= l) /\ m \in 1 .. n
    BY <2>2
  <2>4. E[l] = F[l] /\ e[m] = f[m]
    BY <2>1, <2>3
  <2>5. E[m] = E[l] + e[m] /\ F[m] = F[l] + f[m]
    <3>1. l \in 0 .. n + 1 /\ m \in 0 .. n + 1
      OBVIOUS
    <3>. QED  BY <2>3, <3>1 DEF Adds
  <2>. QED  BY <2>4, <2>5
<1>2. E[n] = F[n]
  <2>1. n \in 0 .. n
    OBVIOUS
  <2>. QED  BY <1>1, <2>1
<1>3. n \in 0 .. n + 1 /\ n + 1 \in 0 .. n + 1
  OBVIOUS
<1>. QED
  BY <1>2, <1>3 DEF Adds

\* One summand less at the beginning.
Behind(n, f, e) == \A l \in 1 .. n, m \in 1 .. n + 1 : m = l + 1 => f[l] = e[m]

LEMMA AddsTail ==
    ASSUME NEW n \in Nat, NEW f \in [1 .. n -> Nat], NEW F \in [0 .. n -> Nat], Adds(n, f, F),
           NEW e \in [1 .. n + 1 -> Nat], NEW E \in [0 .. n + 1 -> Nat], Adds(n + 1, e, E),
           Behind(n, f, e)
    PROVE  E[n + 1] = e[1] + F[n]
<1>. DEFINE Bad == {m \in 0 .. n : E[m + 1] # e[1] + F[m]}
<1>1. Bad = {}
  <2>. SUFFICES ASSUME Bad # {} PROVE FALSE
    OBVIOUS
  <2>1. PICK m \in Bad : \A k \in Bad : m <= k
    <3>1. Bad \in SUBSET Nat
      OBVIOUS
    <3>. HIDE DEF Bad
    <3>. QED  BY <3>1, NatMinimum
  <2>2. m # 0
    <3>1. 0 \in 0 .. n + 1 /\ 1 \in 0 .. n + 1 /\ 1 = 0 + 1 /\ e[1] \in Nat
      OBVIOUS
    <3>2. F[0] = 0 /\ E[1] = 0 + e[1]
      BY <3>1 DEF Adds
    <3>. QED  BY <3>1, <3>2
  <2>3. PICK l \in 0 .. n : m = l + 1 /\ ~(m <= l) /\ m \in 1 .. n
    BY <2>2
  <2>4. PICK k \in 1 .. n + 1 : k = m + 1
    BY <2>3
  <2>5. E[m] = e[1] + F[l] /\ f[m] = e[k]
    <3>1. l \notin Bad
      BY <2>1, <2>3
    <3>2. E[l + 1] = e[1] + F[l]
      BY <3>1
    <3>. QED  BY <2>3, <2>4, <3>2 DEF Behind
  <2>6. E[k] = E[m] + e[k] /\ F[m] = F[l] + f[m]
    BY <2>3, <2>4 DEF Adds
  <2>7. E[k] # e[1] + F[m]
    BY <2>1, <2>4
  <2>8. e[1] \in Nat /\ F[l] \in Nat /\ f[m] \in Nat /\ e[k] \in Nat
    <3>1. l \in 0 .. n /\ m \in 1 .. n /\ k \in 1 .. n + 1 /\ 1 \in 1 .. n + 1
      BY <2>3, <2>4
    <3>. HIDE DEF Bad
    <3>. QED  BY <3>1
  <2>. QED  BY <2>5, <2>6, <2>7, <2>8
<1>2. n \in 0 .. n
  OBVIOUS
<1>. QED
  BY <1>1, <1>2
-----------------------------------------------------------------------------
(***************************************************************************)
(* Sequences of sequences                                                  *)
(***************************************************************************)
\* F[q] is the first q sequences of s, one behind the other, for q up to n.
Joining(s, n, F) ==
    /\ F[1] = s[1]
    /\ \A q, j \in 1 .. n : j = q + 1 => F[j] = F[q] \o s[j]

\* The recursive function of FlattenSeq exists, by a least n up to which it does not.
LEMMA JoinsExist ==
    ASSUME NEW X, NEW s \in Seq(Seq(X))
    PROVE  \A n \in 1 .. Len(s) : \E F \in [1 .. n -> Seq(X)] : Joining(s, n, F)
<1>. DEFINE Bad == {n \in 1 .. Len(s) : ~(\E F \in [1 .. n -> Seq(X)] : Joining(s, n, F))}
<1>. SUFFICES ASSUME Bad # {} PROVE FALSE
  OBVIOUS
<1>1. PICK n \in Bad : \A m \in Bad : n <= m
  <2>1. Bad \in SUBSET Nat
    BY LenProperties
  <2>. HIDE DEF Bad
  <2>. QED  BY <2>1, NatMinimum
<1>2. n \in 1 .. Len(s) /\ n \in Nat /\ Len(s) \in Nat /\ s[n] \in Seq(X)
  BY LenProperties, ElementOfSeq
<1>3. CASE n = 1
  <2>. DEFINE F == [q \in 1 .. 1 |-> s[1]]
  <2>1. F \in [1 .. n -> Seq(X)] /\ Joining(s, n, F)
    BY <1>2, <1>3 DEF Joining
  <2>. HIDE DEF F
  <2>. QED  BY <2>1
<1>4. CASE n # 1
  <2>1. PICK p \in 1 .. Len(s) : n = p + 1 /\ p \in Nat
    BY <1>2, <1>4
  <2>2. p \notin Bad
    <3>. HIDE DEF Bad
    <3>. QED  BY <1>1, <1>2, <2>1
  <2>3. PICK G \in [1 .. p -> Seq(X)] : Joining(s, p, G)
    BY <2>2
  <2>. DEFINE F == [q \in 1 .. n |-> IF q = n THEN G[p] \o s[n] ELSE G[q]]
  <2>4. G[p] \in Seq(X) /\ G[p] \o s[n] \in Seq(X)
    BY <1>2, <2>1, <2>3, ConcatProperties
  <2>5. F \in [1 .. n -> Seq(X)]
    BY <1>2, <2>1, <2>3, <2>4
  <2>6. \A q \in 1 .. p : F[q] = G[q]
    BY <2>1
  <2>7. F[n] = G[p] \o s[n]
    BY <2>1
  <2>. HIDE DEF F
  <2>8. ASSUME NEW q \in 1 .. n, NEW j \in 1 .. n, j = q + 1
        PROVE  F[j] = F[q] \o s[j]
    <3>1. q \in 1 .. p /\ (j = n \/ j \in 1 .. p) /\ (j = n => q = p)
      BY <2>1, <2>8
    <3>2. CASE j = n
      BY <2>6, <2>7, <3>1, <3>2
    <3>3. CASE j \in 1 .. p
      BY <2>3, <2>6, <2>8, <3>1, <3>3 DEF Joining
    <3>. QED  BY <3>1, <3>2, <3>3
  <2>9. F[1] = s[1]
    <3>1. 1 \in 1 .. p
      BY <2>1
    <3>. QED  BY <2>3, <2>6, <3>1 DEF Joining
  <2>10. Joining(s, n, F)
    BY <2>8, <2>9 DEF Joining
  <2>. QED  BY <2>5, <2>10
<1>. QED
  BY <1>3, <1>4

LEMMA FlattenIsJoin ==
    ASSUME NEW X, NEW s \in Seq(Seq(X)), NEW n \in 1 .. Len(s), n = Len(s),
           NEW F \in [1 .. n -> Seq(X)], Joining(s, n, F)
    PROVE  FlattenSeq(s) = F[n] /\ F[n] \in Seq(X)
<1>. DEFINE rec(g) == [q \in 1 .. Len(s) |-> IF q = 1 THEN s[q] ELSE g[q - 1] \o s[q]]
            flatten == CHOOSE g : g = rec(g)
<1>1. FlattenSeq(s) = flatten[Len(s)]
  <2>1. Len(s) # 0
    BY LenProperties
  <2>. QED  BY <2>1, Zenon DEF FlattenSeq
<1>2. n \in Nat /\ 1 \in 1 .. n
  BY LenProperties
<1>3. F = rec(F)
  <2>1. ASSUME NEW q \in 1 .. n
        PROVE  F[q] = IF q = 1 THEN s[q] ELSE F[q - 1] \o s[q]
    <3>1. CASE q = 1
      BY <3>1 DEF Joining
    <3>2. CASE q # 1
      <4>1. q - 1 \in 1 .. n /\ q = (q - 1) + 1
        BY <1>2, <3>2
      <4>2. PICK p \in 1 .. n : p = q - 1 /\ q = p + 1
        BY <4>1
      <4>. QED  BY <3>2, <4>2 DEF Joining
    <3>. QED  BY <3>1, <3>2
  <2>. QED  BY <2>1
<1>4. flatten = rec(flatten)
  <2>. HIDE DEF rec
  <2>. QED  BY <1>3, Zenon
<1>. HIDE DEF flatten
<1>5. Joining(s, n, flatten)
  <2>1. ASSUME NEW q \in 1 .. n, NEW j \in 1 .. n, j = q + 1
        PROVE  flatten[j] = flatten[q] \o s[j]
    <3>1. j # 1 /\ j - 1 = q
      BY <1>2, <2>1
    <3>. QED  BY <1>4, <3>1
  <2>2. flatten[1] = s[1]
    BY <1>2, <1>4
  <2>. QED  BY <2>1, <2>2 DEF Joining
<1>. DEFINE Bad == {q \in 1 .. n : flatten[q] # F[q]}
<1>6. SUFFICES ASSUME Bad # {} PROVE FALSE
  BY <1>1, <1>2
<1>7. PICK m \in Bad : \A q \in Bad : m <= q
  <2>1. Bad \in SUBSET Nat
    BY <1>2
  <2>. HIDE DEF Bad
  <2>. QED  BY <1>6, <2>1, NatMinimum
<1>8. m \in 1 .. n
  OBVIOUS
<1>9. m # 1
  BY <1>5, <1>7 DEF Joining
<1>10. PICK p \in 1 .. n : m = p + 1 /\ p \in Nat
  BY <1>2, <1>8, <1>9
<1>11. p \notin Bad
  <2>. HIDE DEF Bad
  <2>. QED  BY <1>7, <1>10
<1>12. flatten[p] = F[p]
  BY <1>11
<1>13. flatten[m] = flatten[p] \o s[m] /\ F[m] = F[p] \o s[m]
  BY <1>5, <1>8, <1>10 DEF Joining
<1>. QED
  BY <1>12, <1>13

LEMMA FlattenEmpty == FlattenSeq(<<>>) = <<>>
BY EmptySeq, Zenon DEF FlattenSeq

LEMMA FlattenAppend ==
    ASSUME NEW X, NEW s \in Seq(Seq(X)), NEW b \in Seq(X)
    PROVE  FlattenSeq(s) \in Seq(X) /\ FlattenSeq(Append(s, b)) = FlattenSeq(s) \o b
<1>. DEFINE t == Append(s, b)
<1>1. PICK l \in Nat : l = Len(s)
  BY LenProperties
<1>2. PICK n \in Nat : n = l + 1
  OBVIOUS
<1>3. /\ t \in Seq(Seq(X)) /\ Len(t) = n /\ t[n] = b /\ n \in 1 .. n
      /\ \A q \in 1 .. l : t[q] = s[q]
  BY <1>1, <1>2, AppendProperties
<1>. HIDE DEF t
<1>4. PICK F \in [1 .. n -> Seq(X)] : Joining(t, n, F)
  BY <1>3, JoinsExist
<1>5. FlattenSeq(t) = F[n]
  <2>1. n \in 1 .. Len(t) /\ n = Len(t) /\ t \in Seq(Seq(X))
    BY <1>3
  <2>. QED  BY <1>4, <2>1, FlattenIsJoin
<1>6. CASE l = 0
  <2>1. s = <<>> /\ FlattenSeq(s) = <<>>
    BY <1>1, <1>6, EmptySeq, FlattenEmpty
  <2>2. F[n] = b
    BY <1>2, <1>3, <1>4, <1>6 DEF Joining
  <2>3. <<>> \o b = b /\ <<>> \in Seq(X)
    BY ConcatEmptySeq, EmptySeq
  <2>4. FlattenSeq(t) = FlattenSeq(s) \o b
    BY <1>5, <2>1, <2>2, <2>3
  <2>. QED  BY <2>1, <2>3, <2>4 DEF t
<1>7. CASE l # 0
  <2>. DEFINE G == [q \in 1 .. l |-> F[q]]
  <2>1. l \in 1 .. l /\ l \in 1 .. n /\ 1 \in 1 .. l /\ \A q \in 1 .. l : q \in 1 .. n
    BY <1>2, <1>7
  <2>2. G \in [1 .. l -> Seq(X)]
    BY <2>1
  <2>3. \A q \in 1 .. l : G[q] = F[q]
    OBVIOUS
  <2>. HIDE DEF G
  <2>4. Joining(s, l, G)
    <3>1. ASSUME NEW q \in 1 .. l, NEW j \in 1 .. l, j = q + 1
          PROVE  G[j] = G[q] \o s[j]
      <4>1. F[j] = F[q] \o t[j]
        BY <1>4, <2>1, <3>1 DEF Joining
      <4>. QED  BY <1>3, <2>3, <4>1
    <3>2. G[1] = s[1]
      BY <1>3, <1>4, <2>1, <2>3 DEF Joining
    <3>. QED  BY <3>1, <3>2 DEF Joining
  <2>5. FlattenSeq(s) = G[l] /\ G[l] \in Seq(X)
    BY <1>1, <2>1, <2>2, <2>4, FlattenIsJoin
  <2>6. F[n] = F[l] \o b
    BY <1>2, <1>3, <1>4, <2>1 DEF Joining
  <2>7. FlattenSeq(t) = FlattenSeq(s) \o b
    BY <1>5, <2>1, <2>3, <2>5, <2>6
  <2>. QED  BY <2>5, <2>7 DEF t
<1>. QED
  BY <1>6, <1>7

LEMMA FlattenHead ==
    ASSUME NEW X, NEW s \in Seq(Seq(X)), s # <<>>
    PROVE  FlattenSeq(s) = Head(s) \o FlattenSeq(Tail(s))
<1>. DEFINE t == Tail(s)
<1>0. \A a, b, c \in Seq(X) : (a \o b) \o c = a \o (b \o c)
  BY ConcatAssociative
<1>1. PICK n \in Nat : n = Len(s) /\ n # 0
  BY LenProperties, EmptySeq
<1>2. PICK l \in Nat : n = l + 1
  <2>1. n - 1 \in Nat /\ n = (n - 1) + 1
    BY <1>1
  <2>. QED  BY <2>1
<1>3. /\ Head(s) = s[1] /\ s[1] \in Seq(X)
      /\ t \in Seq(Seq(X)) /\ Len(t) = l
      /\ \A q \in 1 .. l : t[q] = s[q + 1] /\ t[q] \in Seq(X)
      /\ n \in 1 .. n /\ 1 \in 1 .. n
  <2>1. n \in 1 .. n /\ 1 \in 1 .. n
    BY <1>1
  <2>2. Head(s) = s[1] /\ s[1] \in Seq(X)
    BY <1>1, <2>1, ElementOfSeq, HeadTailProperties
  <2>3. t \in Seq(Seq(X)) /\ Len(t) = l
    <3>1. t \in Seq(Seq(X)) /\ Len(t) = Len(s) - 1
      BY HeadTailProperties
    <3>2. Len(s) - 1 = l
      BY <1>1, <1>2
    <3>. HIDE DEF t
    <3>. QED  BY <3>1, <3>2
  <2>4. \A q \in 1 .. l : t[q] = s[q + 1]
    BY <2>3, HeadTailProperties
  <2>. HIDE DEF t
  <2>5. \A q \in 1 .. l : t[q] \in Seq(X)
    BY <2>3, ElementOfSeq
  <2>. QED  BY <2>1, <2>2, <2>3, <2>4, <2>5
<1>. HIDE DEF t
<1>4. PICK F \in [1 .. n -> Seq(X)] : Joining(s, n, F)
  BY <1>1, <1>3, JoinsExist
<1>5. FlattenSeq(s) = F[n]
  <2>1. n \in 1 .. Len(s)
    BY <1>1, <1>3
  <2>. QED  BY <1>1, <1>4, <2>1, FlattenIsJoin
<1>6. CASE l = 0
  <2>1. F[n] = s[1]
    BY <1>2, <1>4, <1>6 DEF Joining
  <2>2. FlattenSeq(t) = <<>>
    BY <1>3, <1>6, EmptySeq, FlattenEmpty
  <2>3. s[1] \o <<>> = s[1]
    BY <1>3, ConcatEmptySeq
  <2>. QED  BY <1>3, <1>5, <2>1, <2>2, <2>3 DEF t
<1>7. CASE l # 0
  <2>1. l \in 1 .. l /\ 1 \in 1 .. l /\ \A q \in 1 .. l : q + 1 \in 1 .. n /\ q \in 1 .. n
    BY <1>2, <1>7
  <2>2. PICK G \in [1 .. l -> Seq(X)] : Joining(t, l, G)
    BY <1>3, <2>1, JoinsExist
  <2>3. FlattenSeq(t) = G[l]
    <3>1. l \in 1 .. Len(t) /\ l = Len(t) /\ t \in Seq(Seq(X))
      BY <1>3, <2>1
    <3>. QED  BY <2>2, <3>1, FlattenIsJoin
  <2>. DEFINE Bad == {q \in 1 .. l : F[q + 1] # s[1] \o G[q]}
  <2>4. ASSUME Bad # {} PROVE FALSE
    <3>1. PICK m \in Bad : \A q \in Bad : m <= q
      <4>1. Bad \in SUBSET Nat
        OBVIOUS
      <4>. HIDE DEF Bad
      <4>. QED  BY <2>4, <4>1, NatMinimum
    <3>2. m \in 1 .. l /\ m \in Nat
      OBVIOUS
    <3>3. PICK q \in 1 .. n : q = m + 1
      BY <2>1, <3>2
    <3>4. F[q] = F[m] \o t[m]
      <4>1. F[q] = F[m] \o s[q]
        BY <1>4, <2>1, <3>2, <3>3 DEF Joining
      <4>2. t[m] = s[q]
        BY <1>3, <3>2, <3>3
      <4>. QED  BY <4>1, <4>2
    <3>5. CASE m = 1
      <4>1. F[1] = s[1] /\ G[1] = t[1]
        BY <1>4, <2>2 DEF Joining
      <4>. QED  BY <3>3, <3>4, <3>5, <4>1
    <3>6. CASE m # 1
      <4>1. PICK p \in 1 .. l : m = p + 1 /\ p \in Nat
        BY <3>2, <3>6
      <4>2. p \notin Bad
        <5>. HIDE DEF Bad
        <5>. QED  BY <3>1, <3>2, <4>1
      <4>3. F[m] = s[1] \o G[p]
        BY <4>1, <4>2
      <4>4. G[m] = G[p] \o t[m]
        BY <2>2, <3>2, <4>1 DEF Joining
      <4>5. G[p] \in Seq(X) /\ t[m] \in Seq(X)
        BY <1>3, <2>2, <3>2
      <4>6. (s[1] \o G[p]) \o t[m] = s[1] \o (G[p] \o t[m])
        <5>1. s[1] \in Seq(X)
          BY <1>3
        <5>. QED  BY <1>0, <4>5, <5>1, Zenon
      <4>7. F[q] = s[1] \o G[m]
        BY <3>4, <4>3, <4>4, <4>6
      <4>. QED  BY <3>3, <4>7
    <3>. QED  BY <3>5, <3>6
  <2>5. F[n] = s[1] \o G[l]
    BY <1>2, <2>1, <2>4
  <2>. QED  BY <1>3, <1>5, <2>3, <2>5 DEF t
<1>. QED
  BY <1>6, <1>7

-----------------------------------------------------------------------------
(***************************************************************************)
(* Numbers of elements                                                     *)
(***************************************************************************)
\* One more element that is counted, or is not.
LEMMA CountMore ==
    ASSUME NEW S, IsFiniteSet(S), NEW x, x \notin S, NEW T, NEW c,
           c => T = S \cup {x}, ~c => T = S
    PROVE  /\ Cardinality(S) \in Nat /\ IsFiniteSet(T)
           /\ Cardinality(T) = IF c THEN Cardinality(S) + 1 ELSE Cardinality(S)
<1>1. Cardinality(S) \in Nat
  BY FS_CardinalityType
<1>2. IsFiniteSet(S \cup {x}) /\ Cardinality(S \cup {x}) = Cardinality(S) + 1
  BY FS_AddElement
<1>. QED
  BY <1>1, <1>2

\* The image of a finite set.
LEMMA FiniteImage ==
    ASSUME NEW S, IsFiniteSet(S), NEW T, NEW f \in [S -> T], \A t \in T : \E s \in S : f[s] = t
    PROVE  IsFiniteSet(T)
<1>1. f \in Surjection(S, T)
  BY DEF Surjection
<1>. QED
  BY <1>1, FS_Surjection

\* Finitely many places in finitely many records.
LEMMA PlacesAreFinite ==
    ASSUME NEW n \in Nat, NEW D, \A m \in 1 .. n : IsFiniteSet(D[m])
    PROVE  IsFiniteSet(UNION {{m} \X D[m] : m \in 1 .. n})
<1>. DEFINE f == [m \in 1 .. n |-> {m} \X D[m]]
<1>1. IsFiniteSet(1 .. n)
  BY CountOfInterval
<1>2. IsFiniteSet({f[m] : m \in 1 .. n})
  <2>. DEFINE T == {f[m] : m \in 1 .. n}
  <2>1. f \in [1 .. n -> T]
    OBVIOUS
  <2>2. \A t \in T : \E s \in 1 .. n : f[s] = t
    OBVIOUS
  <2>. HIDE DEF f, T
  <2>3. IsFiniteSet(T)
    BY <1>1, <2>1, <2>2, FiniteImage
  <2>. QED  BY <2>3 DEF T
<1>3. \A m \in 1 .. n : IsFiniteSet({m} \X D[m])
  BY FS_Product, FS_Singleton
<1>4. \A T \in {f[m] : m \in 1 .. n} : IsFiniteSet(T)
  BY <1>3
<1>5. {f[m] : m \in 1 .. n} = {{m} \X D[m] : m \in 1 .. n}
  OBVIOUS
<1>. HIDE DEF f
<1>6. IsFiniteSet(UNION {f[m] : m \in 1 .. n})
  BY <1>2, <1>4, FS_UNION
<1>. QED
  BY <1>5, <1>6
=============================================================================
