----------------------------- MODULE SumProofs ------------------------------
(***************************************************************************)
(* What SumBelow computes, for every function and every length, what the   *)
(* ascending list of a finite set holds, and what filters, sorts and sums  *)
(* over a part of a list keep.  The library's induction theorems take the  *)
(* induction hypothesis as an operator; the proofs here use the            *)
(* well-ordering of Nat instead, which is a statement about sets: a set of *)
(* counterexamples has a least one.                                        *)
(***************************************************************************)
EXTENDS Sums, Ranks, Sequences, FiniteSetTheorems, SequenceTheorems, TLAPS

(***************************************************************************)
(* Every non-empty set of naturals has a least element: the initial        *)
(* segments below its members are finite sets, well-founded by inclusion.  *)
(***************************************************************************)
LEMMA LeastNatural ==
  ASSUME NEW T, T \subseteq Nat, T # {}
  PROVE  \E x \in T : \A y \in T : x <= y
<1>1. PICK k \in T : TRUE OBVIOUS
<1> DEFINE Segment(x) == 0 .. (x - 1)
           S == 0 .. k
           F == {Segment(x) : x \in T \cap S}
<1>2. F \subseteq FiniteSubsetsOf(S)
  <2>1. \A x \in T \cap S : Segment(x) \in SUBSET S /\ IsFiniteSet(Segment(x))
    BY FS_Interval
  <2>2. QED BY <2>1 DEF FiniteSubsetsOf
<1>3. F # {} BY <1>1
<1>4. IsWellFoundedOn(StrictSubsetOrdering(S), FiniteSubsetsOf(S))
  BY FS_StrictSubsetOrderingWellFounded
<1> HIDE DEF F
<1>5. PICK b \in F : \A c \in F : ~ (<<c, b>> \in StrictSubsetOrdering(S))
  BY <1>2, <1>3, <1>4, WFMin
<1> USE DEF F
<1>6. PICK x \in T \cap S : b = Segment(x) BY <1>5
<1>7. ASSUME NEW y \in T, y < x PROVE FALSE
  <2>1. y \in T \cap S BY <1>7, <1>6
  <2>2. Segment(y) \in F BY <2>1
  <2>3. Segment(y) \in SUBSET S /\ b \in SUBSET S BY <2>1, <1>6
  <2>4. Segment(y) \subseteq b /\ Segment(y) # b
    <3>1. y \in b /\ y \notin Segment(y) BY <1>6, <1>7
    <3>2. QED BY <3>1, <1>6, <1>7
  <2>5. <<Segment(y), b>> \in StrictSubsetOrdering(S)
    BY <2>3, <2>4 DEF StrictSubsetOrdering
  <2>6. QED BY <2>2, <2>5, <1>5
<1>8. QED BY <1>6, <1>7

(***************************************************************************)
(* Induction over the naturals, stated for a set: a set that holds zero    *)
(* and every successor of its members holds every natural.                 *)
(***************************************************************************)
LEMMA SetInduction ==
  ASSUME NEW P, 0 \in P, \A n \in Nat : n \in P => n + 1 \in P
  PROVE  Nat \subseteq P
<1> DEFINE T == Nat \ P
<1>1. SUFFICES ASSUME T # {} PROVE FALSE OBVIOUS
<1> HIDE DEF T
<1>2. PICK x \in T : \A y \in T : x <= y
  BY <1>1, LeastNatural DEF T
<1>3. x \in Nat /\ x \notin P BY <1>2 DEF T
<1>4. x # 0 BY <1>3
<1>5. x - 1 \in Nat BY <1>3, <1>4
<1>6. x - 1 \in P BY <1>2, <1>3, <1>5 DEF T
<1>7. (x - 1) + 1 \in P BY <1>5, <1>6
<1>8. QED BY <1>3, <1>7

(* The defining equation of the partial sums of f up to n.                 *)
IsSum(s, f, n) == s = [i \in 0 .. n |-> IF i = 0 THEN 0 ELSE s[i - 1] + f[i - 1]]

(* Partial sums exist for every length.                                    *)
LEMMA SumExists ==
  ASSUME NEW f, NEW n \in Nat
  PROVE  \E s : IsSum(s, f, n)
<1> DEFINE P == {m \in Nat : \E s : IsSum(s, f, m)}
<1>1. 0 \in P
  <2>1. IsSum([i \in 0 .. 0 |-> 0], f, 0)
    BY DEF IsSum
  <2>2. QED BY <2>1
<1>2. ASSUME NEW m \in Nat, m \in P
      PROVE  m + 1 \in P
  <2>1. PICK s : IsSum(s, f, m) BY <1>2
  <2> DEFINE t == [i \in 0 .. m + 1 |-> IF i = m + 1 THEN s[m] + f[m] ELSE s[i]]
  <2>2. \A i \in 0 .. m + 1 : t[i] = IF i = 0 THEN 0 ELSE t[i - 1] + f[i - 1]
    BY <2>1 DEF IsSum
  <2>3. t = [i \in 0 .. m + 1 |-> t[i]] OBVIOUS
  <2> HIDE DEF t
  <2>4. IsSum(t, f, m + 1) BY <2>2, <2>3 DEF IsSum
  <2>5. QED BY <2>4
<1> HIDE DEF P
<1>3. Nat \subseteq P BY <1>1, <1>2, SetInduction
<1>4. QED BY <1>3 DEF P

(* Two partial sums of functions that agree, agree wherever both exist.    *)
LEMMA SumUnique ==
  ASSUME NEW f, NEW g, NEW s, NEW t, NEW n \in Nat, NEW m \in Nat, n <= m,
         IsSum(s, f, n), IsSum(t, g, m), \A i \in 0 .. n - 1 : f[i] = g[i]
  PROVE  \A i \in 0 .. n : s[i] = t[i]
<1> DEFINE P == {i \in Nat : i <= n => s[i] = t[i]}
<1>1. 0 \in P BY DEF IsSum
<1>2. ASSUME NEW i \in Nat, i \in P PROVE i + 1 \in P
  BY <1>2 DEF IsSum
<1> HIDE DEF P
<1>3. Nat \subseteq P BY <1>1, <1>2, SetInduction
<1>4. QED BY <1>3 DEF P

(* SumBelow is the last partial sum.                                       *)
LEMMA SumUnfold ==
  ASSUME NEW f, NEW n \in Nat
  PROVE  \E s : IsSum(s, f, n) /\ SumBelow(f, n) = s[n]
<1>1. PICK s : IsSum(s, f, n) BY SumExists
<1> DEFINE c == CHOOSE r : r = [i \in 0 .. n |-> IF i = 0 THEN 0 ELSE r[i - 1] + f[i - 1]]
<1>2. IsSum(c, f, n) BY <1>1 DEF IsSum
<1>3. SumBelow(f, n) = c[n] BY DEF SumBelow
<1>4. QED BY <1>2, <1>3

(* The sum of nothing.                                                     *)
LEMMA SumEmpty == \A f : SumBelow(f, 0) = 0
BY SumUnfold DEF IsSum

(* One more term.                                                          *)
LEMMA SumStep ==
  ASSUME NEW f, NEW n \in Nat
  PROVE  SumBelow(f, n + 1) = SumBelow(f, n) + f[n]
<1>1. PICK s : IsSum(s, f, n) /\ SumBelow(f, n) = s[n] BY SumUnfold
<1>2. PICK t : IsSum(t, f, n + 1) /\ SumBelow(f, n + 1) = t[n + 1]
  <2>1. n + 1 \in Nat OBVIOUS
  <2>2. QED BY <2>1, SumUnfold
<1>3. s[n] = t[n]
  <2>1. \A i \in 0 .. n : s[i] = t[i] BY <1>1, <1>2, SumUnique
  <2>2. QED BY <2>1
<1>4. t[n + 1] = t[n] + f[n] BY <1>2 DEF IsSum
<1>5. QED BY <1>1, <1>2, <1>3, <1>4

(* The sum of integers is an integer, of naturals a natural.               *)
LEMMA SumInt ==
  ASSUME NEW f, NEW n \in Nat, \A i \in 0 .. n - 1 : f[i] \in Int
  PROVE  SumBelow(f, n) \in Int
<1> DEFINE P == {m \in Nat : m <= n => SumBelow(f, m) \in Int}
<1>1. 0 \in P BY SumEmpty
<1>2. ASSUME NEW m \in Nat, m \in P PROVE m + 1 \in P
  BY <1>2, SumStep
<1> HIDE DEF P
<1>3. Nat \subseteq P BY <1>1, <1>2, SetInduction
<1>4. QED BY <1>3 DEF P

(***************************************************************************)
(* Sums of ordered terms are ordered; the same proof gives equal terms     *)
(* equal sums.                                                             *)
(***************************************************************************)
LEMMA SumOrder ==
  ASSUME NEW f, NEW g, NEW n \in Nat,
         \A i \in 0 .. n - 1 : f[i] \in Int /\ g[i] \in Int /\ f[i] <= g[i]
  PROVE  SumBelow(f, n) <= SumBelow(g, n)
<1> DEFINE P == {m \in Nat : m <= n => /\ SumBelow(f, m) \in Int
                                       /\ SumBelow(g, m) \in Int
                                       /\ SumBelow(f, m) <= SumBelow(g, m)}
<1>1. 0 \in P BY SumEmpty
<1>2. ASSUME NEW m \in Nat, m \in P PROVE m + 1 \in P
  BY <1>2, SumStep
<1> HIDE DEF P
<1>3. Nat \subseteq P BY <1>1, <1>2, SetInduction
<1>4. QED BY <1>3 DEF P

LEMMA SumAgree ==
  ASSUME NEW f, NEW g, NEW n \in Nat, \A i \in 0 .. n - 1 : f[i] = g[i]
  PROVE  SumBelow(f, n) = SumBelow(g, n)
<1> DEFINE P == {m \in Nat : m <= n => SumBelow(f, m) = SumBelow(g, m)}
<1>1. 0 \in P BY SumEmpty
<1>2. ASSUME NEW m \in Nat, m \in P PROVE m + 1 \in P
  BY <1>2, SumStep
<1> HIDE DEF P
<1>3. Nat \subseteq P BY <1>1, <1>2, SetInduction
<1>4. QED BY <1>3 DEF P

(* A sum of zeros.                                                         *)
LEMMA SumZero ==
  ASSUME NEW f, NEW n \in Nat, \A i \in 0 .. n - 1 : f[i] = 0
  PROVE  SumBelow(f, n) = 0
<1> DEFINE P == {m \in Nat : m <= n => SumBelow(f, m) = 0}
<1>1. 0 \in P BY SumEmpty
<1>2. ASSUME NEW m \in Nat, m \in P PROVE m + 1 \in P
  BY <1>2, SumStep
<1> HIDE DEF P
<1>3. Nat \subseteq P BY <1>1, <1>2, SetInduction
<1>4. QED BY <1>3 DEF P

LEMMA SumNat ==
  ASSUME NEW f, NEW n \in Nat, \A i \in 0 .. n - 1 : f[i] \in Nat
  PROVE  SumBelow(f, n) \in Nat
<1> DEFINE P == {m \in Nat : m <= n => SumBelow(f, m) \in Nat}
<1>1. 0 \in P BY SumEmpty
<1>2. ASSUME NEW m \in Nat, m \in P PROVE m + 1 \in P
  BY <1>2, SumStep
<1> HIDE DEF P
<1>3. Nat \subseteq P BY <1>1, <1>2, SetInduction
<1>4. QED BY <1>3 DEF P

(* One changed term changes the sum by the same amount.                    *)
LEMMA SumUpdate ==
  ASSUME NEW f, NEW g, NEW n \in Nat, NEW k \in 0 .. n - 1,
         \A i \in 0 .. n - 1 : f[i] \in Int /\ g[i] \in Int,
         \A i \in 0 .. n - 1 : i # k => g[i] = f[i]
  PROVE  SumBelow(g, n) = SumBelow(f, n) + (g[k] - f[k])
<1> DEFINE P == {m \in Nat : m <= n =>
                   /\ SumBelow(f, m) \in Int /\ SumBelow(g, m) \in Int
                   /\ SumBelow(g, m) = SumBelow(f, m) + (IF k < m THEN g[k] - f[k] ELSE 0)}
<1>1. 0 \in P BY SumEmpty
<1>2. ASSUME NEW m \in Nat, m \in P PROVE m + 1 \in P
  BY <1>2, SumStep
<1> HIDE DEF P
<1>3. Nat \subseteq P BY <1>1, <1>2, SetInduction
<1>4. QED BY <1>3 DEF P

(* The same for functions on an interval, as the model's are.              *)
LEMMA SumMove ==
  ASSUME NEW n \in Nat, NEW k \in 0 .. n - 1, NEW delta \in Int,
         NEW f \in [0 .. n - 1 -> Nat], NEW g \in [0 .. n - 1 -> Nat],
         g[k] = f[k] + delta, \A i \in 0 .. n - 1 : i # k => g[i] = f[i]
  PROVE  /\ SumBelow(f, n) \in Nat
         /\ SumBelow(g, n) = SumBelow(f, n) + delta
<1>1. \A i \in 0 .. n - 1 : f[i] \in Nat /\ g[i] \in Nat OBVIOUS
<1>2. \A i \in 0 .. n - 1 : f[i] \in Int /\ g[i] \in Int BY <1>1
<1>3. SumBelow(g, n) = SumBelow(f, n) + (g[k] - f[k]) BY <1>2, SumUpdate
<1>4. SumBelow(f, n) \in Nat BY <1>1, SumNat
<1>5. g[k] - f[k] = delta BY <1>1
<1>6. QED BY <1>3, <1>4, <1>5

(* A term of a sum of naturals is at most the sum.                         *)
LEMMA SumTerm ==
  ASSUME NEW f, NEW n \in Nat, NEW k \in 0 .. n - 1,
         \A i \in 0 .. n - 1 : f[i] \in Nat
  PROVE  f[k] <= SumBelow(f, n)
<1> DEFINE P == {m \in Nat : m <= n => /\ SumBelow(f, m) \in Nat
                                       /\ k < m => f[k] <= SumBelow(f, m)}
<1>1. 0 \in P BY SumEmpty
<1>2. ASSUME NEW m \in Nat, m \in P PROVE m + 1 \in P
  BY <1>2, SumStep
<1> HIDE DEF P
<1>3. Nat \subseteq P BY <1>1, <1>2, SetInduction
<1>4. QED BY <1>3 DEF P

(* A sum of terms f + g * c splits into the two sums.                      *)
LEMMA SumScaled ==
  ASSUME NEW f, NEW g, NEW h, NEW c \in Int, NEW n \in Nat,
         \A i \in 0 .. n - 1 : f[i] \in Int /\ g[i] \in Int /\ h[i] = f[i] + g[i] * c
  PROVE  SumBelow(h, n) = SumBelow(f, n) + SumBelow(g, n) * c
<1> DEFINE P == {m \in Nat : m <= n =>
                   /\ SumBelow(f, m) \in Int /\ SumBelow(g, m) \in Int
                   /\ SumBelow(h, m) = SumBelow(f, m) + SumBelow(g, m) * c}
<1>1. 0 \in P BY SumEmpty
<1>2. ASSUME NEW m \in Nat, m \in P PROVE m + 1 \in P
  <2>1. SUFFICES ASSUME m + 1 <= n
                 PROVE  /\ SumBelow(f, m + 1) \in Int /\ SumBelow(g, m + 1) \in Int
                        /\ SumBelow(h, m + 1) = SumBelow(f, m + 1) + SumBelow(g, m + 1) * c
    OBVIOUS
  <2>2. /\ SumBelow(f, m) \in Int /\ SumBelow(g, m) \in Int
        /\ SumBelow(h, m) = SumBelow(f, m) + SumBelow(g, m) * c
    BY <1>2, <2>1
  <2>3. f[m] \in Int /\ g[m] \in Int /\ h[m] = f[m] + g[m] * c BY <2>1
  <2>4. /\ SumBelow(f, m + 1) = SumBelow(f, m) + f[m]
        /\ SumBelow(g, m + 1) = SumBelow(g, m) + g[m]
        /\ SumBelow(h, m + 1) = SumBelow(h, m) + h[m]
    BY SumStep
  <2>5. \A a, b, x, y \in Int : (a + b * c) + (x + y * c) = (a + x) + (b + y) * c
    OBVIOUS
  <2>6. QED BY <2>2, <2>3, <2>4, <2>5
<1> HIDE DEF P
<1>3. Nat \subseteq P BY <1>1, <1>2, SetInduction
<1>4. QED BY <1>3 DEF P

-----------------------------------------------------------------------------
(* Floor division of naturals.                                             *)

LEMMA DivNat ==
  ASSUME NEW a \in Nat, NEW d \in Nat \ {0}
  PROVE  a \div d \in Nat /\ d * (a \div d) <= a /\ a < d * (a \div d) + d
OBVIOUS

LEMMA DivBound ==
  ASSUME NEW a \in Nat, NEW b \in Nat, NEW d \in Nat \ {0}, a <= b * d
  PROVE  a \div d <= b
<1> DEFINE q == a \div d
<1>1. q \in Nat /\ d * q <= a BY DivNat
<1>2. SUFFICES ASSUME q >= b + 1 PROVE FALSE BY <1>1
<1> HIDE DEF q
<1>3. d * q >= d * (b + 1) BY <1>1, <1>2
<1>4. d * (b + 1) = b * d + d OBVIOUS
<1>5. QED BY <1>1, <1>3, <1>4

(* Dividing a multiple is exact, and a remainder is what is missing.       *)
LEMMA DivExact ==
  ASSUME NEW a \in Nat, NEW d \in Nat \ {0}
  PROVE  (a * d) \div d = a
<1> DEFINE q == (a * d) \div d
<1>1. a * d \in Nat OBVIOUS
<1>2. q \in Nat /\ d * q <= a * d /\ a * d < d * q + d BY <1>1, DivNat
<1> HIDE DEF q
<1>3. q <= a
  <2>1. SUFFICES ASSUME q >= a + 1 PROVE FALSE BY <1>2
  <2>2. d * q >= d * (a + 1) BY <1>2, <2>1
  <2>3. d * (a + 1) = a * d + d OBVIOUS
  <2>4. QED BY <1>2, <2>2, <2>3
<1>4. q >= a
  <2>1. SUFFICES ASSUME q + 1 <= a PROVE FALSE BY <1>2
  <2>2. d * (q + 1) <= d * a BY <1>2, <2>1
  <2>3. d * (q + 1) = d * q + d BY <1>2
  <2>4. d * a = a * d OBVIOUS
  <2>5. d * (q + 1) \in Int /\ a * d \in Int BY <1>2
  <2>6. QED BY <1>2, <2>2, <2>3, <2>4, <2>5
<1>5. q = a BY <1>2, <1>3, <1>4
<1>6. QED BY <1>5 DEF q

LEMMA ModRest ==
  ASSUME NEW a \in Nat, NEW d \in Nat \ {0}
  PROVE  a % d \in Nat /\ d * (a \div d) + (a % d) = a
OBVIOUS

-----------------------------------------------------------------------------
(* Ranks.                                                                  *)

(***************************************************************************)
(* Every rank below the number of members of a set is the rank of one of   *)
(* them, so that the ascending list of a set holds each of its members     *)
(* once.                                                                   *)
(***************************************************************************)
LEMMA FinitePart ==
  ASSUME NEW S, IsFiniteSet(S), NEW T \in SUBSET S, NEW x \in S, x \notin T
  PROVE  Cardinality(T) \in Nat /\ Cardinality(T) < Cardinality(S)
<1>1. IsFiniteSet(T) /\ Cardinality(T) <= Cardinality(S) /\ Cardinality(T) # Cardinality(S)
  BY FS_Subset
<1>2. Cardinality(T) \in Nat /\ Cardinality(S) \in Nat BY <1>1, FS_CardinalityType
<1>3. QED BY <1>1, <1>2

LEMMA PositionsFinite ==
  ASSUME NEW n \in Nat
  PROVE  IsFiniteSet(1 .. n) /\ Cardinality(1 .. n) = n
<1>1. 1 \in Int /\ n \in Int OBVIOUS
<1>2. QED BY <1>1, FS_Interval

LEMMA RanksApart ==
  ASSUME NEW S \in SUBSET Int, IsFiniteSet(S), NEW x \in S
  PROVE  /\ Cardinality(Below(S, x)) \in Nat /\ Cardinality(S) \in Nat
         /\ Cardinality(Below(S, x)) < Cardinality(S)
         /\ \A y \in S : x < y => Cardinality(Below(S, x)) < Cardinality(Below(S, y))
<1>1. ASSUME NEW y \in S, x < y
      PROVE  Cardinality(Below(S, x)) < Cardinality(Below(S, y))
  <2>0. \A z \in S : z \in Int OBVIOUS
  <2>b. \A z \in S : z < x => z < y BY <1>1, <2>0
  <2>1. Below(S, x) \subseteq Below(S, y) BY <2>b, Zenon DEF Below
  <2>a. x \in Below(S, y) /\ x \notin Below(S, x) BY <1>1, <2>0 DEF Below
  <2>2. Below(S, y) \subseteq S BY DEF Below
  <2>3. IsFiniteSet(Below(S, y)) BY <2>2, FS_Subset
  <2>4. QED BY <2>1, <2>a, <2>3, FinitePart
<1>2. Below(S, x) \subseteq S /\ x \notin Below(S, x) BY DEF Below
<1>3. Cardinality(Below(S, x)) <= Cardinality(S) /\ Below(S, x) # S /\ IsFiniteSet(Below(S, x))
  BY <1>2, FS_Subset
<1>4. Cardinality(Below(S, x)) \in Nat /\ Cardinality(S) \in Nat BY <1>3, FS_CardinalityType
<1>5. Cardinality(Below(S, x)) < Cardinality(S) BY <1>2, FinitePart
<1>6. QED BY <1>1, <1>4, <1>5

LEMMA AscendingLists ==
  ASSUME NEW S \in SUBSET Int, IsFiniteSet(S)
  PROVE  /\ Cardinality(S) \in Nat
         /\ Ascending(S) \in [1 .. Cardinality(S) -> S]
         /\ \A x \in S : \E n \in 1 .. Cardinality(S) : Ascending(S)[n] = x
         /\ \A m, n \in 1 .. Cardinality(S) : Ascending(S)[m] = Ascending(S)[n] => m = n
<1> DEFINE size == Cardinality(S)
           rank == [x \in S |-> Cardinality(Below(S, x)) + 1]
<1>1. size \in Nat BY FS_CardinalityType
<1>2. rank \in [S -> 1 .. size]
  <2>1. ASSUME NEW x \in S PROVE Cardinality(Below(S, x)) + 1 \in 1 .. size BY RanksApart
  <2>2. QED BY <2>1
<1>3. \A x, y \in S : rank[x] = rank[y] => x = y
  <2> SUFFICES ASSUME NEW x \in S, NEW y \in S, rank[x] = rank[y], x # y PROVE FALSE OBVIOUS
  <2>1. x < y \/ y < x OBVIOUS
  <2>2. QED BY <2>1, RanksApart
<1>4. rank \in Injection(S, 1 .. size) BY <1>2, <1>3 DEF Injection, IsInjective
<1>5. IsFiniteSet(1 .. size) /\ Cardinality(1 .. size) = size BY <1>1, PositionsFinite
<1>6. rank \in Surjection(S, 1 .. size) BY <1>4, <1>5, FS_Injection
<1>7. \A n \in 1 .. size : \E x \in S : Cardinality(Below(S, x)) = n - 1
  <2> SUFFICES ASSUME NEW n \in 1 .. size PROVE \E x \in S : Cardinality(Below(S, x)) = n - 1 OBVIOUS
  <2>1. PICK x \in S : rank[x] = n BY <1>6 DEF Surjection
  <2>2. Cardinality(Below(S, x)) \in Nat BY RanksApart
  <2>3. QED BY <1>1, <2>1, <2>2
<1>8. \A n \in 1 .. size : /\ Ascending(S)[n] \in S
                          /\ Cardinality(Below(S, Ascending(S)[n])) = n - 1
  BY <1>7 DEF Ascending
<1>9. Ascending(S) \in [1 .. size -> S] BY <1>8 DEF Ascending
<1>10. ASSUME NEW x \in S PROVE \E n \in 1 .. size : Ascending(S)[n] = x
  <2>1. rank[x] \in 1 .. size BY <1>2
  <2>2. Cardinality(Below(S, Ascending(S)[rank[x]])) = rank[x] - 1 /\ Ascending(S)[rank[x]] \in S
    BY <1>8, <2>1
  <2>3. Cardinality(Below(S, Ascending(S)[rank[x]])) \in Nat BY <2>2, RanksApart
  <2>4. rank[Ascending(S)[rank[x]]] = rank[x] BY <2>2, <2>3, <1>1, <2>1
  <2>5. Ascending(S)[rank[x]] = x BY <1>3, <2>2, <2>4
  <2>6. QED BY <2>1, <2>5
<1>11. \A m, n \in 1 .. size : Ascending(S)[m] = Ascending(S)[n] => m = n
  <2> SUFFICES ASSUME NEW m \in 1 .. size, NEW n \in 1 .. size, Ascending(S)[m] = Ascending(S)[n]
               PROVE  m = n
    OBVIOUS
  <2>1. m - 1 = n - 1 BY <1>8
  <2>2. QED BY <1>1, <2>1
<1>12. QED BY <1>1, <1>9, <1>10, <1>11


-----------------------------------------------------------------------------
(* What filtering and sorting a list return, whatever its length.          *)

(* An ascending list is known by the ranks of its members.                 *)
LEMMA AscendingAt ==
  ASSUME NEW S \in SUBSET Int, IsFiniteSet(S), NEW x \in S
  PROVE  /\ Cardinality(Below(S, x)) + 1 \in 1 .. Cardinality(S)
         /\ Ascending(S)[Cardinality(Below(S, x)) + 1] = x
<1> DEFINE rank(y) == Cardinality(Below(S, y))
           n == rank(x) + 1
<1>1. \A y \in S : rank(y) \in Nat /\ rank(y) < Cardinality(S) /\ Cardinality(S) \in Nat BY RanksApart
<1>2. n \in 1 .. Cardinality(S) /\ rank(x) = n - 1 BY <1>1
<1>3. ASSUME NEW y \in S, rank(y) = n - 1 PROVE y = x
  <2>1. ~ (x < y) /\ ~ (y < x) BY <1>1, <1>2, <1>3, RanksApart
  <2>2. x \in Int /\ y \in Int OBVIOUS
  <2>3. QED BY <2>1, <2>2
<1>4. Ascending(S)[n] = CHOOSE y \in S : rank(y) = n - 1 BY <1>2 DEF Ascending
<1> HIDE DEF n, rank
<1>5. QED BY <1>2, <1>3, <1>4 DEF n, rank

(* It ascends.                                                             *)
LEMMA AscendingOrder ==
  ASSUME NEW S \in SUBSET Int, IsFiniteSet(S),
         NEW m \in 1 .. Cardinality(S), NEW n \in 1 .. Cardinality(S), m < n
  PROVE  Ascending(S)[m] < Ascending(S)[n]
<1> DEFINE x == Ascending(S)[m]
           y == Ascending(S)[n]
<1>1. Cardinality(S) \in Nat /\ x \in S /\ y \in S BY AscendingLists
<1>2. PICK i \in Nat : i = Cardinality(Below(S, x)) BY <1>1, RanksApart
<1>3. PICK j \in Nat : j = Cardinality(Below(S, y)) BY <1>1, RanksApart
<1>4. i + 1 \in 1 .. Cardinality(S) /\ Ascending(S)[i + 1] = x BY <1>1, <1>2, AscendingAt
<1>5. j + 1 \in 1 .. Cardinality(S) /\ Ascending(S)[j + 1] = y BY <1>1, <1>3, AscendingAt
<1>6. i + 1 = m /\ j + 1 = n BY <1>4, <1>5, AscendingLists
<1>7. x \in Int /\ y \in Int BY <1>1
<1>8. ~ (y < x) /\ x # y
  <2>1. y < x => j < i BY <1>1, <1>2, <1>3, RanksApart
  <2>2. QED BY <1>1, <1>2, <1>3, <1>6, <2>1
<1>9. QED BY <1>7, <1>8

(* One more member, above the others, comes last.                          *)
LEMMA AscendingNext ==
  ASSUME NEW S \in SUBSET Int, IsFiniteSet(S), NEW x \in Int, \A y \in S : y < x
  PROVE  LET U == S \cup {x}
         IN  /\ IsFiniteSet(U) /\ Cardinality(U) = Cardinality(S) + 1
             /\ Ascending(U)[Cardinality(S) + 1] = x
             /\ \A n \in 1 .. Cardinality(S) : Ascending(U)[n] = Ascending(S)[n]
<1> DEFINE U == S \cup {x}
<1>1. x \notin S BY SMT
<1>2. IsFiniteSet(U) /\ Cardinality(U) = Cardinality(S) + 1 BY <1>1, FS_AddElement
<1>3. U \in SUBSET Int /\ x \in U OBVIOUS
<1>4. Below(U, x) = S
  <2>1. \A y \in U : y < x <=> y \in S BY <1>1
  <2>2. QED BY <2>1 DEF Below
<1>5. Ascending(U)[Cardinality(S) + 1] = x BY <1>2, <1>3, <1>4, AscendingAt
<1>6. ASSUME NEW n \in 1 .. Cardinality(S) PROVE Ascending(U)[n] = Ascending(S)[n]
  <2>1. Ascending(S)[n] \in S BY AscendingLists
  <2>2. PICK y \in S : y = Ascending(S)[n] BY <2>1
  <2>3. Below(U, y) = Below(S, y)
    <3>1. y < x /\ x \in Int /\ y \in Int OBVIOUS
    <3>2. ~ (x < y) BY <3>1
    <3>3. QED BY <3>2 DEF Below
  <2>4. /\ Cardinality(Below(S, y)) + 1 \in 1 .. Cardinality(S)
        /\ Ascending(S)[Cardinality(Below(S, y)) + 1] = y
    BY AscendingAt
  <2>5. Cardinality(Below(S, y)) + 1 = n BY <2>2, <2>4, AscendingLists
  <2>6. Ascending(U)[Cardinality(Below(U, y)) + 1] = y BY <1>2, <1>3, AscendingAt
  <2>7. QED BY <2>2, <2>3, <2>5, <2>6
<1>7. QED BY <1>2, <1>5, <1>6

(* The first naturals in ascending order.                                  *)
LEMMA AscendingPositions ==
  ASSUME NEW n \in Nat
  PROVE  /\ Cardinality(1 .. n) = n
         /\ \A i \in 1 .. n : Ascending(1 .. n)[i] = i
<1>1. IsFiniteSet(1 .. n) /\ Cardinality(1 .. n) = n BY PositionsFinite
<1>2. ASSUME NEW i \in 1 .. n PROVE Ascending(1 .. n)[i] = i
  <2>1. Below(1 .. n, i) = 1 .. (i - 1) BY DEF Below
  <2>2. i - 1 \in Nat OBVIOUS
  <2>3. Cardinality(Below(1 .. n, i)) = i - 1 BY <2>1, <2>2, PositionsFinite
  <2>4. 1 .. n \in SUBSET Int OBVIOUS
  <2>5. Ascending(1 .. n)[Cardinality(Below(1 .. n, i)) + 1] = i BY <1>1, <2>4, AscendingAt
  <2>6. (i - 1) + 1 = i OBVIOUS
  <2>7. QED BY <2>3, <2>5, <2>6
<1>3. QED BY <1>1, <1>2

(***************************************************************************)
(* What is kept of a list: as many entries as positions, each from one of  *)
(* them and none of them twice, in their order.                            *)
(***************************************************************************)
LEMMA KeptList ==
  ASSUME NEW T, NEW s \in Seq(T), NEW P \in SUBSET (1 .. Len(s))
  PROVE  /\ IsFiniteSet(P) /\ Cardinality(P) \in Nat /\ Cardinality(P) <= Len(s)
         /\ Kept(s, P) \in Seq(T) /\ Len(Kept(s, P)) = Cardinality(P)
         /\ Ascending(P) \in [1 .. Cardinality(P) -> P]
         /\ \A n \in 1 .. Cardinality(P) : Kept(s, P)[n] = s[Ascending(P)[n]]
         /\ \A i \in P : \E n \in 1 .. Cardinality(P) : Ascending(P)[n] = i
         /\ \A m, n \in 1 .. Cardinality(P) : m < n => Ascending(P)[m] < Ascending(P)[n]
<1>1. DOMAIN s = 1 .. Len(s) /\ Len(s) \in Nat /\ \A i \in 1 .. Len(s) : s[i] \in T OBVIOUS
<1>2. IsFiniteSet(1 .. Len(s)) /\ Cardinality(1 .. Len(s)) = Len(s) BY <1>1, PositionsFinite
<1>3. IsFiniteSet(P) /\ Cardinality(P) <= Len(s) BY <1>2, FS_Subset
<1>4. P \in SUBSET Int OBVIOUS
<1>5. /\ Cardinality(P) \in Nat /\ Ascending(P) \in [1 .. Cardinality(P) -> P]
      /\ \A i \in P : \E n \in 1 .. Cardinality(P) : Ascending(P)[n] = i
  BY <1>3, <1>4, AscendingLists
<1>6. \A m, n \in 1 .. Cardinality(P) : m < n => Ascending(P)[m] < Ascending(P)[n]
  BY <1>3, <1>4, AscendingOrder
<1>7. Kept(s, P) = [n \in 1 .. Cardinality(P) |-> s[Ascending(P)[n]]] BY <1>5 DEF Kept
<1>8. \A n \in 1 .. Cardinality(P) : s[Ascending(P)[n]] \in T BY <1>1, <1>5
<1>9. Kept(s, P) \in Seq(T) /\ Len(Kept(s, P)) = Cardinality(P) BY <1>5, <1>7, <1>8
<1>10. QED BY <1>3, <1>5, <1>6, <1>7, <1>9

(* A filter that nothing fails returns the list.                           *)
LEMMA KeptAll ==
  ASSUME NEW T, NEW s \in Seq(T)
  PROVE  Kept(s, 1 .. Len(s)) = s
<1>1. Len(s) \in Nat /\ s = [i \in 1 .. Len(s) |-> s[i]] OBVIOUS
<1>2. /\ Cardinality(1 .. Len(s)) = Len(s) /\ \A i \in 1 .. Len(s) : Ascending(1 .. Len(s))[i] = i
  BY <1>1, AscendingPositions
<1>3. DOMAIN Ascending(1 .. Len(s)) = 1 .. Len(s) BY <1>2 DEF Ascending
<1>4. Kept(s, 1 .. Len(s)) = [i \in 1 .. Len(s) |-> s[i]] BY <1>2, <1>3 DEF Kept
<1>5. QED BY <1>1, <1>4

(* Adding up what is kept is adding up the list with the rest left out.    *)
LEMMA KeptSum ==
  ASSUME NEW n \in Nat, NEW P \in SUBSET (1 .. n), NEW w,
         \A i \in 1 .. n : w[i] \in Int
  PROVE  SumBelow([k \in 0 .. Cardinality(P) - 1 |-> w[Ascending(P)[k + 1]]], Cardinality(P))
           = SumBelow([k \in 0 .. n - 1 |-> IF k + 1 \in P THEN w[k + 1] ELSE 0], n)
<1> DEFINE part(m) == {i \in P : i <= m}
           left(m) == [k \in 0 .. Cardinality(part(m)) - 1 |-> w[Ascending(part(m))[k + 1]]]
           all == [k \in 0 .. n - 1 |-> IF k + 1 \in P THEN w[k + 1] ELSE 0]
           Q == {m \in Nat : m <= n => SumBelow(left(m), Cardinality(part(m))) = SumBelow(all, m)}
<1>0. IsFiniteSet(P) BY PositionsFinite, FS_Subset
<1>a. \A i \in P : i \in Nat /\ i >= 1 /\ i <= n OBVIOUS
<1>1. 0 \in Q
  <2>a. \A i \in P : ~ (i <= 0) BY <1>a
  <2>1. part(0) = {} BY <2>a
  <2>2. Cardinality(part(0)) = 0 BY <2>1, FS_EmptySet
  <2> HIDE DEF part, all
  <2>3. QED BY <2>2, SumEmpty
<1>2. ASSUME NEW m \in Nat, m \in Q PROVE m + 1 \in Q
  <2>1. SUFFICES ASSUME m + 1 <= n
                 PROVE  SumBelow(left(m + 1), Cardinality(part(m + 1))) = SumBelow(all, m + 1)
    OBVIOUS
  <2>2. SumBelow(left(m), Cardinality(part(m))) = SumBelow(all, m) BY <1>2, <2>1
  <2>3. SumBelow(all, m + 1) = SumBelow(all, m) + all[m] BY SumStep
  <2>a. part(m) \subseteq P OBVIOUS
  <2>c. P \subseteq Int BY <1>a
  <2>4. part(m) \in SUBSET Int /\ IsFiniteSet(part(m)) BY <1>0, <2>a, <2>c, FS_Subset
  <2>5. Cardinality(part(m)) \in Nat BY <2>4, FS_CardinalityType
  <2>b. SumBelow(all, m) \in Int
    <3>1. \A k \in 0 .. m - 1 : all[k] \in Int BY <2>1
    <3> HIDE DEF all
    <3>2. QED BY <3>1, SumInt
  <2>6. CASE m + 1 \in P
    <3>0. \A i \in P : i <= m + 1 <=> i <= m \/ i = m + 1 BY <1>a
    <3>1. part(m + 1) = part(m) \cup {m + 1} BY <3>0, <2>6
    <3>2. \A y \in part(m) : y < m + 1 OBVIOUS
    <3>a. m + 1 \in Int OBVIOUS
    <3>3. all[m] = w[m + 1] BY <2>1, <2>6
    <3> DEFINE c == Cardinality(part(m))
               big == part(m + 1)
    <3> HIDE DEF part, all
    <3>4. /\ Cardinality(big) = c + 1 /\ Ascending(big)[c + 1] = m + 1
          /\ \A i \in 1 .. c : Ascending(big)[i] = Ascending(part(m))[i]
      BY <2>4, <3>1, <3>2, <3>a, AscendingNext
    <3> HIDE DEF c, big
    <3> DEFINE f == [k \in 0 .. Cardinality(big) - 1 |-> w[Ascending(big)[k + 1]]]
               g == [k \in 0 .. c - 1 |-> w[Ascending(part(m))[k + 1]]]
    <3>5. c \in Nat BY <2>5 DEF c
    <3>6. f[c] = w[m + 1] BY <3>4, <3>5
    <3>7. \A k \in 0 .. c - 1 : f[k] = g[k] BY <3>4, <3>5
    <3> HIDE DEF f, g
    <3>8. SumBelow(f, c) = SumBelow(g, c) BY <3>5, <3>7, SumAgree
    <3>9. SumBelow(f, c + 1) = SumBelow(f, c) + f[c] BY <3>5, SumStep
    <3>10. SumBelow(g, c) = SumBelow(all, m) BY <2>2 DEF g, c
    <3>11. SumBelow(f, Cardinality(big)) = SumBelow(all, m + 1)
      BY <2>3, <3>3, <3>4, <3>6, <3>8, <3>9, <3>10
    <3>12. QED BY <3>11 DEF f, big
  <2>7. CASE m + 1 \notin P
    <3>0. \A i \in P : i <= m + 1 <=> i <= m BY <1>a, <2>7
    <3>1. part(m + 1) = part(m) BY <3>0
    <3>2. all[m] = 0 BY <2>1, <2>7
    <3>3. SumBelow(all, m + 1) = SumBelow(all, m) + 0 BY <2>3, <3>2
    <3> HIDE DEF part, all
    <3>4. SumBelow(left(m + 1), Cardinality(part(m + 1))) = SumBelow(all, m) BY <2>2, <3>1
    <3>5. SumBelow(all, m) \in Int BY <2>b
    <3>6. QED BY <3>3, <3>4, <3>5
  <2>8. QED BY <2>6, <2>7
<1>3. part(n) = P BY <1>a
<1> HIDE DEF Q
<1>4. Nat \subseteq Q BY <1>1, <1>2, SetInduction
<1> HIDE DEF part, all
<1>5. SumBelow(left(n), Cardinality(part(n))) = SumBelow(all, n) BY <1>4 DEF Q
<1>6. QED BY <1>3, <1>5 DEF all

(***************************************************************************)
(* Sorting puts each position in one place: the ranks of the positions are *)
(* different because any two of them are ordered.                          *)
(***************************************************************************)
LEMMA LargestFirstList ==
  ASSUME NEW T, NEW s \in Seq(T), NEW key, \A i \in 1 .. Len(s) : key[i] \in Int
  PROVE  \E place \in [1 .. Len(s) -> 1 .. Len(s)] :
           /\ LargestFirst(s, key) = [n \in 1 .. Len(s) |-> s[place[n]]]
           /\ \A i \in 1 .. Len(s) : \E n \in 1 .. Len(s) : place[n] = i
           /\ \A m, n \in 1 .. Len(s) : place[m] = place[n] => m = n
           /\ \A m, n \in 1 .. Len(s) :
                m < n => \/ key[place[m]] > key[place[n]]
                         \/ key[place[m]] = key[place[n]] /\ place[m] < place[n]
<1> DEFINE size == Len(s)
           S == 1 .. size
           First(j, i) == key[j] > key[i] \/ (key[j] = key[i] /\ j < i)
           ahead(i) == {j \in S : First(j, i)}
           rank == [i \in S |-> Cardinality(ahead(i)) + 1]
           place == [n \in S |-> CHOOSE i \in S : Cardinality(ahead(i)) = n - 1]
<1>1. size \in Nat /\ DOMAIN s = S OBVIOUS
<1> HIDE DEF size
<1>2. IsFiniteSet(S) /\ Cardinality(S) = size BY <1>1, PositionsFinite
<1>3. \A i, j \in S : /\ ~ First(i, i)
                      /\ i # j => First(i, j) \/ First(j, i)
                      /\ \A k \in S : First(i, j) /\ First(j, k) => First(i, k)
  <2>1. \A i \in S : key[i] \in Int /\ i \in Int BY <1>1 DEF size
  <2>2. QED BY <2>1
<1> HIDE DEF First
<1>4. ASSUME NEW i \in S
      PROVE  /\ Cardinality(ahead(i)) \in Nat /\ Cardinality(ahead(i)) < size
             /\ IsFiniteSet(ahead(i))
  <2>1. ahead(i) \in SUBSET S /\ i \notin ahead(i) BY <1>3
  <2> HIDE DEF ahead, S
  <2>2. Cardinality(ahead(i)) \in Nat /\ Cardinality(ahead(i)) < Cardinality(S)
    BY <1>2, <2>1, FinitePart
  <2>3. QED BY <1>2, <2>1, <2>2, FS_Subset
<1>5. ASSUME NEW i \in S, NEW j \in S, First(i, j)
      PROVE  Cardinality(ahead(i)) < Cardinality(ahead(j))
  <2>1. ahead(i) \in SUBSET ahead(j) /\ i \in ahead(j) /\ i \notin ahead(i) BY <1>3, <1>5
  <2>2. IsFiniteSet(ahead(j)) BY <1>4
  <2> HIDE DEF ahead, S
  <2>3. QED BY <2>1, <2>2, FinitePart
<1>6. rank \in [S -> S]
  <2>1. ASSUME NEW i \in S PROVE Cardinality(ahead(i)) + 1 \in S BY <1>1, <1>4
  <2> HIDE DEF ahead, S
  <2>2. QED BY <2>1
<1>7. \A i, j \in S : rank[i] = rank[j] => i = j
  <2> SUFFICES ASSUME NEW i \in S, NEW j \in S, rank[i] = rank[j], i # j PROVE FALSE OBVIOUS
  <2>1. First(i, j) \/ First(j, i) BY <1>3
  <2>2. Cardinality(ahead(i)) \in Nat /\ Cardinality(ahead(j)) \in Nat BY <1>4
  <2>3. rank[i] = Cardinality(ahead(i)) + 1 /\ rank[j] = Cardinality(ahead(j)) + 1 OBVIOUS
  <2>4. Cardinality(ahead(i)) # Cardinality(ahead(j))
    <3> HIDE DEF ahead, S, rank
    <3>1. QED BY <1>5, <2>1, <2>2
  <2>5. Cardinality(ahead(i)) + 1 = Cardinality(ahead(j)) + 1
    <3>1. rank[i] = rank[j] OBVIOUS
    <3> HIDE DEF ahead, S, rank
    <3>2. QED BY <2>3, <3>1
  <2> DEFINE a == Cardinality(ahead(i))
             b == Cardinality(ahead(j))
  <2>6. a \in Nat /\ b \in Nat /\ a # b /\ a + 1 = b + 1 BY <2>2, <2>4, <2>5
  <2> HIDE DEF a, b, ahead, S, rank
  <2>7. QED BY <2>6
<1>8. rank \in Injection(S, S)
  <2> HIDE DEF rank, S
  <2>1. QED BY <1>6, <1>7 DEF Injection, IsInjective
<1>9. rank \in Surjection(S, S)
  <2> HIDE DEF rank, S
  <2>1. QED BY <1>2, <1>8, FS_Injection
<1>10. \A n \in S : \E i \in S : Cardinality(ahead(i)) = n - 1
  <2> SUFFICES ASSUME NEW n \in S PROVE \E i \in S : Cardinality(ahead(i)) = n - 1 OBVIOUS
  <2>1. PICK i \in S : rank[i] = n
    <3> HIDE DEF rank, S
    <3>1. QED BY <1>9 DEF Surjection
  <2>2. Cardinality(ahead(i)) \in Nat /\ rank[i] = Cardinality(ahead(i)) + 1 BY <1>4
  <2> HIDE DEF ahead, S, rank
  <2>3. Cardinality(ahead(i)) = n - 1 BY <2>1, <2>2
  <2>4. QED BY <2>3
<1>11. place \in [S -> S] /\ \A n \in S : Cardinality(ahead(place[n])) = n - 1
  <2> HIDE DEF ahead, S
  <2>1. QED BY <1>10
<1>12. LargestFirst(s, key) = [n \in S |-> s[place[n]]]
  <2>1. LargestFirst(s, key) = [n \in S |-> s[CHOOSE i \in S : Cardinality(ahead(i)) = n - 1]]
    BY <1>1 DEF LargestFirst, First
  <2> HIDE DEF ahead, S
  <2>2. QED BY <2>1
<1> HIDE DEF place
<1>13. ASSUME NEW i \in S PROVE \E n \in S : place[n] = i
  <2>1. rank[i] \in S /\ rank[i] = Cardinality(ahead(i)) + 1 BY <1>6
  <2>2. PICK n \in S : n = rank[i] BY <2>1
  <2>3. Cardinality(ahead(i)) \in Nat /\ place[n] \in S /\ Cardinality(ahead(place[n])) = n - 1
    BY <1>4, <1>11
  <2>4. rank[place[n]] = Cardinality(ahead(place[n])) + 1 BY <2>3
  <2>5. rank[place[n]] = rank[i] BY <2>1, <2>2, <2>3, <2>4
  <2>6. QED BY <1>7, <2>3, <2>5
<1>14. ASSUME NEW m \in S, NEW n \in S, place[m] = place[n] PROVE m = n
  <2>1. m - 1 = n - 1 BY <1>11, <1>14
  <2>2. QED BY <2>1, <1>1
<1>15. ASSUME NEW m \in S, NEW n \in S, m < n PROVE First(place[m], place[n])
  <2>1. place[m] \in S /\ place[n] \in S BY <1>11
  <2>2. place[m] # place[n] BY <1>14, <1>15
  <2>3. First(place[n], place[m]) => n - 1 < m - 1 BY <1>5, <1>11, <2>1
  <2>4. ~ First(place[n], place[m]) BY <1>15, <2>3, <1>1
  <2>5. QED BY <1>3, <2>1, <2>2, <2>4
<1>16. QED BY <1>11, <1>12, <1>13, <1>14, <1>15 DEF First, size

(* A sum of sums, term by term.                                            *)
LEMMA SumPlus ==
  ASSUME NEW f, NEW g, NEW h, NEW n \in Nat,
         \A i \in 0 .. n - 1 : f[i] \in Int /\ g[i] \in Int /\ h[i] = f[i] + g[i]
  PROVE  /\ SumBelow(f, n) \in Int /\ SumBelow(g, n) \in Int
         /\ SumBelow(h, n) = SumBelow(f, n) + SumBelow(g, n)
<1>1. \A i \in 0 .. n - 1 : f[i] \in Int /\ g[i] \in Int /\ h[i] = f[i] + g[i] * 1 OBVIOUS
<1>2. SumBelow(h, n) = SumBelow(f, n) + SumBelow(g, n) * 1 BY <1>1, SumScaled
<1>3. SumBelow(f, n) \in Int /\ SumBelow(g, n) \in Int BY SumInt
<1>4. QED BY <1>2, <1>3

-----------------------------------------------------------------------------
(* Lists whose members are looked up, taken out and added.                 *)

Among(s, x) == \E i \in 1 .. Len(s) : s[i] = x
Apart(s) == \A i, j \in 1 .. Len(s) : s[i] = s[j] => i = j

LEMMA FilteredList ==
  ASSUME NEW T, NEW s \in Seq(T), NEW e
  PROVE  /\ Filtered(s, e) \in Seq(T) /\ Len(Filtered(s, e)) <= Len(s)
         /\ \A x : Among(Filtered(s, e), x) <=> Among(s, x) /\ x # e
         /\ Apart(s) => Apart(Filtered(s, e))
<1> DEFINE K == {i \in 1 .. Len(s) : s[i] # e}
           a == Ascending(K)
           n == Cardinality(K)
<1>1. DOMAIN s = 1 .. Len(s) /\ Len(s) \in Nat /\ \A i \in 1 .. Len(s) : s[i] \in T OBVIOUS
<1>2. IsFiniteSet(1 .. Len(s)) /\ Cardinality(1 .. Len(s)) = Len(s) BY <1>1, PositionsFinite
<1>3. K \subseteq 1 .. Len(s) OBVIOUS
<1>4. IsFiniteSet(K) /\ n <= Len(s) BY <1>2, <1>3, FS_Subset
<1>5. K \in SUBSET Int OBVIOUS
<1>6. /\ n \in Nat /\ a \in [1 .. n -> K]
      /\ \A x \in K : \E m \in 1 .. n : a[m] = x
      /\ \A l, m \in 1 .. n : a[l] = a[m] => l = m
  BY <1>4, <1>5, AscendingLists
<1>7. Filtered(s, e) = [m \in 1 .. n |-> s[a[m]]] BY <1>1, <1>6 DEF Filtered, Kept
<1> HIDE DEF a, n
<1>8. \A m \in 1 .. n : a[m] \in 1 .. Len(s) /\ s[a[m]] # e /\ s[a[m]] \in T BY <1>1, <1>6
<1>9. Filtered(s, e) \in [1 .. n -> T] BY <1>7, <1>8
<1>10. Filtered(s, e) \in Seq(T) /\ Len(Filtered(s, e)) = n BY <1>6, <1>9
<1>11. \A x : Among(Filtered(s, e), x) <=> Among(s, x) /\ x # e
  <2>1. ASSUME NEW x, Among(Filtered(s, e), x) PROVE Among(s, x) /\ x # e
    BY <1>7, <1>8, <1>10, <2>1 DEF Among
  <2>2. ASSUME NEW x, Among(s, x), x # e PROVE Among(Filtered(s, e), x)
    <3>1. PICK i \in 1 .. Len(s) : s[i] = x BY <2>2 DEF Among
    <3>2. i \in K BY <2>2, <3>1
    <3>3. PICK m \in 1 .. n : a[m] = i BY <1>6, <3>2
    <3>4. QED BY <1>7, <1>10, <3>1, <3>3 DEF Among
  <2>3. QED BY <2>1, <2>2
<1>12. Apart(s) => Apart(Filtered(s, e))
  BY <1>6, <1>7, <1>8, <1>10 DEF Apart
<1>13. QED BY <1>4, <1>10, <1>11, <1>12 DEF n

LEMMA ListPrefixed ==
  ASSUME NEW T, NEW s \in Seq(T), NEW e \in T, Apart(s), ~Among(s, e)
  PROVE  /\ <<e>> \o s \in Seq(T) /\ Apart(<<e>> \o s)
         /\ \A x : Among(<<e>> \o s, x) <=> x = e \/ Among(s, x)
<1> DEFINE new == <<e>> \o s
<1>1. <<e>> \in Seq(T) /\ Len(<<e>>) = 1 /\ <<e>>[1] = e OBVIOUS
<1>2. /\ new \in Seq(T) /\ Len(new) = 1 + Len(s) /\ Len(s) \in Nat
      /\ \A i \in 1 .. 1 + Len(s) : new[i] = IF i <= 1 THEN <<e>>[i] ELSE s[i - 1]
  BY <1>1, ConcatProperties
<1> HIDE DEF new
<1>3. new[1] = e /\ 1 \in 1 .. Len(new) BY <1>1, <1>2
<1>4. \A i \in 1 .. Len(s) : i + 1 \in 1 .. Len(new) /\ new[i + 1] = s[i] BY <1>2
<1>5. \A i \in 1 .. Len(new) : i = 1 \/ (i - 1 \in 1 .. Len(s) /\ new[i] = s[i - 1]) BY <1>2
<1>6. Apart(new)
  <2> SUFFICES ASSUME NEW i \in 1 .. Len(new), NEW j \in 1 .. Len(new), new[i] = new[j]
               PROVE  i = j
    BY DEF Apart
  <2>1. CASE i = 1 /\ j # 1 BY <1>3, <1>5, <2>1 DEF Among
  <2>2. CASE i # 1 /\ j = 1 BY <1>3, <1>5, <2>2 DEF Among
  <2>3. CASE i # 1 /\ j # 1
    <3>1. i - 1 = j - 1 BY <1>5, <2>3 DEF Apart
    <3>2. QED BY <1>2, <3>1
  <2>4. QED BY <2>1, <2>2, <2>3
<1>7. ASSUME NEW x PROVE Among(new, x) <=> x = e \/ Among(s, x)
  <2>1. Among(new, x) => x = e \/ Among(s, x) BY <1>3, <1>5 DEF Among
  <2>2. x = e => Among(new, x) BY <1>3 DEF Among
  <2>3. Among(s, x) => Among(new, x) BY <1>4 DEF Among
  <2>4. QED BY <2>1, <2>2, <2>3
<1>8. QED BY <1>2, <1>6, <1>7 DEF new

LEMMA SequenceTail ==
  ASSUME NEW s \in Seq(Nat), Apart(s), s # << >>
  PROVE  /\ Tail(s) \in Seq(Nat) /\ Apart(Tail(s)) /\ Head(s) \in Nat /\ Among(s, Head(s))
         /\ \A x : Among(Tail(s), x) <=> Among(s, x) /\ x # Head(s)
<1> DEFINE n == Len(s)
           t == Tail(s)
<1>1. n \in Nat /\ n >= 1 /\ \A i \in 1 .. n : s[i] \in Nat OBVIOUS
<1>2. t \in Seq(Nat) /\ Len(t) = n - 1 /\ Head(s) = s[1]
      /\ \A i \in 1 .. n - 1 : t[i] = s[i + 1]
  BY HeadTailProperties
<1> HIDE DEF t, n
<1>3. Apart(t)
  <2> SUFFICES ASSUME NEW i \in 1 .. Len(t), NEW j \in 1 .. Len(t), t[i] = t[j] PROVE i = j
    BY DEF Apart
  <2>1. s[i + 1] = s[j + 1] /\ i + 1 \in 1 .. n /\ j + 1 \in 1 .. n BY <1>1, <1>2
  <2>2. i + 1 = j + 1 BY <2>1 DEF Apart, n
  <2>3. i \in Int /\ j \in Int OBVIOUS
  <2>4. QED BY <2>2, <2>3
<1>4. ASSUME NEW x, Among(t, x) PROVE Among(s, x) /\ x # Head(s)
  <2>1. PICK i \in 1 .. n - 1 : t[i] = x BY <1>2, <1>4 DEF Among
  <2>2. s[i + 1] = x /\ i + 1 \in 1 .. n /\ 1 \in 1 .. n /\ i + 1 # 1 BY <1>1, <1>2, <2>1
  <2>3. s[1] # x BY <2>2 DEF Apart, n
  <2>4. QED BY <1>2, <2>2, <2>3 DEF Among, n
<1>5. ASSUME NEW x, Among(s, x), x # Head(s) PROVE Among(t, x)
  <2>1. PICK i \in 1 .. n : s[i] = x BY <1>5 DEF Among, n
  <2>2. i # 1 BY <1>2, <1>5, <2>1
  <2>3. i - 1 \in 1 .. n - 1 /\ (i - 1) + 1 = i BY <1>1, <2>2
  <2>4. t[i - 1] = x BY <1>2, <2>1, <2>3
  <2>5. QED BY <1>2, <2>3, <2>4 DEF Among
<1>6. Among(s, Head(s)) BY <1>1, <1>2 DEF Among, n
<1>7. QED BY <1>1, <1>2, <1>3, <1>4, <1>5, <1>6 DEF t

LEMMA SequenceAppend ==
  ASSUME NEW s \in Seq(Nat), NEW e \in Nat, Apart(s), ~Among(s, e)
  PROVE  /\ Append(s, e) \in Seq(Nat) /\ Apart(Append(s, e))
         /\ \A x : Among(Append(s, e), x) <=> Among(s, x) \/ x = e
<1> DEFINE n == Len(s)
           t == Append(s, e)
<1>1. n \in Nat OBVIOUS
<1>2. t \in Seq(Nat) /\ Len(t) = n + 1 /\ t[n + 1] = e /\ \A i \in 1 .. n : t[i] = s[i]
  BY AppendProperties
<1> HIDE DEF t
<1>3. Apart(t)
  <2> SUFFICES ASSUME NEW i \in 1 .. Len(t), NEW j \in 1 .. Len(t), t[i] = t[j] PROVE i = j
    BY DEF Apart
  <2>1. i \in 1 .. n \/ i = n + 1 BY <1>1, <1>2
  <2>2. j \in 1 .. n \/ j = n + 1 BY <1>1, <1>2
  <2>3. CASE i \in 1 .. n /\ j \in 1 .. n BY <1>2, <2>3 DEF Apart
  <2>4. CASE i \in 1 .. n /\ j = n + 1 BY <1>2, <2>4 DEF Among
  <2>5. CASE i = n + 1 /\ j \in 1 .. n BY <1>2, <2>5 DEF Among
  <2>6. QED BY <2>1, <2>2, <2>3, <2>4, <2>5
<1>4. \A x : Among(t, x) <=> Among(s, x) \/ x = e
  <2>1. ASSUME NEW x, Among(t, x) PROVE Among(s, x) \/ x = e
    <3>1. PICK i \in 1 .. Len(t) : t[i] = x BY <2>1 DEF Among
    <3>2. i \in 1 .. n \/ i = n + 1 BY <1>1, <1>2
    <3>3. QED BY <1>2, <3>1, <3>2 DEF Among
  <2>2. ASSUME NEW x, Among(s, x) PROVE Among(t, x)
    <3>1. PICK i \in 1 .. n : s[i] = x BY <2>2 DEF Among
    <3>2. i \in 1 .. Len(t) BY <1>1, <1>2
    <3>3. QED BY <1>2, <3>1, <3>2 DEF Among
  <2>3. Among(t, e)
    <3>1. n + 1 \in 1 .. Len(t) BY <1>1, <1>2
    <3>2. QED BY <1>2, <3>1 DEF Among
  <2>4. QED BY <2>1, <2>2, <2>3
<1>5. QED BY <1>2, <1>3, <1>4 DEF t

(* The first members of a set, up to a limit.                              *)
LEMMA FirstOnes ==
  ASSUME NEW S \in SUBSET Nat, IsFiniteSet(S), NEW limit \in Nat
  PROVE  LET asks == Ascending(S)
             raw == SubSeq(asks, 1, IF Len(asks) < limit THEN Len(asks) ELSE limit)
         IN  /\ raw \in Seq(Nat) /\ Len(raw) <= limit /\ Apart(raw)
             /\ \A x : Among(raw, x) => x \in S
             /\ raw # << >> => /\ raw[Len(raw)] \in S
                               /\ \A x \in S : Among(raw, x) <=> x <= raw[Len(raw)]
<1> DEFINE asks == Ascending(S)
           n == IF Len(asks) < limit THEN Len(asks) ELSE limit
           raw == SubSeq(asks, 1, n)
<1>0. S \in SUBSET Int OBVIOUS
<1>1. /\ Cardinality(S) \in Nat /\ asks \in [1 .. Cardinality(S) -> S]
      /\ \A x \in S : \E i \in 1 .. Cardinality(S) : asks[i] = x
  BY <1>0, AscendingLists
<1>2. \A i, j \in 1 .. Cardinality(S) : i < j => asks[i] < asks[j] BY <1>0, AscendingOrder
<1> HIDE DEF asks
<1>3. Len(asks) = Cardinality(S) BY <1>1
<1>4. n \in Nat /\ n <= Cardinality(S) /\ n <= limit BY <1>1, <1>3
<1> HIDE DEF n
<1>5. \A i \in 1 .. n : i \in 1 .. Cardinality(S) /\ asks[i] \in S /\ asks[i] \in Nat
  <2> SUFFICES ASSUME NEW i \in 1 .. n
               PROVE  i \in 1 .. Cardinality(S) /\ asks[i] \in S /\ asks[i] \in Nat
    OBVIOUS
  <2>1. i \in 1 .. Cardinality(S) BY <1>1, <1>4
  <2>2. asks[i] \in S BY <1>1, <2>1
  <2>3. QED BY <2>1, <2>2
<1>6. raw \in Seq(Nat) /\ Len(raw) = n /\ \A i \in 1 .. n : raw[i] = asks[i]
  <2>1. \A i \in 1 .. n : asks[i] \in Nat BY <1>5
  <2>2. /\ SubSeq(asks, 1, n) \in Seq(Nat)
        /\ Len(SubSeq(asks, 1, n)) = IF 1 <= n THEN n - 1 + 1 ELSE 0
        /\ \A i \in 1 .. n - 1 + 1 : SubSeq(asks, 1, n)[i] = asks[1 + i - 1]
    BY <1>4, <2>1, SubSeqProperties
  <2>3. n - 1 + 1 = n /\ \A i \in 1 .. n : 1 + i - 1 = i BY <1>4
  <2>4. QED BY <1>4, <2>2, <2>3
<1> HIDE DEF raw
<1>7. Apart(raw)
  <2> SUFFICES ASSUME NEW i \in 1 .. n, NEW j \in 1 .. n, raw[i] = raw[j] PROVE i = j
    BY <1>6 DEF Apart
  <2>1. asks[i] = asks[j] /\ asks[i] \in Nat BY <1>5, <1>6
  <2>2. ~ (i < j) /\ ~ (j < i) BY <1>2, <1>5, <2>1
  <2>3. i \in Int /\ j \in Int OBVIOUS
  <2>4. QED BY <2>2, <2>3
<1>8. \A x : Among(raw, x) => x \in S BY <1>5, <1>6 DEF Among
<1>9. ASSUME raw # << >>
      PROVE  /\ raw[Len(raw)] \in S /\ \A x \in S : Among(raw, x) <=> x <= raw[Len(raw)]
  <2>1. n \in 1 .. n /\ raw[Len(raw)] = asks[n] /\ asks[n] \in S
    <3>1. n # 0 BY <1>6, <1>9
    <3>2. QED BY <1>4, <1>5, <1>6, <3>1
  <2>2. ASSUME NEW x \in S PROVE Among(raw, x) <=> x <= asks[n]
    <3>1. PICK i \in 1 .. Cardinality(S) : asks[i] = x BY <1>1
    <3>2. n \in 1 .. Cardinality(S) /\ i \in Int /\ n \in Int /\ x \in Int /\ asks[n] \in Int
      BY <1>4, <1>5, <2>1
    <3>3. x <= asks[n] => i <= n BY <1>2, <3>1, <3>2
    <3>4. i <= n => Among(raw, x)
      <4>1. i <= n => i \in 1 .. n BY <3>2
      <4>2. QED BY <1>6, <3>1, <4>1 DEF Among
    <3>5. Among(raw, x) => x <= asks[n]
      <4> SUFFICES ASSUME Among(raw, x) PROVE x <= asks[n] OBVIOUS
      <4>1. PICK k \in 1 .. n : asks[k] = x BY <1>6 DEF Among
      <4>2. k < n \/ k = n BY <1>4
      <4>3. QED BY <1>2, <1>5, <2>1, <3>2, <4>1, <4>2
    <3>6. QED BY <3>3, <3>4, <3>5
  <2>3. QED BY <2>1, <2>2
<1>10. Len(raw) <= limit BY <1>4, <1>6
<1>11. QED BY <1>6, <1>7, <1>8, <1>9, <1>10 DEF raw, asks, n

LEMMA SequenceIs ==
  ASSUME NEW T, NEW s \in Seq(T)
  PROVE  Len(s) \in Nat /\ DOMAIN s = 1 .. Len(s) /\ s = [k \in 1 .. Len(s) |-> s[k]]
OBVIOUS

(* The parts of a list, counted and added up.                              *)
LEMMA CountRest ==
  ASSUME NEW n \in Nat, NEW P \in SUBSET (1 .. n)
  PROVE  /\ Cardinality(P) \in Nat /\ Cardinality((1 .. n) \ P) \in Nat
         /\ Cardinality(P) + Cardinality((1 .. n) \ P) = n
<1> DEFINE N == 1 .. n
<1>1. IsFiniteSet(N) /\ Cardinality(N) = n BY PositionsFinite
<1>2. P \subseteq N /\ N \cap P = P OBVIOUS
<1> HIDE DEF N
<1>3. IsFiniteSet(P) /\ IsFiniteSet(N \ P) /\ Cardinality(N \ P) = Cardinality(N) - Cardinality(P)
  <2>1. IsFiniteSet(P) BY <1>1, <1>2, FS_Subset
  <2>2. IsFiniteSet(N \ P) /\ Cardinality(N \ P) = Cardinality(N) - Cardinality(N \cap P)
    BY <1>1, FS_Difference
  <2>3. QED BY <1>2, <2>1, <2>2
<1>4. Cardinality(P) \in Nat /\ Cardinality(N \ P) \in Nat BY <1>3, FS_CardinalityType
<1>5. Cardinality(P) + Cardinality(N \ P) = n BY <1>1, <1>3, <1>4
<1>6. QED BY <1>4, <1>5 DEF N

\* Three parts that make up 1 .. n.
Splits(n, P, Q, R) ==
  /\ P \subseteq 1 .. n /\ Q \subseteq 1 .. n /\ R \subseteq 1 .. n
  /\ \A i \in 1 .. n : i \in P \/ i \in Q \/ i \in R
  /\ \A i \in 1 .. n : ~ (i \in P /\ i \in Q) /\ ~ (i \in P /\ i \in R) /\ ~ (i \in Q /\ i \in R)

LEMMA CountThree ==
  ASSUME NEW n \in Nat, NEW P, NEW Q, NEW R, Splits(n, P, Q, R)
  PROVE  /\ Cardinality(P) \in Nat /\ Cardinality(Q) \in Nat /\ Cardinality(R) \in Nat
         /\ Cardinality(P) + Cardinality(Q) + Cardinality(R) = n
<1>1. IsFiniteSet(1 .. n) BY PositionsFinite
<1>2. IsFiniteSet(P) /\ IsFiniteSet(Q) /\ IsFiniteSet(R) BY <1>1, FS_Subset DEF Splits
<1>3. Q \cap R = {} /\ Q \cup R = (1 .. n) \ P /\ P \in SUBSET (1 .. n) BY DEF Splits
<1>4. Cardinality(Q \cup R) = Cardinality(Q) + Cardinality(R) - Cardinality(Q \cap R) BY <1>2, FS_Union
<1>5. Cardinality({}) = 0 BY FS_EmptySet
<1>6. Cardinality(P) \in Nat /\ Cardinality(Q) \in Nat /\ Cardinality(R) \in Nat
  BY <1>2, FS_CardinalityType
<1>7. Cardinality(P) + Cardinality((1 .. n) \ P) = n BY <1>3, CountRest
<1> DEFINE p == Cardinality(P)
           q == Cardinality(Q)
           r == Cardinality(R)
           u == Cardinality(Q \cup R)
<1>8. u = q + r - 0 /\ p \in Nat /\ q \in Nat /\ r \in Nat /\ p + u = n
  BY <1>3, <1>4, <1>5, <1>6, <1>7
<1> HIDE DEF p, q, r, u
<1>9. p + q + r = n BY <1>8
<1>10. QED BY <1>6, <1>9 DEF p, q, r

\* Every position once, in some order.
Permutes(place, n) ==
  /\ place \in [1 .. n -> 1 .. n]
  /\ \A i \in 1 .. n : \E k \in 1 .. n : place[k] = i
  /\ \A m, k \in 1 .. n : place[m] = place[k] => m = k

PlacesOf(A, place, n) == {k \in 1 .. n : place[k] \in A}

LEMMA CountPlaces ==
  ASSUME NEW n \in Nat, NEW place, Permutes(place, n), NEW A, A \subseteq 1 .. n
  PROVE  Cardinality(PlacesOf(A, place, n)) = Cardinality(A)
<1> DEFINE S == {k \in 1 .. n : place[k] \in A}
           f == [k \in S |-> place[k]]
<1>1. IsFiniteSet(S) BY PositionsFinite, FS_Subset
<1>2. f \in [S -> A] /\ \A k \in S : f[k] = place[k] BY DEF Permutes
<1>3. \A k, m \in S : place[k] = place[m] => k = m BY DEF Permutes
<1>4. \A i \in A : \E k \in S : place[k] = i
  <2> SUFFICES ASSUME NEW i \in A PROVE \E k \in S : place[k] = i OBVIOUS
  <2>1. PICK k \in 1 .. n : place[k] = i BY DEF Permutes
  <2>2. k \in S BY <2>1
  <2>3. QED BY <2>1, <2>2
<1> HIDE DEF S, f
<1>5. f \in Injection(S, A) BY <1>2, <1>3 DEF Injection, IsInjective
<1>6. f \in Surjection(S, A) BY <1>2, <1>4 DEF Surjection
<1>7. ExistsBijection(S, A) BY <1>5, <1>6 DEF ExistsBijection, Bijection
<1>8. Cardinality(A) = Cardinality(S) BY <1>1, <1>7, FS_Bijection
<1>9. QED BY <1>8 DEF S, PlacesOf

\* The sum of the weights at the positions of a part.
PartSum(w, P, n) == SumBelow([k \in 0 .. n - 1 |-> IF k + 1 \in P THEN w[k + 1] ELSE 0], n)

LEMMA PartIsSum ==
  ASSUME NEW n \in Nat, NEW P \in SUBSET (1 .. n), NEW w, \A i \in 1 .. n : w[i] \in Int,
         NEW f, \A k \in 0 .. Cardinality(P) - 1 : f[k] = w[Ascending(P)[k + 1]]
  PROVE  SumBelow(f, Cardinality(P)) = PartSum(w, P, n)
<1>1. Cardinality(P) \in Nat BY CountRest
<1> DEFINE g == [k \in 0 .. Cardinality(P) - 1 |-> w[Ascending(P)[k + 1]]]
<1>2. \A k \in 0 .. Cardinality(P) - 1 : f[k] = g[k] OBVIOUS
<1>3. SumBelow(g, Cardinality(P)) = PartSum(w, P, n) BY KeptSum DEF PartSum
<1> HIDE DEF g
<1>4. SumBelow(f, Cardinality(P)) = SumBelow(g, Cardinality(P)) BY <1>1, <1>2, SumAgree
<1>5. QED BY <1>3, <1>4

LEMMA PartSame ==
  ASSUME NEW n \in Nat, NEW P, NEW Q, NEW v, NEW w,
         \A i \in 1 .. n : (IF i \in P THEN v[i] ELSE 0) = (IF i \in Q THEN w[i] ELSE 0)
  PROVE  PartSum(v, P, n) = PartSum(w, Q, n)
<1> DEFINE f == [k \in 0 .. n - 1 |-> IF k + 1 \in P THEN v[k + 1] ELSE 0]
           g == [k \in 0 .. n - 1 |-> IF k + 1 \in Q THEN w[k + 1] ELSE 0]
<1>1. \A k \in 0 .. n - 1 : f[k] = g[k]
  <2> SUFFICES ASSUME NEW k \in 0 .. n - 1 PROVE f[k] = g[k] OBVIOUS
  <2>1. k + 1 \in 1 .. n OBVIOUS
  <2>2. QED BY <2>1
<1> HIDE DEF f, g
<1>2. SumBelow(f, n) = SumBelow(g, n) BY <1>1, SumAgree
<1>3. QED BY <1>2 DEF PartSum, f, g

LEMMA PartsAddUp ==
  ASSUME NEW n \in Nat, NEW w, \A i \in 1 .. n : w[i] \in Int, NEW P, NEW Q, NEW R, Splits(n, P, Q, R)
  PROVE  PartSum(w, 1 .. n, n) = PartSum(w, P, n) + PartSum(w, Q, n) + PartSum(w, R, n)
<1> DEFINE all == [k \in 0 .. n - 1 |-> IF k + 1 \in 1 .. n THEN w[k + 1] ELSE 0]
           p == [k \in 0 .. n - 1 |-> IF k + 1 \in P THEN w[k + 1] ELSE 0]
           q == [k \in 0 .. n - 1 |-> IF k + 1 \in Q THEN w[k + 1] ELSE 0]
           r == [k \in 0 .. n - 1 |-> IF k + 1 \in R THEN w[k + 1] ELSE 0]
           pq == [k \in 0 .. n - 1 |-> p[k] + q[k]]
<1>1. ASSUME NEW k \in 0 .. n - 1
      PROVE  /\ p[k] \in Int /\ q[k] \in Int /\ r[k] \in Int /\ pq[k] = p[k] + q[k]
             /\ pq[k] \in Int /\ all[k] = pq[k] + r[k]
  <2>1. k + 1 \in 1 .. n /\ w[k + 1] \in Int OBVIOUS
  <2>2. QED BY <2>1 DEF Splits
<1> HIDE DEF p, q, r, pq, all
<1>2. /\ SumBelow(p, n) \in Int /\ SumBelow(q, n) \in Int
      /\ SumBelow(pq, n) = SumBelow(p, n) + SumBelow(q, n)
  BY <1>1, SumPlus
<1>3. SumBelow(all, n) = SumBelow(pq, n) + SumBelow(r, n) BY <1>1, SumPlus
<1>4. QED BY <1>2, <1>3 DEF PartSum, p, q, r, all

(* A list with the rows of another at its end.                             *)
Appended(all, old, row, n) ==
  \A k \in 1 .. Len(all) :
    (k \in 1 .. Len(old) /\ all[k] = old[k]) \/ \E i \in 1 .. n : all[k] = row[i]

LEMMA RowsAppended ==
  ASSUME NEW T, NEW old \in Seq(T), NEW sides, NEW row, sides \in Seq({"A", "B"}),
         row = [k \in DOMAIN sides |-> row[k]], \A k \in 1 .. Len(sides) : row[k] \in T
  PROVE  /\ row \in Seq(T) /\ old \o row \in Seq(T)
         /\ Appended(old \o row, old, row, Len(sides))
<1>1. DOMAIN sides = 1 .. Len(sides) /\ Len(sides) \in Nat /\ Len(old) \in Nat OBVIOUS
<1> DEFINE n == Len(sides)
<1>2. n \in Nat /\ row = [k \in 1 .. n |-> row[k]] /\ \A k \in 1 .. n : row[k] \in T BY <1>1
<1> HIDE DEF n
<1>3. row \in Seq(T) /\ Len(row) = n
  <2>1. [k \in 1 .. n |-> row[k]] \in Seq(T) /\ Len([k \in 1 .. n |-> row[k]]) = n BY <1>2
  <2>2. QED BY <1>2, <2>1
<1>4. /\ old \o row \in Seq(T) /\ Len(old \o row) = Len(old) + n
      /\ \A i \in 1 .. Len(old) + n : (old \o row)[i] = IF i <= Len(old) THEN old[i] ELSE row[i - Len(old)]
  BY <1>3, ConcatProperties
<1> DEFINE all == old \o row
<1> HIDE DEF all
<1>5. ASSUME NEW k \in 1 .. Len(all)
      PROVE  (k \in 1 .. Len(old) /\ all[k] = old[k]) \/ \E i \in 1 .. n : all[k] = row[i]
  <2>1. k \in 1 .. Len(old) + n /\ all[k] = IF k <= Len(old) THEN old[k] ELSE row[k - Len(old)]
    BY <1>4, <1>5 DEF all
  <2>2. CASE k <= Len(old) BY <1>1, <2>1, <2>2
  <2>3. CASE ~ (k <= Len(old))
    <3>1. k - Len(old) \in 1 .. n BY <1>1, <1>2, <2>1, <2>3
    <3>2. QED BY <2>1, <2>3, <3>1
  <2>4. QED BY <2>2, <2>3
<1>6. Appended(all, old, row, n) BY <1>5 DEF Appended
<1>7. QED BY <1>3, <1>4, <1>6 DEF all, n

(* The sum over a part of a list, as the sum over its positions.           *)
LEMMA PartOfList ==
  ASSUME NEW T, NEW s \in Seq(T), NEW P \in SUBSET (1 .. Len(s)),
         NEW w, \A i \in 1 .. Len(s) : w[i] \in Int,
         NEW f, \A k \in 0 .. Len(Kept(s, P)) - 1 :
                  \A i \in 1 .. Len(s) : Kept(s, P)[k + 1] = s[i] /\ i = Ascending(P)[k + 1] => f[k] = w[i]
  PROVE  SumBelow(f, Len(Kept(s, P))) = PartSum(w, P, Len(s))
<1>1. /\ Cardinality(P) \in Nat /\ Len(Kept(s, P)) = Cardinality(P)
      /\ Ascending(P) \in [1 .. Cardinality(P) -> P]
      /\ \A n \in 1 .. Cardinality(P) : Kept(s, P)[n] = s[Ascending(P)[n]]
  BY KeptList
<1>2. ASSUME NEW k \in 0 .. Cardinality(P) - 1 PROVE f[k] = w[Ascending(P)[k + 1]]
  <2>1. k + 1 \in 1 .. Cardinality(P) BY <1>1
  <2>2. Ascending(P)[k + 1] \in 1 .. Len(s) /\ Kept(s, P)[k + 1] = s[Ascending(P)[k + 1]] BY <1>1, <2>1
  <2>3. QED BY <1>1, <2>2
<1>3. Len(s) \in Nat OBVIOUS
<1>4. SumBelow(f, Cardinality(P)) = PartSum(w, P, Len(s)) BY <1>2, <1>3, PartIsSum
<1>5. QED BY <1>1, <1>4

\* The values at some of the positions of a list.
LEMMA PlacesKept ==
  ASSUME NEW T, NEW s \in Seq(T), NEW P \in SUBSET (1 .. Len(s))
  PROVE  LET r == Kept(s, P)
         IN  /\ r \in Seq(T) /\ Len(r) <= Len(s)
             /\ \A x : Among(r, x) <=> \E i \in P : s[i] = x
             /\ Apart(s) => Apart(r)
<1> DEFINE r == Kept(s, P)
           n == Cardinality(P)
<1>1. /\ n \in Nat /\ n <= Len(s)
      /\ r \in Seq(T) /\ Len(r) = n
      /\ Ascending(P) \in [1 .. n -> P]
      /\ \A k \in 1 .. n : r[k] = s[Ascending(P)[k]]
      /\ \A i \in P : \E k \in 1 .. n : Ascending(P)[k] = i
      /\ \A m, k \in 1 .. n : m < k => Ascending(P)[m] < Ascending(P)[k]
  BY KeptList
<1> HIDE DEF r, n
<1>2. \A k \in 1 .. n : Ascending(P)[k] \in P BY <1>1
<1>3. \A x : Among(r, x) <=> \E i \in P : s[i] = x
  <2>1. ASSUME NEW x, Among(r, x) PROVE \E i \in P : s[i] = x
    <3>1. PICK k \in 1 .. n : r[k] = x BY <1>1, <2>1 DEF Among
    <3>2. Ascending(P)[k] \in P /\ s[Ascending(P)[k]] = x BY <1>1, <1>2, <3>1
    <3>3. QED BY <3>2, Zenon
  <2>2. ASSUME NEW i \in P PROVE Among(r, s[i])
    <3>1. PICK k \in 1 .. n : Ascending(P)[k] = i BY <1>1
    <3>2. QED BY <1>1, <3>1, Zenon DEF Among
  <2>3. QED BY <2>1, <2>2
<1>4. ASSUME Apart(s) PROVE Apart(r)
  <2> SUFFICES ASSUME NEW m \in 1 .. n, NEW k \in 1 .. n, r[m] = r[k] PROVE m = k
    BY <1>1 DEF Apart
  <2> DEFINE a == Ascending(P)[m]
             b == Ascending(P)[k]
  <2>1. a \in P /\ b \in P /\ s[a] = s[b] BY <1>1, <1>2, Zenon
  <2>2. a \in 1 .. Len(s) /\ b \in 1 .. Len(s) BY <2>1, Zenon
  <2>3. a = b BY <1>4, <2>1, <2>2, Zenon DEF Apart
  <2>4. ~ (m < k) /\ ~ (k < m)
    <3>1. a \in Int BY <2>2
    <3>2. QED BY <1>1, <2>3, <3>1
  <2>5. m \in Int /\ k \in Int OBVIOUS
  <2>6. QED BY <2>4, <2>5
<1>5. QED BY <1>1, <1>3, <1>4 DEF r

\* A sorted list has the entries of the list, and none twice that the list
\* has once; keys that differ are in descending order.
LEMMA SortedAlike ==
  ASSUME NEW T, NEW s \in Seq(T), NEW key, \A i \in 1 .. Len(s) : key[i] \in Int
  PROVE  LET r == LargestFirst(s, key)
         IN  /\ r \in Seq(T) /\ Len(r) = Len(s)
             /\ \A x : Among(r, x) <=> Among(s, x)
             /\ Apart(s) => Apart(r)
<1> DEFINE r == LargestFirst(s, key)
<1>1. Len(s) \in Nat /\ \A i \in 1 .. Len(s) : s[i] \in T OBVIOUS
<1>2. PICK place \in [1 .. Len(s) -> 1 .. Len(s)] :
        /\ LargestFirst(s, key) = [n \in 1 .. Len(s) |-> s[place[n]]]
        /\ \A i \in 1 .. Len(s) : \E n \in 1 .. Len(s) : place[n] = i
        /\ \A m, n \in 1 .. Len(s) : place[m] = place[n] => m = n
        /\ \A m, n \in 1 .. Len(s) :
             m < n => \/ key[place[m]] > key[place[n]]
                      \/ key[place[m]] = key[place[n]] /\ place[m] < place[n]
  BY <1>1, LargestFirstList, Zenon
<1>3. \A n \in 1 .. Len(s) : place[n] \in 1 .. Len(s) /\ s[place[n]] \in T BY <1>1
<1>4. r \in Seq(T) /\ Len(r) = Len(s) /\ \A n \in 1 .. Len(s) : r[n] = s[place[n]]
  BY <1>1, <1>2, <1>3
<1> HIDE DEF r
<1>5. ASSUME NEW x, Among(r, x) PROVE Among(s, x) BY <1>3, <1>4, <1>5, Zenon DEF Among
<1>6. ASSUME NEW x, Among(s, x) PROVE Among(r, x)
  <2>1. PICK i \in 1 .. Len(s) : s[i] = x BY <1>6 DEF Among
  <2>2. PICK n \in 1 .. Len(s) : place[n] = i BY <1>2
  <2>3. QED BY <1>4, <2>1, <2>2 DEF Among
<1>7. ASSUME Apart(s) PROVE Apart(r)
  <2> SUFFICES ASSUME NEW m \in 1 .. Len(s), NEW n \in 1 .. Len(s), r[m] = r[n] PROVE m = n
    BY <1>4, Zenon DEF Apart
  <2>1. place[m] = place[n] BY <1>3, <1>4, <1>7, Zenon DEF Apart
  <2>2. QED BY <1>2, <2>1
<1>8. QED BY <1>4, <1>5, <1>6, <1>7 DEF r

\* A list of different numbers sorted by themselves descends.
LEMMA SortedDescends ==
  ASSUME NEW s \in Seq(Nat), Apart(s)
  PROVE  LET r == LargestFirst(s, s)
         IN  \A i, j \in 1 .. Len(r) : i < j => r[i] > r[j]
<1> DEFINE r == LargestFirst(s, s)
<1>1. Len(s) \in Nat /\ \A i \in 1 .. Len(s) : s[i] \in Nat /\ s[i] \in Int OBVIOUS
<1>2. PICK place \in [1 .. Len(s) -> 1 .. Len(s)] :
        /\ LargestFirst(s, s) = [n \in 1 .. Len(s) |-> s[place[n]]]
        /\ \A i \in 1 .. Len(s) : \E n \in 1 .. Len(s) : place[n] = i
        /\ \A m, n \in 1 .. Len(s) : place[m] = place[n] => m = n
        /\ \A m, n \in 1 .. Len(s) :
             m < n => \/ s[place[m]] > s[place[n]]
                      \/ s[place[m]] = s[place[n]] /\ place[m] < place[n]
  BY <1>1, LargestFirstList, Zenon
<1>3. \A n \in 1 .. Len(s) : place[n] \in 1 .. Len(s) BY <1>1, Zenon
<1>4. Len(r) = Len(s) /\ \A n \in 1 .. Len(s) : r[n] = s[place[n]] BY <1>1, <1>2, <1>3
<1> HIDE DEF r
<1>5. ASSUME NEW i \in 1 .. Len(s), NEW j \in 1 .. Len(s), i < j PROVE r[i] > r[j]
  <2>1. s[place[i]] # s[place[j]]
    <3>1. place[i] # place[j] BY <1>1, <1>2, <1>5
    <3>2. QED BY <1>3, <3>1, Zenon DEF Apart
  <2>2. QED BY <1>2, <1>4, <1>5, <2>1
<1>6. QED BY <1>4, <1>5 DEF r

\* Two lists after one another.
LEMMA ListsJoined ==
  ASSUME NEW T, NEW list \in Seq(T), NEW fresh \in Seq(T)
  PROVE  LET all == list \o fresh
         IN  /\ all \in Seq(T) /\ Len(all) = Len(list) + Len(fresh)
             /\ \A x : Among(all, x) <=> Among(list, x) \/ Among(fresh, x)
             /\ Apart(list) /\ Apart(fresh) /\ (\A x : ~ (Among(list, x) /\ Among(fresh, x))) => Apart(all)
<1> DEFINE all == list \o fresh
<1>1. Len(list) \in Nat /\ Len(fresh) \in Nat OBVIOUS
<1>2. /\ all \in Seq(T) /\ Len(all) = Len(list) + Len(fresh)
      /\ \A i \in 1 .. Len(list) : all[i] = list[i]
      /\ \A i \in 1 .. Len(fresh) : all[Len(list) + i] = fresh[i]
  <2>1. /\ all \in Seq(T) /\ Len(all) = Len(list) + Len(fresh)
        /\ \A i \in 1 .. Len(list) + Len(fresh) :
             all[i] = IF i <= Len(list) THEN list[i] ELSE fresh[i - Len(list)]
    BY ConcatProperties
  <2> HIDE DEF all
  <2>2. ASSUME NEW i \in 1 .. Len(fresh) PROVE all[Len(list) + i] = fresh[i]
    <3> DEFINE k == Len(list) + i
    <3>1. k \in 1 .. Len(list) + Len(fresh) /\ ~ (k <= Len(list)) /\ k - Len(list) = i BY <1>1
    <3> HIDE DEF k
    <3>2. all[k] = fresh[i] BY <2>1, <3>1, Zenon
    <3>3. QED BY <3>2 DEF k
  <2>3. ASSUME NEW i \in 1 .. Len(list) PROVE all[i] = list[i]
    <3>1. i \in 1 .. Len(list) + Len(fresh) /\ i <= Len(list) BY <1>1
    <3>2. QED BY <2>1, <3>1
  <2>4. QED BY <2>1, <2>2, <2>3
<1> HIDE DEF all
<1>3. \A i \in 1 .. Len(all) : i \in 1 .. Len(list) \/ \E k \in 1 .. Len(fresh) : i = Len(list) + k
  <2> SUFFICES ASSUME NEW i \in 1 .. Len(all), i \notin 1 .. Len(list)
               PROVE  \E k \in 1 .. Len(fresh) : i = Len(list) + k
    OBVIOUS
  <2>1. i - Len(list) \in 1 .. Len(fresh) /\ i = Len(list) + (i - Len(list)) BY <1>1, <1>2
  <2>2. QED BY <2>1, Zenon
<1>4. \A x : Among(all, x) <=> Among(list, x) \/ Among(fresh, x)
  <2>1. ASSUME NEW x, Among(all, x) PROVE Among(list, x) \/ Among(fresh, x)
    <3>1. PICK i \in 1 .. Len(all) : all[i] = x BY <2>1 DEF Among
    <3>2. CASE i \in 1 .. Len(list) BY <1>2, <3>1, <3>2, Zenon DEF Among
    <3>3. CASE i \notin 1 .. Len(list)
      <4>1. PICK k \in 1 .. Len(fresh) : i = Len(list) + k BY <1>3, <3>3
      <4>2. fresh[k] = x BY <1>2, <3>1, <4>1, Zenon
      <4>3. QED BY <4>2 DEF Among
    <3>4. QED BY <3>2, <3>3
  <2>2. ASSUME NEW x, Among(list, x) PROVE Among(all, x)
    <3>1. PICK i \in 1 .. Len(list) : list[i] = x BY <2>2 DEF Among
    <3>2. i \in 1 .. Len(all) /\ all[i] = x BY <1>1, <1>2, <3>1
    <3>3. QED BY <3>2 DEF Among
  <2>3. ASSUME NEW x, Among(fresh, x) PROVE Among(all, x)
    <3>1. PICK i \in 1 .. Len(fresh) : fresh[i] = x BY <2>3 DEF Among
    <3>2. Len(list) + i \in 1 .. Len(all) /\ all[Len(list) + i] = x BY <1>1, <1>2, <3>1
    <3>3. QED BY <3>2 DEF Among
  <2>4. QED BY <2>1, <2>2, <2>3
<1>5. ASSUME Apart(list), Apart(fresh), \A x : ~ (Among(list, x) /\ Among(fresh, x)) PROVE Apart(all)
  <2> SUFFICES ASSUME NEW i \in 1 .. Len(all), NEW j \in 1 .. Len(all), all[i] = all[j] PROVE i = j
    BY DEF Apart
  <2>1. CASE i \in 1 .. Len(list) /\ j \in 1 .. Len(list)
    <3>1. list[i] = list[j] BY <1>2, <2>1, Zenon
    <3>2. QED BY <1>5, <2>1, <3>1 DEF Apart
  <2>2. CASE i \in 1 .. Len(list) /\ j \notin 1 .. Len(list)
    <3>1. PICK k \in 1 .. Len(fresh) : j = Len(list) + k BY <1>3, <2>2
    <3>2. all[i] = list[i] /\ all[j] = fresh[k] BY <1>2, <2>2, <3>1
    <3>3. Among(list, all[i]) /\ Among(fresh, all[j]) BY <2>2, <3>1, <3>2 DEF Among
    <3>4. QED BY <1>5, <3>3
  <2>3. CASE i \notin 1 .. Len(list) /\ j \in 1 .. Len(list)
    <3>1. PICK k \in 1 .. Len(fresh) : i = Len(list) + k BY <1>3, <2>3
    <3>2. all[j] = list[j] /\ all[i] = fresh[k] BY <1>2, <2>3, <3>1, Zenon
    <3>3. Among(list, all[j]) /\ Among(fresh, all[i]) BY <2>3, <3>1, <3>2 DEF Among
    <3>4. QED BY <1>5, <3>3
  <2>4. CASE i \notin 1 .. Len(list) /\ j \notin 1 .. Len(list)
    <3>1. PICK k \in 1 .. Len(fresh) : i = Len(list) + k BY <1>3, <2>4
    <3>2. PICK m \in 1 .. Len(fresh) : j = Len(list) + m BY <1>3, <2>4
    <3>3. fresh[k] = fresh[m] BY <1>2, <3>1, <3>2
    <3>4. k = m BY <1>5, <3>3 DEF Apart
    <3>5. QED BY <3>1, <3>2, <3>4
  <2>5. QED BY <2>1, <2>2, <2>3, <2>4
<1>6. QED BY <1>2, <1>4, <1>5 DEF all

\* The first i pages of P entries hold the entries up to this one.
UpTo(i, P, n) == IF i * P < n THEN i * P ELSE n
PagesOf(ms, P, count) == [p \in 1 .. count |-> SubSeq(ms, (p - 1) * P + 1, UpTo(p, P, Len(ms)))]

\* What FlattenSeq builds, page after page.
Joining(pages, count) ==
  CHOOSE f : f = [i \in 1 .. count |-> IF i = 1 THEN pages[i] ELSE f[i - 1] \o pages[i]]

\* All pages after one another are the list, in as many steps as pages.
LEMMA PagesJoined ==
  ASSUME NEW T, NEW ms \in Seq(T), NEW P \in Nat \ {0}, NEW count,
         count = (Len(ms) + P - 1) \div P
  PROVE  /\ count \in Nat /\ (count = 0 => ms = << >>)
         /\ count # 0 => Joining(PagesOf(ms, P, count), count)[count] = ms
<1> DEFINE n == Len(ms)
           upto(i) == UpTo(i, P, n)
           pages == PagesOf(ms, P, count)
           g == [i \in 1 .. count |-> SubSeq(ms, 1, upto(i))]
           c == Joining(pages, count)
<1>1. n \in Nat OBVIOUS
<1>2. count \in Nat /\ P * count <= n + P - 1 /\ n + P - 1 < P * count + P
  <2>1. n + P - 1 \in Nat /\ count = (n + P - 1) \div P BY <1>1
  <2> HIDE DEF n
  <2>2. QED BY <1>1, <2>1, DivNat, Zenon
<1>3. \A i \in 1 .. count : pages[i] = SubSeq(ms, (i - 1) * P + 1, upto(i)) BY DEF PagesOf
<1>4. ASSUME NEW i \in 1 .. count
      PROVE  /\ (i - 1) * P \in Nat /\ (i - 1) * P < n
             /\ upto(i) \in (i - 1) * P + 1 .. n
             /\ i > 1 => upto(i - 1) = (i - 1) * P
             /\ i = count => upto(i) = n
  <2> HIDE DEF n
  <2> USE DEF UpTo
  <2>1. i - 1 \in Nat /\ i \in Nat BY <1>2
  <2>2. (i - 1) * P \in Nat /\ i * P = (i - 1) * P + P BY <1>1, <2>1
  <2>3. (i - 1) * P <= (count - 1) * P BY <1>1, <1>2, <2>1
  <2>4. (count - 1) * P = P * count - P /\ P * count \in Nat BY <1>1, <1>2
  <2>5. (i - 1) * P < n
    <3>1. P * count - P < n BY <1>1, <1>2, <2>4
    <3>2. QED BY <1>1, <2>2, <2>3, <2>4, <3>1
  <2>6. upto(i) \in (i - 1) * P + 1 .. n BY <1>1, <2>2, <2>5
  <2>7. i = count => i * P >= n
    <3>1. i = count => i * P = P * count BY <1>1, <1>2
    <3>2. n <= P * count BY <1>1, <1>2, <2>4
    <3>3. QED BY <3>1, <3>2
  <2>8. i = count => upto(i) = n BY <1>1, <2>2, <2>7
  <2>9. QED BY <2>2, <2>5, <2>6, <2>8
<1> HIDE DEF pages, upto
<1>5. ASSUME NEW i \in 1 .. count
      PROVE  g[i] = IF i = 1 THEN pages[i] ELSE g[i - 1] \o pages[i]
  <2>1. g[i] = SubSeq(ms, 1, upto(i)) BY Zenon
  <2>2. CASE i = 1
    <3>1. (i - 1) * P + 1 = 1 BY <1>1, <2>2
    <3>2. QED BY <1>3, <2>1, <2>2, <3>1
  <2>3. CASE i # 1
    <3>1. i - 1 \in 1 .. count /\ i > 1 BY <1>2, <2>3
    <3> DEFINE k == (i - 1) * P
    <3>2. g[i - 1] = SubSeq(ms, 1, k) BY <1>4, <3>1
    <3>3. k \in Nat /\ k < n /\ upto(i) \in k + 1 .. n BY <1>4
    <3>4. pages[i] = SubSeq(ms, k + 1, upto(i)) BY <1>3
    <3> HIDE DEF k, g
    <3>5. SubSeq(ms, 1, k) \o SubSeq(ms, k + 1, upto(i)) = SubSeq(ms, 1, upto(i))
      <4>1. 1 \in 1 .. Len(ms) + 1 /\ k \in 1 - 1 .. Len(ms) /\ upto(i) \in k .. Len(ms)
        BY <1>1, <3>3
      <4>2. QED BY <4>1, ConcatAdjacentSubSeq, Zenon
    <3>6. QED BY <2>1, <2>3, <3>2, <3>4, <3>5, Zenon
  <2>4. QED BY <2>2, <2>3, Zenon
<1>6. g = [i \in 1 .. count |-> IF i = 1 THEN pages[i] ELSE g[i - 1] \o pages[i]] BY <1>5, Zenon
<1>7. c = [i \in 1 .. count |-> IF i = 1 THEN pages[i] ELSE c[i - 1] \o pages[i]]
  <2> HIDE DEF g
  <2>1. QED BY <1>6, Zenon DEF Joining
<1> HIDE DEF c, g
<1> DEFINE Q == {i \in Nat : i \in 1 .. count => c[i] = g[i]}
<1>8. 0 \in Q OBVIOUS
<1>9. ASSUME NEW i \in Nat, i \in Q PROVE i + 1 \in Q
  <2>1. SUFFICES ASSUME i + 1 \in 1 .. count PROVE c[i + 1] = g[i + 1] OBVIOUS
  <2> DEFINE j == i + 1
  <2>2. j \in 1 .. count /\ j - 1 = i BY <2>1
  <2>3. j # 1 => i \in 1 .. count BY <1>2, <2>1
  <2>4. j # 1 => c[i] = g[i] BY <1>9, <2>3
  <2> HIDE DEF j, Q
  <2>5. c[j] = IF j = 1 THEN pages[j] ELSE c[j - 1] \o pages[j] BY <1>7, <2>2, Zenon
  <2>6. g[j] = IF j = 1 THEN pages[j] ELSE g[j - 1] \o pages[j] BY <1>5, <2>2
  <2>7. c[j] = g[j] BY <2>2, <2>4, <2>5, <2>6
  <2>8. QED BY <2>7 DEF j
<1> HIDE DEF Q
<1>10. Nat \subseteq Q BY <1>8, <1>9, SetInduction
<1>11. CASE count = 0
  <2>1. n = 0
    <3> HIDE DEF n
    <3>1. QED BY <1>1, <1>2, <1>11
  <2>2. ms = << >> BY <2>1
  <2>3. QED BY <1>2, <1>11, <2>2
<1>12. CASE count # 0
  <2>1. count \in 1 .. count BY <1>2, <1>12
  <2>2. c[count] = g[count] BY <1>2, <1>10, <2>1 DEF Q
  <2>3. g[count] = SubSeq(ms, 1, n) BY <1>4, <2>1 DEF g
  <2>4. SubSeq(ms, 1, n) = ms BY SubSeqFull
  <2>5. QED BY <1>2, <1>12, <2>2, <2>3, <2>4 DEF c, pages
<1>13. QED BY <1>11, <1>12

=============================================================================
