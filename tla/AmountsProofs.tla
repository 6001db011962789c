---------------------------- MODULE AmountsProofs ----------------------------
(***************************************************************************)
(* Which way the divisions of Amounts round, for every amount, price and   *)
(* scale, that the price band is the rational one, and what the sums of    *)
(* module Functions, which are folds, come to for every finite set.        *)
(***************************************************************************)
EXTENDS Amounts, Sequences, Functions, FiniteSetTheorems, WellFoundedInduction, TLAPS

-----------------------------------------------------------------------------
(* Division. *)

LEMMA DivIsBelow ==
  ASSUME NEW a \in Nat, NEW b \in Nat \ {0}
  PROVE  /\ a \div b \in Nat
         /\ b * (a \div b) <= a
         /\ a < b * (a \div b) + b
  OBVIOUS

LEMMA CeilIsAbove ==
  ASSUME NEW a \in Nat, NEW b \in Nat \ {0}
  PROVE  /\ CeilDiv(a, b) \in Nat
         /\ a <= b * CeilDiv(a, b)
         /\ b * CeilDiv(a, b) < a + b
  <1> DEFINE n == a + b - 1
  <1>1. n \in Nat
    OBVIOUS
  <1>2. n \div b \in Nat /\ b * (n \div b) <= n /\ n < b * (n \div b) + b
    BY <1>1, DivIsBelow
  <1>3. b * (n \div b) \in Int
    BY <1>2
  <1> QED
    BY <1>2, <1>3 DEF CeilDiv

LEMMA ProductIsNat ==
  ASSUME NEW a \in Nat, NEW b \in Nat
  PROVE  a * b \in Nat
  OBVIOUS

LEMMA ProductGrows ==
  ASSUME NEW a \in Nat, NEW b \in Nat, NEW c \in Nat, a <= b
  PROVE  /\ a * c <= b * c
         /\ c * a <= c * b
  OBVIOUS

LEMMA ProductIsBelow ==
  ASSUME NEW a \in Nat, NEW b \in Nat, NEW c \in Nat \ {0}, a < b
  PROVE  c * a < c * b
  <1>1. c * (a + 1) <= c * b
    BY ProductGrows
  <1>2. c * (a + 1) = c * a + c /\ c * a \in Nat /\ c * b \in Nat
    OBVIOUS
  <1> QED
    BY <1>1, <1>2

\* What fits a width is not cut.
LEMMA FitsAreKept ==
  ASSUME NEW n \in Nat, NEW m \in Nat \ {0}, n < m
  PROVE  n % m = n
  OBVIOUS

\* A share of what divides by s, when s * n is the whole.
LEMMA ExactShare ==
  ASSUME NEW a \in Nat, NEW n \in Nat, NEW s \in Nat \ {0}, s * n \in Nat \ {0}, a % s = 0
  PROVE  /\ (a * n) % (s * n) = 0
         /\ (a * n) \div (s * n) = a \div s
<1> DEFINE q == a \div s
<1>1. q \in Nat /\ a = q * s
  OBVIOUS
<1> HIDE DEF q
<1>2. a * n = q * (s * n)
  BY <1>1
<1> DEFINE d == s * n
<1>3. d \in Nat \ {0}
  OBVIOUS
<1>4. a * n = q * d
  BY <1>2
<1> HIDE DEF d
<1>5. (q * d) % d = 0 /\ (q * d) \div d = q
  BY <1>1, <1>3
<1> QED
  BY <1>4, <1>5 DEF d, q

\* What divides is rounded neither way.
LEMMA ExactCeil ==
  ASSUME NEW a \in Nat, NEW d \in Nat \ {0}, a % d = 0
  PROVE  (a + (d - 1)) \div d = a \div d
<1> DEFINE q == a \div d
<1>1. q \in Nat /\ a = q * d
  OBVIOUS
<1> HIDE DEF q
<1>2. (q * d + (d - 1)) \div d = q
  BY <1>1
<1> QED
  BY <1>1, <1>2 DEF q

-----------------------------------------------------------------------------
(* The rational facts behind a judgement. *)

\* A share of a total, times the tokens, is the total and less than a unit each.
LEMMA SharesCover ==
  ASSUME NEW total \in Nat, NEW n \in Nat \ {0}, NEW price \in Nat
  PROVE  /\ ShareOf(total, n) \in Nat
         /\ total * price <= n * (ShareOf(total, n) * price)
         /\ n * (ShareOf(total, n) * price) <= total * price + n * price
  <1> DEFINE s == ShareOf(total, n)
  <1>1. s \in Nat /\ total <= n * s /\ n * s < total + n
    BY CeilIsAbove DEF ShareOf
  <1>2. n * s \in Nat /\ total + n \in Nat /\ n * s <= total + n
    BY <1>1
  <1> HIDE DEF s
  <1>3. total * price <= (n * s) * price /\ (n * s) * price <= (total + n) * price
    BY <1>1, <1>2, ProductGrows
  <1>4. (n * s) * price = n * (s * price) /\ (total + n) * price = total * price + n * price
    BY <1>1
  <1> QED
    BY <1>1, <1>3, <1>4 DEF s

\* What is received, in whole micro-dollars, covers costs that are rounded up and a
\* profit: then it covers them unrounded.
LEMMA WholeDollarsCover ==
  ASSUME NEW S \in Nat \ {0}, NEW x \in Nat, NEW a \in Nat, NEW g \in Nat, NEW c \in Nat,
         NEW d \in Nat, NEW m \in Nat,
         x \div S >= CeilDiv(a, S) + CeilDiv(g, S) + CeilDiv(c, S) + CeilDiv(d, S) + m
  PROVE  x >= a + g + c + d + S * m
  <1> DEFINE X == x \div S
             A == CeilDiv(a, S)
             G == CeilDiv(g, S)
             C == CeilDiv(c, S)
             D == CeilDiv(d, S)
  <1>1. X \in Nat /\ S * X <= x
    BY DivIsBelow
  <1>2. /\ A \in Nat /\ a <= S * A
        /\ G \in Nat /\ g <= S * G
        /\ C \in Nat /\ c <= S * C
        /\ D \in Nat /\ d <= S * D
    BY CeilIsAbove
  <1>3. X >= A + G + C + D + m
    OBVIOUS
  <1> HIDE DEF X, A, G, C, D
  <1>4. S * (A + G + C + D + m) <= S * X
    BY <1>1, <1>2, <1>3, ProductGrows
  <1>5. S * (A + G + C + D + m) = S * A + S * G + S * C + S * D + S * m
    BY <1>2
  <1>6. S * A \in Nat /\ S * G \in Nat /\ S * C \in Nat /\ S * D \in Nat /\ S * m \in Nat
        /\ S * X \in Nat
    BY <1>1, <1>2
  <1> QED
    BY <1>1, <1>2, <1>4, <1>5, <1>6

\* If it does not, then it falls short of the costs by more than what rounding four
\* of them can add.
LEMMA WholeDollarsMiss ==
  ASSUME NEW S \in Nat \ {0}, NEW x \in Nat, NEW a \in Nat, NEW g \in Nat, NEW c \in Nat,
         NEW d \in Nat, NEW m \in Nat,
         x \div S < CeilDiv(a, S) + CeilDiv(g, S) + CeilDiv(c, S) + CeilDiv(d, S) + m
  PROVE  x < a + g + c + d + 4 * S + S * m
  <1> DEFINE X == x \div S
             A == CeilDiv(a, S)
             G == CeilDiv(g, S)
             C == CeilDiv(c, S)
             D == CeilDiv(d, S)
  <1>1. X \in Nat /\ x < S * X + S
    BY DivIsBelow
  <1>2. /\ A \in Nat /\ S * A < a + S
        /\ G \in Nat /\ S * G < g + S
        /\ C \in Nat /\ S * C < c + S
        /\ D \in Nat /\ S * D < d + S
    BY CeilIsAbove
  <1>3. X + 1 <= A + G + C + D + m
    BY <1>1, <1>2
  <1> HIDE DEF X, A, G, C, D
  <1>4. S * (X + 1) <= S * (A + G + C + D + m)
    BY <1>1, <1>2, <1>3, ProductGrows
  <1>5. /\ S * (A + G + C + D + m) = S * A + S * G + S * C + S * D + S * m
        /\ S * (X + 1) = S * X + S
    BY <1>1, <1>2
  <1>6. S * A \in Nat /\ S * G \in Nat /\ S * C \in Nat /\ S * D \in Nat /\ S * m \in Nat
        /\ S * X \in Nat
    BY <1>1, <1>2
  <1> QED
    BY <1>1, <1>2, <1>4, <1>5, <1>6

-----------------------------------------------------------------------------
(* The price band. *)

\* A value in whole micro-dollars is in the band of AutoBuyConfig::in_price_band
\* exactly when it is within the tolerance of the target, unrounded.
THEOREM BandIsExact ==
  ASSUME Hundred \in Nat \ {0}, NEW usd \in Nat, NEW target \in Nat, NEW percent \in 0..Hundred
  PROVE  InBand(usd, target, percent) <=>
           /\ target * (Hundred - percent) <= Hundred * usd
           /\ Hundred * usd <= target * (Hundred + percent)
  <1> DEFINE low == target * (Hundred - percent)
             high == target * (Hundred + percent)
             L == CeilDiv(low, Hundred)
             U == high \div Hundred
  <1>1. low \in Nat /\ high \in Nat
    BY ProductIsNat
  <1>2. L \in Nat /\ low <= Hundred * L /\ Hundred * L < low + Hundred
    BY <1>1, CeilIsAbove
  <1>3. U \in Nat /\ Hundred * U <= high /\ high < Hundred * U + Hundred
    BY <1>1, DivIsBelow
  <1> HIDE DEF low, high, L, U
  <1>4. L <= usd <=> low <= Hundred * usd
    <2>1. ASSUME L <= usd PROVE low <= Hundred * usd
      <3>1. Hundred * L <= Hundred * usd
        BY <2>1, <1>2, ProductGrows
      <3> QED
        BY <3>1, <1>1, <1>2
    <2>2. ASSUME low <= Hundred * usd, usd < L PROVE FALSE
      <3>1. usd + 1 <= L
        BY <2>2, <1>2
      <3>2. Hundred * (usd + 1) <= Hundred * L
        BY <3>1, <1>2, ProductGrows
      <3>3. Hundred * (usd + 1) = Hundred * usd + Hundred
        OBVIOUS
      <3> QED
        BY <2>2, <3>2, <3>3, <1>1, <1>2
    <2> QED
      BY <2>1, <2>2, <1>2
  <1>5. usd <= U <=> Hundred * usd <= high
    <2>1. ASSUME usd <= U PROVE Hundred * usd <= high
      <3>1. Hundred * usd <= Hundred * U
        BY <2>1, <1>3, ProductGrows
      <3> QED
        BY <3>1, <1>1, <1>3
    <2>2. ASSUME Hundred * usd <= high, U < usd PROVE FALSE
      <3>1. U + 1 <= usd
        BY <2>2, <1>3
      <3>2. Hundred * (U + 1) <= Hundred * usd
        BY <3>1, <1>3, ProductGrows
      <3>3. Hundred * (U + 1) = Hundred * U + Hundred
        BY <1>3
      <3> QED
        BY <2>2, <3>2, <3>3, <1>1, <1>3
    <2> QED
      BY <2>1, <2>2, <1>3
  <1> QED
    BY <1>4, <1>5 DEF InBand, BandLower, BandUpper, low, high, L, U

-----------------------------------------------------------------------------
(* Sums over finite sets.  Each is proved by the smallest set for which it would not  *)
(* hold.                                                                               *)

NatLess == {pair \in Nat \X Nat : pair[1] < pair[2]}

LEMMA LeastNumber ==
  ASSUME NEW T \in SUBSET Nat, T # {}
  PROVE  \E x \in T : \A y \in T : x <= y
<1>1. IsWellFoundedOn(NatLess, Nat)
  BY NatLessThanWellFounded DEF OpToRel, NatLess
<1>2. PICK x \in T : \A y \in T : <<y, x>> \notin NatLess
  BY <1>1, WFMin
<1>3. ASSUME NEW y \in T PROVE x <= y
  <2>1. x \in Nat /\ y \in Nat /\ ~(y < x)
    BY <1>2 DEF NatLess
  <2> QED
    BY <2>1
<1> QED
  BY <1>3

\* Among finite sets one has the fewest elements.
LEMMA SmallestSet ==
  ASSUME NEW W, W # {}, \A A \in W : IsFiniteSet(A)
  PROVE  \E A \in W : \A B \in W : Cardinality(A) <= Cardinality(B)
<1> DEFINE sizes == {Cardinality(A) : A \in W}
<1>1. sizes \in SUBSET Nat /\ sizes # {}
  BY FS_CardinalityType
<1>2. PICK n \in sizes : \A m \in sizes : n <= m
  BY <1>1, LeastNumber
<1> QED
  BY <1>2

First(S) == CHOOSE x \in S : TRUE

SumsAre(sums, f, S) ==
  sums = [s \in SUBSET S |-> IF s = {} THEN 0 ELSE f[First(s)] + sums[s \ {First(s)}]]

LEMMA FirstIsIn ==
  ASSUME NEW S, S # {}
  PROVE  First(S) \in S
  BY DEF First

\* Without an element a set is smaller.
LEMMA OneLess ==
  ASSUME NEW S, IsFiniteSet(S), NEW x \in S
  PROVE  /\ IsFiniteSet(S \ {x})
         /\ Cardinality(S \ {x}) \in Nat
         /\ Cardinality(S) \in Nat
         /\ Cardinality(S) = Cardinality(S \ {x}) + 1
<1>1. IsFiniteSet(S \ {x}) /\ Cardinality(S \ {x}) = Cardinality(S) - 1
  BY FS_RemoveElement
<1>2. Cardinality(S \ {x}) \in Nat /\ Cardinality(S) \in Nat
  BY <1>1, FS_CardinalityType
<1> QED
  BY <1>1, <1>2

LEMMA Fewer ==
  ASSUME NEW S, IsFiniteSet(S), NEW x \in S
  PROVE  ~(Cardinality(S) <= Cardinality(S \ {x}))
  BY OneLess

LEMMA SumsExist ==
  ASSUME NEW f, NEW S, IsFiniteSet(S)
  PROVE  \E sums : SumsAre(sums, f, S)
<1> DEFINE Small(n) == {s \in SUBSET S : Cardinality(s) <= n}
           Sums(n, g) == g = [s \in Small(n) |-> IF s = {} THEN 0
                                                 ELSE f[First(s)] + g[s \ {First(s)}]]
           None == {n \in Nat : ~\E g : Sums(n, g)}
<1>1. \A s \in SUBSET S : IsFiniteSet(s) /\ Cardinality(s) \in Nat
  BY FS_Subset, FS_CardinalityType
<1>2. \A s \in SUBSET S : s # {} =>
        /\ s \ {First(s)} \in SUBSET S
        /\ Cardinality(s) = Cardinality(s \ {First(s)}) + 1
  BY <1>1, FirstIsIn, OneLess
<1>3. 0 \notin None
  <2>1. \A s \in Small(0) : s = {}
    <3> SUFFICES ASSUME NEW s \in Small(0), s # {} PROVE FALSE
      OBVIOUS
    <3>1. s \ {First(s)} \in SUBSET S /\ Cardinality(s) = Cardinality(s \ {First(s)}) + 1
      BY <1>2
    <3>2. Cardinality(s \ {First(s)}) \in Nat
      BY <1>1, <3>1
    <3> QED
      BY <3>1, <3>2
  <2>2. Sums(0, [s \in Small(0) |-> 0])
    BY <2>1
  <2> HIDE DEF Sums
  <2> QED
    BY <2>2
<1>4. ASSUME NEW n \in Nat, n \notin None
      PROVE  n + 1 \notin None
  <2>1. PICK g : Sums(n, g)
    BY <1>4
  <2> DEFINE h == [s \in Small(n + 1) |-> IF s = {} THEN 0
                                          ELSE f[First(s)] + g[s \ {First(s)}]]
  <2>2. \A s \in Small(n) : s \in Small(n + 1) /\ h[s] = g[s]
    <3> SUFFICES ASSUME NEW s \in Small(n) PROVE s \in Small(n + 1) /\ h[s] = g[s]
      OBVIOUS
    <3>1. s \in Small(n + 1)
      BY <1>1
    <3>2. g[s] = IF s = {} THEN 0 ELSE f[First(s)] + g[s \ {First(s)}]
      BY <2>1
    <3> QED
      BY <3>1, <3>2
  <2>3. \A s \in Small(n + 1) : s # {} => s \ {First(s)} \in Small(n)
    <3> SUFFICES ASSUME NEW s \in Small(n + 1), s # {} PROVE s \ {First(s)} \in Small(n)
      OBVIOUS
    <3>1. s \ {First(s)} \in SUBSET S /\ Cardinality(s) = Cardinality(s \ {First(s)}) + 1
      BY <1>2
    <3>2. Cardinality(s \ {First(s)}) \in Nat
      BY <1>1, <3>1
    <3> QED
      BY <3>1, <3>2
  <2>4. \A s \in Small(n + 1) : s # {} => g[s \ {First(s)}] = h[s \ {First(s)}]
    BY <2>2, <2>3
  <2>5. Sums(n + 1, h)
    BY <2>4
  <2> HIDE DEF Sums, h
  <2> QED
    BY <2>5
<1>5. None = {}
  <2> SUFFICES ASSUME None # {} PROVE FALSE
    OBVIOUS
  <2>1. PICK n \in None : \A m \in None : n <= m
    BY LeastNumber
  <2> HIDE DEF Sums
  <2>2. n \in Nat /\ n # 0
    BY <1>3
  <2>3. n - 1 \in Nat /\ n - 1 \notin None
    <3>1. n - 1 \in Nat
      BY <2>2
    <3> QED
      BY <2>1, <3>1
  <2>4. (n - 1) + 1 \notin None
    BY <1>4, <2>3
  <2> QED
    BY <2>2, <2>4
<1>6. Cardinality(S) \in Nat
  BY FS_CardinalityType
<1>7. Small(Cardinality(S)) = SUBSET S
  <2>1. \A s \in SUBSET S : Cardinality(s) <= Cardinality(S)
    BY FS_Subset
  <2> QED
    BY <2>1
<1>8. PICK g : Sums(Cardinality(S), g)
  BY <1>5, <1>6
<1>9. SumsAre(g, f, S)
  BY <1>7, <1>8 DEF SumsAre
<1> QED
  BY <1>9

LEMMA SumsAreUnique ==
  ASSUME NEW f, NEW S, IsFiniteSet(S), NEW T \in SUBSET S,
         NEW g, SumsAre(g, f, S), NEW h, SumsAre(h, f, T)
  PROVE  \A s \in SUBSET T : g[s] = h[s]
<1> DEFINE Wrong == {s \in SUBSET T : g[s] # h[s]}
<1> SUFFICES ASSUME Wrong # {} PROVE FALSE
  OBVIOUS
<1>1. \A s \in Wrong : IsFiniteSet(s)
  BY FS_Subset
<1>2. PICK s \in Wrong : \A t \in Wrong : Cardinality(s) <= Cardinality(t)
  BY <1>1, SmallestSet
<1>3. /\ g[s] = IF s = {} THEN 0 ELSE f[First(s)] + g[s \ {First(s)}]
      /\ h[s] = IF s = {} THEN 0 ELSE f[First(s)] + h[s \ {First(s)}]
  BY DEF SumsAre
<1>4. s # {}
  BY <1>3
<1>5. First(s) \in s
  BY <1>4, FirstIsIn
<1>6. ~(Cardinality(s) <= Cardinality(s \ {First(s)}))
  <2>1. IsFiniteSet(s)
    BY <1>1
  <2>2. /\ Cardinality(s \ {First(s)}) \in Nat
        /\ Cardinality(s) = Cardinality(s \ {First(s)}) + 1
    BY <1>5, <2>1, OneLess
  <2> QED
    BY <2>2
<1>7. s \ {First(s)} \notin Wrong
  BY <1>2, <1>6
<1>8. g[s \ {First(s)}] = h[s \ {First(s)}]
  BY <1>7
<1> QED
  BY <1>3, <1>4, <1>8

LEMMA SumIsDefined ==
  ASSUME NEW f, NEW S, IsFiniteSet(S)
  PROVE  \E sums : SumsAre(sums, f, S) /\ SumFunctionOnSet(f, S) = sums[S]
<1> DEFINE sums == CHOOSE sums : sums = [s \in SUBSET S |->
                      IF s = {} THEN 0 ELSE f[CHOOSE x \in s : TRUE] + sums[s \ {CHOOSE x \in s : TRUE}]]
<1>1. SumsAre(sums, f, S)
  <2>1. PICK g : SumsAre(g, f, S)
    BY SumsExist
  <2>2. g = [s \in SUBSET S |-> IF s = {} THEN 0 ELSE f[CHOOSE x \in s : TRUE]
                                                     + g[s \ {CHOOSE x \in s : TRUE}]]
    BY <2>1 DEF SumsAre, First
  <2>3. sums = [s \in SUBSET S |-> IF s = {} THEN 0 ELSE f[CHOOSE x \in s : TRUE]
                                                        + sums[s \ {CHOOSE x \in s : TRUE}]]
    BY <2>2
  <2> HIDE DEF sums
  <2> QED
    BY <2>3 DEF SumsAre, First
<1>2. SumFunctionOnSet(f, S) = sums[S]
  BY DEF SumFunctionOnSet, FoldFunctionOnSet, MapThenFoldSet
<1> QED
  BY <1>1, <1>2

\* The definition, one element at a time.
LEMMA SumStep ==
  ASSUME NEW f, NEW S, IsFiniteSet(S)
  PROVE  SumFunctionOnSet(f, S) =
           IF S = {} THEN 0 ELSE f[First(S)] + SumFunctionOnSet(f, S \ {First(S)})
<1>1. PICK g : SumsAre(g, f, S) /\ SumFunctionOnSet(f, S) = g[S]
  BY SumIsDefined
<1>2. g[S] = IF S = {} THEN 0 ELSE f[First(S)] + g[S \ {First(S)}]
  BY <1>1 DEF SumsAre
<1>3. IsFiniteSet(S \ {First(S)})
  BY FS_Subset
<1>4. PICK h : SumsAre(h, f, S \ {First(S)}) /\ SumFunctionOnSet(f, S \ {First(S)}) = h[S \ {First(S)}]
  BY <1>3, SumIsDefined
<1>5. g[S \ {First(S)}] = h[S \ {First(S)}]
  BY <1>1, <1>4, SumsAreUnique
<1> QED
  BY <1>1, <1>2, <1>4, <1>5

LEMMA SumOfNone == \A f : SumFunctionOnSet(f, {}) = 0
  BY SumStep, FS_EmptySet

LEMMA SumIsNat ==
  ASSUME NEW f, NEW S, IsFiniteSet(S), \A i \in S : f[i] \in Nat
  PROVE  SumFunctionOnSet(f, S) \in Nat
<1> DEFINE Wrong == {s \in SUBSET S : SumFunctionOnSet(f, s) \notin Nat}
<1> SUFFICES ASSUME Wrong # {} PROVE FALSE
  OBVIOUS
<1>1. \A s \in Wrong : IsFiniteSet(s)
  BY FS_Subset
<1>2. PICK s \in Wrong : \A t \in Wrong : Cardinality(s) <= Cardinality(t)
  BY <1>1, SmallestSet
<1>3. SumFunctionOnSet(f, s) = IF s = {} THEN 0
                               ELSE f[First(s)] + SumFunctionOnSet(f, s \ {First(s)})
  BY <1>1, SumStep
<1>4. s # {}
  BY <1>3
<1>5. First(s) \in s
  BY <1>4, FirstIsIn
<1>6. s \ {First(s)} \notin Wrong
  BY <1>1, <1>2, <1>5, Fewer
<1>7. SumFunctionOnSet(f, s \ {First(s)}) \in Nat /\ f[First(s)] \in Nat
  BY <1>5, <1>6
<1> QED
  BY <1>3, <1>4, <1>7

\* Any element may be the first.
LEMMA SumTakes ==
  ASSUME NEW f, NEW S, IsFiniteSet(S), \A i \in S : f[i] \in Nat, NEW x \in S
  PROVE  /\ SumFunctionOnSet(f, S) = f[x] + SumFunctionOnSet(f, S \ {x})
         /\ SumFunctionOnSet(f, S \ {x}) \in Nat
<1> DEFINE Sum(s) == SumFunctionOnSet(f, s)
           Wrong == {s \in SUBSET S : \E y \in s : Sum(s) # f[y] + Sum(s \ {y})}
<1>1. \A s \in SUBSET S : IsFiniteSet(s) /\ Sum(s) \in Nat
  BY FS_Subset, SumIsNat
<1>2. ASSUME Wrong # {} PROVE FALSE
  <2>1. PICK s \in Wrong : \A t \in Wrong : Cardinality(s) <= Cardinality(t)
    BY <1>1, <1>2, SmallestSet
  <2>2. PICK y \in s : Sum(s) # f[y] + Sum(s \ {y})
    BY <2>1
  <2>3. First(s) \in s
    BY <2>2, FirstIsIn
  <2>4. Sum(s) = f[First(s)] + Sum(s \ {First(s)})
    BY <1>1, <2>2, SumStep
  <2>5. y # First(s)
    BY <2>2, <2>4
  <2>6. s \ {y} \notin Wrong /\ s \ {First(s)} \notin Wrong
    BY <1>1, <2>1, <2>2, <2>3, Fewer
  <2>7. Sum(s \ {y}) = f[First(s)] + Sum((s \ {y}) \ {First(s)})
    BY <2>3, <2>5, <2>6
  <2>8. Sum(s \ {First(s)}) = f[y] + Sum((s \ {First(s)}) \ {y})
    BY <2>2, <2>5, <2>6
  <2>9. (s \ {y}) \ {First(s)} = (s \ {First(s)}) \ {y}
    OBVIOUS
  <2>10. /\ f[y] \in Nat /\ f[First(s)] \in Nat
         /\ Sum((s \ {First(s)}) \ {y}) \in Nat
    BY <1>1, <2>2, <2>3
  <2>11. Sum(s \ {y}) = f[First(s)] + Sum((s \ {First(s)}) \ {y})
    BY <2>7, <2>9
  <2>12. Sum(s) = f[y] + Sum(s \ {y})
    BY <2>4, <2>8, <2>10, <2>11
  <2> QED
    BY <2>2, <2>12
<1> QED
  BY <1>1, <1>2

LEMMA SumAdds ==
  ASSUME NEW f, NEW S, IsFiniteSet(S), NEW x, x \notin S, \A i \in S \cup {x} : f[i] \in Nat
  PROVE  /\ SumFunctionOnSet(f, S \cup {x}) = f[x] + SumFunctionOnSet(f, S)
         /\ SumFunctionOnSet(f, S) \in Nat
<1>1. IsFiniteSet(S \cup {x}) /\ (S \cup {x}) \ {x} = S
  BY FS_AddElement
<1> QED
  BY <1>1, SumTakes

LEMMA SumOfOne ==
  ASSUME NEW f, NEW x, f[x] \in Nat
  PROVE  SumFunctionOnSet(f, {x}) = f[x]
<1>1. SumFunctionOnSet(f, {} \cup {x}) = f[x] + SumFunctionOnSet(f, {})
  BY SumAdds, FS_EmptySet
<1>2. {} \cup {x} = {x}
  OBVIOUS
<1> QED
  BY <1>1, <1>2, SumOfNone

\* Elements may be renamed, and what does not count may change.
LEMMA SumIsMapped ==
  ASSUME NEW f, NEW g, NEW S, NEW p, IsFiniteSet(S),
         \A i \in S : g[i] = f[p[i]] /\ f[p[i]] \in Nat,
         \A i, j \in S : p[i] = p[j] => i = j
  PROVE  SumFunctionOnSet(g, S) = SumFunctionOnSet(f, {p[i] : i \in S})
<1> DEFINE Image(s) == {p[i] : i \in s}
           Wrong == {s \in SUBSET S : SumFunctionOnSet(g, s) # SumFunctionOnSet(f, Image(s))}
<1> SUFFICES ASSUME Wrong # {} PROVE FALSE
  OBVIOUS
<1>1. ASSUME NEW s \in SUBSET S
      PROVE  IsFiniteSet(s) /\ IsFiniteSet(Image(s))
  <2>1. IsFiniteSet(s)
    BY FS_Subset
  <2>2. [i \in s |-> p[i]] \in Surjection(s, Image(s))
    BY DEF Surjection
  <2> QED
    BY <2>1, <2>2, FS_Surjection
<1>2. PICK s \in Wrong : \A t \in Wrong : Cardinality(s) <= Cardinality(t)
  BY <1>1, SmallestSet
<1>3. s # {}
  <2>1. Image({}) = {}
    OBVIOUS
  <2> QED
    BY <2>1, SumOfNone
<1>4. PICK x \in s : TRUE
  BY <1>3
<1>5. s \ {x} \notin Wrong
  BY <1>1, <1>2, <1>4, Fewer
<1>6. Image(s) \ {p[x]} = Image(s \ {x})
  OBVIOUS
<1>7. SumFunctionOnSet(g, s) = g[x] + SumFunctionOnSet(g, s \ {x})
  BY <1>1, <1>4, SumTakes
<1>8. SumFunctionOnSet(f, Image(s)) = f[p[x]] + SumFunctionOnSet(f, Image(s) \ {p[x]})
  <2>1. \A j \in Image(s) : f[j] \in Nat
    OBVIOUS
  <2>2. p[x] \in Image(s)
    BY <1>4
  <2> QED
    BY <1>1, <2>1, <2>2, SumTakes
<1>9. SumFunctionOnSet(g, s \ {x}) = SumFunctionOnSet(f, Image(s \ {x}))
  BY <1>5
<1> HIDE DEF Image
<1> QED
  BY <1>2, <1>4, <1>6, <1>7, <1>8, <1>9

LEMMA SumsAgree ==
  ASSUME NEW f, NEW g, NEW S, IsFiniteSet(S), \A i \in S : g[i] = f[i] /\ f[i] \in Nat
  PROVE  SumFunctionOnSet(g, S) = SumFunctionOnSet(f, S)
<1> DEFINE p == [i \in S |-> i]
<1>1. {p[i] : i \in S} = S
  OBVIOUS
<1>2. \A i \in S : p[i] = i
  OBVIOUS
<1> HIDE DEF p
<1>3. SumFunctionOnSet(g, S) = SumFunctionOnSet(f, {p[i] : i \in S})
  BY <1>2, SumIsMapped
<1> QED
  BY <1>1, <1>3

LEMMA SumSplits ==
  ASSUME NEW f, NEW S, NEW T, IsFiniteSet(S), IsFiniteSet(T), S \cap T = {},
         \A i \in S \cup T : f[i] \in Nat
  PROVE  /\ SumFunctionOnSet(f, S \cup T) = SumFunctionOnSet(f, S) + SumFunctionOnSet(f, T)
         /\ SumFunctionOnSet(f, S) \in Nat
         /\ SumFunctionOnSet(f, T) \in Nat
<1> DEFINE Sum(s) == SumFunctionOnSet(f, s)
           Wrong == {s \in SUBSET S : Sum(s \cup T) # Sum(s) + Sum(T)}
<1>1. Sum(S) \in Nat /\ Sum(T) \in Nat
  BY SumIsNat
<1>2. ASSUME Wrong # {} PROVE FALSE
  <2>1. \A s \in Wrong : IsFiniteSet(s) /\ IsFiniteSet(s \cup T)
    BY FS_Subset, FS_Union
  <2>2. PICK s \in Wrong : \A t \in Wrong : Cardinality(s) <= Cardinality(t)
    BY <1>2, <2>1, SmallestSet
  <2>3. s # {}
    <3>1. Sum({} \cup T) = Sum({}) + Sum(T)
      <4>1. {} \cup T = T
        OBVIOUS
      <4>2. Sum({}) = 0
        BY SumOfNone
      <4> QED
        BY <1>1, <4>1, <4>2
    <3>2. {} \notin Wrong
      BY <3>1
    <3> QED
      BY <2>2, <3>2
  <2>4. PICK x \in s : TRUE
    BY <2>3
  <2>5. s \ {x} \notin Wrong
    BY <2>1, <2>2, <2>4, Fewer
  <2>6. (s \cup T) \ {x} = (s \ {x}) \cup T
    BY <2>4
  <2>7. Sum(s) = f[x] + Sum(s \ {x}) /\ Sum(s \ {x}) \in Nat
    BY <2>1, <2>4, SumTakes
  <2>8. Sum(s \cup T) = f[x] + Sum((s \cup T) \ {x})
    BY <2>1, <2>4, SumTakes
  <2>9. Sum((s \ {x}) \cup T) = Sum(s \ {x}) + Sum(T)
    BY <2>5
  <2>10. f[x] \in Nat /\ Sum(s \cup T) # Sum(s) + Sum(T)
    BY <2>2, <2>4
  <2>11. Sum(s \cup T) = f[x] + Sum((s \ {x}) \cup T)
    BY <2>6, <2>8
  <2>12. Sum(s \cup T) = Sum(s) + Sum(T)
    BY <1>1, <2>7, <2>9, <2>10, <2>11
  <2> QED
    BY <2>10, <2>12
<1> QED
  BY <1>1, <1>2

\* What is left out makes a sum no greater.
LEMMA SumOfPart ==
  ASSUME NEW f, NEW S, NEW T, IsFiniteSet(T), S \subseteq T, \A i \in T : f[i] \in Nat
  PROVE  /\ SumFunctionOnSet(f, T) = SumFunctionOnSet(f, S) + SumFunctionOnSet(f, T \ S)
         /\ SumFunctionOnSet(f, S) \in Nat
         /\ SumFunctionOnSet(f, T \ S) \in Nat
         /\ SumFunctionOnSet(f, S) <= SumFunctionOnSet(f, T)
<1>1. IsFiniteSet(S) /\ IsFiniteSet(T \ S) /\ S \cap (T \ S) = {} /\ S \cup (T \ S) = T
  BY FS_Subset
<1>2. \A i \in S \cup (T \ S) : f[i] \in Nat
  OBVIOUS
<1>3. /\ SumFunctionOnSet(f, S \cup (T \ S)) = SumFunctionOnSet(f, S) + SumFunctionOnSet(f, T \ S)
      /\ SumFunctionOnSet(f, S) \in Nat
      /\ SumFunctionOnSet(f, T \ S) \in Nat
  BY <1>1, <1>2, SumSplits
<1>4. SumFunctionOnSet(f, T) = SumFunctionOnSet(f, S) + SumFunctionOnSet(f, T \ S)
  BY <1>1, <1>3
<1> QED
  BY <1>3, <1>4

-----------------------------------------------------------------------------
(* Families that are indexed by pairs. *)

\* A sequence has finitely many places.
LEMMA PlacesAreFinite ==
  ASSUME NEW S, NEW s \in Seq(S)
  PROVE  IsFiniteSet(DOMAIN s) /\ \A i \in DOMAIN s : s[i] \in S
<1>1. DOMAIN s = 1 .. Len(s) /\ Len(s) \in Nat
  OBVIOUS
<1>2. IsFiniteSet(1 .. Len(s))
  BY <1>1, FS_Interval
<1> QED
  BY <1>1, <1>2

LEMMA ImageIsFinite ==
  ASSUME NEW S, IsFiniteSet(S), NEW g
  PROVE  IsFiniteSet({g[x] : x \in S})
<1> DEFINE T == {g[x] : x \in S}
<1>1. [x \in S |-> g[x]] \in Surjection(S, T)
  BY DEF Surjection
<1> HIDE DEF T
<1>2. IsFiniteSet(T)
  BY <1>1, FS_Surjection
<1> QED
  BY <1>2 DEF T

LEMMA SidesAreFinite ==
  ASSUME NEW A, NEW B, IsFiniteSet(A), IsFiniteSet(B)
  PROVE  IsFiniteSet(({0} \X A) \cup ({1} \X B))
<1>1. IsFiniteSet({0}) /\ IsFiniteSet({1})
  BY FS_Singleton
<1>2. IsFiniteSet({0} \X A) /\ IsFiniteSet({1} \X B)
  BY <1>1, FS_Product
<1> QED
  BY <1>2, FS_Union

\* The places S of the sequence, or of the fulfilment, c.
Side(c, S) == {c} \X S

\* The sum over one sequence of a family is the sum over its places.
LEMMA SideSum ==
  ASSUME NEW f, NEW g, NEW S, NEW c, IsFiniteSet(S),
         \A i \in S : f[<<c, i>>] = g[i] /\ g[i] \in Nat
  PROVE  SumFunctionOnSet(f, Side(c, S)) = SumFunctionOnSet(g, S)
<1> DEFINE p == [i \in S |-> <<c, i>>]
<1>1. {p[i] : i \in S} = {c} \X S
  <2>1. \A x \in {c} \X S : x = <<c, x[2]>> /\ x[2] \in S
    OBVIOUS
  <2>2. \A x \in {c} \X S : x = p[x[2]]
    BY <2>1
  <2>3. \A i \in S : p[i] \in {c} \X S
    OBVIOUS
  <2> HIDE DEF p
  <2> QED
    BY <2>1, <2>2, <2>3
<1>2. \A i \in S : p[i] = <<c, i>>
  OBVIOUS
<1> HIDE DEF p
<1>3. \A i, j \in S : p[i] = p[j] => i = j
  BY <1>2
<1>4. \A i \in S : g[i] = f[p[i]] /\ f[p[i]] \in Nat
  BY <1>2
<1>5. SumFunctionOnSet(g, S) = SumFunctionOnSet(f, {p[i] : i \in S})
  BY <1>3, <1>4, SumIsMapped
<1> QED
  BY <1>1, <1>5 DEF Side
=============================================================================
