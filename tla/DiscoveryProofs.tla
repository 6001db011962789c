--------------------------- MODULE DiscoveryProofs ---------------------------
(***************************************************************************)
(* What a session signs is in the price band, and a lap leaves no page     *)
(* out, for all orders, pages, returned calls, prices, targets and         *)
(* tolerances.                                                             *)
(***************************************************************************)
EXTENDS Discovery, AmountsProofs, FiniteSetTheorems

\* A cost in whole micro-dollars that is in the band comes from an amount that is
\* in it as a rational, but for the rounding of the cost.
LEMMA CostInBand ==
  ASSUME NEW value \in Nat, NEW r \in Rates, Eligible(value, r)
  PROVE  /\ Hundred * (value * r) <= Target * (Hundred + Percent) * Scale
         /\ Hundred * (value * r + Scale) > Target * (Hundred - Percent) * Scale
  <1> DEFINE v == value * r
             usd == CostToUsd(value, r)
             low == Target * (Hundred - Percent)
             high == Target * (Hundred + Percent)
  <1>1. /\ Hundred \in Nat \ {0} /\ Scale \in Nat \ {0} /\ Target \in Nat
        /\ Percent \in 0..Hundred /\ value \in Nat /\ r \in Nat
    BY DiscoveryAssumption
  <1>2. v \in Nat /\ low \in Nat /\ high \in Nat
    <2>1. Hundred - Percent \in Nat /\ Hundred + Percent \in Nat
      BY <1>1
    <2> QED
      BY <1>1, <2>1, ProductIsNat
  <1>3. usd \in Nat /\ v <= Scale * usd /\ Scale * usd < v + Scale
    BY <1>1, <1>2, CeilIsAbove DEF CostToUsd
  <1>4. low <= Hundred * usd /\ Hundred * usd <= high
    <2>1. InBand(usd, Target, Percent)
      BY DEF Eligible
    <2>2. usd \in Nat
      BY <1>3
    <2> HIDE DEF usd
    <2> QED
      BY <1>1, <2>1, <2>2, BandIsExact
  <1> HIDE DEF v, usd, low, high
  <1>5. /\ Hundred * v \in Nat /\ Scale * usd \in Nat /\ Hundred * usd \in Nat
        /\ (Hundred * usd) * Scale = Hundred * (Scale * usd)
    BY <1>1, <1>2, <1>3
  <1>6. Hundred * v <= Hundred * (Scale * usd)
    BY <1>1, <1>2, <1>3, <1>5, ProductGrows
  <1>7. (Hundred * usd) * Scale <= high * Scale /\ low * Scale <= (Hundred * usd) * Scale
    BY <1>1, <1>2, <1>4, <1>5, ProductGrows
  <1>8. Hundred * (Scale * usd) < Hundred * (v + Scale)
    <2>1. Scale * usd + 1 <= v + Scale /\ v + Scale \in Nat /\ Scale * usd + 1 \in Nat
      BY <1>1, <1>2, <1>3, <1>5
    <2>2. Hundred * (Scale * usd + 1) <= Hundred * (v + Scale)
      BY <1>1, <2>1, ProductGrows
    <2>3. Hundred * (Scale * usd + 1) = Hundred * (Scale * usd) + Hundred
      BY <1>1, <1>5
    <2>4. Hundred * (Scale * usd) \in Nat /\ Hundred * (v + Scale) \in Nat
      BY <1>1, <1>5, <2>1, ProductIsNat
    <2> QED
      BY <1>1, <2>2, <2>3, <2>4
  <1>9. Hundred * v <= high * Scale /\ Hundred * (v + Scale) > low * Scale
    <2>1. /\ Hundred * (Scale * usd) \in Nat /\ high * Scale \in Nat /\ low * Scale \in Nat
          /\ Hundred * (v + Scale) \in Nat
      BY <1>1, <1>2, <1>5, ProductIsNat
    <2> QED
      BY <2>1, <1>5, <1>6, <1>7, <1>8
  <1> QED
    BY <1>9 DEF v, low, high

-----------------------------------------------------------------------------

\* What a returned call asks is judged last at a price that held after it was ready.
Priced ==
  /\ rate \in Rates
  /\ fresh \subseteq Rates
  /\ todo \subseteq Orders
  /\ pc \in {"prepare", "requote", "found"} => order \in Orders
  /\ pc \in {"requote", "found"} => asked \in Nat
  /\ pc = "requote" => rate \in fresh
  /\ pc = "found" => \E r \in fresh : Eligible(asked, r)

LEMMA InitPriced == Init => Priced
  BY DEF Init, Priced

LEMMA NextPriced == Priced /\ [Next]_vars => Priced'
<1> SUFFICES ASSUME Priced, [Next]_vars
             PROVE  Priced'
  OBVIOUS
<1> USE DEF Priced
<1>1. CASE Tick \/ Quote \/ PageDone \/ Complete \/ Stop
  BY <1>1 DEF Tick, Quote, PageDone, Complete, Stop, price, judged
<1>2. CASE FetchFloor \/ FetchLater
  BY <1>2 DEF FetchFloor, FetchLater, On, price, judged
<1>3. ASSUME NEW o \in Orders, Skip(o) \/ Select(o)
      PROVE  Priced'
  BY <1>3 DEF Skip, Select, price, judged
<1>4. CASE Unavailable \/ Ready
  <2>1. CASE Unavailable
    BY <1>4, <2>1 DEF Unavailable, price, judged
  <2>2. CASE Ready
    BY <1>4, <2>2, DiscoveryAssumption DEF Ready, price
  <2> QED
    BY <1>4, <2>1, <2>2
<1>5. CASE Requote
  BY <1>5 DEF Requote, Judge, Eligible, price, judged
<1>6. CASE Buy \/ Fail
  BY <1>6 DEF Buy, Fail, price
<1>7. CASE PriceMoves
  BY <1>7 DEF PriceMoves, Eligible
<1>8. CASE Relist
  BY <1>8 DEF Relist, price, judged
<1>9. CASE UNCHANGED vars
  BY <1>9 DEF vars, price, judged
<1> QED
  BY <1>1, <1>2, <1>3, <1>4, <1>5, <1>6, <1>7, <1>8, <1>9 DEF Next, Cycle, Look

\* What a signed call asks is in the price band at a price that held after the call was
\* ready, whatever amount OpenSea returns and however the price moves and the pages
\* change.
THEOREM BandIsKept == Spec => []PaidWithinBand
<1>1. Priced => PaidWithinBand
  BY CostInBand DEF Priced, PaidWithinBand
<1> QED
  BY <1>1, InitPriced, NextPriced, PTL DEF Spec

-----------------------------------------------------------------------------

\* The pages from the first one on, each named by the one before, to the last that
\* was read.
IsLap(lap, read) ==
  /\ lap \in [0..read -> Pages]
  /\ lap[0] = Floor
  /\ \A i \in 1..read : lap[i] = after[lap[i - 1]]
  /\ seen = {lap[i] : i \in 1..read}
  /\ next = after[lap[read]]

LapInv ==
  /\ after \in Chains
  /\ next \in Cursors \cup {None}
  /\ IsFiniteSet(seen)
  /\ pc = "fetch" => index = 0 \/ next # None
  /\ stable /\ next # None => \E lap : IsLap(lap, Cardinality(seen))

LEMMA NamedPage ==
  ASSUME LapInv, NEW page \in Pages
  PROVE  after[page] \in Cursors \cup {None}
  BY PagesAssumption DEF LapInv, Pages

\* The first page alone is a lap.
LEMMA LapStarts ==
  ASSUME LapInv, after' = after, seen' = {}, next' = after[Floor]
  PROVE  /\ next' \in Cursors \cup {None} /\ IsFiniteSet(seen')
         /\ \E lap : IsLap(lap, Cardinality(seen))'
  <1> DEFINE start == [i \in 0..0 |-> Floor]
  <1>1. Cardinality(seen') = 0 /\ IsFiniteSet(seen')
    BY FS_EmptySet
  <1>2. IsLap(start, 0)'
    BY DEF IsLap, Pages
  <1> HIDE DEF start
  <1>3. IsLap(start, Cardinality(seen))'
    BY <1>1, <1>2
  <1> QED
    BY <1>1, <1>3, NamedPage DEF Pages

\* The page that the cursor names is the next of the lap.
LEMMA LapGoesOn ==
  ASSUME LapInv, next # None, next \notin seen,
         after' = after, seen' = seen \cup {next}, next' = after[next]
  PROVE  /\ next' \in Cursors \cup {None} /\ IsFiniteSet(seen')
         /\ stable => \E lap : IsLap(lap, Cardinality(seen))'
  <1>1. PICK read \in Nat : /\ read = Cardinality(seen)
                            /\ IsFiniteSet(seen') /\ Cardinality(seen') = read + 1
    BY FS_CardinalityType, FS_AddElement DEF LapInv
  <1>2. PICK page \in Pages : page = next
    BY DEF LapInv, Pages
  <1>3. next' \in Cursors \cup {None}
    BY NamedPage DEF LapInv, Pages
  <1>4. ASSUME stable
        PROVE  \E lap : IsLap(lap, Cardinality(seen))'
    <2>1. PICK lap : IsLap(lap, read)
      BY <1>1, <1>4 DEF LapInv
    <2> DEFINE longer == [i \in 0..(read + 1) |-> IF i = read + 1 THEN page ELSE lap[i]]
    <2>2. longer \in [0..(read + 1) -> Pages] /\ longer[0] = Floor
      <3>1. lap \in [0..read -> Pages] /\ lap[0] = Floor
        BY <2>1 DEF IsLap
      <3>2. read \in Nat /\ page \in Pages
        BY <1>1, <1>2
      <3>3. ASSUME NEW i \in 0..(read + 1), i # read + 1 PROVE i \in 0..read
        BY <3>2, <3>3
      <3>4. \A i \in 0..(read + 1) : (IF i = read + 1 THEN page ELSE lap[i]) \in Pages
        BY <3>1, <3>2, <3>3
      <3> QED
        BY <3>1, <3>2, <3>4
    <2>3. ASSUME NEW i \in 1..(read + 1)
          PROVE  longer[i] = after[longer[i - 1]]
      <3>1. CASE i = read + 1
        <4>1. longer[i] = page /\ longer[i - 1] = lap[read]
          BY <1>1, <3>1
        <4> QED
          BY <4>1, <1>2, <2>1 DEF IsLap
      <3>2. CASE i # read + 1
        <4>1. i \in 1..read /\ longer[i] = lap[i] /\ longer[i - 1] = lap[i - 1]
          BY <1>1, <3>2
        <4> QED
          BY <4>1, <2>1 DEF IsLap
      <3> QED
        BY <3>1, <3>2
    <2>4. {longer[i] : i \in 1..(read + 1)} = {lap[i] : i \in 1..read} \cup {page}
      <3>1. \A i \in 1..read : i \in 1..(read + 1) /\ longer[i] = lap[i]
        BY <1>1
      <3>2. read + 1 \in 1..(read + 1) /\ longer[read + 1] = page
        BY <1>1
      <3>3. \A i \in 1..(read + 1) : i \in 1..read \/ i = read + 1
        BY <1>1
      <3> HIDE DEF longer
      <3> QED
        BY <3>1, <3>2, <3>3
    <2>5. longer[read + 1] = page
      BY <1>1
    <2> HIDE DEF longer
    <2>6. IsLap(longer, read + 1)'
      BY <1>2, <2>1, <2>2, <2>3, <2>4, <2>5 DEF IsLap, Pages
    <2>7. IsLap(longer, Cardinality(seen))'
      BY <1>1, <2>6
    <2> QED
      BY <2>7
  <1> QED
    BY <1>1, <1>3, <1>4

LEMMA InitLap == Init => LapInv
  BY FS_EmptySet DEF Init, LapInv

LEMMA NextLap == LapInv /\ [Next]_vars => LapInv'
<1> SUFFICES ASSUME LapInv, [Next]_vars
             PROVE  LapInv'
  OBVIOUS
<1>1. CASE FetchFloor
  <2>1. CASE next = None
    <3>1. after' = after /\ seen' = {} /\ next' = after[Floor] /\ pc' = "quote"
      BY <1>1, <2>1 DEF FetchFloor, pages
    <3> QED
      BY <3>1, LapStarts DEF LapInv
  <2>2. CASE next # None
    BY <1>1, <2>2 DEF FetchFloor, LapInv, IsLap, pages, cursor
  <2> QED
    BY <2>1, <2>2
<1>2. CASE FetchLater
  <2>1. next # None /\ after' = after /\ stable' = stable
    BY <1>2 DEF FetchLater, LapInv, pages
  <2>2. CASE next \in seen
    BY <1>2, <2>1, <2>2, FS_EmptySet DEF FetchLater, LapInv
  <2>3. CASE next \notin seen
    <3>1. seen' = seen \cup {next} /\ next' = after[next] /\ pc' = "quote"
      BY <1>2, <2>3 DEF FetchLater
    <3>2. /\ next' \in Cursors \cup {None} /\ IsFiniteSet(seen')
          /\ stable => \E lap : IsLap(lap, Cardinality(seen))'
      BY <2>1, <2>3, <3>1, LapGoesOn
    <3> QED
      BY <2>1, <3>1, <3>2 DEF LapInv
  <2> QED
    BY <2>2, <2>3
<1>3. CASE Relist
  BY <1>3 DEF Relist, LapInv, price, progress
<1>4. CASE Tick \/ PageDone
  BY <1>4 DEF Tick, PageDone, LapInv, IsLap, pages, cursor
<1>5. CASE Quote \/ Buy \/ Complete \/ Fail \/ Stop
  BY <1>5 DEF Quote, Buy, Complete, Fail, Stop, LapInv, IsLap, pages, cursor
<1>6. ASSUME NEW o \in Orders, Skip(o) \/ Select(o)
      PROVE  LapInv'
  BY <1>6 DEF Skip, Select, LapInv, IsLap, pages, cursor
<1>7. CASE Unavailable \/ Ready \/ Requote
  BY <1>7 DEF Unavailable, Ready, Requote, Judge, LapInv, IsLap, pages, cursor
<1>8. CASE PriceMoves
  BY <1>8 DEF PriceMoves, LapInv, IsLap, pages, cursor
<1>9. CASE UNCHANGED vars
  BY <1>9 DEF vars, LapInv, IsLap, pages, cursor
<1> QED
  BY <1>1, <1>2, <1>3, <1>4, <1>5, <1>6, <1>7, <1>8, <1>9 DEF Next, Cycle, Look

\* LapIsGapless: however many pages there are, and wherever a cycle or a failure
\* interrupts the lap, the cursor goes on with the page after those that were read.
THEOREM LapsAreGapless == Spec => []LapIsGapless
<1>1. LapInv => LapIsGapless
  BY DEF LapInv, IsLap, LapIsGapless
<1> QED
  BY <1>1, InitLap, NextLap, PTL DEF Spec
=============================================================================
