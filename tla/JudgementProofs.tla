-------------------------- MODULE JudgementProofs --------------------------
(***************************************************************************)
(* Proofs of what is decided before something is signed.                   *)
(*                                                                         *)
(* A sale that was judged profitable is, for every scale, price, amount,   *)
(* multiplier and batch: the direction of every rounding is right.  A call *)
(* that was accepted, to buy or to sell, does what it was judged to do     *)
(* when Seaport executes it, for every call, order, item and resolver.     *)
(***************************************************************************)
EXTENDS MCJudgements, AmountsProofs

-----------------------------------------------------------------------------
(* One judgement. *)

LEMMA BudgetIsNat ==
  ASSUME NEW offer \in Offer
  PROVE  /\ ScaleUp(offer.gas, Multiplier, Parts) \in Nat
         /\ offer.gas <= ScaleUp(offer.gas, Multiplier, Parts)
         /\ Budget(offer) \in Nat
  <1> DEFINE limit == ScaleUp(offer.gas, Multiplier, Parts)
  <1>1. offer.gas \in Nat /\ offer.feeCap \in Nat /\ offer.extra \in Nat
    BY DEF Offer
  <1>2. offer.gas * Multiplier \in Nat
    BY <1>1, ProfitAssumption
  <1>3. limit \in Nat /\ offer.gas * Multiplier <= Parts * limit
    BY <1>2, CeilIsAbove, ProfitAssumption DEF ScaleUp
  <1>4. offer.gas <= limit
    <2> HIDE DEF limit
    <2>1. offer.gas * Parts <= offer.gas * Multiplier
      BY <1>1, ProductGrows, ProfitAssumption
    <2>2. Parts * offer.gas <= Parts * limit
      BY <1>1, <1>2, <1>3, <2>1, ProfitAssumption
    <2> QED
      BY <1>1, <1>3, <2>2, ProfitAssumption
  <1>5. limit * offer.feeCap \in Nat
    BY <1>1, <1>3, ProductIsNat
  <1> QED
    BY <1>1, <1>3, <1>4, <1>5 DEF Budget

\* Judged profitable is profitable, if the transactions cost what was budgeted.
LEMMA JudgedCovers ==
  ASSUME mint \in Mint, NEW sale \in Sale, sale.cost = Budget(sale.offer),
         Profitable(sale.offer, sale.prices)
  PROVE  Proceeds(sale) >= Exact(sale)
  <1> DEFINE n == mint.tokens
             Po == sale.prices[sale.offer.currency]
             Pp == sale.prices[mint.currency]
             Pn == sale.prices[mint.native]
             x == sale.offer.seller * Po
             y == sale.offer.gross * Po
             a == ShareOf(mint.payment, n) * Pp
             g == ShareOf(mint.gas + mint.extra, n) * Pn
             c == sale.cost * Pn
             d == sale.offer.approval * Pn
  <1>1. /\ n \in Nat \ {0} /\ mint.payment \in Nat /\ mint.gas + mint.extra \in Nat
        /\ mint.profit \in Nat
    BY DEF Mint
  <1>2. sale.cost \in Nat /\ sale.offer \in Offer /\ sale.prices \in Prices
    BY DEF Sale
  <1>3. Po \in Nat /\ Pp \in Nat /\ Pn \in Nat
    BY <1>2 DEF Prices, Offer, Mint, Currencies
  <1>4. /\ sale.offer.seller \in Nat /\ sale.offer.gross \in Nat
        /\ sale.offer.approval \in Nat
    BY <1>2 DEF Offer
  <1>5. /\ ShareOf(mint.payment, n) \in Nat /\ mint.payment * Pp <= n * a
        /\ ShareOf(mint.gas + mint.extra, n) \in Nat
        /\ (mint.gas + mint.extra) * Pn <= n * g
    BY <1>1, <1>3, SharesCover
  <1>6. x \in Nat /\ y \in Nat /\ a \in Nat /\ g \in Nat /\ c \in Nat /\ d \in Nat
    BY <1>2, <1>3, <1>4, <1>5, ProductIsNat
  <1>7. y \div Scale >= CeilDiv(a, Scale) + CeilDiv(g, Scale) + (y \div Scale - x \div Scale)
                          + CeilDiv(c, Scale) + CeilDiv(d, Scale) + mint.profit
    BY DEF Profitable, Costs, PaymentUsd, MintGasUsd, FeeUsd, CostToUsd, AmountToUsd
  <1>8. /\ x \div Scale \in Nat /\ y \div Scale \in Nat
        /\ CeilDiv(a, Scale) \in Nat /\ CeilDiv(g, Scale) \in Nat
        /\ CeilDiv(c, Scale) \in Nat /\ CeilDiv(d, Scale) \in Nat
    BY <1>6, DivIsBelow, CeilIsAbove, ProfitAssumption
  <1> HIDE DEF n, Po, Pp, Pn, x, y, a, g, c, d
  <1>9. x \div Scale >= CeilDiv(a, Scale) + CeilDiv(g, Scale) + CeilDiv(c, Scale)
                          + CeilDiv(d, Scale) + mint.profit
    BY <1>1, <1>7, <1>8
  <1>10. x >= a + g + c + d + Scale * mint.profit
    BY <1>1, <1>6, <1>9, WholeDollarsCover, ProfitAssumption
  <1>11. Scale * mint.profit \in Nat
    BY <1>1, ProductIsNat, ProfitAssumption
  <1>12. n * x >= n * (a + g + c + d + Scale * mint.profit)
    BY <1>1, <1>6, <1>10, <1>11, ProductGrows
  <1>13. n * (a + g + c + d + Scale * mint.profit)
           = n * a + n * g + n * (c + d) + n * (Scale * mint.profit)
    BY <1>1, <1>6, <1>11
  <1>14. c + d = (sale.cost + sale.offer.approval) * Pn
    BY <1>2, <1>3, <1>4 DEF c, d
  <1>15. /\ n * a \in Nat /\ n * g \in Nat /\ n * (c + d) \in Nat
         /\ n * (Scale * mint.profit) \in Nat /\ n * x \in Nat
         /\ mint.payment * Pp \in Nat /\ (mint.gas + mint.extra) * Pn \in Nat
    BY <1>1, <1>3, <1>6, <1>11, ProductIsNat
  <1>16. n * x >= mint.payment * Pp + (mint.gas + mint.extra) * Pn
                   + n * ((sale.cost + sale.offer.approval) * Pn)
                   + n * (Scale * mint.profit)
    BY <1>5, <1>12, <1>13, <1>14, <1>15
  <1> QED
    BY <1>16 DEF Proceeds, Exact, n, Po, Pp, Pn, x

\* The less a transaction costs, the more there is to show for it.
LEMMA CheaperCovers ==
  ASSUME mint \in Mint, NEW sale \in Sale, NEW cost \in Nat, cost <= sale.cost,
         Proceeds(sale) >= Exact(sale)
  PROVE  Proceeds([sale EXCEPT !.cost = cost]) >= Exact([sale EXCEPT !.cost = cost])
  <1> DEFINE n == mint.tokens
             Pn == sale.prices[mint.native]
             fixed == mint.payment * sale.prices[mint.currency] + (mint.gas + mint.extra) * Pn
             made == n * (Scale * mint.profit)
             new == [sale EXCEPT !.cost = cost]
  <1>1. n \in Nat \ {0} /\ mint.payment \in Nat /\ mint.gas \in Nat /\ mint.extra \in Nat
        /\ mint.profit \in Nat
    BY DEF Mint
  <1>2. sale.cost \in Nat /\ sale.offer \in Offer /\ sale.prices \in Prices
    BY DEF Sale
  <1>3. /\ Pn \in Nat /\ sale.prices[mint.currency] \in Nat
        /\ sale.prices[sale.offer.currency] \in Nat
        /\ sale.offer.seller \in Nat /\ sale.offer.approval \in Nat
    BY <1>2 DEF Prices, Offer, Mint, Currencies
  <1>4. fixed \in Nat /\ made \in Nat /\ Proceeds(sale) \in Nat
    BY <1>1, <1>3, ProductIsNat, ProfitAssumption DEF Proceeds
  <1>5. new.cost = cost /\ new.offer = sale.offer /\ new.prices = sale.prices
    BY DEF Sale
  <1>6. (cost + sale.offer.approval) * Pn <= (sale.cost + sale.offer.approval) * Pn
    BY <1>2, <1>3, ProductGrows
  <1>7. /\ (cost + sale.offer.approval) * Pn \in Nat
        /\ (sale.cost + sale.offer.approval) * Pn \in Nat
    BY <1>2, <1>3, ProductIsNat
  <1>8. n * ((cost + sale.offer.approval) * Pn) <= n * ((sale.cost + sale.offer.approval) * Pn)
    BY <1>1, <1>6, <1>7, ProductGrows
  <1>9. /\ n * ((cost + sale.offer.approval) * Pn) \in Nat
        /\ n * ((sale.cost + sale.offer.approval) * Pn) \in Nat
    BY <1>1, <1>7, ProductIsNat
  <1>10. Exact(sale) = fixed + n * ((sale.cost + sale.offer.approval) * Pn) + made
    BY DEF Exact
  <1>11. Exact(new) = fixed + n * ((cost + sale.offer.approval) * Pn) + made
    BY <1>5 DEF Exact
  <1>12. Proceeds(new) = Proceeds(sale)
    BY <1>5 DEF Proceeds
  <1> HIDE DEF fixed, made, new, n, Pn
  <1>13. Proceeds(new) >= Exact(new)
    BY <1>4, <1>8, <1>9, <1>10, <1>11, <1>12
  <1> QED
    BY <1>13 DEF new

-----------------------------------------------------------------------------
(* The steps. *)

LEMMA PriceIsNat ==
  ASSUME NEW text \in Nat
  PROVE  ParsePrice(text) \in Nat
  BY DivIsBelow, ProfitAssumption DEF ParsePrice

LEMMA SeqElement ==
  ASSUME NEW S, NEW seq \in Seq(S), NEW i \in DOMAIN seq
  PROVE  seq[i] \in S
  OBVIOUS

LEMMA FetchedIsNat ==
  ASSUME NEW answer \in Answer, NEW c \in Currencies
  PROVE  Fetched(answer, c) \in Nat \cup {None}
  <1>1. answer.assets \in Seq([id : Nat, symbol : STRING, price : Nat])
    BY DEF Answer
  <1>2. \A i \in DOMAIN answer.assets : answer.assets[i].price \in Nat
    <2> SUFFICES ASSUME NEW i \in DOMAIN answer.assets PROVE answer.assets[i].price \in Nat
      OBVIOUS
    <2>1. answer.assets[i] \in [id : Nat, symbol : STRING, price : Nat]
      BY <1>1, SeqElement
    <2> QED
      BY <2>1
  <1>3. CASE \E i \in DOMAIN answer.assets : IsAsset(answer.assets, c, i)
    <2> DEFINE i == CHOOSE i \in DOMAIN answer.assets : IsAsset(answer.assets, c, i)
    <2>1. i \in DOMAIN answer.assets
      BY <1>3
    <2> HIDE DEF i
    <2>2. answer.assets[i].price \in Nat
      BY <1>2, <2>1
    <2> QED
      BY <2>2 DEF Fetched, i
  <1>4. CASE ~\E i \in DOMAIN answer.assets : IsAsset(answer.assets, c, i)
    BY <1>4 DEF Fetched
  <1> QED
    BY <1>3, <1>4

LEMMA TextIsNat ==
  ASSUME NEW from \in Source, NEW c \in Currencies
  PROVE  Text(from, c) \in Nat \cup {None}
  <1>1. \A d \in Currencies : Explicit(from, d) \in Nat \cup {None}
    BY DEF Source, Explicit
  <1>2. /\ Fetched(from.feed["ETH"], "ETH") \in Nat \cup {None}
        /\ Fetched(from.feed["HYPE"], "HYPE") \in Nat \cup {None}
    BY FetchedIsNat DEF Source, Currencies
  <1>3. Ether(from) \in Nat \cup {None}
    BY <1>1, <1>2 DEF Ether, Currencies
  <1> QED
    BY <1>1, <1>2, <1>3 DEF Text

\* A snapshot has a price, not zero, of everything that was asked for.
LEMMA SnapshotHasPrices ==
  ASSUME NEW from \in Source, NEW requested \in SUBSET Currencies,
         SnapshotOf(from, requested) # None
  PROVE  /\ SnapshotOf(from, requested) \in Prices
         /\ \A c \in requested : SnapshotOf(from, requested)[c] > 0
  <1>1. \A c \in requested : Known(Text(from, c))
    BY DEF SnapshotOf
  <1>2. \A c \in requested : Text(from, c) \in Nat /\ ParsePrice(Text(from, c)) \in Nat \ {0}
    BY <1>1, TextIsNat, PriceIsNat DEF Known
  <1>3. \A c \in Aliases(requested) : c \in Currencies /\ ParsePrice(Text(from, c)) \in Nat
    <2> SUFFICES ASSUME NEW c \in Aliases(requested)
                 PROVE  c \in Currencies /\ ParsePrice(Text(from, c)) \in Nat
      OBVIOUS
    <2>1. CASE c \in requested
      BY <2>1, <1>2
    <2>2. CASE c \notin requested
      <3>1. c \in {"ETH", "WETH"}
        BY <2>2 DEF Aliases
      <3>2. PICK d \in requested : d \in {"ETH", "WETH"}
        BY <2>2 DEF Aliases
      <3>3. Text(from, c) = Text(from, d)
        BY <3>1, <3>2 DEF Text
      <3> QED
        BY <3>1, <3>3, <1>2 DEF Currencies
    <2> QED
      BY <2>1, <2>2
  <1>4. SnapshotOf(from, requested)
          = [c \in Currencies |-> IF c \in Aliases(requested) THEN ParsePrice(Text(from, c)) ELSE 0]
    BY <1>1 DEF SnapshotOf
  <1>5. \A c \in Currencies :
          (IF c \in Aliases(requested) THEN ParsePrice(Text(from, c)) ELSE 0) \in Nat
    BY <1>3
  <1>6. SnapshotOf(from, requested) \in Prices
    BY <1>4, <1>5 DEF Prices
  <1>7. requested \subseteq Aliases(requested)
    BY DEF Aliases
  <1>8. \A c \in requested : SnapshotOf(from, requested)[c] = ParsePrice(Text(from, c))
    BY <1>4, <1>7
  <1> QED
    BY <1>2, <1>6, <1>8

\* What is pending was judged, and is budgeted.
PendingCovers ==
  pending # None =>
    /\ pending.cost = Budget(pending.offer)
    /\ Proceeds(pending) >= Exact(pending)

IInv == TypeOK /\ PendingCovers /\ SoldAtProfit

LEMMA InitInv == Init => IInv
  <1> SUFFICES ASSUME Init PROVE IInv
    OBVIOUS
  <1>1. mint.tokens \in Nat \ {0}
    BY ProfitAssumption DEF Init, Mint
  <1>2. TypeOK
    BY <1>1 DEF Init, TypeOK
  <1> QED
    BY <1>2 DEF Init, IInv, PendingCovers, SoldAtProfit

\* The mint does not change.
LEMMA MintStays == [Next]_vars => mint' = mint
  BY DEF Next, Snapshot, Judge, Mined, NotMined, NextToken, vars

\* Nothing in a sale's bill depends on more than the mint.
LEMMA SoldStays ==
  ASSUME mint' = mint, sales' = sales, SoldAtProfit
  PROVE  SoldAtProfit'
  BY DEF SoldAtProfit, Proceeds, Exact

LEMMA JudgeStep == IInv /\ Judge => IInv'
  <1> SUFFICES ASSUME IInv, Judge PROVE IInv'
    OBVIOUS
  <1> USE DEF IInv
  <1>1. mint \in Mint /\ source \in Source
    BY ProfitAssumption DEF TypeOK, Judge
  <1>2. PICK offer \in Offers :
          /\ prices' = SnapshotOf(source, Needed(offer))
          /\ IF prices' # None /\ Consistent(offer)
             THEN IF Profitable(offer, prices')
                  THEN /\ pending' = [token |-> token, offer |-> offer, prices |-> prices',
                                      cost |-> Budget(offer)]
                       /\ pc' = "sale"
                       /\ UNCHANGED skipped
                  ELSE /\ skipped' = skipped \cup {[token |-> token, offer |-> offer,
                                                    prices |-> prices', cost |-> 0]}
                       /\ pc' = "next"
                       /\ UNCHANGED pending
             ELSE pc' = "next" /\ UNCHANGED <<pending, skipped>>
    BY DEF Judge
  <1>3. UNCHANGED <<mint, token, source, sales>>
    BY DEF Judge
  <1>4. pending = None
    BY DEF TypeOK, Judge
  <1>5. offer \in Offer /\ Budget(offer) \in Nat
    BY ProfitAssumption, BudgetIsNat
  <1>6. Needed(offer) \in SUBSET Currencies
    BY <1>1, <1>5 DEF Needed, Mint, Offer, Currencies
  <1>7. prices' # None => /\ prices' \in Prices
                          /\ \A c \in Needed(offer) : prices'[c] > 0
                          /\ prices'[mint.currency] > 0
                          /\ prices'[mint.native] > 0
    BY <1>1, <1>2, <1>6, SnapshotHasPrices DEF Needed
  <1>8. token \in Nat
    BY <1>1 DEF TypeOK, Mint
  <1>9. /\ skipped' \subseteq Sale
        /\ pending' # None => /\ pending' \in Sale
                              /\ \A c \in Needed(pending'.offer) : pending'.prices[c] > 0
        /\ pc' \in {"sale", "next"}
        /\ pc' = "sale" <=> pending' # None
    <2>1. CASE prices' # None /\ Consistent(offer) /\ Profitable(offer, prices')
      <3>1. pending' \in Sale /\ pending'.offer = offer /\ pending'.prices = prices'
        BY <2>1, <1>2, <1>5, <1>7, <1>8 DEF Sale
      <3> QED
        BY <2>1, <3>1, <1>2, <1>7, ProfitAssumption DEF TypeOK
    <2>2. CASE prices' # None /\ Consistent(offer) /\ ~Profitable(offer, prices')
      <3>1. [token |-> token, offer |-> offer, prices |-> prices', cost |-> 0] \in Sale
        BY <2>2, <1>5, <1>7, <1>8 DEF Sale
      <3> QED
        BY <2>2, <3>1, <1>2, <1>4 DEF TypeOK
    <2>3. CASE ~(prices' # None /\ Consistent(offer))
      BY <2>3, <1>2, <1>4 DEF TypeOK
    <2> QED
      BY <2>1, <2>2, <2>3
  <1>10. TypeOK'
    BY <1>3, <1>7, <1>9 DEF TypeOK, Needed
  <1>11. PendingCovers'
    <2> SUFFICES ASSUME pending' # None PROVE PendingCovers'
      BY DEF PendingCovers
    <2>1. /\ pending' \in Sale
          /\ pending'.cost = Budget(pending'.offer)
          /\ Profitable(pending'.offer, pending'.prices)
      BY <1>2, <1>4, <1>9
    <2>2. Proceeds(pending') >= Exact(pending')
      BY <1>1, <2>1, JudgedCovers
    <2> QED
      BY <1>3, <2>1, <2>2 DEF PendingCovers, Proceeds, Exact, Budget
  <1>12. SoldAtProfit'
    BY <1>3, SoldStays
  <1> QED
    BY <1>10, <1>11, <1>12

LEMMA MinedStep == IInv /\ Mined => IInv'
  <1> SUFFICES ASSUME IInv, Mined PROVE IInv'
    OBVIOUS
  <1> USE DEF IInv
  <1>1. mint \in Mint /\ pending \in Sale /\ pending # None
    BY ProfitAssumption DEF TypeOK, Mined
  <1>2. /\ pending.offer \in Offer /\ pending.cost = Budget(pending.offer)
        /\ Proceeds(pending) >= Exact(pending)
    BY <1>1 DEF PendingCovers, Sale
  <1> DEFINE offer == pending.offer
             limit == ScaleUp(offer.gas, Multiplier, Parts)
  <1>3. PICK used \in {offer.gas, limit}, price \in {1, offer.feeCap},
             extra \in {0, 2 * offer.extra} :
          /\ price <= offer.feeCap
          /\ sales' = sales \cup {[pending EXCEPT !.cost = used * price + extra]}
    BY DEF Mined
  <1>4. /\ offer.gas \in Nat /\ offer.feeCap \in Nat /\ offer.extra \in Nat
        /\ limit \in Nat /\ offer.gas <= limit
    BY <1>2, BudgetIsNat DEF Offer
  <1> DEFINE cost == used * price + extra
  <1>5. cost \in Nat /\ cost <= pending.cost
    <2> HIDE DEF limit
    <2>1. /\ used \in Nat /\ price \in Nat /\ extra \in Nat
          /\ used <= limit /\ price <= offer.feeCap /\ extra <= 2 * offer.extra
      BY <1>3, <1>4
    <2>2. used * price <= limit * price /\ limit * price <= limit * offer.feeCap
      BY <2>1, <1>4, ProductGrows
    <2>3. used * price \in Nat /\ limit * price \in Nat /\ limit * offer.feeCap \in Nat
      BY <2>1, <1>4, ProductIsNat
    <2>4. pending.cost = limit * offer.feeCap + 2 * offer.extra
      BY <1>2 DEF Budget, limit
    <2> QED
      BY <2>1, <2>2, <2>3, <2>4, <1>4
  <1> HIDE DEF cost
  <1>6. [pending EXCEPT !.cost = cost] \in Sale
    BY <1>1, <1>5 DEF Sale
  <1>7. Proceeds([pending EXCEPT !.cost = cost]) >= Exact([pending EXCEPT !.cost = cost])
    BY <1>1, <1>2, <1>5, CheaperCovers
  <1>8. sales' = sales \cup {[pending EXCEPT !.cost = cost]}
    BY <1>3 DEF cost
  <1>9. UNCHANGED <<mint, token, prices, source, skipped>> /\ pending' = None /\ pc' = "next"
    BY DEF Mined
  <1>10. TypeOK'
    BY <1>6, <1>8, <1>9 DEF TypeOK
  <1>11. PendingCovers'
    BY <1>9 DEF PendingCovers
  <1>12. SoldAtProfit'
    <2>1. \A sale \in sales' : Proceeds(sale) >= Exact(sale)
      BY <1>7, <1>8 DEF SoldAtProfit
    <2> QED
      BY <2>1, <1>9 DEF SoldAtProfit, Proceeds, Exact
  <1> QED
    BY <1>10, <1>11, <1>12

LEMMA InvStep == IInv /\ [Next]_vars => IInv'
  <1> SUFFICES ASSUME IInv, [Next]_vars PROVE IInv'
    OBVIOUS
  <1> USE DEF IInv
  <1>1. CASE Snapshot
    <2>1. TypeOK'
      BY <1>1, ProfitAssumption DEF Snapshot, TypeOK
    <2>2. PendingCovers'
      BY <1>1 DEF Snapshot, PendingCovers, Proceeds, Exact, Budget
    <2> QED
      BY <1>1, <2>1, <2>2, SoldStays DEF Snapshot
  <1>2. CASE Judge
    BY <1>2, JudgeStep
  <1>3. CASE Mined
    BY <1>3, MinedStep
  <1>4. CASE NotMined
    <2>1. TypeOK'
      BY <1>4 DEF NotMined, TypeOK
    <2>2. PendingCovers'
      BY <1>4 DEF NotMined, PendingCovers
    <2> QED
      BY <1>4, <2>1, <2>2, SoldStays DEF NotMined
  <1>5. CASE NextToken
    <2>1. mint.tokens \in Nat
      BY ProfitAssumption DEF TypeOK, Mint
    <2>2. token' \in 1..mint'.tokens
      BY <1>5, <2>1 DEF NextToken, TypeOK
    <2>3. TypeOK'
      BY <1>5, <2>2 DEF NextToken, TypeOK
    <2>4. PendingCovers'
      BY <1>5 DEF NextToken, TypeOK, PendingCovers
    <2> QED
      BY <1>5, <2>3, <2>4, SoldStays DEF NextToken
  <1>6. CASE UNCHANGED vars
    <2>1. TypeOK'
      BY <1>6 DEF vars, TypeOK, Needed
    <2>2. PendingCovers'
      BY <1>6 DEF vars, PendingCovers, Proceeds, Exact, Budget
    <2> QED
      BY <1>6, <2>1, <2>2, SoldStays DEF vars
  <1> QED
    BY <1>1, <1>2, <1>3, <1>4, <1>5, <1>6 DEF Next

\* Every variable has its type: a sale that is pending was judged at prices that are
\* not zero for any currency that its decision needs, the offer's included.
THEOREM TypeCorrect == Spec => []TypeOK
  <1>1. IInv => TypeOK
    BY DEF IInv
  <1> QED
    BY <1>1, InitInv, InvStep, PTL DEF Spec

\* Whatever the amounts, prices and decimals are, a token that was sold has brought
\* its share of the mint, the cost of its transactions and the profit asked for.
THEOREM SaleIsProfitable == Spec => []SoldAtProfit
  <1>1. IInv => SoldAtProfit
    BY DEF IInv
  <1> QED
    BY <1>1, InitInv, InvStep, PTL DEF Spec

-----------------------------------------------------------------------------
(* What a judgement refuses, and what it is based on.                        *)

\* An offer that is not judged profitable falls short, but for the roundings.
LEMMA RefusedFallsShort ==
  ASSUME mint \in Mint, NEW sale \in Sale, sale.cost = Budget(sale.offer),
         ~Profitable(sale.offer, sale.prices)
  PROVE  Proceeds(sale) <
           Exact(sale) + 4 * (mint.tokens * Scale)
             + mint.tokens * (sale.prices[mint.currency] + sale.prices[mint.native])
  <1> DEFINE n == mint.tokens
             Po == sale.prices[sale.offer.currency]
             Pp == sale.prices[mint.currency]
             Pn == sale.prices[mint.native]
             x == sale.offer.seller * Po
             y == sale.offer.gross * Po
             a == ShareOf(mint.payment, n) * Pp
             g == ShareOf(mint.gas + mint.extra, n) * Pn
             c == sale.cost * Pn
             d == sale.offer.approval * Pn
             m == mint.profit
  <1>1. n \in Nat \ {0} /\ mint.payment \in Nat /\ mint.gas + mint.extra \in Nat /\ m \in Nat
    BY DEF Mint
  <1>2. sale.cost \in Nat /\ sale.offer \in Offer /\ sale.prices \in Prices
    BY DEF Sale
  <1>3. Po \in Nat /\ Pp \in Nat /\ Pn \in Nat
    BY <1>2 DEF Prices, Offer, Mint, Currencies
  <1>4. /\ sale.offer.seller \in Nat /\ sale.offer.gross \in Nat
        /\ sale.offer.approval \in Nat
    BY <1>2 DEF Offer
  <1>5. /\ ShareOf(mint.payment, n) \in Nat /\ n * a <= mint.payment * Pp + n * Pp
        /\ ShareOf(mint.gas + mint.extra, n) \in Nat
        /\ n * g <= (mint.gas + mint.extra) * Pn + n * Pn
    BY <1>1, <1>3, SharesCover
  <1>6. x \in Nat /\ y \in Nat /\ a \in Nat /\ g \in Nat /\ c \in Nat /\ d \in Nat
    BY <1>2, <1>3, <1>4, <1>5, ProductIsNat
  <1>7. ~(y \div Scale >= CeilDiv(a, Scale) + CeilDiv(g, Scale) + (y \div Scale - x \div Scale)
                            + CeilDiv(c, Scale) + CeilDiv(d, Scale) + m)
    BY DEF Profitable, Costs, PaymentUsd, MintGasUsd, FeeUsd, CostToUsd, AmountToUsd
  <1>8. /\ x \div Scale \in Nat /\ y \div Scale \in Nat
        /\ CeilDiv(a, Scale) \in Nat /\ CeilDiv(g, Scale) \in Nat
        /\ CeilDiv(c, Scale) \in Nat /\ CeilDiv(d, Scale) \in Nat
    BY <1>6, DivIsBelow, CeilIsAbove, ProfitAssumption
  <1> HIDE DEF n, Po, Pp, Pn, x, y, a, g, c, d, m
  <1>9. x \div Scale < CeilDiv(a, Scale) + CeilDiv(g, Scale) + CeilDiv(c, Scale)
                          + CeilDiv(d, Scale) + m
    BY <1>1, <1>7, <1>8
  <1>10. x < a + g + c + d + 4 * Scale + Scale * m
    BY <1>1, <1>6, <1>9, WholeDollarsMiss, ProfitAssumption
  <1>11. Scale * m \in Nat /\ n * Scale \in Nat
    BY <1>1, ProductIsNat, ProfitAssumption
  <1>12. n * x < n * (a + g + c + d + 4 * Scale + Scale * m)
    BY <1>1, <1>6, <1>10, <1>11, ProductIsBelow, ProfitAssumption
  <1>13. n * (a + g + c + d + 4 * Scale + Scale * m)
           = n * a + n * g + n * (c + d) + 4 * (n * Scale) + n * (Scale * m)
    BY <1>1, <1>6, <1>11, ProfitAssumption
  <1>14. c + d = (sale.cost + sale.offer.approval) * Pn /\ n * (Pp + Pn) = n * Pp + n * Pn
    BY <1>1, <1>2, <1>3, <1>4 DEF c, d
  <1>15. /\ n * a \in Nat /\ n * g \in Nat /\ n * (c + d) \in Nat
         /\ n * (Scale * m) \in Nat /\ n * x \in Nat /\ n * Pp \in Nat /\ n * Pn \in Nat
         /\ mint.payment * Pp \in Nat /\ (mint.gas + mint.extra) * Pn \in Nat
    BY <1>1, <1>3, <1>6, <1>11, ProductIsNat
  <1>16. n * x < mint.payment * Pp + (mint.gas + mint.extra) * Pn
                   + n * ((sale.cost + sale.offer.approval) * Pn)
                   + n * (Scale * m) + 4 * (n * Scale) + n * (Pp + Pn)
    BY <1>5, <1>11, <1>12, <1>13, <1>14, <1>15
  <1> QED
    BY <1>16 DEF Proceeds, Exact, n, Po, Pp, Pn, x, m

\* Whether an offer that was refused falls short depends on the mint alone.
LEMMA RefusedStays ==
  ASSUME mint' = mint, skipped' \subseteq skipped, NoProfitLost
  PROVE  NoProfitLost'
  <1>1. \A sale : Proceeds(sale)' = Proceeds(sale) /\ Exact(sale)' = Exact(sale)
                   /\ Budget(sale.offer)' = Budget(sale.offer)
    BY DEF Proceeds, Exact, Budget
  <1> QED
    BY <1>1 DEF NoProfitLost, Proceeds, Exact, Budget

LEMMA JudgeRefuses == IInv /\ NoProfitLost /\ Judge => NoProfitLost'
  <1> SUFFICES ASSUME IInv, NoProfitLost, Judge PROVE NoProfitLost'
    OBVIOUS
  <1>1. mint \in Mint /\ source \in Source /\ token \in Nat /\ mint' = mint
    BY ProfitAssumption DEF IInv, TypeOK, Judge, Mint
  <1>2. PICK offer \in Offers :
          /\ prices' = SnapshotOf(source, Needed(offer))
          /\ \/ skipped' = skipped
             \/ /\ prices' # None /\ ~Profitable(offer, prices')
                /\ skipped' = skipped \cup {[token |-> token, offer |-> offer,
                                             prices |-> prices', cost |-> 0]}
    BY DEF Judge
  <1>3. CASE skipped' = skipped
    BY <1>1, <1>3, RefusedStays
  <1>4. CASE /\ prices' # None /\ ~Profitable(offer, prices')
             /\ skipped' = skipped \cup {[token |-> token, offer |-> offer,
                                          prices |-> prices', cost |-> 0]}
    <2> DEFINE new == [token |-> token, offer |-> offer, prices |-> prices', cost |-> 0]
               budgeted == [new EXCEPT !.cost = Budget(offer)]
               Short(sale) ==
                 Proceeds(sale) <
                   Exact(sale) + 4 * (mint.tokens * Scale)
                     + mint.tokens * (sale.prices[mint.currency] + sale.prices[mint.native])
    <2>1. offer \in Offer /\ Budget(offer) \in Nat
      BY ProfitAssumption, BudgetIsNat
    <2>2. Needed(offer) \in SUBSET Currencies
      BY <1>1, <2>1 DEF Needed, Mint, Offer, Currencies
    <2>3. prices' \in Prices
      BY <1>1, <1>2, <1>4, <2>2, SnapshotHasPrices
    <2>4. budgeted \in Sale /\ budgeted.cost = Budget(budgeted.offer)
          /\ budgeted.offer = offer /\ budgeted.prices = prices'
      BY <1>1, <2>1, <2>3 DEF Sale
    <2>5. Short(budgeted)
      <3> HIDE DEF budgeted
      <3> QED
        BY <1>1, <1>4, <2>4, RefusedFallsShort
    <2>6. \A sale \in skipped : Short([sale EXCEPT !.cost = Budget(sale.offer)])
      BY DEF NoProfitLost
    <2>7. new.offer = offer
      OBVIOUS
    <2> HIDE DEF Short
    <2>8. \A sale \in skipped' : Short([sale EXCEPT !.cost = Budget(sale.offer)])
      BY <1>4, <2>5, <2>6, <2>7
    <2> QED
      BY <1>1, <2>8 DEF NoProfitLost, Short, Proceeds, Exact, Budget
  <1> QED
    BY <1>2, <1>3, <1>4

LEMMA RefusedStep == IInv /\ NoProfitLost /\ [Next]_vars => NoProfitLost'
  <1> SUFFICES ASSUME IInv, NoProfitLost, [Next]_vars PROVE NoProfitLost'
    OBVIOUS
  <1>1. CASE Judge
    BY <1>1, JudgeRefuses
  <1>2. CASE ~Judge
    <2>1. skipped' \subseteq skipped
      BY <1>2 DEF Next, Snapshot, Mined, NotMined, NextToken, vars
    <2> QED
      BY <2>1, MintStays, RefusedStays
  <1> QED
    BY <1>1, <1>2

\* NoProfitLost: rounding never makes an offer look worse than by the roundings of
\* its four costs and two shares.
THEOREM RefusalsAreTight == Spec => []NoProfitLost
  <1>1. Init => IInv /\ NoProfitLost
    BY InitInv DEF Init, NoProfitLost
  <1>2. IInv /\ NoProfitLost /\ [Next]_vars => (IInv /\ NoProfitLost)'
    BY InvStep, RefusedStep
  <1> QED
    BY <1>1, <1>2, PTL DEF Spec

-----------------------------------------------------------------------------

\* The prices of a judgement are one snapshot of its source.
OneSnapshot ==
  /\ pc = "snapshot" => prices = None
  /\ prices # None =>
       \E requested \in SUBSET Currencies : prices = SnapshotOf(source, requested)

\* What a feed's answer is read as is the price of an asset of the feed's currency.
LEMMA FetchedIsPriced ==
  ASSUME NEW currency, NEW price,
         Fetched(source.feed[currency], currency) # None,
         price = ParsePrice(Fetched(source.feed[currency], currency))
  PROVE  IsFeedPrice(currency, price)
  <1> DEFINE answer == source.feed[currency]
             assets == answer.assets
  <1>1. /\ answer.ok /\ answer.error = 0
        /\ \E i \in DOMAIN assets : IsAsset(assets, currency, i)
        /\ Fetched(answer, currency)
             = assets[CHOOSE i \in DOMAIN assets : IsAsset(assets, currency, i)].price
    BY DEF Fetched
  <1>2. PICK i \in DOMAIN assets :
          IsAsset(assets, currency, i) /\ Fetched(answer, currency) = assets[i].price
    BY <1>1
  <1>3. assets[i].id = AssetId(currency) \/ assets[i].symbol = currency
    BY <1>2 DEF IsAsset
  <1> QED
    BY <1>1, <1>2, <1>3 DEF IsFeedPrice

\* A snapshot of a source has its prices from where they belong.
LEMMA SnapshotIsGiven ==
  ASSUME prices # None, NEW requested \in SUBSET Currencies,
         prices = SnapshotOf(source, requested)
  PROVE  PricesAreGiven
  <1>1. /\ \A c \in requested : Known(Text(source, c))
        /\ prices = [c \in Currencies |-> IF c \in Aliases(requested)
                                          THEN ParsePrice(Text(source, c)) ELSE 0]
    BY DEF SnapshotOf
  <1> SUFFICES ASSUME NEW c \in Currencies, prices[c] # 0
               PROVE  /\ \A d \in Peers(c) :
                           /\ prices[d] = prices[c]
                           /\ Explicit(source, d) # None =>
                                prices[c] = ParsePrice(Explicit(source, d))
                      /\ (\A d \in Peers(c) : Explicit(source, d) = None) =>
                           /\ c # "USDG"
                           /\ IsFeedPrice(IF c = "HYPE" THEN "HYPE" ELSE "ETH", prices[c])
    BY DEF PricesAreGiven
  <1>2. c \in Aliases(requested) /\ prices[c] = ParsePrice(Text(source, c))
    BY <1>1
  <1>3. CASE c \in {"ETH", "WETH"}
    <2>1. /\ "ETH" \in Aliases(requested) /\ "WETH" \in Aliases(requested)
          /\ "ETH" \in Currencies /\ "WETH" \in Currencies
          /\ Peers(c) = {"ETH", "WETH"} /\ c # "HYPE" /\ c # "USDG"
      BY <1>2, <1>3 DEF Aliases, Currencies, Peers
    <2>2. PICK e \in requested : e \in {"ETH", "WETH"}
      BY <1>2, <1>3 DEF Aliases
    <2>3. Ether(source) # None
      BY <1>1, <2>2 DEF Known, Text
    <2>4. Text(source, "ETH") = Ether(source) /\ Text(source, "WETH") = Ether(source)
      BY DEF Text
    <2>5. prices["ETH"] = prices["WETH"] /\ prices[c] = ParsePrice(Ether(source))
      BY <1>1, <1>2, <1>3, <2>1, <2>4
    <2>6. \A d \in Peers(c) :
            Explicit(source, d) # None => ParsePrice(Ether(source)) = ParsePrice(Explicit(source, d))
      BY <2>1, <2>3 DEF Ether
    <2>7. ASSUME \A d \in Peers(c) : Explicit(source, d) = None
          PROVE  IsFeedPrice("ETH", prices[c])
      <3>1. Ether(source) = Fetched(source.feed["ETH"], "ETH")
        BY <2>1, <2>7 DEF Ether
      <3> QED
        BY <2>3, <2>5, <3>1, FetchedIsPriced
    <2> QED
      BY <1>3, <2>1, <2>5, <2>6, <2>7
  <1>4. CASE c \notin {"ETH", "WETH"}
    <2>1. c \in requested /\ Text(source, c) # None /\ Peers(c) = {c}
      BY <1>1, <1>2, <1>4 DEF Aliases, Known, Peers
    <2>2. Explicit(source, c) # None => Text(source, c) = Explicit(source, c)
      BY <1>4 DEF Text
    <2>3. ASSUME Explicit(source, c) = None
          PROVE  c = "HYPE" /\ IsFeedPrice("HYPE", prices[c])
      <3>1. c = "HYPE" /\ Text(source, c) = Fetched(source.feed["HYPE"], "HYPE")
        BY <1>4, <2>1, <2>3 DEF Text
      <3> QED
        BY <1>2, <2>1, <3>1, FetchedIsPriced
    <2> QED
      BY <1>2, <2>1, <2>2, <2>3
  <1> QED
    BY <1>3, <1>4

LEMMA OneSnapshotStep == TypeOK /\ OneSnapshot /\ [Next]_vars => OneSnapshot'
  <1> SUFFICES ASSUME TypeOK, OneSnapshot, [Next]_vars PROVE OneSnapshot'
    OBVIOUS
  <1> USE DEF OneSnapshot
  <1>1. CASE Judge
    <2>1. PICK offer \in Offers : prices' = SnapshotOf(source, Needed(offer))
      BY <1>1 DEF Judge
    <2>2. Needed(offer) \in SUBSET Currencies
      BY ProfitAssumption DEF TypeOK, Needed, Mint, Offer, Currencies
    <2>3. source' = source /\ pc' # "snapshot"
      BY <1>1 DEF Judge
    <2> QED
      BY <2>1, <2>2, <2>3 DEF SnapshotOf
  <1>2. CASE Snapshot
    BY <1>2 DEF Snapshot
  <1>3. CASE NextToken
    BY <1>3 DEF NextToken
  <1>4. CASE Mined \/ NotMined \/ UNCHANGED vars
    <2>1. UNCHANGED <<prices, source>> /\ (pc' = "next" \/ pc' = pc)
      BY <1>4 DEF Mined, NotMined, vars
    <2> QED
      BY <2>1
  <1> QED
    BY <1>1, <1>2, <1>3, <1>4 DEF Next

\* PricesAreGiven: whatever the configuration, the environment and the feeds hold, ETH
\* and WETH have one price, an explicit price counts, and every other price, also the
\* one of ETH and WETH, is the price of the right asset of the right feed.
THEOREM PricesHaveSources == Spec => []PricesAreGiven
  <1>1. Init => TypeOK /\ OneSnapshot
    BY InitInv DEF IInv, Init, OneSnapshot
  <1>2. IInv /\ OneSnapshot /\ [Next]_vars => (IInv /\ OneSnapshot)'
    BY InvStep, OneSnapshotStep DEF IInv
  <1>3. OneSnapshot => PricesAreGiven
    BY SnapshotIsGiven DEF OneSnapshot, PricesAreGiven
  <1> QED
    BY <1>1, <1>2, <1>3, InitInv, PTL DEF Spec, IInv

-----------------------------------------------------------------------------
(* The sums and the sizes of sets that the judgements of calls use are the usual ones. *)

LEMMA SalesSum == \A f, S : Selling!SumFunctionOnSet(f, S) = SumFunctionOnSet(f, S)
  BY DEF SumFunctionOnSet, Selling!SumFunctionOnSet, FoldFunctionOnSet, Selling!FoldFunctionOnSet,
     MapThenFoldSet, Selling!MapThenFoldSet

LEMMA SalesSumAll == \A f : Selling!SumFunction(f) = SumFunctionOnSet(f, DOMAIN f)
  BY SalesSum DEF Selling!SumFunction

LEMMA SalesCount == \A S : /\ Selling!Cardinality(S) = Cardinality(S)
                            /\ Selling!IsFiniteSet(S) = IsFiniteSet(S)
  BY DEF Cardinality, Selling!Cardinality, IsFiniteSet, Selling!IsFiniteSet

LEMMA PurchasesSum == \A f, S : Buying!SumFunctionOnSet(f, S) = SumFunctionOnSet(f, S)
  BY DEF SumFunctionOnSet, Buying!SumFunctionOnSet, FoldFunctionOnSet, Buying!FoldFunctionOnSet,
     MapThenFoldSet, Buying!MapThenFoldSet

LEMMA PurchasesSumAll == \A f : Buying!SumFunction(f) = SumFunctionOnSet(f, DOMAIN f)
  BY PurchasesSum DEF Buying!SumFunction

-----------------------------------------------------------------------------
(* Calls that buy. *)

\* Fractions that fit are signed as they were checked.
LEMMA PurchaseOrderIsKept ==
  ASSUME NEW orders \in Seq(Buying!Order),
         \A o \in DOMAIN orders : Buying!Fits(orders[o].n) /\ Buying!Fits(orders[o].d)
  PROVE  Buying!Cut(orders) = orders
<1>1. ASSUME NEW o \in DOMAIN orders
      PROVE  [orders[o] EXCEPT !.n = @ % 2^Width, !.d = @ % 2^Width] = orders[o]
  <2>1. orders[o] \in Buying!Order
    OBVIOUS
  <2>2. orders[o].n \in Nat /\ orders[o].d \in Nat
    BY <2>1 DEF Buying!Order
  <2>3. orders[o].n % 2^Width = orders[o].n /\ orders[o].d % 2^Width = orders[o].d
    BY <2>2, FitsAreKept, CallsAssumption DEF Buying!Fits
  <2> QED
    BY <2>1, <2>3 DEF Buying!Order
<1>2. orders = [o \in DOMAIN orders |-> orders[o]]
  OBVIOUS
<1>3. Buying!Cut(orders) = [o \in DOMAIN orders |-> orders[o]]
  BY <1>1 DEF Buying!Cut
<1> QED
  BY <1>2, <1>3

\* Nothing is spent but native currency, and not more than the call sends.
Bought(transfers, value) ==
  \A asset \in DOMAIN Buying!Gain(transfers) :
    Buying!Gain(transfers)[asset] < 0 =>
      asset.type = 0 /\ Buying!Gain(transfers)[asset] >= -value

LEMMA OnlyMoneyIsSpent ==
  ASSUME NEW T, IsFiniteSet(DOMAIN T), \A x \in DOMAIN T : T[x].amount \in Nat,
         \A x \in DOMAIN T : T[x].from = Buyer => T[x].asset.type = 0,
         NEW v \in Nat, ~(Buying!NativeDue(T) > v)
  PROVE  Bought(T, v)
<1> DEFINE a == Buying!AmountsOf(T)
           native == {x \in DOMAIN T : T[x].asset.type = 0 /\ T[x].from = Buyer}
<1>1. \A x \in DOMAIN T : a[x] \in Nat
  BY DEF Buying!AmountsOf
<1> HIDE DEF a
<1>2. IsFiniteSet(native)
  BY FS_Subset
<1>3. SumFunctionOnSet(a, native) <= v /\ SumFunctionOnSet(a, native) \in Nat
  <2>1. Buying!NativeDue(T) = SumFunctionOnSet(a, native)
    BY PurchasesSum DEF Buying!NativeDue, a
  <2>2. SumFunctionOnSet(a, native) \in Nat
    BY <1>1, <1>2, SumIsNat
  <2> QED
    BY <2>1, <2>2
<1> SUFFICES ASSUME NEW asset \in DOMAIN Buying!Gain(T), Buying!Gain(T)[asset] < 0
             PROVE  asset.type = 0 /\ Buying!Gain(T)[asset] >= -v
  BY DEF Bought
<1> DEFINE spent == Buying!Spent(T, asset)
           received == Buying!Received(T, asset)
<1>4. spent \subseteq DOMAIN T /\ received \subseteq DOMAIN T
  BY DEF Buying!Spent, Buying!Received
<1>5. Buying!Gain(T)[asset] = SumFunctionOnSet(a, received) - SumFunctionOnSet(a, spent)
  BY PurchasesSum DEF Buying!Gain, Buying!GainOf, a
<1>6. \A x \in spent : T[x].asset = asset /\ T[x].asset.type = 0 /\ x \in native
  BY DEF Buying!Spent
<1> HIDE DEF spent, received, native
<1>7. IsFiniteSet(spent) /\ IsFiniteSet(received)
  BY <1>4, FS_Subset
<1>8. SumFunctionOnSet(a, received) \in Nat
  BY <1>1, <1>4, <1>7, SumIsNat
<1>9. spent # {}
  BY <1>5, <1>8, SumOfNone
<1>10. spent \subseteq native /\ \A x \in native : a[x] \in Nat
  BY <1>1, <1>6 DEF native
<1>11. SumFunctionOnSet(a, spent) <= SumFunctionOnSet(a, native) /\ SumFunctionOnSet(a, spent) \in Nat
  BY <1>2, <1>10, SumOfPart
<1>12. asset.type = 0
  BY <1>6, <1>9
<1> QED
  BY <1>3, <1>5, <1>8, <1>11, <1>12

\* The call goes through, brings one unit of the listed token, and spends no more.
GoodPurchase(transfers, value) ==
  /\ Buying!Token \in DOMAIN Buying!Gain(transfers)
  /\ Buying!Gain(transfers)[Buying!Token] = 1
  /\ ~(Buying!NativeDue(transfers) > value)
  /\ Bought(transfers, value)

\* One transfer brings the token, and the others take native currency.
LEMMA TokenForMoney ==
  ASSUME NEW T, IsFiniteSet(DOMAIN T), \A x \in DOMAIN T : T[x].amount \in Nat,
         NEW x0 \in DOMAIN T, selected.type \in {2, 3},
         T[x0].asset = Buying!Token, T[x0].amount = 1, T[x0].to = Buyer, T[x0].from # Buyer,
         \A x \in DOMAIN T \ {x0} : T[x].asset.type = 0 /\ T[x].from = Buyer
  PROVE  /\ SumFunctionOnSet(Buying!AmountsOf(T), DOMAIN T \ {x0}) \in Nat
         /\ GoodPurchase(T, SumFunctionOnSet(Buying!AmountsOf(T), DOMAIN T \ {x0}))
<1> DEFINE a == Buying!AmountsOf(T)
           v == SumFunctionOnSet(a, DOMAIN T \ {x0})
<1>1. \A x \in DOMAIN T : a[x] \in Nat /\ a[x] = T[x].amount
  BY DEF Buying!AmountsOf
<1>2. T[x0].asset.type # 0
  BY DEF Buying!Token
<1>3. v \in Nat
  <2>1. IsFiniteSet(DOMAIN T \ {x0})
    BY FS_Subset
  <2> QED
    BY <1>1, <2>1, SumIsNat
<1>4. Buying!NativeDue(T) = v
  <2>1. {x \in DOMAIN T : T[x].asset.type = 0 /\ T[x].from = Buyer} = DOMAIN T \ {x0}
    BY <1>2
  <2> QED
    BY <2>1, PurchasesSum DEF Buying!NativeDue
<1>5. Buying!Received(T, Buying!Token) = {x0} /\ Buying!Spent(T, Buying!Token) = {}
  <2>1. \A x \in DOMAIN T \ {x0} : T[x].asset # Buying!Token
    BY <1>2
  <2> QED
    BY <2>1 DEF Buying!Received, Buying!Spent
<1>6. Buying!Token \in DOMAIN Buying!Gain(T)
  BY DEF Buying!Gain
<1>7. Buying!Gain(T)[Buying!Token] = 1
  <2>1. SumFunctionOnSet(a, {x0}) = 1 /\ SumFunctionOnSet(a, {}) = 0
    BY <1>1, SumOfOne, SumOfNone
  <2>2. Buying!Gain(T)[Buying!Token] = Buying!GainOf(T, Buying!Token)
    BY <1>6 DEF Buying!Gain
  <2>3. Buying!GainOf(T, Buying!Token) = SumFunctionOnSet(a, {x0}) - SumFunctionOnSet(a, {})
    BY <1>5, PurchasesSum DEF Buying!GainOf
  <2> QED
    BY <2>1, <2>2, <2>3
<1>8. \A x \in DOMAIN T : T[x].from = Buyer => T[x].asset.type = 0
  OBVIOUS
<1> HIDE DEF a, v
<1>9. ~(Buying!NativeDue(T) > v)
  BY <1>3, <1>4
<1>10. Bought(T, v)
  BY <1>3, <1>8, <1>9, OnlyMoneyIsSpent
<1> QED
  BY <1>3, <1>6, <1>7, <1>9, <1>10 DEF GoodPurchase, v, a

\* A valid basic call executes, and is a good purchase.
LEMMA BasicPurchase ==
  ASSUME selected \in [id : Nat, type : {2, 3}, value : Nat],
         NEW p \in Buying!BasicCall, Buying!Valid(p)
  PROVE  LET c == Buying!Encode(p)
         IN  /\ c.kind = "basic" /\ c.value = p.value
             /\ ~Buying!Reverts(c)
             /\ \A T \in Buying!Outcomes(c) : GoodPurchase(T, p.value)
<1> DEFINE c == [p EXCEPT !.conduit = "zero"]
           T == Buying!BasicListing(c)
           D == ({0} \X (1 .. 2)) \cup ({1} \X DOMAIN p.recipients)
           a == Buying!AmountsOf(T)
<1>1. p.kind = "basic" /\ Buying!Encode(p) = c
  BY DEF Buying!BasicCall, Buying!Encode, Buying!EncodeBasic
<1>2. /\ c.kind = "basic" /\ c.value = p.value /\ c.route = p.route
      /\ c.considerationToken = p.considerationToken /\ c.considerationId = p.considerationId
      /\ c.considerationAmount = p.considerationAmount /\ c.offerer = p.offerer
      /\ c.offerToken = p.offerToken /\ c.offerId = p.offerId /\ c.offerAmount = p.offerAmount
      /\ c.recipients = p.recipients
  BY DEF Buying!BasicCall
<1>3. /\ p.route = IF selected.type = 2 THEN 0 ELSE 1
      /\ p.considerationToken = "zero" /\ p.considerationId = 0
      /\ p.offerToken = Contract /\ p.offerId = selected.id /\ p.offerAmount = 1
      /\ p.offerer # Buyer
      /\ p.value = p.considerationAmount + SumFunctionOnSet(Buying!AmountsOf(p.recipients), DOMAIN p.recipients)
  <2>1. Buying!Total(p) = Buying!BasicTotal(p) /\ Buying!Offerer(p) = p.offerer
    BY <1>1 DEF Buying!Total, Buying!Offerer
  <2>2. Buying!BasicTotal(p) # None /\ p.value = Buying!BasicTotal(p) /\ p.offerer # Buyer
    BY <2>1 DEF Buying!Valid
  <2>3. DOMAIN Buying!AmountsOf(p.recipients) = DOMAIN p.recipients
    BY DEF Buying!AmountsOf
  <2>4. Buying!SumFunction(Buying!AmountsOf(p.recipients))
          = SumFunctionOnSet(Buying!AmountsOf(p.recipients), DOMAIN p.recipients)
    BY <2>3, PurchasesSumAll
  <2> QED
    BY <2>2, <2>4 DEF Buying!BasicTotal
<1>4. p.recipients \in Seq([amount : Nat, to : STRING]) /\ p.considerationAmount \in Nat
  BY DEF Buying!BasicCall
<1>5. /\ IsFiniteSet(DOMAIN p.recipients)
      /\ \A i \in DOMAIN p.recipients : p.recipients[i].amount \in Nat
  <2>1. /\ IsFiniteSet(DOMAIN p.recipients)
        /\ \A i \in DOMAIN p.recipients : p.recipients[i] \in [amount : Nat, to : STRING]
    BY <1>4, PlacesAreFinite
  <2> QED
    BY <2>1
<1> HIDE DEF c
<1>6. ~Buying!Reverts(c)
  BY <1>2, <1>3 DEF Buying!Reverts, Buying!BasicReverts
<1>7. Buying!Outcomes(c) = {T}
  BY <1>2, <1>3 DEF Buying!Outcomes, Buying!BasicTransfers
<1>8. /\ DOMAIN T = D
      /\ T[<<0, 1>>] = Buying!Transfer(Buying!Token, 1, p.offerer, Buyer)
      /\ T[<<0, 2>>] = Buying!Transfer([type |-> 0, token |-> "zero", id |-> 0],
                                     p.considerationAmount, Buyer, p.offerer)
      /\ \A i \in DOMAIN p.recipients :
           T[<<1, i>>] = Buying!Transfer([type |-> 0, token |-> "zero", id |-> 0],
                                      p.recipients[i].amount, Buyer, p.recipients[i].to)
  <2> DEFINE nft == [type |-> c.route + 2, token |-> c.offerToken, id |-> c.offerId]
             money == [type |-> 0, token |-> "zero", id |-> 0]
             first == <<Buying!Transfer(nft, c.offerAmount, c.offerer, Buyer),
                        Buying!Transfer(money, c.considerationAmount, Buyer, c.offerer)>>
             second == [i \in DOMAIN c.recipients |->
                          Buying!Transfer(money, c.recipients[i].amount, Buyer, c.recipients[i].to)]
  <2>1. T = Buying!Both(first, second)
    BY DEF Buying!BasicListing
  <2>2. DOMAIN first = 1 .. 2 /\ DOMAIN second = DOMAIN p.recipients
    BY <1>2
  <2>3. /\ first[1] = Buying!Transfer(nft, 1, p.offerer, Buyer)
        /\ first[2] = Buying!Transfer(money, p.considerationAmount, Buyer, p.offerer)
        /\ \A i \in DOMAIN p.recipients :
             second[i] = Buying!Transfer(money, p.recipients[i].amount, Buyer, p.recipients[i].to)
    BY <1>2, <1>3
  <2>4. nft = Buying!Token
    BY <1>2, <1>3 DEF Buying!Token
  <2> HIDE DEF nft, first, second
  <2>5. DOMAIN T = D /\ \A x \in D : T[x] = IF x[1] = 0 THEN first[x[2]] ELSE second[x[2]]
    BY <2>1, <2>2 DEF Buying!Both
  <2>6. /\ <<0, 1>> \in D /\ <<0, 2>> \in D
        /\ \A i \in DOMAIN p.recipients : <<1, i>> \in D
    OBVIOUS
  <2> HIDE DEF T, D
  <2>7. /\ T[<<0, 1>>] = first[1] /\ T[<<0, 2>>] = first[2]
        /\ \A i \in DOMAIN p.recipients : T[<<1, i>>] = second[i]
    BY <2>5, <2>6
  <2> QED
    BY <2>3, <2>4, <2>5, <2>7
<1> HIDE DEF T
<1>9. \A x \in D : x = <<0, 1>> \/ x = <<0, 2>> \/ \E i \in DOMAIN p.recipients : x = <<1, i>>
  OBVIOUS
<1>10. IsFiniteSet(DOMAIN p.recipients) /\ IsFiniteSet(D)
  <2>1. IsFiniteSet(1 .. 2)
    <3>1. 1 .. 2 = {1} \cup {2}
      OBVIOUS
    <3>2. IsFiniteSet({1}) /\ IsFiniteSet({2})
      BY FS_Singleton
    <3>3. IsFiniteSet({1} \cup {2})
      BY <3>2, FS_Union
    <3> QED
      BY <3>1, <3>3
  <2> QED
    BY <1>5, <2>1, SidesAreFinite
<1>11. ASSUME NEW x \in DOMAIN T
       PROVE  T[x].amount \in Nat /\ (x # <<0, 1>> => T[x].asset.type = 0 /\ T[x].from = Buyer)
  <2>1. CASE x = <<0, 1>>
    BY <1>8, <2>1 DEF Buying!Transfer
  <2>2. CASE x = <<0, 2>>
    BY <1>4, <1>8, <2>2 DEF Buying!Transfer
  <2>3. CASE \E i \in DOMAIN p.recipients : x = <<1, i>>
    <3>1. PICK i \in DOMAIN p.recipients : x = <<1, i>>
      BY <2>3
    <3>2. T[x] = Buying!Transfer([type |-> 0, token |-> "zero", id |-> 0],
                              p.recipients[i].amount, Buyer, p.recipients[i].to)
      BY <1>8, <3>1
    <3> QED
      BY <1>5, <3>1, <3>2 DEF Buying!Transfer
  <2> QED
    BY <1>8, <1>9, <2>1, <2>2, <2>3
<1>12. /\ \A x \in DOMAIN T : T[x].amount \in Nat
       /\ \A x \in DOMAIN T \ {<<0, 1>>} : T[x].asset.type = 0 /\ T[x].from = Buyer
  BY <1>11
<1>13. /\ T[<<0, 1>>].asset = Buying!Token /\ T[<<0, 1>>].amount = 1
       /\ T[<<0, 1>>].to = Buyer /\ T[<<0, 1>>].from # Buyer
       /\ <<0, 1>> \in DOMAIN T
  BY <1>3, <1>8 DEF Buying!Transfer
<1>14. /\ SumFunctionOnSet(a, DOMAIN T \ {<<0, 1>>}) \in Nat
       /\ GoodPurchase(T, SumFunctionOnSet(a, DOMAIN T \ {<<0, 1>>}))
  BY <1>8, <1>10, <1>12, <1>13, TokenForMoney
<1>15. SumFunctionOnSet(a, DOMAIN T \ {<<0, 1>>}) = p.value
  <2> DEFINE others == {1} \X DOMAIN p.recipients
             given == Buying!AmountsOf(p.recipients)
  <2>1. DOMAIN T \ {<<0, 1>>} = others \cup {<<0, 2>>} /\ <<0, 2>> \notin others
    BY <1>8
  <2>2. \A x \in DOMAIN T : a[x] \in Nat /\ a[x] = T[x].amount
    BY <1>12 DEF Buying!AmountsOf
  <2>3. IsFiniteSet(others)
    BY <1>10, FS_Singleton, FS_Product
  <2>4. \A x \in others \cup {<<0, 2>>} : a[x] \in Nat
    BY <2>1, <2>2
  <2>5. SumFunctionOnSet(a, others \cup {<<0, 2>>}) = a[<<0, 2>>] + SumFunctionOnSet(a, others)
    BY <2>1, <2>3, <2>4, SumAdds
  <2>6. \A i \in DOMAIN p.recipients : a[<<1, i>>] = given[i] /\ given[i] \in Nat
    <3> SUFFICES ASSUME NEW i \in DOMAIN p.recipients PROVE a[<<1, i>>] = given[i] /\ given[i] \in Nat
      OBVIOUS
    <3>1. given[i] = p.recipients[i].amount
      BY DEF Buying!AmountsOf
    <3>2. <<1, i>> \in DOMAIN T
      BY <1>8
    <3>3. T[<<1, i>>] = Buying!Transfer([type |-> 0, token |-> "zero", id |-> 0],
                                     p.recipients[i].amount, Buyer, p.recipients[i].to)
      BY <1>8
    <3>4. a[<<1, i>>] = T[<<1, i>>].amount
      BY <2>2, <3>2
    <3> QED
      BY <1>5, <3>1, <3>3, <3>4 DEF Buying!Transfer
  <2>7. SumFunctionOnSet(a, others) = SumFunctionOnSet(given, DOMAIN p.recipients)
    <3> DEFINE R == DOMAIN p.recipients
    <3>1. IsFiniteSet(R) /\ \A i \in R : a[<<1, i>>] = given[i] /\ given[i] \in Nat
      BY <1>5, <2>6
    <3> HIDE DEF a, given, R
    <3>2. SumFunctionOnSet(a, Side(1, R)) = SumFunctionOnSet(given, R)
      BY <3>1, SideSum
    <3> QED
      BY <3>2 DEF R, Side
  <2>8. a[<<0, 2>>] = p.considerationAmount
    BY <1>8, <2>2 DEF Buying!Transfer
  <2> QED
    BY <1>3, <2>1, <2>5, <2>7, <2>8
<1> QED
  BY <1>1, <1>2, <1>6, <1>7, <1>14, <1>15

-----------------------------------------------------------------------------
(* What an order asks for, and calls that fill one. *)

\* What has a total is native currency, fixed, and is filled exactly.
LEMMA ConsiderationIsNative ==
  ASSUME NEW items \in Seq(Buying!Item), NEW n \in Nat, NEW d \in Nat,
         Buying!NativeConsideration(items, n, d) # None
  PROVE  /\ d # 0 /\ items # <<>>
         /\ \A i \in DOMAIN items :
              /\ Buying!NativeItem(items[i]) /\ Buying!Fixed(items[i])
              /\ items[i].start \in Nat
              /\ (items[i].start * n) % d = 0
<1>1. \A i \in DOMAIN items : items[i] \in Buying!Item
  BY PlacesAreFinite
<1>2. \A i \in DOMAIN items : items[i].start \in Nat
  BY <1>1 DEF Buying!Item
<1> QED
  BY <1>2 DEF Buying!NativeConsideration

\* The total is the sum of the shares.
LEMMA ConsiderationIsSum ==
  ASSUME NEW items \in Seq(Buying!Item), NEW n \in Nat, NEW d \in Nat,
         Buying!NativeConsideration(items, n, d) # None,
         NEW share, share = [i \in DOMAIN items |-> (items[i].start * n) \div d]
  PROVE  /\ IsFiniteSet(DOMAIN items)
         /\ \A i \in DOMAIN items : share[i] \in Nat
         /\ Buying!NativeConsideration(items, n, d) = SumFunctionOnSet(share, DOMAIN items)
         /\ Buying!NativeConsideration(items, n, d) \in Nat
<1>1. /\ d # 0 /\ items # <<>>
      /\ \A i \in DOMAIN items : /\ Buying!NativeItem(items[i]) /\ Buying!Fixed(items[i])
                                 /\ (items[i].start * n) % d = 0
  BY ConsiderationIsNative
<1>2. IsFiniteSet(DOMAIN items) /\ \A i \in DOMAIN items : items[i] \in Buying!Item
  BY PlacesAreFinite
<1>3. ASSUME NEW i \in DOMAIN items
      PROVE  items[i].start \in Nat /\ share[i] \in Nat
  <2>1. items[i].start \in Nat
    BY <1>2 DEF Buying!Item
  <2>2. items[i].start * n \in Nat /\ d \in Nat \ {0}
    BY <1>1, <2>1
  <2>3. (items[i].start * n) \div d \in Nat
    BY <2>2, DivIsBelow
  <2> QED
    BY <2>1, <2>3
<1>4. Buying!NativeConsideration(items, n, d) = SumFunctionOnSet(share, DOMAIN items)
  <2>1. Buying!NativeConsideration(items, n, d) = Buying!SumFunction(share)
    BY <1>1 DEF Buying!NativeConsideration
  <2>2. DOMAIN share = DOMAIN items
    OBVIOUS
  <2> QED
    BY <2>1, <2>2, PurchasesSumAll
<1>5. SumFunctionOnSet(share, DOMAIN items) \in Nat
  BY <1>2, <1>3, SumIsNat
<1> QED
  BY <1>1, <1>2, <1>3, <1>4, <1>5

\* The part of an order that is one unit has the price of one unit.
LEMMA PriceOfAUnit ==
  ASSUME NEW items \in Seq(Buying!Item), NEW n \in Nat, NEW s \in Nat, NEW d \in Nat \ {0},
         d = s * n,
         Buying!NativeConsideration(items, 1, s) # None
  PROVE  Buying!NativeConsideration(items, n, d) = Buying!NativeConsideration(items, 1, s)
<1>1. /\ s # 0 /\ items # <<>>
      /\ \A i \in DOMAIN items :
           /\ Buying!NativeItem(items[i]) /\ Buying!Fixed(items[i])
           /\ items[i].start \in Nat
           /\ (items[i].start * 1) % s = 0
  <2>1. PICK one \in Nat : one = 1
    OBVIOUS
  <2>2. Buying!NativeConsideration(items, one, s) # None
    BY <2>1
  <2>3. /\ s # 0 /\ items # <<>>
        /\ \A i \in DOMAIN items :
             /\ Buying!NativeItem(items[i]) /\ Buying!Fixed(items[i])
             /\ items[i].start \in Nat
             /\ (items[i].start * one) % s = 0
    BY <2>2, ConsiderationIsNative
  <2> QED
    BY <2>1, <2>3
<1>2. ASSUME NEW i \in DOMAIN items
      PROVE  /\ (items[i].start * n) % d = 0
             /\ (items[i].start * n) \div d = (items[i].start * 1) \div s
  <2> DEFINE a == items[i].start
  <2>1. a \in Nat /\ a % s = 0 /\ a * 1 = a
    BY <1>1
  <2> HIDE DEF a
  <2>2. (a * n) % (s * n) = 0 /\ (a * n) \div (s * n) = a \div s
    <3>1. s \in Nat \ {0} /\ s * n \in Nat \ {0}
      BY <1>1
    <3> QED
      BY <2>1, <3>1, ExactShare
  <2>3. (a * n) % d = 0 /\ (a * n) \div d = a \div s
    BY <2>2
  <2>4. (a * n) % d = 0 /\ (a * n) \div d = (a * 1) \div s
    BY <2>1, <2>3
  <2> QED
    BY <2>4 DEF a
<1>3. [i \in DOMAIN items |-> (items[i].start * n) \div d]
        = [i \in DOMAIN items |-> (items[i].start * 1) \div s]
  BY <1>2
<1>4. Buying!NativeConsideration(items, n, d)
        = Buying!SumFunction([i \in DOMAIN items |-> (items[i].start * n) \div d])
  BY <1>1, <1>2 DEF Buying!NativeConsideration
<1>5. Buying!NativeConsideration(items, 1, s)
        = Buying!SumFunction([i \in DOMAIN items |-> (items[i].start * 1) \div s])
  BY <1>1 DEF Buying!NativeConsideration
<1> QED
  BY <1>3, <1>4, <1>5

\* What is signed has the orders that were checked, and the wallet as recipient.
LEMMA StandardPurchaseIsEncoded ==
  ASSUME NEW p \in Buying!StandardCall, Buying!Encodable(p)
  PROVE  LET c == Buying!Encode(p)
         IN  /\ c.kind = "standard" /\ c.value = p.value /\ c.resolvers = p.resolvers
             /\ c.orders = p.orders /\ c.recipient = Buyer
<1>1. /\ p.kind = "standard" /\ p.orders \in Seq(Buying!Order)
      /\ Buying!Encode(p) = Buying!EncodeStandard(p)
  BY DEF Buying!StandardCall, Buying!Encode
<1>2. Buying!Cut(p.orders) = p.orders
  <2>1. \A o \in DOMAIN p.orders : Buying!Fits(p.orders[o].n) /\ Buying!Fits(p.orders[o].d)
    BY <1>1 DEF Buying!Encodable, Buying!Orders
  <2> QED
    BY <1>1, <2>1, PurchaseOrderIsKept
<1> QED
  BY <1>1, <1>2 DEF Buying!EncodeStandard, Buying!StandardCall

\* So is a valid call that fills one order.
LEMMA StandardPurchase ==
  ASSUME selected \in [id : Nat, type : {2, 3}, value : Nat],
         NEW p \in Buying!StandardCall, Buying!Valid(p), Buying!Encodable(p)
  PROVE  LET c == Buying!Encode(p)
         IN  /\ c.kind = "standard" /\ c.value = p.value
             /\ ~Buying!Reverts(c)
             /\ \A T \in Buying!Outcomes(c) : GoodPurchase(T, p.value)
<1> DEFINE c == Buying!Encode(p)
           order == p.orders[1]
           offer == order.offer[1]
           asks == order.consideration
<1>1. /\ c.kind = "standard" /\ c.value = p.value /\ c.resolvers = p.resolvers
      /\ c.orders = p.orders /\ c.recipient = Buyer
  BY StandardPurchaseIsEncoded
<1> HIDE DEF c
<1>2. order \in Buying!Order
  <2>1. p.orders \in Seq(Buying!Order) /\ Len(p.orders) = 1
    BY DEF Buying!StandardCall
  <2> QED
    BY <2>1
<1>3. /\ order.offer \in Seq(Buying!Item) /\ asks \in Seq(Buying!Item)
      /\ order.n \in Nat /\ order.d \in Nat
  BY <1>2 DEF Buying!Order
<1>4. Buying!StandardTotal(p) # None /\ p.value = Buying!StandardTotal(p) /\ order.offerer # Buyer
  <2>1. p.kind = "standard"
    BY DEF Buying!StandardCall
  <2> QED
    BY <2>1 DEF Buying!Valid, Buying!Total, Buying!Offerer
<1>5. /\ p.resolvers = {} /\ order.n # 0 /\ ~(order.n > order.d)
      /\ Len(order.offer) = 1 /\ offer.token = Contract /\ offer.type = selected.type
      /\ offer.id = selected.id /\ Buying!Fixed(offer) /\ offer.start * order.n = order.d
      /\ Buying!NativeConsideration(asks, order.n, order.d) # None
      /\ p.value = Buying!NativeConsideration(asks, order.n, order.d)
  BY <1>4 DEF Buying!StandardTotal, Buying!OneUnit
<1>6. DOMAIN order.offer = {1} /\ offer \in Buying!Item
  <2>1. DOMAIN order.offer = 1 .. 1 /\ offer \in Buying!Item
    BY <1>3, <1>5
  <2> QED
    BY <2>1
<1>7. offer.start \in Nat /\ offer.end = offer.start /\ order.d \in Nat \ {0}
  <2>1. offer.start \in Nat /\ offer.end = offer.start
    BY <1>5, <1>6 DEF Buying!Item, Buying!Fixed
  <2> DEFINE n == order.n
             d == order.d
  <2>2. n \in Nat /\ d \in Nat /\ n # 0 /\ ~(n > d)
    BY <1>3, <1>5
  <2> HIDE DEF n, d
  <2>3. d \in Nat \ {0}
    BY <2>2
  <2> QED
    BY <2>1, <2>3 DEF d
<1> DEFINE share == [i \in DOMAIN asks |-> (asks[i].start * order.n) \div order.d]
<1>8. /\ \A i \in DOMAIN asks :
           /\ Buying!NativeItem(asks[i]) /\ Buying!Fixed(asks[i])
           /\ asks[i].start \in Nat
           /\ (asks[i].start * order.n) % order.d = 0
      /\ IsFiniteSet(DOMAIN asks)
      /\ \A i \in DOMAIN asks : share[i] \in Nat
      /\ p.value = SumFunctionOnSet(share, DOMAIN asks)
  <2> DEFINE n == order.n
             d == order.d
  <2>1. /\ asks \in Seq(Buying!Item) /\ n \in Nat /\ d \in Nat
        /\ Buying!NativeConsideration(asks, n, d) # None
        /\ share = [i \in DOMAIN asks |-> (asks[i].start * n) \div d]
    BY <1>3, <1>5
  <2>2. p.value = Buying!NativeConsideration(asks, n, d)
    BY <1>5
  <2> HIDE DEF n, d, share, asks
  <2>3. \A i \in DOMAIN asks :
          /\ Buying!NativeItem(asks[i]) /\ Buying!Fixed(asks[i])
          /\ asks[i].start \in Nat
          /\ (asks[i].start * n) % d = 0
    BY <2>1, ConsiderationIsNative
  <2>4. /\ IsFiniteSet(DOMAIN asks)
        /\ \A i \in DOMAIN asks : share[i] \in Nat
        /\ p.value = SumFunctionOnSet(share, DOMAIN asks)
    BY <2>1, <2>2, ConsiderationIsSum
  <2> QED
    BY <2>3, <2>4 DEF n, d
<1> HIDE DEF share
<1>9. Buying!Amounts(offer) = {offer.start} /\ Buying!Exact(order, offer)
  <2>1. Buying!Amounts(offer) = {offer.start}
    BY <1>7 DEF Buying!Amounts
  <2>2. order.d % order.d = 0
    BY <1>7
  <2> QED
    BY <1>5, <2>1, <2>2 DEF Buying!Exact
<1>10. ASSUME NEW i \in DOMAIN asks
       PROVE  Buying!Amounts(asks[i]) = {asks[i].start} /\ Buying!Exact(order, asks[i])
  <2>1. Buying!Amounts(asks[i]) = {asks[i].start}
    BY <1>8 DEF Buying!Amounts, Buying!Fixed
  <2> QED
    BY <1>8, <2>1 DEF Buying!Exact
<1>11. ~Buying!Reverts(c)
  <2>1. offer.type \notin {4, 5} /\ \A i \in DOMAIN asks : asks[i].type \notin {4, 5}
    BY <1>5, <1>8 DEF Buying!NativeItem
  <2>2. Buying!Takes(c, order.offer, 0) /\ Buying!Takes(c, asks, 1)
    BY <1>1, <1>6, <1>9, <1>10, <2>1 DEF Buying!Takes, Buying!Resolved
  <2> QED
    BY <1>1, <2>2 DEF Buying!Reverts, Buying!StandardReverts
<1>12. ASSUME NEW T \in Buying!Outcomes(c)
       PROVE  GoodPurchase(T, p.value)
  <2>1. PICK offered \in Buying!AmountsNow(order.offer), asked \in Buying!AmountsNow(asks) :
          T = Buying!StandardTransfers(c, offered, asked)
    BY <1>1 DEF Buying!Outcomes
  <2>2. offered[1] = offer.start /\ \A i \in DOMAIN asks : asked[i] = asks[i].start
    BY <1>6, <1>9, <1>10 DEF Buying!AmountsNow
  <2> DEFINE D == ({0} \X {1}) \cup ({1} \X DOMAIN asks)
             money == [type |-> 0, token |-> "zero", id |-> 0]
             a == Buying!AmountsOf(T)
  <2>3. Buying!Asset(c, offer, 0, 0, 0) = Buying!Token /\ Buying!Share(order, offered[1]) = 1
    <3>1. Buying!Asset(c, offer, 0, 0, 0) = Buying!Token
      BY <1>5 DEF Buying!Asset, Buying!Token
    <3>2. order.d \div order.d = 1
      BY <1>7
    <3>3. offered[1] * order.n = order.d
      BY <1>5, <2>2
    <3> QED
      BY <3>1, <3>2, <3>3 DEF Buying!Share
  <2>4. ASSUME NEW i \in DOMAIN asks
        PROVE  /\ Buying!Asset(c, asks[i], 0, 1, i - 1) = money
               /\ Buying!Share(order, asked[i]) = share[i]
    <3>1. asks[i].type = 0 /\ asks[i].token = "zero" /\ asks[i].id = 0
      BY <1>8 DEF Buying!NativeItem
    <3>2. Buying!Asset(c, asks[i], 0, 1, i - 1) = money
      BY <3>1 DEF Buying!Asset
    <3>3. asked[i] = asks[i].start
      BY <2>2
    <3>4. Buying!Share(order, asked[i]) = (asks[i].start * order.n) \div order.d
      BY <3>3 DEF Buying!Share
    <3> QED
      BY <3>2, <3>4 DEF share
  <2>5. /\ DOMAIN T = D
        /\ T[<<0, 1>>] = Buying!Transfer(Buying!Token, 1, order.offerer, Buyer)
        /\ \A i \in DOMAIN asks :
             T[<<1, i>>] = Buying!Transfer(money, share[i], Buyer, asks[i].to)
    <3> DEFINE first == [i \in DOMAIN order.offer |->
                           Buying!Transfer(Buying!Asset(c, order.offer[i], 0, 0, i - 1),
                             Buying!Share(order, offered[i]), order.offerer, c.recipient)]
               second == [i \in DOMAIN asks |->
                            Buying!Transfer(Buying!Asset(c, asks[i], 0, 1, i - 1),
                              Buying!Share(order, asked[i]), Buyer, asks[i].to)]
    <3>1. T = Buying!Both(first, second)
      BY <1>1, <2>1 DEF Buying!StandardTransfers
    <3>2. DOMAIN first = {1} /\ DOMAIN second = DOMAIN asks
      BY <1>6
    <3>3. /\ first[1] = Buying!Transfer(Buying!Token, 1, order.offerer, Buyer)
          /\ \A i \in DOMAIN asks : second[i] = Buying!Transfer(money, share[i], Buyer, asks[i].to)
      BY <1>1, <1>6, <2>3, <2>4
    <3> HIDE DEF first, second
    <3>4. DOMAIN T = D /\ \A x \in D : T[x] = IF x[1] = 0 THEN first[x[2]] ELSE second[x[2]]
      BY <3>1, <3>2 DEF Buying!Both
    <3>5. <<0, 1>> \in D /\ \A i \in DOMAIN asks : <<1, i>> \in D
      OBVIOUS
    <3> HIDE DEF D
    <3>6. T[<<0, 1>>] = first[1] /\ \A i \in DOMAIN asks : T[<<1, i>>] = second[i]
      BY <3>4, <3>5
    <3> QED
      BY <3>3, <3>4, <3>6
  <2>6. \A x \in D : x = <<0, 1>> \/ \E i \in DOMAIN asks : x = <<1, i>>
    OBVIOUS
  <2>7. ASSUME NEW x \in DOMAIN T
        PROVE  /\ T[x].amount \in Nat
               /\ x # <<0, 1>> => T[x].asset.type = 0 /\ T[x].from = Buyer
    <3>1. CASE x = <<0, 1>>
      BY <2>5, <3>1 DEF Buying!Transfer
    <3>2. CASE \E i \in DOMAIN asks : x = <<1, i>>
      <4>1. PICK i \in DOMAIN asks : x = <<1, i>>
        BY <3>2
      <4>2. T[x] = Buying!Transfer(money, share[i], Buyer, asks[i].to)
        BY <2>5, <4>1
      <4> QED
        BY <1>8, <4>1, <4>2 DEF Buying!Transfer
    <3> QED
      BY <2>5, <2>6, <3>1, <3>2
  <2>8. IsFiniteSet(DOMAIN T)
    <3>1. IsFiniteSet({1})
      BY FS_Singleton
    <3>2. IsFiniteSet(D)
      BY <1>8, <3>1, SidesAreFinite
    <3> QED
      BY <2>5, <3>2
  <2>9. /\ T[<<0, 1>>].asset = Buying!Token /\ T[<<0, 1>>].amount = 1
        /\ T[<<0, 1>>].to = Buyer /\ T[<<0, 1>>].from # Buyer
        /\ <<0, 1>> \in DOMAIN T
    BY <1>4, <2>5 DEF Buying!Transfer
  <2>10. GoodPurchase(T, SumFunctionOnSet(a, DOMAIN T \ {<<0, 1>>}))
    BY <2>7, <2>8, <2>9, TokenForMoney
  <2>11. SumFunctionOnSet(a, DOMAIN T \ {<<0, 1>>}) = p.value
    <3> DEFINE R == DOMAIN asks
    <3>1. DOMAIN T \ {<<0, 1>>} = {1} \X R
      BY <2>5
    <3>2. ASSUME NEW i \in R PROVE a[<<1, i>>] = share[i] /\ share[i] \in Nat
      <4>1. <<1, i>> \in DOMAIN T /\ T[<<1, i>>] = Buying!Transfer(money, share[i], Buyer, asks[i].to)
        BY <2>5
      <4>2. a[<<1, i>>] = T[<<1, i>>].amount
        BY <4>1 DEF Buying!AmountsOf
      <4> QED
        BY <1>8, <4>1, <4>2 DEF Buying!Transfer
    <3>3. IsFiniteSet(R) /\ p.value = SumFunctionOnSet(share, R)
      BY <1>8
    <3> HIDE DEF a, R
    <3>4. SumFunctionOnSet(a, Side(1, R)) = SumFunctionOnSet(share, R)
      BY <3>2, <3>3, SideSum
    <3> QED
      BY <3>1, <3>3, <3>4 DEF Side
  <2> QED
    BY <2>10, <2>11
<1> QED
  BY <1>1, <1>11, <1>12 DEF c

-----------------------------------------------------------------------------
(* A listing, and the call for it. *)

\* What is taken from a listing.
LEMMA ListingIsParsed ==
  ASSUME NEW active, NEW order \in Buying!Order,
         selected = Buying!Parse(active, order), selected # None
  PROVE  LET offer == order.offer[1]
         IN  /\ selected \in [id : Nat, type : {2, 3}, value : Nat]
             /\ order.offerer # Buyer /\ Len(order.offer) = 1
             /\ order.consideration \in Seq(Buying!Item)
             /\ offer.token = Contract /\ offer.type = selected.type /\ offer.id = selected.id
             /\ Buying!Fixed(offer) /\ offer.start \in Nat \ {0}
             /\ Buying!NativeConsideration(order.consideration, 1, offer.start) # None
             /\ selected.value = Buying!NativeConsideration(order.consideration, 1, offer.start)
<1> DEFINE offer == order.offer[1]
           asks == order.consideration
           value == Buying!NativeConsideration(asks, 1, offer.start)
<1>1. order.offer \in Seq(Buying!Item) /\ asks \in Seq(Buying!Item)
  BY DEF Buying!Order
<1>2. /\ order.offerer # Buyer /\ Len(order.offer) = 1 /\ offer.type \in {2, 3}
      /\ offer.token = Contract /\ Buying!Fixed(offer) /\ Buying!UnitsAllowed(offer)
      /\ value # None
      /\ selected = [id |-> offer.id, type |-> offer.type, value |-> value]
  BY DEF Buying!Parse
<1>3. offer \in Buying!Item
  <2>1. Len(order.offer) = 1 /\ order.offer \in Seq(Buying!Item)
    BY <1>1, <1>2
  <2> QED
    BY <2>1
<1>4. offer.start \in Nat \ {0} /\ offer.id \in Nat
  BY <1>2, <1>3 DEF Buying!Item, Buying!UnitsAllowed
<1>5. value \in Nat
  <2> DEFINE s == offer.start
  <2>1. PICK one \in Nat : one = 1
    OBVIOUS
  <2>2. Buying!NativeConsideration(asks, one, s) # None /\ s \in Nat
    BY <1>2, <1>4, <2>1
  <2>3. Buying!NativeConsideration(asks, one, s) = value
    BY <2>1
  <2> HIDE DEF asks, s, value
  <2>4. Buying!NativeConsideration(asks, one, s) \in Nat
    BY <1>1, <2>2, ConsiderationIsSum
  <2> QED
    BY <2>3, <2>4
<1> HIDE DEF value
<1>6. selected \in [id : Nat, type : {2, 3}, value : Nat] /\ selected.type = offer.type
      /\ selected.id = offer.id /\ selected.value = value
  BY <1>2, <1>4, <1>5
<1> QED
  BY <1>1, <1>2, <1>4, <1>6 DEF value

\* A valid call for the listed order sends the listing's price.
LEMMA ListedHasItsPrice ==
  ASSUME case \in [active : BOOLEAN, live : BOOLEAN, listed : Buying!Order, call : Buying!Call],
         selected = Buying!Parse(case.active, case.listed), selected # None,
         NEW p \in Buying!StandardCall, Buying!Valid(p), Buying!Listed(p)
  PROVE  p.value = selected.value
<1> DEFINE order == p.orders[1]
           offer == order.offer[1]
           asks == order.consideration
           s == offer.start
           n == order.n
           d == order.d
<1>1. case.listed \in Buying!Order
  OBVIOUS
<1>2. order.offer = case.listed.offer /\ asks = case.listed.consideration
  BY DEF Buying!Listed
<1>3. /\ asks \in Seq(Buying!Item) /\ s \in Nat \ {0}
      /\ Buying!NativeConsideration(asks, 1, s) # None
      /\ selected.value = Buying!NativeConsideration(asks, 1, s)
  <2> DEFINE listed == case.listed
             first == listed.offer[1]
  <2>1. /\ listed.consideration \in Seq(Buying!Item) /\ first.start \in Nat \ {0}
        /\ Buying!NativeConsideration(listed.consideration, 1, first.start) # None
        /\ selected.value = Buying!NativeConsideration(listed.consideration, 1, first.start)
    BY <1>1, ListingIsParsed
  <2> QED
    BY <1>2, <2>1
<1>4. n \in Nat /\ d \in Nat
  <2>1. p.orders \in Seq(Buying!Order) /\ Len(p.orders) = 1
    BY DEF Buying!StandardCall
  <2>2. order \in Buying!Order
    BY <2>1
  <2> QED
    BY <2>2 DEF Buying!Order
<1>5. /\ n # 0 /\ ~(n > d) /\ s * n = d
      /\ p.value = Buying!NativeConsideration(asks, n, d)
  BY DEF Buying!Listed, Buying!Valid, Buying!Total, Buying!StandardTotal, Buying!OneUnit
<1> HIDE DEF asks, s, n, d
<1>6. d \in Nat \ {0} /\ s \in Nat /\ d = s * n
  BY <1>3, <1>4, <1>5
<1>7. Buying!NativeConsideration(asks, n, d) = Buying!NativeConsideration(asks, 1, s)
  BY <1>3, <1>4, <1>6, PriceOfAUnit
<1> QED
  BY <1>3, <1>5, <1>7

\* The call that fills the listed order is refused for no reason.
LEMMA ProperIsValid ==
  ASSUME case \in [active : BOOLEAN, live : BOOLEAN, listed : Buying!Order, call : Buying!Call],
         selected = Buying!Parse(case.active, case.listed), selected # None,
         NEW p \in Buying!Call, Buying!Proper(p)
  PROVE  Buying!Valid(p) /\ Buying!Encodable(p)
<1> DEFINE order == p.orders[1]
           offer == order.offer[1]
           asks == order.consideration
           s == offer.start
           n == order.n
           d == order.d
<1>1. case.listed \in Buying!Order
  OBVIOUS
<1>2. /\ p.kind = "standard" /\ order.offerer = case.listed.offerer
      /\ order.offer = case.listed.offer /\ asks = case.listed.consideration
      /\ p.target = "seaport" /\ case.live /\ p.resolvers = {} /\ p.value = selected.value
      /\ n # 0 /\ s * n = d /\ Buying!Encodable(p)
  BY DEF Buying!Proper, Buying!Listed
<1>3. /\ selected \in [id : Nat, type : {2, 3}, value : Nat]
      /\ order.offerer # Buyer /\ Len(order.offer) = 1
      /\ asks \in Seq(Buying!Item)
      /\ offer.token = Contract /\ offer.type = selected.type /\ offer.id = selected.id
      /\ Buying!Fixed(offer) /\ s \in Nat \ {0}
      /\ Buying!NativeConsideration(asks, 1, s) # None
      /\ selected.value = Buying!NativeConsideration(asks, 1, s)
  <2> DEFINE listed == case.listed
             first == listed.offer[1]
  <2>1. /\ selected \in [id : Nat, type : {2, 3}, value : Nat]
        /\ listed.offerer # Buyer /\ Len(listed.offer) = 1
        /\ listed.consideration \in Seq(Buying!Item)
        /\ first.token = Contract /\ first.type = selected.type /\ first.id = selected.id
        /\ Buying!Fixed(first) /\ first.start \in Nat \ {0}
        /\ Buying!NativeConsideration(listed.consideration, 1, first.start) # None
        /\ selected.value = Buying!NativeConsideration(listed.consideration, 1, first.start)
    BY <1>1, ListingIsParsed
  <2> QED
    BY <1>2, <2>1
<1>4. n \in Nat /\ d \in Nat
  <2>1. p \in Buying!StandardCall
    BY <1>2 DEF Buying!Call, Buying!BasicCall, Buying!MatchCall
  <2>2. p.orders \in Seq(Buying!Order) /\ Len(p.orders) = 1
    BY <2>1 DEF Buying!StandardCall
  <2>3. order \in Buying!Order
    BY <2>2
  <2> QED
    BY <2>3 DEF Buying!Order
<1>5. d \in Nat \ {0} /\ ~(n > d)
  <2> HIDE DEF s, n, d
  <2>1. n \in Nat \ {0} /\ s \in Nat \ {0} /\ d = s * n
    BY <1>2, <1>3, <1>4
  <2>2. 1 * n <= s * n
    BY <2>1, ProductGrows
  <2> QED
    BY <2>1, <2>2
<1>6. Buying!NativeConsideration(asks, n, d) = Buying!NativeConsideration(asks, 1, s)
  <2> HIDE DEF asks, s, n, d
  <2>1. s \in Nat /\ d = s * n
    BY <1>2, <1>3
  <2> QED
    BY <1>3, <1>4, <1>5, <2>1, PriceOfAUnit
<1>7. Buying!StandardTotal(p) = Buying!NativeConsideration(asks, n, d)
  BY <1>2, <1>3, <1>5 DEF Buying!StandardTotal, Buying!OneUnit
<1>8. Buying!Total(p) = selected.value /\ Buying!Offerer(p) = order.offerer /\ selected.value # None
  <2>1. Buying!Total(p) = Buying!StandardTotal(p) /\ Buying!Offerer(p) = order.offerer
    BY <1>2 DEF Buying!Total, Buying!Offerer
  <2> QED
    BY <1>3, <1>6, <1>7, <2>1
<1> QED
  BY <1>2, <1>3, <1>8 DEF Buying!Valid

-----------------------------------------------------------------------------
(* What a purchase is judged to do is what it does. *)

\* What PurchaseIsAsJudged says of an executed call.
Purchased ==
  /\ Buying!Token \in DOMAIN gain
  /\ gain[Buying!Token] = 1
  /\ \A asset \in DOMAIN gain :
       gain[asset] < 0 => asset.type = 0 /\ gain[asset] >= -call.value

\* The invariant: every stage of a purchase follows from the judgement before it.
PurchaseInv ==
  judged = "purchase" =>
    /\ case \in PurchaseCases
    /\ stage \in {"list", "skipped", "listed", "refused", "accepted", "executed"}
    /\ stage \notin {"list", "skipped"} =>
         selected = Buying!Parse(case.active, case.listed) /\ selected # None
    /\ stage = "refused" => ~(Buying!Valid(case.call) /\ Buying!Encodable(case.call))
    /\ stage = "accepted" => /\ Buying!Valid(case.call)
                             /\ Buying!Encodable(case.call)
                             /\ call = Buying!Encode(case.call)
    /\ stage = "executed" => Purchased

LEMMA CaseTypes ==
  ASSUME NEW x \in PurchaseCases
  PROVE  /\ x \in [active : BOOLEAN, live : BOOLEAN, listed : Buying!Order, call : Buying!Call]
         /\ x.listed \in Buying!Order
         /\ x.call \in Buying!Call
  BY CallsAssumption

\* Whatever Seaport makes of an accepted call, it is a good purchase.
LEMMA PurchaseIsGood ==
  ASSUME PurchaseInv, judged = "purchase", stage = "accepted"
  PROVE  /\ call.kind = case.call.kind /\ call.value = case.call.value
         /\ ~Buying!Reverts(call)
         /\ \A T \in Buying!Outcomes(call) : GoodPurchase(T, call.value)
<1> DEFINE p == case.call
<1>1. /\ Buying!Valid(p) /\ Buying!Encodable(p) /\ call = Buying!Encode(p)
      /\ p \in Buying!Call
  BY CaseTypes DEF PurchaseInv
<1>2. selected \in [id : Nat, type : {2, 3}, value : Nat]
  <2>1. case.listed \in Buying!Order
    BY CaseTypes DEF PurchaseInv
  <2>2. selected = Buying!Parse(case.active, case.listed) /\ selected # None
    BY DEF PurchaseInv
  <2> QED
    BY <2>1, <2>2, ListingIsParsed
<1> HIDE DEF p
<1>3. CASE p \in Buying!BasicCall
  BY <1>1, <1>2, <1>3, BasicPurchase DEF p, Buying!BasicCall
<1>4. CASE p \in Buying!StandardCall
  BY <1>1, <1>2, <1>4, StandardPurchase DEF p, Buying!StandardCall
<1>5. CASE p \in Buying!MatchCall
  <2>1. p.kind = "match"
    BY <1>5 DEF Buying!MatchCall
  <2> QED
    BY <1>1, <2>1 DEF Buying!Valid, Buying!Total
<1> QED
  BY <1>1, <1>3, <1>4, <1>5 DEF Buying!Call

LEMMA PurchaseInit == InitMC => PurchaseInv
  BY DEF InitMC, PurchaseInv, Buying!Init

LEMMA PurchaseStep == PurchaseInv /\ [NextMC]_<<judged, calls, vars>> => PurchaseInv'
<1> SUFFICES ASSUME PurchaseInv, [NextMC]_<<judged, calls, vars>>, judged' = "purchase"
             PROVE  PurchaseInv'
  BY DEF PurchaseInv
<1>1. judged = "purchase" /\ (Buying!Next \/ UNCHANGED <<case, stage, selected, call, gain>>)
  BY DEF NextMC, calls
<1>2. CASE UNCHANGED <<case, stage, selected, call, gain>>
  BY <1>1, <1>2 DEF PurchaseInv, Purchased, Buying!Token, Buying!Valid, Buying!Total,
     Buying!BasicTotal, Buying!StandardTotal, Buying!Offerer
<1>3. CASE Buying!List
  BY <1>1, <1>3 DEF PurchaseInv, Buying!List
<1>4. CASE Buying!Validate
  <2>1. /\ stage = "listed" /\ UNCHANGED <<case, selected, gain>>
        /\ IF Buying!Valid(case.call) /\ Buying!Encodable(case.call)
           THEN stage' = "accepted" /\ call' = Buying!Encode(case.call)
           ELSE stage' = "refused"
    BY <1>4 DEF Buying!Validate
  <2>2. Buying!Valid(case.call)' <=> Buying!Valid(case.call)
    BY <2>1 DEF Buying!Valid, Buying!Total, Buying!BasicTotal, Buying!StandardTotal, Buying!Offerer
  <2> QED
    BY <1>1, <2>1, <2>2 DEF PurchaseInv
<1>5. CASE Buying!Execute
  <2>1. stage = "accepted" /\ UNCHANGED <<case, selected, call>>
    BY <1>5 DEF Buying!Execute
  <2>2. ~Buying!Reverts(call) /\ \A T \in Buying!Outcomes(call) : GoodPurchase(T, call.value)
    BY <1>1, <2>1, PurchaseIsGood
  <2>3. PICK T \in Buying!Outcomes(call) :
          IF Buying!NativeDue(T) > call.value THEN stage' = "reverted" /\ UNCHANGED gain
          ELSE stage' = "executed" /\ gain' = Buying!Gain(T)
    BY <1>5, <2>2 DEF Buying!Execute
  <2>4. stage' = "executed" /\ gain' = Buying!Gain(T) /\ GoodPurchase(T, call.value)
    BY <2>2, <2>3 DEF GoodPurchase
  <2>5. Buying!Token' = Buying!Token
    BY <2>1 DEF Buying!Token
  <2>6. Purchased'
    BY <2>1, <2>4, <2>5 DEF Purchased, GoodPurchase, Bought
  <2> QED
    BY <1>1, <2>1, <2>4, <2>6 DEF PurchaseInv
<1> QED
  BY <1>1, <1>2, <1>3, <1>4, <1>5 DEF Buying!Next

LEMMA PurchasesStayJudged == SpecMC => []PurchaseInv
  BY PurchaseInit, PurchaseStep, PTL DEF SpecMC

\* A purchase that was accepted and executes brings exactly one unit of the listed
\* token and spends nothing but the native currency it sends, which is the listed
\* price when the listed order is filled (validate_purchase_fulfillment and
\* encode_fulfillment, for every call of every kind and every listing).
THEOREM PurchasesAreAsJudged == SpecMC => []PurchaseIsAsJudged
<1>1. PurchaseInv => PurchaseIsAsJudged
  <2> SUFFICES ASSUME PurchaseInv, judged = "purchase" PROVE Buying!PurchaseIsAsJudged
    BY DEF PurchaseIsAsJudged
  <2>1. stage = "executed" => Purchased
    BY DEF PurchaseInv
  <2>2. ASSUME stage = "accepted", Buying!Listed(call)
        PROVE  call.value = selected.value
    <3> DEFINE p == case.call
    <3>1. call.kind = p.kind /\ call.value = p.value
      BY <2>2, PurchaseIsGood
    <3>2. /\ Buying!Valid(p) /\ Buying!Encodable(p) /\ call = Buying!Encode(p)
          /\ p \in Buying!Call
      BY <2>2, CaseTypes DEF PurchaseInv
    <3>3. p \in Buying!StandardCall
      BY <2>2, <3>1, <3>2 DEF Buying!Listed, Buying!Call, Buying!BasicCall, Buying!MatchCall
    <3>4. Buying!Listed(p)
      <4>1. call.orders = p.orders
        BY <3>2, <3>3, StandardPurchaseIsEncoded
      <4> QED
        BY <2>2, <3>1, <4>1 DEF Buying!Listed
    <3>5. /\ case \in [active : BOOLEAN, live : BOOLEAN, listed : Buying!Order, call : Buying!Call]
          /\ selected = Buying!Parse(case.active, case.listed) /\ selected # None
      BY <2>2, CaseTypes DEF PurchaseInv
    <3> HIDE DEF p
    <3> QED
      BY <3>1, <3>2, <3>3, <3>4, <3>5, ListedHasItsPrice
  <2> QED
    BY <2>1, <2>2 DEF Buying!PurchaseIsAsJudged, Purchased
<1> QED
  BY <1>1, PurchasesStayJudged, PTL

\* No purchase that was accepted reverts for the reasons that the model has, and the
\* call that fills the listed order is accepted.
THEOREM AcceptedPurchasesExecute == SpecMC => []AcceptedExecutes
<1>1. PurchaseInv => AcceptedExecutes
  <2> SUFFICES ASSUME PurchaseInv, judged = "purchase" PROVE Buying!AcceptedExecutes
    BY DEF AcceptedExecutes
  <2>1. stage # "reverted"
    BY DEF PurchaseInv
  <2>2. ASSUME stage = "refused", Buying!Proper(case.call)
        PROVE  FALSE
    <3>1. /\ case \in [active : BOOLEAN, live : BOOLEAN, listed : Buying!Order, call : Buying!Call]
          /\ case.call \in Buying!Call
          /\ selected = Buying!Parse(case.active, case.listed) /\ selected # None
          /\ ~(Buying!Valid(case.call) /\ Buying!Encodable(case.call))
      BY <2>2, CaseTypes DEF PurchaseInv
    <3> QED
      BY <2>2, <3>1, ProperIsValid
  <2> QED
    BY <2>1, <2>2 DEF Buying!AcceptedExecutes
<1> QED
  BY <1>1, PurchasesStayJudged, PTL

-----------------------------------------------------------------------------
(* An ordinary offer. *)

\* Fractions that fit are signed as they were judged.
LEMMA SaleOrderIsKept ==
  ASSUME NEW orders \in Seq(Selling!Order),
         \A o \in DOMAIN orders : Selling!Fits(orders[o].n) /\ Selling!Fits(orders[o].d)
  PROVE  Selling!Cut(orders) = orders
<1>1. ASSUME NEW o \in DOMAIN orders
      PROVE  [orders[o] EXCEPT !.n = @ % 2^Width, !.d = @ % 2^Width] = orders[o]
  <2>1. orders[o] \in Selling!Order
    OBVIOUS
  <2>2. orders[o].n \in Nat /\ orders[o].d \in Nat
    BY <2>1 DEF Selling!Order
  <2>3. orders[o].n % 2^Width = orders[o].n /\ orders[o].d % 2^Width = orders[o].d
    BY <2>2, FitsAreKept, CallsAssumption DEF Selling!Fits
  <2> QED
    BY <2>1, <2>3 DEF Selling!Order
<1>2. orders = [o \in DOMAIN orders |-> orders[o]]
  OBVIOUS
<1>3. Selling!Cut(orders) = [o \in DOMAIN orders |-> orders[o]]
  BY <1>1 DEF Selling!Cut
<1> QED
  BY <1>2, <1>3

\* A whole order takes every amount as it is.
LEMMA WholeAmounts ==
  ASSUME NEW a \in Nat, NEW d \in Nat \ {0}
  PROVE  (a * d) \div d = a /\ (a * d + (d - 1)) \div d = a
  OBVIOUS

\* An ordinary offer pays what it says, less the fees.
LEMMA OrdinaryIsPaid ==
  ASSUME NEW p \in Selling!StandardCall, Selling!Ordinary(p)
  PROVE  /\ Selling!StandardPayout(p) # None
         /\ Selling!StandardPayout(p).gross = p.value
<1> DEFINE order == p.orders[1]
           offer == order.offer[1]
           asks == order.consideration
           rest == {i \in DOMAIN asks : i > 1}
           start == [i \in DOMAIN asks |-> asks[i].start]
           fees == Selling!Fees(order, offer)
           fee == SumFunctionOnSet(Selling!Rounded(order), fees)
           gross == Selling!Floor(offer.start, order)
<1>1. order \in Selling!Order
  <2>1. p.orders \in Seq(Selling!Order) /\ Len(p.orders) = 1
    BY DEF Selling!StandardCall
  <2> QED
    BY <2>1
<1>2. /\ order.offer \in Seq(Selling!Item) /\ asks \in Seq(Selling!Item)
      /\ order.n \in Nat /\ order.d \in Nat
  BY <1>1 DEF Selling!Order
<1>3. /\ order.n = order.d /\ order.n # 0 /\ Len(order.offer) = 1
      /\ Selling!SameAsset(offer, Selling!PaymentAsset) /\ offer.start = p.value
      /\ Selling!Fixed(offer) /\ \A i \in DOMAIN asks : Selling!Fixed(asks[i])
      /\ asks # <<>>
      /\ Selling!SameAsset(asks[1], [type |-> 2, token |-> Contract, id |-> TokenId])
      /\ Selling!SumFunctionOnSet(start, rest) <= p.value
  BY DEF Selling!Ordinary
<1>4. 1 \in DOMAIN asks /\ DOMAIN order.offer = {1} /\ p.value \in Nat
  <2>1. 1 \in DOMAIN asks
    BY <1>2, <1>3
  <2>2. DOMAIN order.offer = {1}
    BY <1>2, <1>3
  <2>3. p.value \in Nat
    BY DEF Selling!StandardCall
  <2> QED
    BY <2>1, <2>2, <2>3
<1>5. /\ IsFiniteSet(DOMAIN asks)
      /\ \A i \in DOMAIN asks : asks[i].start \in Nat
  <2>1. IsFiniteSet(DOMAIN asks) /\ \A i \in DOMAIN asks : asks[i] \in Selling!Item
    BY <1>2, PlacesAreFinite
  <2> QED
    BY <2>1 DEF Selling!Item
<1>6. Selling!ValidFraction(order) /\ order.d \in Nat \ {0}
  BY <1>2, <1>3 DEF Selling!ValidFraction
<1>7. gross = p.value
  BY <1>3, <1>4, <1>6, WholeAmounts DEF Selling!Floor
<1>8. \A i \in DOMAIN asks : Selling!Rounded(order)[i] = start[i] /\ start[i] \in Nat
  <2> SUFFICES ASSUME NEW i \in DOMAIN asks
               PROVE  Selling!Rounded(order)[i] = asks[i].start
    BY <1>5
  <2>1. Selling!Rounded(order)[i] = Selling!Ceil(asks[i].start, order)
    BY DEF Selling!Rounded
  <2> QED
    BY <1>3, <1>5, <1>6, <2>1, WholeAmounts DEF Selling!Ceil
<1>9. fees \subseteq rest
  <2>1. \A i \in fees : i \in DOMAIN asks /\ asks[i].type = offer.type
    BY DEF Selling!Fees, Selling!SameAsset
  <2>2. asks[1].type = 2 /\ offer.type = 1
    BY <1>3 DEF Selling!SameAsset, Selling!PaymentAsset
  <2>3. \A i \in DOMAIN asks : i = 1 \/ i > 1
    BY <1>2
  <2> HIDE DEF fees
  <2> QED
    BY <2>1, <2>2, <2>3
<1>10. fee \in Nat /\ fee <= p.value
  <2> DEFINE total == SumFunctionOnSet(start, rest)
             rounded == Selling!Rounded(order)
  <2>1. IsFiniteSet(rest) /\ IsFiniteSet(fees)
    <3>1. IsFiniteSet(rest)
      BY <1>5, FS_Subset
    <3> HIDE DEF rest, fees
    <3> QED
      BY <1>9, <3>1, FS_Subset
  <2>2. total <= p.value
    BY <1>3, SalesSum
  <2>3. \A i \in fees : rounded[i] = start[i] /\ start[i] \in Nat
    BY <1>8, <1>9
  <2>4. \A i \in rest : start[i] \in Nat
    BY <1>8
  <2> HIDE DEF rest, fees, start, rounded
  <2>5. fee = SumFunctionOnSet(start, fees)
    <3>1. SumFunctionOnSet(rounded, fees) = SumFunctionOnSet(start, fees)
      BY <2>1, <2>3, SumsAgree
    <3> QED
      BY <3>1 DEF rounded
  <2>6. SumFunctionOnSet(start, fees) <= total /\ SumFunctionOnSet(start, fees) \in Nat
    BY <1>9, <2>1, <2>4, SumOfPart
  <2>7. total \in Nat
    BY <2>1, <2>4, SumIsNat
  <2> QED
    BY <1>4, <2>2, <2>5, <2>6, <2>7
<1>11. Selling!StandardPayout(p) = Selling!PayoutOf(gross, fee)
  <2>1. Selling!Money(order) = {1}
    BY <1>3, <1>4 DEF Selling!Money, Selling!SameAsset, Selling!PaymentAsset
  <2>2. Selling!Cardinality(Selling!Money(order)) = 1
    BY <2>1, SalesCount, FS_Singleton
  <2>3. {order.offer[i] : i \in Selling!Money(order)} = {offer}
    BY <2>1
  <2>4. (CHOOSE item \in {offer} : TRUE) = offer
    OBVIOUS
  <2>5. Selling!IsSelected(p, asks[1], 0, 1, 1 - 1)
    BY <1>3 DEF Selling!IsSelected, Selling!SameAsset
  <2>6. \A i \in fees : Selling!Fixed(asks[i])
    BY <1>3 DEF Selling!Fees
  <2>7. Selling!SumFunctionOnSet(Selling!Rounded(order), Selling!Fees(order, offer)) = fee
    BY SalesSum
  <2> QED
    BY <1>3, <1>4, <1>6, <2>2, <2>3, <2>4, <2>5, <2>6, <2>7 DEF Selling!StandardPayout
<1> HIDE DEF gross, fee
<1>12. Selling!PayoutOf(gross, fee) = [gross |-> gross, fee |-> fee, seller |-> gross - fee]
  BY <1>4, <1>7, <1>10 DEF Selling!PayoutOf
<1>13. Selling!PayoutOf(gross, fee) # None
  <2>1. gross - fee \in Nat /\ gross \in Nat
    BY <1>4, <1>7, <1>10
  <2>2. [gross |-> gross, fee |-> fee, seller |-> gross - fee] \in [gross : Nat, fee : Nat, seller : Nat]
    BY <1>10, <2>1
  <2> QED
    BY <1>12, <2>2, CallsAssumption
<1> QED
  BY <1>7, <1>11, <1>12, <1>13

\* An ordinary offer is accepted.
LEMMA OrdinaryIsJudged ==
  ASSUME NEW p \in Selling!Call, Selling!Ordinary(p)
  PROVE  Selling!Policy(p) /\ Selling!Encodable(p)
<1> DEFINE order == p.orders[1]
           offer == order.offer[1]
           asks == order.consideration
           nfts == {i \in DOMAIN asks : ~Selling!TrustedPayment(asks[i])}
<1>1. p.kind = "standard" /\ p.target = "seaport" /\ Selling!Encodable(p)
  BY DEF Selling!Ordinary
<1>2. p \in Selling!StandardCall
  BY <1>1 DEF Selling!Call, Selling!BasicCall, Selling!MatchCall
<1>3. order \in Selling!Order
  <2>1. p.orders \in Seq(Selling!Order) /\ Len(p.orders) = 1
    BY <1>2 DEF Selling!StandardCall
  <2> QED
    BY <2>1
<1>4. asks \in Seq(Selling!Item) /\ order.n \in Nat
  BY <1>3 DEF Selling!Order
<1>5. /\ order.offerer # Seller /\ order.n = order.d /\ order.n # 0
      /\ Len(order.offer) = 1 /\ Selling!SameAsset(offer, Selling!PaymentAsset)
      /\ \A i \in DOMAIN asks : Selling!Fixed(asks[i])
      /\ asks # <<>>
      /\ Selling!SameAsset(asks[1], [type |-> 2, token |-> Contract, id |-> TokenId])
      /\ asks[1].start = 1
      /\ \A i \in DOMAIN asks : i > 1 => Selling!SameAsset(asks[i], Selling!PaymentAsset)
  BY DEF Selling!Ordinary
<1>6. 1 \in DOMAIN asks /\ \A i \in DOMAIN asks : i = 1 \/ i > 1
  BY <1>4, <1>5
<1>7. nfts = {1}
  BY <1>5, <1>6 DEF Selling!TrustedPayment, Selling!SameAsset, Selling!PaymentAsset
<1>8. Selling!Cardinality(nfts) = 1
  BY <1>7, SalesCount, FS_Singleton
<1>9. Selling!SelectedNft(p, order, asks[1], 0, 1, 1 - 1)
  <2>1. 1 * order.n = order.d
    BY <1>4, <1>5
  <2> QED
    BY <1>5, <1>6, <2>1 DEF Selling!SelectedNft, Selling!IsSelected, Selling!SameAsset
<1>10. Selling!ValidFraction(order)
  BY <1>4, <1>5 DEF Selling!ValidFraction
<1>11. Selling!TrustedPayment(offer)
  BY <1>5 DEF Selling!TrustedPayment, Selling!SameAsset, Selling!PaymentAsset
<1>12. Selling!StandardAllowed(p)
  BY <1>5, <1>7, <1>8, <1>9, <1>10, <1>11 DEF Selling!StandardAllowed
<1>13. Selling!Payout(p) = Selling!StandardPayout(p) /\ Selling!Allowed(p)
  BY <1>1, <1>12 DEF Selling!Payout, Selling!Allowed
<1> QED
  BY <1>1, <1>2, <1>13, OrdinaryIsPaid DEF Selling!Policy

-----------------------------------------------------------------------------
(* Calls that sell. *)

\* The wallet gets the amount in the trusted token, and gives at most one unit of
\* the token for sale and nothing else.
GoodSale(transfers, amount) ==
  /\ Selling!PaymentAsset \in DOMAIN Selling!Gain(transfers)
  /\ Selling!Gain(transfers)[Selling!PaymentAsset] = amount
  /\ \A asset \in DOMAIN Selling!Gain(transfers) :
       Selling!Gain(transfers)[asset] < 0 =>
         /\ asset.token = Contract
         /\ asset.id = TokenId
         /\ Selling!Gain(transfers)[asset] = -1

\* Beside money at most one unit of the token is taken.
LEMMA OneTokenForMoney ==
  ASSUME NEW T, IsFiniteSet(DOMAIN T), \A x \in DOMAIN T : T[x].amount \in Nat,
         NEW Z, Z = {x \in DOMAIN T : T[x].from = Seller /\ T[x].asset # Selling!PaymentAsset},
         \A x \in Z : T[x].asset.token = Contract /\ T[x].asset.id = TokenId,
         SumFunctionOnSet(Selling!AmountsOf(T), Z) <= 1,
         NEW amount \in Nat,
         Selling!GainOf(T, Selling!PaymentAsset) = amount,
         \E x \in DOMAIN T : T[x].asset = Selling!PaymentAsset
  PROVE  GoodSale(T, amount)
<1> DEFINE a == Selling!AmountsOf(T)
<1>1. \A x \in DOMAIN T : a[x] \in Nat
  BY DEF Selling!AmountsOf
<1>2. /\ Selling!PaymentAsset \in DOMAIN Selling!Gain(T)
      /\ Selling!Gain(T)[Selling!PaymentAsset] = amount
  BY DEF Selling!Gain
<1>3. ASSUME NEW asset \in DOMAIN Selling!Gain(T), Selling!Gain(T)[asset] < 0
      PROVE  asset.token = Contract /\ asset.id = TokenId /\ Selling!Gain(T)[asset] = -1
  <2> DEFINE spent == Selling!Spent(T, asset)
             received == Selling!Received(T, asset)
  <2>1. spent \subseteq DOMAIN T /\ received \subseteq DOMAIN T
    BY DEF Selling!Spent, Selling!Received
  <2>2. Selling!Gain(T)[asset] = SumFunctionOnSet(a, received) - SumFunctionOnSet(a, spent)
    BY SalesSum DEF Selling!Gain, Selling!GainOf
  <2>3. asset # Selling!PaymentAsset
    BY <1>2, <1>3
  <2>4. spent \subseteq Z /\ \A x \in spent : T[x].asset = asset
    BY <2>3 DEF Selling!Spent
  <2> HIDE DEF a, spent, received
  <2>5. IsFiniteSet(spent) /\ IsFiniteSet(received) /\ IsFiniteSet(Z)
    <3>1. Z \subseteq DOMAIN T
      OBVIOUS
    <3> QED
      BY <2>1, <3>1, FS_Subset
  <2>6. SumFunctionOnSet(a, received) \in Nat
    BY <1>1, <2>1, <2>5, SumIsNat
  <2>7. spent # {}
    <3>1. SumFunctionOnSet(a, {}) = 0
      BY SumOfNone
    <3>2. SUFFICES ASSUME spent = {} PROVE FALSE
      OBVIOUS
    <3>3. SumFunctionOnSet(a, spent) = 0
      BY <3>1, <3>2
    <3> QED
      BY <1>3, <2>2, <2>6, <3>3
  <2>8. \A x \in Z : a[x] \in Nat
    BY <1>1
  <2>9. SumFunctionOnSet(a, spent) <= SumFunctionOnSet(a, Z) /\ SumFunctionOnSet(a, spent) \in Nat
        /\ SumFunctionOnSet(a, Z) \in Nat
    BY <2>4, <2>5, <2>8, SumOfPart, SumIsNat
  <2>10. SumFunctionOnSet(a, Z) <= 1
    BY DEF a
  <2>11. Selling!Gain(T)[asset] = -1
    BY <1>3, <2>2, <2>6, <2>9, <2>10
  <2>12. asset.token = Contract /\ asset.id = TokenId
    BY <2>4, <2>7
  <2> QED
    BY <2>11, <2>12
<1> QED
  BY <1>2, <1>3 DEF GoodSale

\* A payout is what the fees leave.
LEMMA PayoutIsRest ==
  ASSUME NEW gross, NEW fee, Selling!PayoutOf(gross, fee) # None
  PROVE  /\ ~(fee > gross)
         /\ Selling!PayoutOf(gross, fee) = [gross |-> gross, fee |-> fee, seller |-> gross - fee]
  BY DEF Selling!PayoutOf

\* An accepted basic call that executes is a good sale.
LEMMA BasicSale ==
  ASSUME NEW p \in Selling!BasicCall, Selling!Policy(p)
  PROVE  LET c == Selling!Encode(p)
         IN  /\ Selling!Conduits(c) \subseteq {"zero"}
             /\ \A T \in Selling!Outcomes(c) : ~Selling!Reverts(c) =>
                  GoodSale(T, Selling!Payout(p).seller)
<1> DEFINE c == [p EXCEPT !.conduit = "zero"]
           T == Selling!BasicBid(c)
           R == DOMAIN p.recipients
           own == {i \in R : p.recipients[i].to = Seller}
           other == {i \in R : p.recipients[i].to # Seller}
           given == Selling!AmountsOf(p.recipients)
           fee == SumFunctionOnSet(given, other)
           D == ({0} \X (1 .. 2)) \cup ({1} \X R)
           a == Selling!AmountsOf(T)
           PA == Selling!PaymentAsset
           nft == [type |-> p.route - 2, token |-> Contract, id |-> TokenId]
<1>1. p.kind = "basic" /\ Selling!Encode(p) = c
  BY DEF Selling!BasicCall, Selling!Encode, Selling!EncodeBasic
<1>2. /\ c.kind = "basic" /\ c.conduit = "zero" /\ c.route = p.route
      /\ c.considerationToken = p.considerationToken /\ c.considerationId = p.considerationId
      /\ c.considerationAmount = p.considerationAmount /\ c.offerer = p.offerer
      /\ c.offerToken = p.offerToken /\ c.offerId = p.offerId /\ c.offerAmount = p.offerAmount
      /\ c.recipients = p.recipients
  BY DEF Selling!BasicCall
<1> HIDE DEF c
<1>3. Selling!Conduits(c) \subseteq {"zero"}
  BY <1>2 DEF Selling!Conduits
<1> SUFFICES ASSUME ~Selling!Reverts(c)
             PROVE  \A X \in Selling!Outcomes(c) : GoodSale(X, Selling!Payout(p).seller)
  BY <1>1, <1>3
<1>4. /\ p.offerToken = Payment /\ p.offerId = 0 /\ p.considerationAmount = 1
      /\ p.offerer # Seller
      /\ p.route \in {4, 5} /\ p.considerationToken = Contract /\ p.considerationId = TokenId
      /\ ~(fee > p.offerAmount) /\ Selling!Payout(p).seller = p.offerAmount - fee
  <2>1. Selling!BasicAllowed(p) /\ Selling!BasicPayout(p) # None
        /\ Selling!Payout(p) = Selling!BasicPayout(p)
    BY <1>1 DEF Selling!Policy, Selling!Allowed, Selling!Payout
  <2>2. /\ p.route \in {4, 5} /\ p.considerationToken = Contract /\ p.considerationId = TokenId
        /\ Selling!BasicPayout(p) = Selling!PayoutOf(p.offerAmount, Selling!SumFunctionOnSet(given, other))
    BY <2>1 DEF Selling!BasicPayout
  <2>3. Selling!SumFunctionOnSet(given, other) = fee
    BY SalesSum
  <2> HIDE DEF fee
  <2>4. Selling!PayoutOf(p.offerAmount, fee) # None
    BY <2>1, <2>2, <2>3
  <2>5. ~(fee > p.offerAmount) /\ Selling!PayoutOf(p.offerAmount, fee).seller = p.offerAmount - fee
    BY <2>4, PayoutIsRest
  <2> QED
    BY <2>1, <2>2, <2>3, <2>5 DEF Selling!BasicAllowed
<1>5. p.recipients \in Seq([amount : Nat, to : STRING]) /\ p.offerAmount \in Nat
  BY DEF Selling!BasicCall
<1>6. /\ IsFiniteSet(R) /\ IsFiniteSet(own) /\ IsFiniteSet(other)
      /\ \A i \in R : given[i] \in Nat /\ given[i] = p.recipients[i].amount
  <2>1. IsFiniteSet(R) /\ \A i \in R : p.recipients[i] \in [amount : Nat, to : STRING]
    BY <1>5, PlacesAreFinite
  <2>2. IsFiniteSet(own) /\ IsFiniteSet(other)
    BY <2>1, FS_Subset
  <2> QED
    BY <2>1, <2>2 DEF Selling!AmountsOf
<1>7. /\ SumFunctionOnSet(given, R) = SumFunctionOnSet(given, own) + fee
      /\ SumFunctionOnSet(given, own) \in Nat /\ fee \in Nat
  <2>1. own \cup other = R /\ own \cap other = {}
    OBVIOUS
  <2>2. \A i \in own \cup other : given[i] \in Nat
    BY <1>6
  <2> HIDE DEF own, other, given
  <2>3. /\ SumFunctionOnSet(given, own \cup other)
             = SumFunctionOnSet(given, own) + SumFunctionOnSet(given, other)
        /\ SumFunctionOnSet(given, own) \in Nat /\ SumFunctionOnSet(given, other) \in Nat
    BY <1>6, <2>1, <2>2, SumSplits
  <2> QED
    BY <2>1, <2>3
<1>8. ~(SumFunctionOnSet(given, R) > p.offerAmount)
  <2>1. DOMAIN given = R
    BY DEF Selling!AmountsOf
  <2>2. Selling!SumFunction(given) = SumFunctionOnSet(given, R)
    BY <2>1, SalesSumAll
  <2> QED
    BY <1>2, <1>4, <2>2 DEF Selling!Reverts, Selling!BasicReverts
<1> DEFINE left == p.offerAmount - SumFunctionOnSet(given, R)
<1>9. left \in Nat /\ left + SumFunctionOnSet(given, own) = p.offerAmount - fee
  <2> HIDE DEF given, own, R, fee
  <2> QED
    BY <1>5, <1>7, <1>8
<1>10. Selling!Outcomes(c) = {T}
  BY <1>2, <1>4 DEF Selling!Outcomes, Selling!BasicTransfers
<1>11. /\ DOMAIN T = D
       /\ T[<<0, 1>>] = Selling!Transfer(nft, 1, Seller, p.offerer)
       /\ T[<<0, 2>>] = Selling!Transfer(PA, left, p.offerer, Seller)
       /\ \A i \in R : T[<<1, i>>] = Selling!Transfer(PA, given[i], p.offerer, p.recipients[i].to)
  <2> DEFINE taken == [type |-> c.route - 2, token |-> c.considerationToken, id |-> c.considerationId]
             money == [type |-> 1, token |-> c.offerToken, id |-> 0]
             first == <<Selling!Transfer(taken, c.considerationAmount, Seller, c.offerer),
                        Selling!Transfer(money, c.offerAmount - Selling!SumFunction(Selling!AmountsOf(c.recipients)),
                                         c.offerer, Seller)>>
             second == [i \in DOMAIN c.recipients |->
                          Selling!Transfer(money, c.recipients[i].amount, c.offerer, c.recipients[i].to)]
  <2>1. T = Selling!Both(first, second)
    BY DEF Selling!BasicBid
  <2>2. DOMAIN first = 1 .. 2 /\ DOMAIN second = R
    BY <1>2
  <2>3. taken = nft /\ money = PA
    BY <1>2, <1>4 DEF Selling!PaymentAsset
  <2>4. c.offerAmount - Selling!SumFunction(Selling!AmountsOf(c.recipients)) = left
    <3>1. DOMAIN given = R
      BY DEF Selling!AmountsOf
    <3> QED
      BY <1>2, <3>1, SalesSumAll
  <2>5. /\ first[1] = Selling!Transfer(nft, 1, Seller, p.offerer)
        /\ first[2] = Selling!Transfer(PA, left, p.offerer, Seller)
    BY <1>2, <1>4, <2>3, <2>4
  <2>6. \A i \in R : second[i] = Selling!Transfer(PA, given[i], p.offerer, p.recipients[i].to)
    BY <1>2, <1>6, <2>3
  <2> HIDE DEF first, second
  <2>7. DOMAIN T = D /\ \A x \in D : T[x] = IF x[1] = 0 THEN first[x[2]] ELSE second[x[2]]
    BY <2>1, <2>2 DEF Selling!Both
  <2>8. /\ <<0, 1>> \in D /\ <<0, 2>> \in D
        /\ \A i \in R : <<1, i>> \in D
    OBVIOUS
  <2> HIDE DEF T, D
  <2>9. /\ T[<<0, 1>>] = first[1] /\ T[<<0, 2>>] = first[2]
        /\ \A i \in R : T[<<1, i>>] = second[i]
    BY <2>7, <2>8
  <2> QED
    BY <2>5, <2>6, <2>7, <2>9
<1> HIDE DEF T, left
<1>12. \A x \in D : x = <<0, 1>> \/ x = <<0, 2>> \/ \E i \in R : x = <<1, i>>
  OBVIOUS
<1>13. IsFiniteSet(DOMAIN T)
  <2>1. IsFiniteSet({1} \cup {2})
    <3>1. IsFiniteSet({1}) /\ IsFiniteSet({2})
      BY FS_Singleton
    <3> QED
      BY <3>1, FS_Union
  <2>2. 1 .. 2 = {1} \cup {2}
    OBVIOUS
  <2>3. IsFiniteSet(1 .. 2)
    BY <2>1, <2>2
  <2>4. IsFiniteSet(D)
    BY <1>6, <2>3, SidesAreFinite
  <2> QED
    BY <1>11, <2>4
<1>14. nft # PA
  BY <1>4 DEF Selling!PaymentAsset
<1>15. ASSUME NEW x \in DOMAIN T
       PROVE  /\ T[x].amount \in Nat
              /\ x # <<0, 1>> => T[x].from # Seller /\ T[x].asset = PA
  <2>1. CASE x = <<0, 1>>
    BY <1>11, <2>1 DEF Selling!Transfer
  <2>2. CASE x = <<0, 2>>
    BY <1>4, <1>9, <1>11, <2>2 DEF Selling!Transfer
  <2>3. CASE \E i \in R : x = <<1, i>>
    <3>1. PICK i \in R : x = <<1, i>>
      BY <2>3
    <3>2. T[x] = Selling!Transfer(PA, given[i], p.offerer, p.recipients[i].to)
      BY <1>11, <3>1
    <3> QED
      BY <1>4, <1>6, <3>1, <3>2 DEF Selling!Transfer
  <2> QED
    BY <1>11, <1>12, <2>1, <2>2, <2>3
<1>16. \A x \in DOMAIN T : a[x] = T[x].amount /\ a[x] \in Nat
  BY <1>15 DEF Selling!AmountsOf
<1> DEFINE Z == {x \in DOMAIN T : T[x].from = Seller /\ T[x].asset # PA}
<1>17. /\ <<0, 1>> \in DOMAIN T /\ <<0, 2>> \in DOMAIN T
       /\ T[<<0, 1>>].from = Seller /\ T[<<0, 1>>].asset = nft /\ T[<<0, 1>>].amount = 1
       /\ T[<<0, 2>>].to = Seller /\ T[<<0, 2>>].asset = PA /\ T[<<0, 2>>].amount = left
  BY <1>11 DEF Selling!Transfer
<1>18. Z = {<<0, 1>>}
  BY <1>14, <1>15, <1>17
<1>19. SumFunctionOnSet(a, Z) <= 1 /\ \A x \in Z : T[x].asset.token = Contract /\ T[x].asset.id = TokenId
  <2>1. SumFunctionOnSet(a, {<<0, 1>>}) = a[<<0, 1>>]
    BY <1>16, <1>17, SumOfOne
  <2>2. a[<<0, 1>>] = 1
    BY <1>16, <1>17
  <2> HIDE DEF Z, a
  <2> QED
    BY <1>17, <1>18, <2>1, <2>2
<1>20. Selling!GainOf(T, PA) = p.offerAmount - fee
  <2>1. Selling!Spent(T, PA) = {}
    BY <1>14, <1>15, <1>17 DEF Selling!Spent
  <2>2. \A i \in R : /\ <<1, i>> \in DOMAIN T
                      /\ T[<<1, i>>].to = p.recipients[i].to
                      /\ T[<<1, i>>].asset = PA
                      /\ T[<<1, i>>].amount = given[i]
    <3> SUFFICES ASSUME NEW i \in R
                 PROVE  /\ <<1, i>> \in DOMAIN T
                        /\ T[<<1, i>>].to = p.recipients[i].to
                        /\ T[<<1, i>>].asset = PA
                        /\ T[<<1, i>>].amount = given[i]
      OBVIOUS
    <3>1. T[<<1, i>>] = Selling!Transfer(PA, given[i], p.offerer, p.recipients[i].to)
      BY <1>11
    <3>2. <<1, i>> \in DOMAIN T
      BY <1>11
    <3> QED
      BY <3>1, <3>2 DEF Selling!Transfer
  <2>3. Selling!Received(T, PA) = Side(1, own) \cup {<<0, 2>>}
    <3>1. ASSUME NEW x \in Selling!Received(T, PA) PROVE x \in Side(1, own) \cup {<<0, 2>>}
      <4>1. x \in DOMAIN T /\ T[x].to = Seller /\ T[x].asset = PA
        BY DEF Selling!Received
      <4>2. x # <<0, 1>>
        BY <1>14, <1>17, <4>1
      <4>3. x = <<0, 2>> \/ \E i \in R : x = <<1, i>>
        BY <1>11, <1>12, <4>1, <4>2
      <4>4. \A i \in R : x = <<1, i>> => i \in own
        BY <2>2, <4>1
      <4> QED
        BY <4>3, <4>4 DEF Side
    <3>2. ASSUME NEW x \in Side(1, own) PROVE x \in Selling!Received(T, PA)
      <4>1. PICK i \in own : x = <<1, i>>
        BY DEF Side
      <4> QED
        BY <2>2, <4>1 DEF Selling!Received
    <3>3. <<0, 2>> \in Selling!Received(T, PA)
      BY <1>17 DEF Selling!Received
    <3> QED
      BY <3>1, <3>2, <3>3
  <2>4. <<0, 2>> \notin Side(1, own)
    BY DEF Side
  <2>5. \A i \in own : a[<<1, i>>] = given[i] /\ given[i] \in Nat
    BY <1>6, <1>16, <2>2
  <2>6. \A x \in Side(1, own) \cup {<<0, 2>>} : a[x] \in Nat
    BY <1>16, <2>3 DEF Selling!Received
  <2>7. IsFiniteSet(Side(1, own))
    BY <1>6, FS_Singleton, FS_Product DEF Side
  <2>8. a[<<0, 2>>] = left
    BY <1>16, <1>17
  <2>9. Selling!GainOf(T, PA) = SumFunctionOnSet(a, Side(1, own) \cup {<<0, 2>>}) - SumFunctionOnSet(a, {})
    BY <2>1, <2>3, SalesSum DEF Selling!GainOf
  <2> HIDE DEF a, own, given, R, fee
  <2>10. SumFunctionOnSet(a, Side(1, own)) = SumFunctionOnSet(given, own)
    BY <1>6, <2>5, SideSum
  <2>11. SumFunctionOnSet(a, Side(1, own) \cup {<<0, 2>>}) = left + SumFunctionOnSet(given, own)
    BY <2>4, <2>6, <2>7, <2>8, <2>10, SumAdds
  <2> QED
    BY <1>7, <1>9, <2>9, <2>11, SumOfNone
<1>21. p.offerAmount - fee \in Nat
  BY <1>4, <1>5, <1>7
<1>22. \A x \in DOMAIN T : T[x].amount \in Nat
  BY <1>15
<1>23. \E x \in DOMAIN T : T[x].asset = PA
  BY <1>17
<1> HIDE DEF fee, PA
<1>24. GoodSale(T, p.offerAmount - fee)
  BY <1>13, <1>19, <1>20, <1>21, <1>22, <1>23, OneTokenForMoney DEF PA
<1> QED
  BY <1>4, <1>10, <1>24

-----------------------------------------------------------------------------
(* Calls that fill one order. *)

\* An item that was taken for the token for sale is the token for sale.
LEMMA SelectedAsset ==
  ASSUME NEW p, NEW c, c.resolvers = p.resolvers, IsFiniteSet(p.resolvers),
         NEW item, NEW o, NEW side, NEW index,
         Selling!IsSelected(p, item, o, side, index),
         Selling!Resolved(c, item, o, side, index)
  PROVE  /\ Selling!Asset(c, item, o, side, index).token = Contract
         /\ Selling!Asset(c, item, o, side, index).id = TokenId
         /\ Selling!Asset(c, item, o, side, index) # Selling!PaymentAsset
<1> DEFINE found == Selling!Resolving(c, o, side, index)
           asset == Selling!Asset(c, item, o, side, index)
<1>1. CASE item.type \notin {4, 5}
  <2>1. asset = [type |-> item.type, token |-> item.token, id |-> item.id]
    BY <1>1 DEF Selling!Asset
  <2>2. item.type \in {2, 3} /\ item.token = Contract /\ item.id = TokenId
    BY <1>1 DEF Selling!IsSelected
  <2> QED
    BY <2>1, <2>2 DEF Selling!PaymentAsset
<1>2. CASE item.type \in {4, 5}
  <2>1. PICK r \in p.resolvers : r = [order |-> o, side |-> side, index |-> index, id |-> TokenId]
    BY <1>2 DEF Selling!IsSelected, Selling!ResolvedHere
  <2>2. r \in found
    BY <2>1 DEF Selling!Resolving
  <2>3. IsFiniteSet(found)
    <3>1. found \subseteq p.resolvers
      BY DEF Selling!Resolving
    <3> HIDE DEF found
    <3> QED
      BY <3>1, FS_Subset
  <2>4. Cardinality(found) = 1
    BY <1>2, SalesCount DEF Selling!Resolved
  <2> HIDE DEF found
  <2>5. \E x : found = {x}
    BY <2>3, <2>4, FS_Singleton
  <2>6. (CHOOSE x \in found : TRUE) = r
    BY <2>2, <2>5
  <2>7. r.id = TokenId
    BY <2>1
  <2>8. asset = [type |-> item.type - 2, token |-> item.token,
                 id |-> (CHOOSE x \in found : TRUE).id]
    BY <1>2 DEF Selling!Asset, found
  <2>9. item.token = Contract /\ item.type - 2 \in {2, 3}
    BY <1>2 DEF Selling!IsSelected
  <2> HIDE DEF asset
  <2>10. asset = [type |-> item.type - 2, token |-> Contract, id |-> TokenId]
    BY <2>6, <2>7, <2>8, <2>9
  <2>11. asset # Selling!PaymentAsset
    BY <2>9, <2>10 DEF Selling!PaymentAsset
  <2>12. asset.token = Contract /\ asset.id = TokenId
    BY <2>10
  <2> QED
    BY <2>11, <2>12 DEF asset
<1> QED
  BY <1>1, <1>2

\* An item that was taken for the trusted payment is the trusted payment.
LEMMA PaymentIsAsset ==
  ASSUME NEW c, NEW item, NEW o, NEW side, NEW index, Selling!TrustedPayment(item)
  PROVE  Selling!Asset(c, item, o, side, index) = Selling!PaymentAsset
  BY DEF Selling!TrustedPayment, Selling!Asset, Selling!PaymentAsset

LEMMA AmountsAreNat ==
  ASSUME NEW item \in Selling!Item, NEW a \in Selling!Amounts(item)
  PROVE  /\ a \in Nat
         /\ Selling!Fixed(item) => a = item.start
  BY DEF Selling!Item, Selling!Amounts, Selling!Fixed

LEMMA ShareIsNat ==
  ASSUME NEW order, order.n \in Nat, order.d \in Nat \ {0}, NEW a \in Nat
  PROVE  Selling!Share(order, a) \in Nat
<1>1. a * order.n \in Nat
  OBVIOUS
<1> QED
  BY <1>1, DivIsBelow DEF Selling!Share

\* What is filled exactly is rounded neither way.
LEMMA ExactShares ==
  ASSUME NEW order, order.n \in Nat, order.d \in Nat \ {0}, NEW item \in Selling!Item,
         Selling!Exact(order, item)
  PROVE  /\ Selling!Ceil(item.start, order) = Selling!Share(order, item.start)
         /\ Selling!Floor(item.start, order) = Selling!Share(order, item.start)
<1> DEFINE x == item.start * order.n
           d == order.d
<1>1. item.start \in Nat /\ item.start \in Selling!Amounts(item)
  BY DEF Selling!Item, Selling!Amounts
<1>2. x \in Nat /\ d \in Nat \ {0} /\ x % d = 0
  BY <1>1 DEF Selling!Exact
<1> HIDE DEF x, d
<1>3. (x + (d - 1)) \div d = x \div d
  BY <1>2, ExactCeil
<1> QED
  BY <1>3 DEF Selling!Ceil, Selling!Floor, Selling!Share, x, d

LEMMA OneIsShared ==
  ASSUME NEW order, order.d \in Nat \ {0}, NEW a, a * order.n = order.d
  PROVE  Selling!Share(order, a) = 1
<1>1. order.d \div order.d = 1
  OBVIOUS
<1> QED
  BY <1>1 DEF Selling!Share

\* What is signed has the orders that were judged, and the wallet as recipient.
LEMMA StandardSaleIsEncoded ==
  ASSUME NEW p \in Selling!StandardCall, Selling!Encodable(p)
  PROVE  LET c == Selling!Encode(p)
         IN  /\ c.kind = "standard" /\ c.resolvers = p.resolvers
             /\ c.orders = p.orders /\ c.recipient = Seller /\ c.conduit = "zero"
<1>1. /\ p.kind = "standard" /\ p.orders \in Seq(Selling!Order)
      /\ Selling!Encode(p) = Selling!EncodeStandard(p)
  BY DEF Selling!StandardCall, Selling!Encode
<1>2. Selling!Cut(p.orders) = p.orders
  <2>1. \A o \in DOMAIN p.orders : Selling!Fits(p.orders[o].n) /\ Selling!Fits(p.orders[o].d)
    BY <1>1 DEF Selling!Encodable, Selling!Orders
  <2> QED
    BY <1>1, <2>1, SaleOrderIsKept
<1> QED
  BY <1>1, <1>2 DEF Selling!EncodeStandard, Selling!StandardCall

\* An accepted call that fills one order and executes is a good sale.
LEMMA StandardSale ==
  ASSUME NEW p \in Selling!StandardCall, Selling!Policy(p), Selling!Encodable(p)
  PROVE  LET c == Selling!Encode(p)
         IN  /\ Selling!Conduits(c) \subseteq {"zero"}
             /\ \A T \in Selling!Outcomes(c) : ~Selling!Reverts(c) =>
                  GoodSale(T, Selling!Payout(p).seller)
<1> DEFINE c == Selling!Encode(p)
           order == p.orders[1]
           offer == order.offer[1]
           asks == order.consideration
           R == DOMAIN asks
           paid == {i \in R : Selling!TrustedPayment(asks[i])}
           own == {i \in paid : asks[i].to = Seller}
           other == Selling!Fees(order, offer)
           rounded == Selling!Rounded(order)
           fee == SumFunctionOnSet(rounded, other)
           gross == Selling!Floor(offer.start, order)
           PA == Selling!PaymentAsset
<1>1. /\ c.kind = "standard" /\ c.resolvers = p.resolvers
      /\ c.orders = p.orders /\ c.recipient = Seller /\ c.conduit = "zero"
  BY StandardSaleIsEncoded
<1> HIDE DEF c
<1>2. Selling!Conduits(c) \subseteq {"zero"}
  BY <1>1 DEF Selling!Conduits
<1>3. order \in Selling!Order /\ IsFiniteSet(p.resolvers) /\ p.kind = "standard"
  <2>1. p.orders \in Seq(Selling!Order) /\ Len(p.orders) = 1 /\ IsFiniteSet(p.resolvers)
        /\ p.kind = "standard"
    BY SalesCount DEF Selling!StandardCall
  <2> QED
    BY <2>1
<1>4. /\ order.offer \in Seq(Selling!Item) /\ asks \in Seq(Selling!Item)
      /\ order.n \in Nat /\ order.d \in Nat
  BY <1>3 DEF Selling!Order
<1>5. /\ order.offerer # Seller /\ Selling!ValidFraction(order) /\ Len(order.offer) = 1
      /\ Selling!TrustedPayment(offer)
      /\ \A i \in R \ paid : Selling!SelectedNft(p, order, asks[i], 0, 1, i - 1)
      /\ Selling!Cardinality({i \in R : ~Selling!TrustedPayment(asks[i])}) = 1
  BY <1>3 DEF Selling!Policy, Selling!Allowed, Selling!StandardAllowed
<1>6. DOMAIN order.offer = {1} /\ offer \in Selling!Item
  <2>1. DOMAIN order.offer = 1 .. 1 /\ offer \in Selling!Item
    BY <1>4, <1>5
  <2> QED
    BY <2>1
<1>7. order.d \in Nat \ {0}
  <2> DEFINE n == order.n
             d == order.d
  <2>1. n \in Nat /\ d \in Nat /\ n > 0 /\ n <= d
    BY <1>4, <1>5 DEF Selling!ValidFraction
  <2> HIDE DEF n, d
  <2>2. d \in Nat \ {0}
    BY <2>1
  <2> QED
    BY <2>2 DEF d
<1>8. IsFiniteSet(R) /\ \A i \in R : asks[i] \in Selling!Item
  BY <1>4, PlacesAreFinite
<1>9. PICK k \in R : k \notin paid /\ paid = R \ {k}
  <2> DEFINE nfts == {i \in R : ~Selling!TrustedPayment(asks[i])}
  <2>1. IsFiniteSet(nfts) /\ Cardinality(nfts) = 1
    BY <1>5, <1>8, SalesCount, FS_Subset
  <2>2. \E x : nfts = {x}
    <3> HIDE DEF nfts
    <3> QED
      BY <2>1, FS_Singleton
  <2>3. PICK x : nfts = {x}
    BY <2>2
  <2> QED
    BY <2>3
<1>10. /\ Selling!Fixed(offer) /\ \A i \in other : Selling!Fixed(asks[i])
       /\ ~(fee > gross) /\ Selling!Payout(p).seller = gross - fee
  <2>1. Selling!Payout(p) = Selling!StandardPayout(p) /\ Selling!StandardPayout(p) # None
    BY <1>3 DEF Selling!Policy, Selling!Payout
  <2>2. Selling!Money(order) = {1}
    BY <1>5, <1>6 DEF Selling!Money, Selling!TrustedPayment
  <2>3. {order.offer[i] : i \in Selling!Money(order)} = {offer}
    BY <2>2
  <2>4. (CHOOSE item \in {offer} : TRUE) = offer
    OBVIOUS
  <2>5. /\ Selling!Fixed(offer) /\ \A i \in other : Selling!Fixed(asks[i])
        /\ Selling!StandardPayout(p) = Selling!PayoutOf(gross, Selling!SumFunctionOnSet(rounded, other))
    BY <2>1, <2>3, <2>4 DEF Selling!StandardPayout
  <2>6. Selling!SumFunctionOnSet(rounded, other) = fee
    BY SalesSum
  <2> HIDE DEF fee, gross
  <2>7. Selling!PayoutOf(gross, fee) # None
    BY <2>1, <2>5, <2>6
  <2>8. ~(fee > gross) /\ Selling!PayoutOf(gross, fee).seller = gross - fee
    BY <2>7, PayoutIsRest
  <2> QED
    BY <2>1, <2>5, <2>6, <2>8
<1>11. other = paid \ own
  <2>1. ASSUME NEW i \in R
        PROVE  Selling!SameAsset(asks[i], offer) <=> Selling!TrustedPayment(asks[i])
    BY <1>5 DEF Selling!SameAsset, Selling!TrustedPayment
  <2> QED
    BY <2>1 DEF Selling!Fees
<1>12. IsFiniteSet(paid) /\ IsFiniteSet(own) /\ IsFiniteSet(other)
  <2>1. paid \subseteq R /\ own \subseteq R /\ other \subseteq R
    BY <1>11
  <2> HIDE DEF paid, own, other, R
  <2> QED
    BY <1>8, <2>1, FS_Subset
<1> SUFFICES ASSUME ~Selling!Reverts(c), NEW T \in Selling!Outcomes(c)
             PROVE  GoodSale(T, Selling!Payout(p).seller)
  BY <1>2 DEF c
<1>13. /\ Selling!Exact(order, offer)
       /\ \A i \in R : Selling!Resolved(c, asks[i], 0, 1, i - 1) /\ Selling!Exact(order, asks[i])
  BY <1>1, <1>6 DEF Selling!Reverts, Selling!StandardReverts, Selling!Takes
<1>14. PICK offered \in Selling!AmountsNow(order.offer), asked \in Selling!AmountsNow(asks) :
         T = Selling!StandardTransfers(c, offered, asked)
  BY <1>1 DEF Selling!Outcomes
<1>15. /\ offered[1] = offer.start
       /\ \A i \in R : asked[i] \in Nat /\ (Selling!Fixed(asks[i]) => asked[i] = asks[i].start)
  <2>1. offered[1] \in Selling!Amounts(offer) /\ \A i \in R : asked[i] \in Selling!Amounts(asks[i])
    BY <1>6 DEF Selling!AmountsNow
  <2> QED
    BY <1>6, <1>8, <1>10, <2>1, AmountsAreNat
<1> DEFINE share == [i \in R |-> Selling!Share(order, asked[i])]
           asset == [i \in R |-> Selling!Asset(c, asks[i], 0, 1, i - 1)]
           D == ({0} \X {1}) \cup ({1} \X R)
           a == Selling!AmountsOf(T)
<1>16. gross \in Nat /\ Selling!Share(order, offered[1]) = gross
  <2>1. offer.start \in Nat
    BY <1>6 DEF Selling!Item
  <2>2. Selling!Share(order, offer.start) \in Nat
    BY <1>4, <1>7, <2>1, ShareIsNat
  <2>3. gross = Selling!Share(order, offer.start)
    BY <1>4, <1>6, <1>7, <1>13, ExactShares
  <2> QED
    BY <1>15, <2>2, <2>3
<1>17. \A i \in R : share[i] \in Nat
  <2> SUFFICES ASSUME NEW i \in R PROVE Selling!Share(order, asked[i]) \in Nat
    OBVIOUS
  <2> QED
    BY <1>4, <1>7, <1>15, ShareIsNat
<1>18. \A i \in paid : asset[i] = PA
  BY PaymentIsAsset
<1>19. /\ asset[k].token = Contract /\ asset[k].id = TokenId /\ asset[k] # PA
       /\ share[k] = 1
  <2>1. Selling!SelectedNft(p, order, asks[k], 0, 1, k - 1)
    BY <1>5, <1>9
  <2>2. /\ Selling!Fixed(asks[k]) /\ Selling!IsSelected(p, asks[k], 0, 1, k - 1)
        /\ asks[k].start * order.n = order.d
    BY <2>1 DEF Selling!SelectedNft
  <2>3. Selling!Resolved(c, asks[k], 0, 1, k - 1)
    BY <1>9, <1>13
  <2> DEFINE item == asks[k]
             index == k - 1
  <2>4. /\ Selling!Asset(c, item, 0, 1, index).token = Contract
        /\ Selling!Asset(c, item, 0, 1, index).id = TokenId
        /\ Selling!Asset(c, item, 0, 1, index) # PA
    <3>1. PICK o, side : o = 0 /\ side = 1
      OBVIOUS
    <3>2. Selling!IsSelected(p, item, o, side, index) /\ Selling!Resolved(c, item, o, side, index)
      BY <2>2, <2>3, <3>1
    <3> HIDE DEF item, index
    <3>3. /\ Selling!Asset(c, item, o, side, index).token = Contract
          /\ Selling!Asset(c, item, o, side, index).id = TokenId
          /\ Selling!Asset(c, item, o, side, index) # PA
      BY <1>1, <1>3, <3>2, SelectedAsset
    <3> QED
      BY <3>1, <3>3
  <2>5. asked[k] * order.n = order.d
    BY <1>9, <1>15, <2>2
  <2>6. Selling!Share(order, asked[k]) = 1
    BY <1>7, <2>5, OneIsShared
  <2> QED
    BY <1>9, <2>4, <2>6
<1>20. \A i \in other : rounded[i] = share[i]
  <2> SUFFICES ASSUME NEW i \in other PROVE rounded[i] = share[i]
    OBVIOUS
  <2>1. i \in R /\ Selling!Fixed(asks[i]) /\ asked[i] = asks[i].start /\ asks[i] \in Selling!Item
        /\ Selling!Exact(order, asks[i])
    BY <1>8, <1>10, <1>11, <1>13, <1>15
  <2>2. Selling!Ceil(asks[i].start, order) = Selling!Share(order, asks[i].start)
    BY <1>4, <1>7, <2>1, ExactShares
  <2>3. rounded[i] = Selling!Ceil(asks[i].start, order)
    BY <2>1 DEF Selling!Rounded
  <2> QED
    BY <2>1, <2>2, <2>3
<1> HIDE DEF gross
<1>21. /\ DOMAIN T = D
       /\ T[<<0, 1>>] = Selling!Transfer(PA, gross, order.offerer, Seller)
       /\ \A i \in R : T[<<1, i>>] = Selling!Transfer(asset[i], share[i], Seller, asks[i].to)
  <2> DEFINE first == [i \in DOMAIN order.offer |->
                         Selling!Transfer(Selling!Asset(c, order.offer[i], 0, 0, i - 1),
                           Selling!Share(order, offered[i]), order.offerer, c.recipient)]
             second == [i \in R |->
                          Selling!Transfer(Selling!Asset(c, asks[i], 0, 1, i - 1),
                            Selling!Share(order, asked[i]), Seller, asks[i].to)]
  <2>1. T = Selling!Both(first, second)
    BY <1>1, <1>14 DEF Selling!StandardTransfers
  <2>2. DOMAIN first = {1} /\ DOMAIN second = R
    BY <1>6
  <2>3. Selling!Asset(c, offer, 0, 0, 1 - 1) = PA
    BY <1>5, PaymentIsAsset
  <2>4. first[1] = Selling!Transfer(PA, gross, order.offerer, Seller)
    BY <1>1, <1>6, <1>16, <2>3
  <2>5. \A i \in R : second[i] = Selling!Transfer(asset[i], share[i], Seller, asks[i].to)
    OBVIOUS
  <2> HIDE DEF first, second, asset, share
  <2>6. DOMAIN T = D /\ \A x \in D : T[x] = IF x[1] = 0 THEN first[x[2]] ELSE second[x[2]]
    BY <2>1, <2>2 DEF Selling!Both
  <2>7. <<0, 1>> \in D /\ \A i \in R : <<1, i>> \in D
    OBVIOUS
  <2> HIDE DEF D
  <2>8. T[<<0, 1>>] = first[1] /\ \A i \in R : T[<<1, i>>] = second[i]
    BY <2>6, <2>7
  <2> QED
    BY <2>4, <2>5, <2>6, <2>8
<1> HIDE DEF asset, share
<1>22. \A x \in D : x = <<0, 1>> \/ \E i \in R : x = <<1, i>>
  OBVIOUS
<1>23. /\ <<0, 1>> \in DOMAIN T
       /\ T[<<0, 1>>].asset = PA /\ T[<<0, 1>>].amount = gross /\ T[<<0, 1>>].from # Seller
       /\ T[<<0, 1>>].to = Seller
  BY <1>5, <1>21 DEF Selling!Transfer
<1>24. ASSUME NEW i \in R
       PROVE  /\ <<1, i>> \in DOMAIN T
              /\ T[<<1, i>>].asset = asset[i] /\ T[<<1, i>>].amount = share[i]
              /\ T[<<1, i>>].from = Seller /\ T[<<1, i>>].to = asks[i].to
  <2>1. T[<<1, i>>] = Selling!Transfer(asset[i], share[i], Seller, asks[i].to)
    BY <1>21
  <2>2. <<1, i>> \in DOMAIN T
    BY <1>21
  <2> QED
    BY <2>1, <2>2 DEF Selling!Transfer
<1>25. /\ \A x \in DOMAIN T : T[x].amount \in Nat
       /\ \A x \in DOMAIN T : a[x] = T[x].amount /\ a[x] \in Nat
  <2>1. \A x \in DOMAIN T : T[x].amount \in Nat
    BY <1>16, <1>17, <1>21, <1>22, <1>23, <1>24
  <2> QED
    BY <2>1 DEF Selling!AmountsOf
<1>26. IsFiniteSet(DOMAIN T)
  <2>1. IsFiniteSet({1})
    BY FS_Singleton
  <2>2. IsFiniteSet(D)
    BY <1>8, <2>1, SidesAreFinite
  <2> QED
    BY <1>21, <2>2
<1> DEFINE Z == {x \in DOMAIN T : T[x].from = Seller /\ T[x].asset # PA}
<1>27. Z = {<<1, k>>}
  <2>1. <<1, k>> \in Z
    BY <1>19, <1>24
  <2>2. ASSUME NEW x \in Z PROVE x = <<1, k>>
    <3>1. x \in DOMAIN T /\ T[x].from = Seller /\ T[x].asset # PA
      OBVIOUS
    <3>2. PICK i \in R : x = <<1, i>>
      BY <1>21, <1>22, <1>23, <3>1
    <3>3. i \notin paid
      BY <1>18, <1>24, <3>1, <3>2
    <3> QED
      BY <1>9, <3>2, <3>3
  <2> HIDE DEF Z
  <2> QED
    BY <2>1, <2>2
<1>28. SumFunctionOnSet(a, Z) <= 1 /\ \A x \in Z : T[x].asset.token = Contract /\ T[x].asset.id = TokenId
  <2>1. SumFunctionOnSet(a, {<<1, k>>}) = a[<<1, k>>]
    BY <1>24, <1>25, SumOfOne
  <2>2. a[<<1, k>>] = 1
    BY <1>19, <1>24, <1>25
  <2> HIDE DEF Z, a
  <2> QED
    BY <1>19, <1>24, <1>27, <2>1, <2>2
<1>29. Selling!GainOf(T, PA) = gross - fee /\ gross - fee \in Nat
  <2>1. Selling!Spent(T, PA) = Side(1, paid)
    <3>1. ASSUME NEW x \in Selling!Spent(T, PA) PROVE x \in Side(1, paid)
      <4>1. x \in DOMAIN T /\ T[x].from = Seller /\ T[x].asset = PA
        BY DEF Selling!Spent
      <4>2. PICK i \in R : x = <<1, i>>
        BY <1>21, <1>22, <1>23, <4>1
      <4>3. i \in paid
        BY <1>9, <1>19, <1>24, <4>1, <4>2
      <4> QED
        BY <4>2, <4>3 DEF Side
    <3>2. ASSUME NEW x \in Side(1, paid) PROVE x \in Selling!Spent(T, PA)
      <4>1. PICK i \in paid : x = <<1, i>>
        BY DEF Side
      <4> QED
        BY <1>18, <1>24, <4>1 DEF Selling!Spent
    <3> QED
      BY <3>1, <3>2
  <2>2. Selling!Received(T, PA) = Side(1, own) \cup {<<0, 1>>}
    <3>1. ASSUME NEW x \in Selling!Received(T, PA) PROVE x \in Side(1, own) \cup {<<0, 1>>}
      <4>1. x \in DOMAIN T /\ T[x].to = Seller /\ T[x].asset = PA
        BY DEF Selling!Received
      <4>2. CASE x = <<0, 1>>
        BY <4>2
      <4>3. CASE \E i \in R : x = <<1, i>>
        <5>1. PICK i \in R : x = <<1, i>>
          BY <4>3
        <5>2. i \in own
          BY <1>9, <1>19, <1>24, <4>1, <5>1
        <5> QED
          BY <5>1, <5>2 DEF Side
      <4> QED
        BY <1>21, <1>22, <4>1, <4>2, <4>3
    <3>2. ASSUME NEW x \in Side(1, own) PROVE x \in Selling!Received(T, PA)
      <4>1. PICK i \in own : x = <<1, i>>
        BY DEF Side
      <4> QED
        BY <1>18, <1>24, <4>1 DEF Selling!Received
    <3>3. <<0, 1>> \in Selling!Received(T, PA)
      BY <1>23 DEF Selling!Received
    <3> QED
      BY <3>1, <3>2, <3>3
  <2>3. <<0, 1>> \notin Side(1, own)
    BY DEF Side
  <2>4. /\ \A i \in own : a[<<1, i>>] = share[i] /\ share[i] \in Nat
        /\ \A i \in paid : a[<<1, i>>] = share[i] /\ share[i] \in Nat
        /\ a[<<0, 1>>] = gross
    BY <1>17, <1>23, <1>24, <1>25
  <2>5. \A x \in Side(1, own) \cup {<<0, 1>>} : a[x] \in Nat
    BY <1>25, <2>2 DEF Selling!Received
  <2>6. IsFiniteSet(Side(1, own))
    BY <1>12, FS_Singleton, FS_Product DEF Side
  <2>7. Selling!GainOf(T, PA) = SumFunctionOnSet(a, Side(1, own) \cup {<<0, 1>>})
                                 - SumFunctionOnSet(a, Side(1, paid))
    BY <2>1, <2>2, SalesSum DEF Selling!GainOf
  <2>8. own \subseteq paid /\ \A i \in other : rounded[i] = share[i] /\ share[i] \in Nat
    BY <1>11, <1>17, <1>20
  <2> HIDE DEF a, own, paid, other, R, rounded
  <2>9. SumFunctionOnSet(a, Side(1, own)) = SumFunctionOnSet(share, own)
    BY <1>12, <2>4, SideSum
  <2>10. SumFunctionOnSet(a, Side(1, paid)) = SumFunctionOnSet(share, paid)
    BY <1>12, <2>4, SideSum
  <2>11. SumFunctionOnSet(a, Side(1, own) \cup {<<0, 1>>}) = gross + SumFunctionOnSet(share, own)
    BY <2>3, <2>4, <2>5, <2>6, <2>9, SumAdds
  <2>12. /\ SumFunctionOnSet(share, paid) = SumFunctionOnSet(share, own) + SumFunctionOnSet(share, paid \ own)
         /\ SumFunctionOnSet(share, own) \in Nat
         /\ SumFunctionOnSet(share, paid \ own) \in Nat
    BY <1>12, <2>4, <2>8, SumOfPart
  <2>13. fee = SumFunctionOnSet(share, other)
    BY <1>12, <2>8, SumsAgree
  <2>14. SumFunctionOnSet(share, paid \ own) = SumFunctionOnSet(share, other)
    BY <1>11
  <2> HIDE DEF fee
  <2> QED
    BY <1>10, <1>16, <2>7, <2>10, <2>11, <2>12, <2>13, <2>14
<1>30. \E x \in DOMAIN T : T[x].asset = PA
  BY <1>23
<1> HIDE DEF fee, PA
<1>31. GoodSale(T, gross - fee)
  BY <1>25, <1>26, <1>28, <1>29, <1>30, OneTokenForMoney DEF PA
<1> QED
  BY <1>10, <1>31

-----------------------------------------------------------------------------
(* A match. *)

LEMMA UsesAreFinite ==
  ASSUME NEW c, c.fulfillments \in Seq(Selling!Fulfilment)
  PROVE  IsFiniteSet(Selling!Uses(c))
<1> DEFINE F == DOMAIN c.fulfillments
           given(f) == DOMAIN c.fulfillments[f].offer
           taken(f) == DOMAIN c.fulfillments[f].consideration
           uses == [f \in F |-> {<<f, 0, k>> : k \in given(f)} \cup {<<f, 1, k>> : k \in taken(f)}]
<1>1. IsFiniteSet(F) /\ \A f \in F : c.fulfillments[f] \in Selling!Fulfilment
  BY PlacesAreFinite
<1>2. ASSUME NEW f \in F
      PROVE  IsFiniteSet(uses[f])
  <2>1. IsFiniteSet(given(f)) /\ IsFiniteSet(taken(f))
    <3>1. /\ c.fulfillments[f].offer \in Seq(Nat \X Nat)
          /\ c.fulfillments[f].consideration \in Seq(Nat \X Nat)
      BY <1>1 DEF Selling!Fulfilment
    <3> QED
      BY <3>1, PlacesAreFinite
  <2> DEFINE S == given(f)
             T == taken(f)
             g == [k \in S |-> <<f, 0, k>>]
             h == [k \in T |-> <<f, 1, k>>]
  <2>2. IsFiniteSet({g[k] : k \in S}) /\ IsFiniteSet({h[k] : k \in T})
    <3> HIDE DEF g, h
    <3> QED
      BY <2>1, ImageIsFinite
  <2>3. {g[k] : k \in S} = {<<f, 0, k>> : k \in S} /\ {h[k] : k \in T} = {<<f, 1, k>> : k \in T}
    OBVIOUS
  <2>4. uses[f] = {g[k] : k \in S} \cup {h[k] : k \in T}
    BY <2>3
  <2> HIDE DEF g, h, S, T, uses
  <2> QED
    BY <2>2, <2>4, FS_Union
<1>3. IsFiniteSet({uses[f] : f \in F})
  <2> HIDE DEF F, uses
  <2> QED
    BY <1>1, ImageIsFinite
<1>4. IsFiniteSet(UNION {uses[f] : f \in F})
  <2> DEFINE all == {uses[f] : f \in F}
  <2>1. \A S \in all : IsFiniteSet(S)
    BY <1>2
  <2> HIDE DEF all
  <2>2. IsFiniteSet(UNION all)
    BY <1>3, <2>1, FS_UNION DEF all
  <2> QED
    BY <2>2 DEF all
<1>5. Selling!Uses(c) = UNION {uses[f] : f \in F}
  BY DEF Selling!Uses
<1> QED
  BY <1>4, <1>5

\* Two components that use an item are one, or the match reverts.
LEMMA OneUse ==
  ASSUME NEW c, c.fulfillments \in Seq(Selling!Fulfilment),
         NEW item \in Selling!ItemsOf(c), ~Selling!MatchReverts(c),
         NEW u \in Selling!Uses(c), NEW v \in Selling!Uses(c),
         u[2] = item[1], Selling!Used(c, u) = <<item[2], item[3]>>,
         v[2] = item[1], Selling!Used(c, v) = <<item[2], item[3]>>
  PROVE  u = v
<1> DEFINE found == {use \in Selling!Uses(c) : use[2] = item[1] /\ Selling!Used(c, use) = <<item[2], item[3]>>}
<1>1. Cardinality(found) = 1
  BY SalesCount DEF Selling!MatchReverts, Selling!UsedOnce
<1>2. IsFiniteSet(found)
  BY UsesAreFinite, FS_Subset
<1>3. u \in found /\ v \in found
  OBVIOUS
<1> HIDE DEF found
<1>4. \E x : found = {x}
  BY <1>1, <1>2, FS_Singleton
<1> QED
  BY <1>3, <1>4

LEMMA UseOf ==
  ASSUME NEW c, c.fulfillments \in Seq(Selling!Fulfilment), NEW f \in DOMAIN c.fulfillments
  PROVE  /\ \A k \in DOMAIN c.fulfillments[f].offer :
              /\ <<f, 0, k>> \in Selling!Uses(c)
              /\ Selling!Used(c, <<f, 0, k>>) = c.fulfillments[f].offer[k]
              /\ c.fulfillments[f].offer[k] \in Nat \X Nat
         /\ \A k \in DOMAIN c.fulfillments[f].consideration :
              /\ <<f, 1, k>> \in Selling!Uses(c)
              /\ Selling!Used(c, <<f, 1, k>>) = c.fulfillments[f].consideration[k]
              /\ c.fulfillments[f].consideration[k] \in Nat \X Nat
<1>1. c.fulfillments[f] \in Selling!Fulfilment
  BY PlacesAreFinite
<1>2. /\ c.fulfillments[f].offer \in Seq(Nat \X Nat)
      /\ c.fulfillments[f].consideration \in Seq(Nat \X Nat)
  BY <1>1 DEF Selling!Fulfilment
<1>3. /\ \A k \in DOMAIN c.fulfillments[f].offer : c.fulfillments[f].offer[k] \in Nat \X Nat
      /\ \A k \in DOMAIN c.fulfillments[f].consideration :
           c.fulfillments[f].consideration[k] \in Nat \X Nat
  BY <1>2, PlacesAreFinite
<1>4. ASSUME NEW k \in DOMAIN c.fulfillments[f].offer
      PROVE  <<f, 0, k>> \in Selling!Uses(c)
  BY DEF Selling!Uses
<1>5. ASSUME NEW k \in DOMAIN c.fulfillments[f].consideration
      PROVE  <<f, 1, k>> \in Selling!Uses(c)
  BY DEF Selling!Uses
<1> QED
  BY <1>3, <1>4, <1>5 DEF Selling!Used

LEMMA UseIs ==
  ASSUME NEW c, NEW u \in Selling!Uses(c), u[2] = 0
  PROVE  \E f \in DOMAIN c.fulfillments : \E k \in DOMAIN c.fulfillments[f].offer : u = <<f, 0, k>>
<1>1. PICK f \in DOMAIN c.fulfillments :
        u \in {<<f, 0, k>> : k \in DOMAIN c.fulfillments[f].offer}
                \cup {<<f, 1, k>> : k \in DOMAIN c.fulfillments[f].consideration}
  BY DEF Selling!Uses
<1> QED
  BY <1>1

LEMMA ItemIs ==
  ASSUME NEW c, NEW side, NEW o, NEW i, <<side, o, i>> \in Selling!ItemsOf(c)
  PROVE  /\ o \in DOMAIN c.orders
         /\ side = 0 => i \in DOMAIN c.orders[o].offer
         /\ side = 1 => i \in DOMAIN c.orders[o].consideration
<1>1. PICK p \in DOMAIN c.orders :
        <<side, o, i>> \in {<<0, p, j>> : j \in DOMAIN c.orders[p].offer}
                             \cup {<<1, p, j>> : j \in DOMAIN c.orders[p].consideration}
  BY DEF Selling!ItemsOf
<1> QED
  BY <1>1

LEMMA IsItem ==
  ASSUME NEW c, NEW o \in DOMAIN c.orders, NEW i \in DOMAIN c.orders[o].offer
  PROVE  <<0, o, i>> \in Selling!ItemsOf(c)
  BY DEF Selling!ItemsOf

\* One order of an allowed match is the wallet's, the other is the buyer's.
LEMMA OwnOrder ==
  ASSUME NEW c, Selling!MatchAllowed(c), c.orders \in Seq(Selling!Order)
  PROVE  \E s, b \in DOMAIN c.orders :
           /\ s # b /\ DOMAIN c.orders = {s, b}
           /\ c.orders[s].offerer = Seller /\ c.orders[b].offerer # Seller
<1> DEFINE Own == {o \in DOMAIN c.orders : c.orders[o].offerer = Seller}
<1>1. Len(c.orders) = 2 /\ Cardinality(Own) = 1
  BY SalesCount DEF Selling!MatchAllowed
<1>2. DOMAIN c.orders = {1, 2}
  BY <1>1
<1>3. IsFiniteSet(Own)
  <2>1. IsFiniteSet(DOMAIN c.orders)
    BY PlacesAreFinite
  <2> QED
    BY <2>1, FS_Subset
<1>4. \E s : Own = {s}
  <2> HIDE DEF Own
  <2> QED
    BY <1>1, <1>3, FS_Singleton
<1>5. PICK s : Own = {s}
  BY <1>4
<1>6. s \in {1, 2} /\ c.orders[s].offerer = Seller
  BY <1>2, <1>5
<1> DEFINE b == 3 - s
<1>7. b \in {1, 2} /\ b # s /\ {1, 2} = {s, b}
  BY <1>6
<1>8. c.orders[b].offerer # Seller
  BY <1>2, <1>5, <1>7
<1> QED
  BY <1>2, <1>6, <1>7, <1>8

\* The order s of the wallet is the source of the fulfilment fn, and the order b of
\* the buyer of the fulfilment fm, which gives to items of s only.
Connected(c, s, b, fn, fm) ==
  /\ s \in DOMAIN c.orders /\ b \in DOMAIN c.orders /\ s # b /\ DOMAIN c.orders = {s, b}
  /\ c.orders[s].offerer = Seller /\ c.orders[b].offerer # Seller
  /\ fn \in DOMAIN c.fulfillments /\ fm \in DOMAIN c.fulfillments /\ fn # fm
  /\ DOMAIN c.fulfillments = {fn, fm}
  /\ Selling!Source(c, fn) = <<s, 1>> /\ Selling!Source(c, fm) = <<b, 1>>
  /\ \A f \in DOMAIN c.fulfillments : DOMAIN c.fulfillments[f].offer = {1}
  /\ \A k \in DOMAIN c.fulfillments[fm].consideration :
       \E i \in DOMAIN c.orders[s].consideration : Selling!Target(c, <<fm, k>>) = <<s, i>>
  /\ \A f \in DOMAIN c.fulfillments : \A k \in DOMAIN c.fulfillments[f].consideration :
       \E o \in DOMAIN c.orders : \E i \in DOMAIN c.orders[o].consideration :
         Selling!Target(c, <<f, k>>) = <<o, i>>

\* There is no other way to connect the items of an allowed match.
LEMMA MatchIsConnected ==
  ASSUME NEW c, Selling!MatchAllowed(c), ~Selling!MatchReverts(c),
         c.orders \in Seq(Selling!Order), c.fulfillments \in Seq(Selling!Fulfilment)
  PROVE  \E s, b, fn, fm : Connected(c, s, b, fn, fm)
<1> DEFINE F == DOMAIN c.fulfillments
           O == DOMAIN c.orders
<1>1. PICK s \in O, b \in O :
        /\ s # b /\ O = {s, b}
        /\ c.orders[s].offerer = Seller /\ c.orders[b].offerer # Seller
  BY OwnOrder
<1>2. \A o \in O : DOMAIN c.orders[o].offer = {1}
  <2> SUFFICES ASSUME NEW o \in O PROVE DOMAIN c.orders[o].offer = {1}
    OBVIOUS
  <2>1. c.orders[o].offer \in Seq(Selling!Item)
    <3>1. c.orders[o] \in Selling!Order
      BY PlacesAreFinite
    <3> QED
      BY <3>1 DEF Selling!Order
  <2>2. Len(c.orders[o].offer) = 1
    BY DEF Selling!MatchAllowed
  <2>3. DOMAIN c.orders[o].offer = 1 .. 1
    BY <2>1, <2>2
  <2> QED
    BY <2>3
<1>3. ASSUME NEW f \in F
      PROVE  /\ DOMAIN c.fulfillments[f].offer = {1}
             /\ \A k \in DOMAIN c.fulfillments[f].consideration :
                  c.fulfillments[f].consideration[k][1] # c.fulfillments[f].offer[1][1]
  <2>1. c.fulfillments[f].offer \in Seq(Nat \X Nat)
    <3>1. c.fulfillments[f] \in Selling!Fulfilment
      BY PlacesAreFinite
    <3> QED
      BY <3>1 DEF Selling!Fulfilment
  <2>2. /\ Len(c.fulfillments[f].offer) = 1
        /\ \A k \in DOMAIN c.fulfillments[f].consideration :
             c.fulfillments[f].consideration[k][1] # c.fulfillments[f].offer[1][1]
    BY DEF Selling!MatchAllowed
  <2>3. DOMAIN c.fulfillments[f].offer = 1 .. 1
    BY <2>1, <2>2
  <2> QED
    BY <2>2, <2>3
<1>4. Selling!ItemsOf(c) = {<<use[2], Selling!Used(c, use)[1], Selling!Used(c, use)[2]>> : use \in Selling!Uses(c)}
  BY DEF Selling!MatchAllowed, Selling!EveryItemOnce
<1>5. ASSUME NEW f \in F
      PROVE  /\ <<f, 0, 1>> \in Selling!Uses(c)
             /\ Selling!Used(c, <<f, 0, 1>>) = Selling!Source(c, f)
             /\ Selling!Source(c, f) \in {<<s, 1>>, <<b, 1>>}
  <2> DEFINE u == <<f, 0, 1>>
             src == Selling!Source(c, f)
  <2>1. u \in Selling!Uses(c) /\ Selling!Used(c, u) = src /\ src \in Nat \X Nat
    BY <1>3, UseOf DEF Selling!Source
  <2>2. <<u[2], Selling!Used(c, u)[1], Selling!Used(c, u)[2]>> \in Selling!ItemsOf(c)
    BY <1>4, <2>1
  <2>3. <<0, src[1], src[2]>> \in Selling!ItemsOf(c)
    BY <2>1, <2>2
  <2>4. src[1] \in O /\ src[2] \in DOMAIN c.orders[src[1]].offer
    BY <2>3, ItemIs
  <2>5. src = <<src[1], src[2]>>
    BY <2>1
  <2> HIDE DEF src
  <2>6. src[1] \in {s, b} /\ src[2] = 1
    BY <1>1, <1>2, <2>4
  <2>7. src \in {<<s, 1>>, <<b, 1>>}
    BY <2>5, <2>6
  <2> QED
    BY <2>1, <2>7 DEF src
<1>6. ASSUME NEW o \in O
      PROVE  \E f \in F : Selling!Source(c, f) = <<o, 1>>
  <2>1. <<0, o, 1>> \in Selling!ItemsOf(c)
    BY <1>2, IsItem
  <2>2. PICK u \in Selling!Uses(c) : <<0, o, 1>> = <<u[2], Selling!Used(c, u)[1], Selling!Used(c, u)[2]>>
    BY <1>4, <2>1
  <2>3. PICK f \in F : \E k \in DOMAIN c.fulfillments[f].offer : u = <<f, 0, k>>
    BY <2>2, UseIs
  <2>4. u = <<f, 0, 1>>
    BY <1>3, <2>3
  <2>5. Selling!Used(c, u) = Selling!Source(c, f) /\ Selling!Source(c, f) \in {<<s, 1>>, <<b, 1>>}
    BY <1>5, <2>4
  <2>6. Selling!Source(c, f)[1] = o
    BY <2>2, <2>5
  <2> QED
    BY <2>5, <2>6
<1>7. ASSUME NEW o \in O, NEW f \in F, NEW g \in F,
             Selling!Source(c, f) = <<o, 1>>, Selling!Source(c, g) = <<o, 1>>
      PROVE  f = g
  <2> DEFINE item == <<0, o, 1>>
             u == <<f, 0, 1>>
             v == <<g, 0, 1>>
  <2>1. item \in Selling!ItemsOf(c)
    BY <1>2, IsItem
  <2>2. u \in Selling!Uses(c) /\ v \in Selling!Uses(c)
    BY <1>5
  <2>3. u[2] = item[1] /\ v[2] = item[1]
    OBVIOUS
  <2>4. Selling!Used(c, u) = <<item[2], item[3]>> /\ Selling!Used(c, v) = <<item[2], item[3]>>
    BY <1>5, <1>7
  <2> HIDE DEF item, u, v
  <2>5. u = v
    BY <2>1, <2>2, <2>3, <2>4, OneUse
  <2> QED
    BY <2>5 DEF u, v
<1>8. PICK fn \in F : Selling!Source(c, fn) = <<s, 1>>
  BY <1>1, <1>6
<1>9. PICK fm \in F : Selling!Source(c, fm) = <<b, 1>>
  BY <1>1, <1>6
<1>10. fn # fm
  BY <1>1, <1>8, <1>9
<1>11. F = {fn, fm}
  <2>1. \A f \in F : f = fn \/ f = fm
    BY <1>1, <1>5, <1>7, <1>8, <1>9
  <2> QED
    BY <2>1
<1>12. ASSUME NEW f \in F, NEW k \in DOMAIN c.fulfillments[f].consideration
       PROVE  /\ f = fm => \E i \in DOMAIN c.orders[s].consideration :
                              Selling!Target(c, <<f, k>>) = <<s, i>>
              /\ \E o \in O : \E i \in DOMAIN c.orders[o].consideration :
                   Selling!Target(c, <<f, k>>) = <<o, i>>
  <2> DEFINE u == <<f, 1, k>>
             at == c.fulfillments[f].consideration[k]
  <2>1. u \in Selling!Uses(c) /\ Selling!Used(c, u) = at /\ at \in Nat \X Nat
    BY UseOf
  <2>2. <<u[2], Selling!Used(c, u)[1], Selling!Used(c, u)[2]>> \in Selling!ItemsOf(c)
    BY <1>4, <2>1
  <2>3. <<1, at[1], at[2]>> \in Selling!ItemsOf(c)
    BY <2>1, <2>2
  <2>4. at[1] \in O /\ at[2] \in DOMAIN c.orders[at[1]].consideration
    BY <2>3, ItemIs
  <2>5. f = fm => at[1] # b
    BY <1>3, <1>9 DEF Selling!Source
  <2>6. at = <<at[1], at[2]>> /\ (f = fm => at[1] = s)
    BY <1>1, <2>1, <2>4, <2>5
  <2>7. Selling!Target(c, <<f, k>>) = at
    BY DEF Selling!Target
  <2>8. PICK o, i : o = at[1] /\ i = at[2]
    OBVIOUS
  <2>9. /\ o \in O /\ i \in DOMAIN c.orders[o].consideration /\ (f = fm => o = s)
        /\ at = <<o, i>>
    BY <2>4, <2>6, <2>8
  <2>10. Selling!Target(c, <<f, k>>) = <<o, i>>
    BY <2>7, <2>9
  <2> HIDE DEF at
  <2> QED
    BY <2>9, <2>10
<1>13. \A k \in DOMAIN c.fulfillments[fm].consideration :
         \E i \in DOMAIN c.orders[s].consideration : Selling!Target(c, <<fm, k>>) = <<s, i>>
  BY <1>12
<1>14. \A f \in F : \A k \in DOMAIN c.fulfillments[f].consideration :
         \E o \in O : \E i \in DOMAIN c.orders[o].consideration :
           Selling!Target(c, <<f, k>>) = <<o, i>>
  BY <1>12
<1>15. Connected(c, s, b, fn, fm)
  BY <1>1, <1>3, <1>8, <1>9, <1>10, <1>11, <1>13, <1>14 DEF Connected
<1> QED
  BY <1>15

\* What the orders of an allowed match offer and ask for.
LEMMA MatchOrders ==
  ASSUME NEW c, Selling!MatchAllowed(c), c.orders \in Seq(Selling!Order),
         NEW s, NEW b, NEW fn, NEW fm, Connected(c, s, b, fn, fm)
  PROVE  /\ \A o \in DOMAIN c.orders :
              /\ c.orders[o] \in Selling!Order /\ c.orders[o].n \in Nat
              /\ c.orders[o].d \in Nat \ {0}
              /\ DOMAIN c.orders[o].offer = {1} /\ c.orders[o].offer[1] \in Selling!Item
              /\ \A i \in DOMAIN c.orders[o].consideration :
                   c.orders[o].consideration[i] \in Selling!Item
         /\ Selling!SelectedNft(c, c.orders[s], c.orders[s].offer[1], s - 1, 0, 0)
         /\ \A i \in DOMAIN c.orders[s].consideration :
              Selling!TrustedPayment(c.orders[s].consideration[i])
         /\ Selling!TrustedPayment(c.orders[b].offer[1])
<1>1. ASSUME NEW o \in DOMAIN c.orders
      PROVE  /\ c.orders[o] \in Selling!Order /\ c.orders[o].n \in Nat
             /\ c.orders[o].d \in Nat \ {0}
             /\ DOMAIN c.orders[o].offer = {1} /\ c.orders[o].offer[1] \in Selling!Item
             /\ \A i \in DOMAIN c.orders[o].consideration :
                  c.orders[o].consideration[i] \in Selling!Item
  <2> DEFINE order == c.orders[o]
             n == order.n
             d == order.d
  <2>1. order \in Selling!Order
    BY PlacesAreFinite
  <2>2. /\ order.offer \in Seq(Selling!Item) /\ order.consideration \in Seq(Selling!Item)
        /\ n \in Nat /\ d \in Nat
    BY <2>1 DEF Selling!Order
  <2>3. Len(order.offer) = 1 /\ n > 0 /\ n <= d
    BY DEF Selling!MatchAllowed, Selling!ValidFraction
  <2>4. DOMAIN order.offer = {1} /\ order.offer[1] \in Selling!Item
    <3>1. DOMAIN order.offer = 1 .. 1 /\ order.offer[1] \in Selling!Item
      BY <2>2, <2>3
    <3> QED
      BY <3>1
  <2>5. \A i \in DOMAIN order.consideration : order.consideration[i] \in Selling!Item
    BY <2>2, PlacesAreFinite
  <2>6. d \in Nat \ {0}
    <3> HIDE DEF n, d
    <3> QED
      BY <2>2, <2>3
  <2> QED
    BY <2>1, <2>2, <2>4, <2>5, <2>6
<1>2. /\ s \in DOMAIN c.orders /\ b \in DOMAIN c.orders
      /\ c.orders[s].offerer = Seller /\ c.orders[b].offerer # Seller
  BY DEF Connected
<1> DEFINE Own == {o \in DOMAIN c.orders : c.orders[o].offerer = Seller}
<1>3. s \in Own /\ b \notin Own
  BY <1>2
<1>4. /\ Selling!SelectedNft(c, c.orders[s], c.orders[s].offer[1], s - 1, 0, 0)
      /\ \A i \in DOMAIN c.orders[s].consideration :
           Selling!TrustedPayment(c.orders[s].consideration[i])
  BY <1>2, <1>3 DEF Selling!MatchAllowed
<1>5. Selling!TrustedPayment(c.orders[b].offer[1])
  BY <1>2, <1>3 DEF Selling!MatchAllowed
<1> QED
  BY <1>1, <1>4, <1>5

\* What the items that the fulfilment gives to ask for.
Dues(c, f) == [k \in DOMAIN c.fulfillments[f].consideration |-> Selling!Due(c, <<f, k>>)]

\* Seaport gives each item what the judgement has reckoned, which is rounded up.
LEMMA DuesAreExact ==
  ASSUME NEW c, ~Selling!MatchReverts(c), Selling!MatchAllowed(c),
         c.orders \in Seq(Selling!Order), c.fulfillments \in Seq(Selling!Fulfilment),
         NEW s, NEW b, NEW fn, NEW fm, Connected(c, s, b, fn, fm),
         NEW f \in DOMAIN c.fulfillments
  PROVE  /\ IsFiniteSet(DOMAIN c.fulfillments[f].consideration)
         /\ \A k \in DOMAIN c.fulfillments[f].consideration :
              /\ Dues(c, f)[k] \in Nat
              /\ Dues(c, f)[k] = Selling!Ceil(Selling!ItemAt(c, Selling!Target(c, <<f, k>>)).start,
                                             c.orders[Selling!Target(c, <<f, k>>)[1]])
         /\ Selling!TotalDue(c, f) = SumFunctionOnSet(Dues(c, f), DOMAIN c.fulfillments[f].consideration)
         /\ Selling!TotalDue(c, f) \in Nat
         /\ Selling!TotalDue(c, f) <= Selling!Has(c, f)
<1> DEFINE K == DOMAIN c.fulfillments[f].consideration
<1>1. Selling!Fulfils(c, f)
  BY DEF Selling!MatchReverts
<1>2. IsFiniteSet(K)
  <2>1. c.fulfillments[f] \in Selling!Fulfilment
    BY PlacesAreFinite
  <2>2. c.fulfillments[f].consideration \in Seq(Nat \X Nat)
    BY <2>1 DEF Selling!Fulfilment
  <2> QED
    BY <2>2, PlacesAreFinite
<1>3. ASSUME NEW k \in K
      PROVE  /\ Dues(c, f)[k] \in Nat
             /\ Dues(c, f)[k] = Selling!Ceil(Selling!ItemAt(c, Selling!Target(c, <<f, k>>)).start,
                                            c.orders[Selling!Target(c, <<f, k>>)[1]])
  <2> DEFINE at == Selling!Target(c, <<f, k>>)
             order == c.orders[at[1]]
             item == Selling!ItemAt(c, at)
  <2>0. PICK o \in DOMAIN c.orders : \E i \in DOMAIN c.orders[o].consideration : at = <<o, i>>
    BY DEF Connected
  <2>1. PICK i \in DOMAIN c.orders[o].consideration : at = <<o, i>>
    BY <2>0
  <2>2. order = c.orders[o] /\ item = c.orders[o].consideration[i]
    BY <2>1 DEF Selling!ItemAt
  <2>3. order.n \in Nat /\ order.d \in Nat \ {0} /\ item \in Selling!Item
    BY <2>2, MatchOrders
  <2>4. Selling!Exact(order, item)
    BY <1>1 DEF Selling!Fulfils
  <2>5. Dues(c, f)[k] = Selling!Due(c, <<f, k>>) /\ Selling!Due(c, <<f, k>>) = Selling!Share(order, item.start)
    BY DEF Dues, Selling!Due
  <2> HIDE DEF order, item, at
  <2>6. item.start \in Nat
    BY <2>3 DEF Selling!Item
  <2>7. Selling!Share(order, item.start) \in Nat
    BY <2>3, <2>6, ShareIsNat
  <2>8. Selling!Ceil(item.start, order) = Selling!Share(order, item.start)
    BY <2>3, <2>4, ExactShares
  <2> QED
    BY <2>5, <2>7, <2>8 DEF order, item, at
<1>4. Selling!TotalDue(c, f) = SumFunctionOnSet(Dues(c, f), K)
  <2>1. DOMAIN Dues(c, f) = K
    BY DEF Dues
  <2>2. Selling!TotalDue(c, f) = Selling!SumFunction(Dues(c, f))
    BY DEF Dues, Selling!TotalDue
  <2> QED
    BY <2>1, <2>2, SalesSumAll
<1>5. SumFunctionOnSet(Dues(c, f), K) \in Nat
  <2> HIDE DEF K
  <2> QED
    BY <1>2, <1>3, SumIsNat
<1> QED
  BY <1>1, <1>2, <1>3, <1>4, <1>5 DEF Selling!Fulfils

\* The buyer offers the value, and the payout is what the others leave of it.
MatchTerms(c, s, b, fn, fm, value, fee) ==
  /\ Selling!Has(c, fm) = value /\ value \in Nat
  /\ fee = SumFunctionOnSet(Dues(c, fm),
             {k \in DOMAIN c.fulfillments[fm].consideration :
                Selling!ItemAt(c, Selling!Target(c, <<fm, k>>)).to # Seller})
  /\ ~(fee > value)
  /\ Selling!MatchPayout(c).seller = value - fee

\* The judgement finds the payment and all who share it.
LEMMA MatchIsPriced ==
  ASSUME NEW c, Selling!MatchAllowed(c), ~Selling!MatchReverts(c),
         c.orders \in Seq(Selling!Order), c.fulfillments \in Seq(Selling!Fulfilment),
         c.value \in Nat, Selling!MatchPayout(c) # None,
         NEW s, NEW b, NEW fn, NEW fm, Connected(c, s, b, fn, fm)
  PROVE  \E fee : MatchTerms(c, s, b, fn, fm, c.value, fee)
<1> DEFINE K == DOMAIN c.fulfillments[fm].consideration
           S == c.orders[s]
           B == c.orders[b]
           offer == B.offer[1]
           value == c.value
           to(k) == Selling!ItemAt(c, Selling!Target(c, <<fm, k>>)).to
           other == {k \in K : to(k) # Seller}
           fee == SumFunctionOnSet(Dues(c, fm), other)
           paid == Selling!PaidBy(c, <<b, 1>>)
           rounded == [x \in paid |-> Selling!Ceil(Selling!ItemAt(c, Selling!Target(c, x)).start,
                                                  c.orders[Selling!Target(c, x)[1]])]
<1>1. /\ s \in DOMAIN c.orders /\ b \in DOMAIN c.orders /\ s # b /\ DOMAIN c.orders = {s, b}
      /\ fn \in DOMAIN c.fulfillments /\ fm \in DOMAIN c.fulfillments
      /\ DOMAIN c.fulfillments = {fn, fm}
      /\ Selling!Source(c, fn) = <<s, 1>> /\ Selling!Source(c, fm) = <<b, 1>>
      /\ \A f \in DOMAIN c.fulfillments : DOMAIN c.fulfillments[f].offer = {1}
      /\ \A k \in K : \E i \in DOMAIN S.consideration : Selling!Target(c, <<fm, k>>) = <<s, i>>
  BY DEF Connected
<1>2. /\ \A o \in DOMAIN c.orders :
           DOMAIN c.orders[o].offer = {1} /\ c.orders[o].n \in Nat /\ c.orders[o].d \in Nat \ {0}
      /\ offer \in Selling!Item /\ Selling!TrustedPayment(offer)
      /\ Selling!SelectedNft(c, S, S.offer[1], s - 1, 0, 0)
      /\ \A i \in DOMAIN S.consideration : Selling!TrustedPayment(S.consideration[i])
  BY <1>1, MatchOrders
<1>3. Selling!Money(S) = {}
  <2>1. S.offer[1].type \in {2, 3, 4, 5}
    BY <1>2 DEF Selling!SelectedNft, Selling!IsSelected
  <2>2. ~(S.offer[1].type <= 1)
    <3> DEFINE t == S.offer[1].type
    <3>1. t \in {2, 3, 4, 5}
      BY <2>1
    <3> HIDE DEF t
    <3>2. ~(t <= 1)
      BY <3>1
    <3> QED
      BY <3>2 DEF t
  <2> QED
    BY <1>1, <1>2, <2>2 DEF Selling!Money
<1>4. Selling!Money(B) = {1}
  <2>1. offer.type = 1
    BY <1>2 DEF Selling!TrustedPayment
  <2> QED
    BY <1>1, <1>2, <2>1 DEF Selling!Money
<1>5. Selling!Candidates(c) \subseteq {<<b, 1>>}
      /\ (Selling!Candidates(c) # {} => Selling!Floor(offer.start, B) = value)
  <2> SUFFICES ASSUME NEW x \in Selling!Candidates(c)
               PROVE  x = <<b, 1>> /\ Selling!Floor(offer.start, B) = value
    OBVIOUS
  <2>1. PICK o \in DOMAIN c.orders :
          \E i \in Selling!Money(c.orders[o]) :
            x = <<o, i>> /\ Selling!Floor(c.orders[o].offer[i].start, c.orders[o]) = value
    BY DEF Selling!Candidates
  <2>2. o = b
    BY <1>1, <1>3, <2>1
  <2> QED
    BY <1>4, <2>1, <2>2
<1> DEFINE pick == CHOOSE x \in Selling!Candidates(c) : TRUE
           paidHere == Selling!PaidBy(c, pick)
           feeHere == Selling!Part(c, paidHere, FALSE)
<1>6. /\ Selling!Cardinality(Selling!Candidates(c)) = 1
      /\ ~(feeHere > value) /\ Selling!MatchPayout(c) = Selling!PayoutOf(value, feeHere)
  BY DEF Selling!MatchPayout
<1>7. Selling!Candidates(c) = {<<b, 1>>}
  <2>1. Cardinality({}) = 0
    BY FS_EmptySet
  <2>2. Selling!Candidates(c) # {}
    <3> DEFINE found == Selling!Candidates(c)
    <3>1. Cardinality(found) = 1
      BY <1>6, SalesCount
    <3> HIDE DEF found
    <3>2. ASSUME found = {} PROVE FALSE
      <4>1. Cardinality(found) = 0
        BY <2>1, <3>2
      <4> QED
        BY <3>1, <4>1
    <3> QED
      BY <3>2 DEF found
  <2> QED
    BY <1>5, <2>2
<1>8. pick = <<b, 1>>
  BY <1>7
<1>9. Selling!Has(c, fm) = value
  <2>1. Selling!Fulfils(c, fm)
    BY <1>1 DEF Selling!MatchReverts
  <2>2. Selling!SourceOrder(c, fm) = B /\ Selling!SourceItem(c, fm) = offer
    BY <1>1 DEF Selling!SourceOrder, Selling!SourceItem
  <2>3. Selling!Exact(B, offer)
    BY <2>1, <2>2 DEF Selling!Fulfils
  <2>4. Selling!Floor(offer.start, B) = Selling!Share(B, offer.start)
    BY <1>1, <1>2, <2>3, ExactShares
  <2> QED
    BY <1>5, <1>7, <2>2, <2>4 DEF Selling!Has
<1>10. paid = Side(fm, K)
  <2>1. {f \in DOMAIN c.fulfillments : \E k \in DOMAIN c.fulfillments[f].offer :
           c.fulfillments[f].offer[k] = <<b, 1>>} = {fm}
    <3>1. \A f \in DOMAIN c.fulfillments : \A k \in DOMAIN c.fulfillments[f].offer :
            c.fulfillments[f].offer[k] = Selling!Source(c, f)
      BY <1>1 DEF Selling!Source
    <3>2. <<s, 1>> # <<b, 1>>
      BY <1>1
    <3>3. ASSUME NEW f \in DOMAIN c.fulfillments
          PROVE  (\E k \in DOMAIN c.fulfillments[f].offer : c.fulfillments[f].offer[k] = <<b, 1>>) <=> f = fm
      BY <1>1, <3>1, <3>2
    <3> QED
      BY <1>1, <3>3
  <2>2. \A k \in K : Selling!SameAsset(Selling!ItemAt(c, Selling!Target(c, <<fm, k>>)), offer)
    <3> SUFFICES ASSUME NEW k \in K
                 PROVE  Selling!SameAsset(Selling!ItemAt(c, Selling!Target(c, <<fm, k>>)), offer)
      OBVIOUS
    <3>1. PICK i \in DOMAIN S.consideration : Selling!Target(c, <<fm, k>>) = <<s, i>>
      BY <1>1
    <3>2. Selling!ItemAt(c, Selling!Target(c, <<fm, k>>)) = S.consideration[i]
      BY <3>1 DEF Selling!ItemAt
    <3> QED
      BY <1>2, <3>2 DEF Selling!SameAsset, Selling!TrustedPayment
  <2> DEFINE connected == {f \in DOMAIN c.fulfillments : \E k \in DOMAIN c.fulfillments[f].offer :
                             c.fulfillments[f].offer[k] = <<b, 1>>}
             part(f) == {<<f, k>> : k \in {k \in DOMAIN c.fulfillments[f].consideration :
                          Selling!SameAsset(Selling!ItemAt(c, Selling!Target(c, <<f, k>>)), offer)}}
  <2>3. paid = UNION {part(f) : f \in connected}
    BY DEF Selling!PaidBy
  <2>4. {k \in DOMAIN c.fulfillments[fm].consideration :
           Selling!SameAsset(Selling!ItemAt(c, Selling!Target(c, <<fm, k>>)), offer)} = K
    BY <2>2
  <2>5. paid = {<<fm, k>> : k \in K}
    <3>1. connected = {fm}
      BY <2>1
    <3>2. part(fm) = {<<fm, k>> : k \in K}
      BY <2>4
    <3> HIDE DEF connected, part, paid
    <3> QED
      BY <2>3, <3>1, <3>2
  <2> HIDE DEF paid, K
  <2>6. {<<fm, k>> : k \in K} = {fm} \X K
    OBVIOUS
  <2> QED
    BY <2>5, <2>6 DEF Side
<1>11. IsFiniteSet(K) /\ \A k \in K : Dues(c, fm)[k] \in Nat
  BY <1>1, DuesAreExact
<1>12. feeHere = fee
  <2>1. paidHere = paid
    BY <1>8
  <2>2. feeHere = SumFunctionOnSet(rounded, {x \in paid : Selling!ItemAt(c, Selling!Target(c, x)).to # Seller})
    <3>1. \A x \in paid : ((Selling!ItemAt(c, Selling!Target(c, x)).to = Seller) = FALSE)
                           <=> Selling!ItemAt(c, Selling!Target(c, x)).to # Seller
      OBVIOUS
    <3> QED
      BY <2>1, <3>1, SalesSum DEF Selling!Part
  <2>3. {x \in paid : Selling!ItemAt(c, Selling!Target(c, x)).to # Seller} = Side(fm, other)
    <3>1. ASSUME NEW x \in Side(fm, K)
          PROVE  Selling!ItemAt(c, Selling!Target(c, x)).to # Seller <=> x \in Side(fm, other)
      <4>1. PICK k \in K : x = <<fm, k>>
        BY DEF Side
      <4>2. x \in Side(fm, other) <=> k \in other
        <5> HIDE DEF other
        <5> QED
          BY <4>1 DEF Side
      <4>3. k \in other <=> Selling!ItemAt(c, Selling!Target(c, x)).to # Seller
        BY <4>1
      <4> QED
        BY <4>2, <4>3
    <3>2. Side(fm, other) \subseteq Side(fm, K)
      BY DEF Side
    <3> QED
      BY <1>10, <3>1, <3>2
  <2>4. \A k \in other : rounded[<<fm, k>>] = Dues(c, fm)[k] /\ Dues(c, fm)[k] \in Nat
    <3> SUFFICES ASSUME NEW k \in K PROVE rounded[<<fm, k>>] = Dues(c, fm)[k]
      BY <1>11
    <3>1. <<fm, k>> \in paid
      BY <1>10 DEF Side
    <3>2. Dues(c, fm)[k] = Selling!Ceil(Selling!ItemAt(c, Selling!Target(c, <<fm, k>>)).start,
                                       c.orders[Selling!Target(c, <<fm, k>>)[1]])
      BY <1>1, DuesAreExact
    <3> QED
      BY <3>1, <3>2
  <2>5. IsFiniteSet(other)
    <3>1. other \subseteq K
      OBVIOUS
    <3> HIDE DEF other, K
    <3> QED
      BY <1>11, <3>1, FS_Subset
  <2> HIDE DEF rounded, other, paid, feeHere
  <2>6. SumFunctionOnSet(rounded, Side(fm, other)) = SumFunctionOnSet(Dues(c, fm), other)
    BY <2>4, <2>5, SideSum
  <2> QED
    BY <2>2, <2>3, <2>6
<1>13. ~(fee > value) /\ Selling!MatchPayout(c).seller = value - fee
  <2> HIDE DEF fee, feeHere, value
  <2>1. Selling!PayoutOf(value, fee) # None
    BY <1>6, <1>12
  <2> QED
    BY <1>6, <1>12, <2>1, PayoutIsRest
<1>14. MatchTerms(c, s, b, fn, fm, value, fee)
  BY <1>9, <1>13 DEF MatchTerms
<1> QED
  BY <1>14

\* A fulfilment moves its source's asset to its targets, and what is left over to
\* the recipient of the call.
LEMMA MatchMoves ==
  ASSUME NEW c, c.fulfillments \in Seq(Selling!Fulfilment),
         NEW T, T = Selling!MatchTransfers(c)
  PROVE  /\ \A x \in DOMAIN T : \E f \in DOMAIN c.fulfillments :
              x = <<f, 0>> \/ \E k \in DOMAIN c.fulfillments[f].consideration : x = <<f, k>>
         /\ \A f \in DOMAIN c.fulfillments :
              /\ <<f, 0>> \in DOMAIN T
              /\ T[<<f, 0>>] = Selling!Transfer(Selling!SourceAsset(c, f),
                                 Selling!Has(c, f) - Selling!TotalDue(c, f),
                                 Selling!SourceOrder(c, f).offerer, c.recipient)
              /\ \A k \in DOMAIN c.fulfillments[f].consideration :
                   /\ k # 0
                   /\ <<f, k>> \in DOMAIN T
                   /\ T[<<f, k>>] = Selling!Transfer(Selling!SourceAsset(c, f), Dues(c, f)[k],
                                      Selling!SourceOrder(c, f).offerer,
                                      Selling!ItemAt(c, Selling!Target(c, <<f, k>>)).to)
<1> DEFINE F == DOMAIN c.fulfillments
           K(f) == DOMAIN c.fulfillments[f].consideration
           P(f) == 0 .. Len(c.fulfillments[f].consideration)
<1>1. \A f \in F : P(f) = {0} \cup K(f) /\ 0 \notin K(f)
  <2> SUFFICES ASSUME NEW f \in F PROVE P(f) = {0} \cup K(f) /\ 0 \notin K(f)
    OBVIOUS
  <2>1. c.fulfillments[f] \in Selling!Fulfilment
    BY PlacesAreFinite
  <2>2. c.fulfillments[f].consideration \in Seq(Nat \X Nat)
    BY <2>1 DEF Selling!Fulfilment
  <2> DEFINE n == Len(c.fulfillments[f].consideration)
  <2>3. n \in Nat /\ K(f) = 1 .. n
    BY <2>2
  <2> HIDE DEF n
  <2>4. 0 .. n = {0} \cup (1 .. n) /\ 0 \notin 1 .. n
    BY <2>3
  <2> QED
    BY <2>3, <2>4 DEF n
<1>2. DOMAIN T = UNION {{f} \X P(f) : f \in F}
  BY DEF Selling!MatchTransfers
<1>3. \A x \in DOMAIN T :
        T[x] = IF x[2] = 0
               THEN Selling!Transfer(Selling!SourceAsset(c, x[1]),
                      Selling!Has(c, x[1]) - Selling!TotalDue(c, x[1]),
                      Selling!SourceOrder(c, x[1]).offerer, c.recipient)
               ELSE Selling!Transfer(Selling!SourceAsset(c, x[1]), Selling!Due(c, x),
                      Selling!SourceOrder(c, x[1]).offerer, Selling!ItemAt(c, Selling!Target(c, x)).to)
  BY DEF Selling!MatchTransfers
<1>4. \A f \in F : /\ <<f, 0>> \in DOMAIN T
                   /\ \A k \in K(f) : <<f, k>> \in DOMAIN T /\ k # 0
  <2> SUFFICES ASSUME NEW f \in F
               PROVE  <<f, 0>> \in DOMAIN T /\ \A k \in K(f) : <<f, k>> \in DOMAIN T /\ k # 0
    OBVIOUS
  <2>1. 0 \in P(f) /\ \A k \in K(f) : k \in P(f) /\ k # 0
    BY <1>1
  <2> HIDE DEF P, K, F
  <2> QED
    BY <1>2, <2>1
<1>5. ASSUME NEW x \in DOMAIN T
      PROVE  \E f \in F : x = <<f, 0>> \/ \E k \in K(f) : x = <<f, k>>
  <2>1. PICK f \in F : x \in {f} \X P(f)
    BY <1>2
  <2> QED
    BY <1>1, <2>1
<1>6. ASSUME NEW f \in F
      PROVE  T[<<f, 0>>] = Selling!Transfer(Selling!SourceAsset(c, f),
                             Selling!Has(c, f) - Selling!TotalDue(c, f),
                             Selling!SourceOrder(c, f).offerer, c.recipient)
  <2> DEFINE x == <<f, 0>>
  <2>1. x \in DOMAIN T /\ x[1] = f /\ x[2] = 0
    BY <1>4
  <2> HIDE DEF x
  <2> QED
    BY <1>3, <2>1 DEF x
<1>7. ASSUME NEW f \in F, NEW k \in K(f)
      PROVE  T[<<f, k>>] = Selling!Transfer(Selling!SourceAsset(c, f), Dues(c, f)[k],
                             Selling!SourceOrder(c, f).offerer,
                             Selling!ItemAt(c, Selling!Target(c, <<f, k>>)).to)
  <2> DEFINE x == <<f, k>>
  <2>1. x \in DOMAIN T /\ x[1] = f /\ x[2] # 0
    BY <1>4
  <2>2. Dues(c, f)[k] = Selling!Due(c, x)
    BY DEF Dues
  <2> HIDE DEF x
  <2> QED
    BY <1>3, <2>1, <2>2 DEF x
<1> QED
  BY <1>4, <1>5, <1>6, <1>7

\* An allowed match that executes pays its payout for one unit of the token.
LEMMA MatchPays ==
  ASSUME NEW c, Selling!MatchAllowed(c), ~Selling!MatchReverts(c),
         c.orders \in Seq(Selling!Order), c.fulfillments \in Seq(Selling!Fulfilment),
         IsFiniteSet(c.resolvers), c.recipient = Seller, c.value \in Nat,
         Selling!MatchPayout(c) # None,
         NEW T, T = Selling!MatchTransfers(c)
  PROVE  GoodSale(T, Selling!MatchPayout(c).seller)
<1>1. PICK s, b, fn, fm : Connected(c, s, b, fn, fm)
  BY MatchIsConnected
<1>2. PICK fee : MatchTerms(c, s, b, fn, fm, c.value, fee)
  BY <1>1, MatchIsPriced
<1> DEFINE K(f) == DOMAIN c.fulfillments[f].consideration
           N == K(fn)
           M == K(fm)
           value == c.value
           to == [k \in M |-> Selling!ItemAt(c, Selling!Target(c, <<fm, k>>)).to]
           own == {k \in M : to[k] = Seller}
           other == {k \in M : to[k] # Seller}
           dues == Dues(c, fm)
           given == Dues(c, fn)
           S == c.orders[s]
           B == c.orders[b]
           PA == Selling!PaymentAsset
           piece == Selling!SourceAsset(c, fn)
           a == Selling!AmountsOf(T)
           left == value - Selling!TotalDue(c, fm)
           kept == 1 - Selling!TotalDue(c, fn)
<1>3. /\ S.offerer = Seller /\ B.offerer # Seller /\ fn # fm
      /\ fn \in DOMAIN c.fulfillments /\ fm \in DOMAIN c.fulfillments
      /\ DOMAIN c.fulfillments = {fn, fm} /\ s \in DOMAIN c.orders /\ b \in DOMAIN c.orders
      /\ Selling!Source(c, fn) = <<s, 1>> /\ Selling!Source(c, fm) = <<b, 1>>
  BY <1>1 DEF Connected
<1>4. /\ Selling!Has(c, fm) = value /\ value \in Nat
      /\ fee = SumFunctionOnSet(dues, other)
      /\ ~(fee > value) /\ Selling!MatchPayout(c).seller = value - fee
  BY <1>2 DEF MatchTerms
<1>5. /\ Selling!SourceOrder(c, fn) = S /\ Selling!SourceOrder(c, fm) = B
      /\ Selling!SourceItem(c, fn) = S.offer[1] /\ Selling!SourceItem(c, fm) = B.offer[1]
  BY <1>3 DEF Selling!SourceOrder, Selling!SourceItem
<1>6. /\ S.d \in Nat \ {0}
      /\ Selling!SelectedNft(c, S, S.offer[1], s - 1, 0, 0) /\ Selling!TrustedPayment(B.offer[1])
  BY <1>1, <1>3, MatchOrders
<1>7. Selling!Fulfils(c, fn) /\ Selling!Fulfils(c, fm)
  BY <1>3 DEF Selling!MatchReverts
<1>8. Selling!SourceAsset(c, fm) = PA
  BY <1>5, <1>6, PaymentIsAsset DEF Selling!SourceAsset
<1>9. piece.token = Contract /\ piece.id = TokenId /\ piece # PA
  <2>1. Selling!IsSelected(c, S.offer[1], s - 1, 0, 0)
    BY <1>6 DEF Selling!SelectedNft
  <2>2. Selling!Resolved(c, S.offer[1], s - 1, 0, 1 - 1)
        /\ piece = Selling!Asset(c, S.offer[1], s - 1, 0, 1 - 1)
    BY <1>3, <1>5, <1>7 DEF Selling!Fulfils, Selling!SourceResolved, Selling!SourceAsset
  <2> DEFINE item == S.offer[1]
             o == s - 1
  <2>3. PICK side, index : side = 0 /\ index = 0
    OBVIOUS
  <2>4. /\ Selling!IsSelected(c, item, o, side, index) /\ Selling!Resolved(c, item, o, side, index)
        /\ piece = Selling!Asset(c, item, o, side, index)
    <3>1. 1 - 1 = 0
      OBVIOUS
    <3> QED
      BY <2>1, <2>2, <2>3, <3>1
  <2> HIDE DEF item, o, piece
  <2>5. /\ Selling!Asset(c, item, o, side, index).token = Contract
        /\ Selling!Asset(c, item, o, side, index).id = TokenId
        /\ Selling!Asset(c, item, o, side, index) # PA
    BY <2>4, SelectedAsset
  <2> QED
    BY <2>4, <2>5
<1>10. Selling!Has(c, fn) = 1
  <2>1. S.offer[1].start * S.n = S.d
    BY <1>6 DEF Selling!SelectedNft
  <2>2. Selling!Share(S, S.offer[1].start) = 1
    BY <1>6, <2>1, OneIsShared
  <2> QED
    BY <1>5, <2>2 DEF Selling!Has
<1>11. /\ IsFiniteSet(M) /\ \A k \in M : dues[k] \in Nat
       /\ Selling!TotalDue(c, fm) = SumFunctionOnSet(dues, M) /\ SumFunctionOnSet(dues, M) \in Nat
       /\ SumFunctionOnSet(dues, M) <= value
  <2>1. /\ IsFiniteSet(M) /\ \A k \in M : dues[k] \in Nat
        /\ Selling!TotalDue(c, fm) = SumFunctionOnSet(dues, M) /\ Selling!TotalDue(c, fm) \in Nat
        /\ Selling!TotalDue(c, fm) <= Selling!Has(c, fm)
    BY <1>1, <1>3, DuesAreExact
  <2> QED
    BY <1>4, <2>1
<1>12. /\ IsFiniteSet(N) /\ \A k \in N : given[k] \in Nat
       /\ Selling!TotalDue(c, fn) = SumFunctionOnSet(given, N) /\ SumFunctionOnSet(given, N) \in Nat
       /\ SumFunctionOnSet(given, N) <= 1
  <2>1. /\ IsFiniteSet(N) /\ \A k \in N : given[k] \in Nat
        /\ Selling!TotalDue(c, fn) = SumFunctionOnSet(given, N) /\ Selling!TotalDue(c, fn) \in Nat
        /\ Selling!TotalDue(c, fn) <= Selling!Has(c, fn)
    BY <1>1, <1>3, DuesAreExact
  <2> QED
    BY <1>10, <2>1
<1>13. /\ \A x \in DOMAIN T : \/ x = <<fn, 0>> \/ \E k \in N : x = <<fn, k>>
                              \/ x = <<fm, 0>> \/ \E k \in M : x = <<fm, k>>
       /\ <<fn, 0>> \in DOMAIN T /\ T[<<fn, 0>>] = Selling!Transfer(piece, kept, Seller, Seller)
       /\ <<fm, 0>> \in DOMAIN T /\ T[<<fm, 0>>] = Selling!Transfer(PA, left, B.offerer, Seller)
       /\ \A k \in N : /\ k # 0 /\ <<fn, k>> \in DOMAIN T
                       /\ \E r : T[<<fn, k>>] = Selling!Transfer(piece, given[k], Seller, r)
       /\ \A k \in M : /\ k # 0 /\ <<fm, k>> \in DOMAIN T
                       /\ T[<<fm, k>>] = Selling!Transfer(PA, dues[k], B.offerer, to[k])
  <2> DEFINE F == DOMAIN c.fulfillments
  <2>1. /\ \A x \in DOMAIN T : \E f \in F : x = <<f, 0>> \/ \E k \in K(f) : x = <<f, k>>
        /\ \A f \in F :
             /\ <<f, 0>> \in DOMAIN T
             /\ T[<<f, 0>>] = Selling!Transfer(Selling!SourceAsset(c, f),
                                Selling!Has(c, f) - Selling!TotalDue(c, f),
                                Selling!SourceOrder(c, f).offerer, c.recipient)
             /\ \A k \in K(f) :
                  /\ k # 0
                  /\ <<f, k>> \in DOMAIN T
                  /\ T[<<f, k>>] = Selling!Transfer(Selling!SourceAsset(c, f), Dues(c, f)[k],
                                     Selling!SourceOrder(c, f).offerer,
                                     Selling!ItemAt(c, Selling!Target(c, <<f, k>>)).to)
    BY MatchMoves
  <2>2. F = {fn, fm} /\ fn \in F /\ fm \in F /\ S.offerer = Seller
    BY <1>3
  <2>3. /\ T[<<fn, 0>>] = Selling!Transfer(piece, kept, Seller, Seller)
        /\ T[<<fm, 0>>] = Selling!Transfer(PA, left, B.offerer, Seller)
    BY <1>4, <1>5, <1>8, <1>10, <2>1, <2>2
  <2>4. ASSUME NEW k \in N
        PROVE  /\ k # 0 /\ <<fn, k>> \in DOMAIN T
               /\ \E r : T[<<fn, k>>] = Selling!Transfer(piece, given[k], Seller, r)
    <3>1. T[<<fn, k>>] = Selling!Transfer(piece, given[k], Seller,
                           Selling!ItemAt(c, Selling!Target(c, <<fn, k>>)).to)
      BY <1>5, <2>1, <2>2
    <3> QED
      BY <2>1, <2>2, <3>1
  <2>5. ASSUME NEW k \in M
        PROVE  /\ k # 0 /\ <<fm, k>> \in DOMAIN T
               /\ T[<<fm, k>>] = Selling!Transfer(PA, dues[k], B.offerer, to[k])
    BY <1>5, <1>8, <2>1, <2>2
  <2>6. ASSUME NEW x \in DOMAIN T
        PROVE  \/ x = <<fn, 0>> \/ \E k \in N : x = <<fn, k>>
               \/ x = <<fm, 0>> \/ \E k \in M : x = <<fm, k>>
    BY <2>1, <2>2
  <2>7. <<fn, 0>> \in DOMAIN T /\ <<fm, 0>> \in DOMAIN T
    BY <2>1, <2>2
  <2> HIDE DEF F, N, M, dues, given, PA, piece, kept, left, B, to
  <2>8. \A x \in DOMAIN T : \/ x = <<fn, 0>> \/ \E k \in N : x = <<fn, k>>
                            \/ x = <<fm, 0>> \/ \E k \in M : x = <<fm, k>>
    BY <2>6
  <2>9. \A k \in N : /\ k # 0 /\ <<fn, k>> \in DOMAIN T
                    /\ \E r : T[<<fn, k>>] = Selling!Transfer(piece, given[k], Seller, r)
    BY <2>4
  <2>10. \A k \in M : /\ k # 0 /\ <<fm, k>> \in DOMAIN T
                     /\ T[<<fm, k>>] = Selling!Transfer(PA, dues[k], B.offerer, to[k])
    BY <2>5
  <2> QED
    BY <2>3, <2>7, <2>8, <2>9, <2>10
<1>14. kept \in Nat /\ left \in Nat
  BY <1>4, <1>11, <1>12
<1> HIDE DEF K, to, piece, a, kept, left, dues, given, PA
<1>15. /\ T[<<fn, 0>>].asset = piece /\ T[<<fn, 0>>].amount = kept
       /\ T[<<fn, 0>>].from = Seller /\ T[<<fn, 0>>].to = Seller
       /\ T[<<fm, 0>>].asset = PA /\ T[<<fm, 0>>].amount = left
       /\ T[<<fm, 0>>].from # Seller /\ T[<<fm, 0>>].to = Seller
  BY <1>3, <1>13 DEF Selling!Transfer
<1>16. ASSUME NEW k \in N
       PROVE  /\ <<fn, k>> \in DOMAIN T /\ k # 0
              /\ T[<<fn, k>>].asset = piece /\ T[<<fn, k>>].amount = given[k]
              /\ T[<<fn, k>>].from = Seller
  <2>1. PICK r : T[<<fn, k>>] = Selling!Transfer(piece, given[k], Seller, r)
    BY <1>13
  <2> QED
    BY <1>13, <2>1 DEF Selling!Transfer
<1>17. ASSUME NEW k \in M
       PROVE  /\ <<fm, k>> \in DOMAIN T /\ k # 0
              /\ T[<<fm, k>>].asset = PA /\ T[<<fm, k>>].amount = dues[k]
              /\ T[<<fm, k>>].from # Seller /\ T[<<fm, k>>].to = to[k]
  <2>1. T[<<fm, k>>] = Selling!Transfer(PA, dues[k], B.offerer, to[k])
    BY <1>13
  <2> QED
    BY <1>3, <1>13, <2>1 DEF Selling!Transfer
<1>18. \A x \in DOMAIN T : T[x].amount \in Nat /\ a[x] = T[x].amount
  <2>1. \A x \in DOMAIN T : T[x].amount \in Nat
    <3> SUFFICES ASSUME NEW x \in DOMAIN T PROVE T[x].amount \in Nat
      OBVIOUS
    <3>1. CASE x = <<fn, 0>> \/ x = <<fm, 0>>
      BY <1>14, <1>15, <3>1
    <3>2. CASE \E k \in N : x = <<fn, k>>
      BY <1>12, <1>16, <3>2
    <3>3. CASE \E k \in M : x = <<fm, k>>
      BY <1>11, <1>17, <3>3
    <3> QED
      BY <1>13, <3>1, <3>2, <3>3
  <2> QED
    BY <2>1 DEF Selling!AmountsOf, a
<1> DEFINE Z == {x \in DOMAIN T : T[x].from = Seller /\ T[x].asset # PA}
<1>19. Z = Side(fn, N) \cup {<<fn, 0>>}
  <2>1. ASSUME NEW x \in Z PROVE x \in Side(fn, N) \cup {<<fn, 0>>}
    <3>1. x \in DOMAIN T /\ T[x].from = Seller
      OBVIOUS
    <3>2. x # <<fm, 0>> /\ ~\E k \in M : x = <<fm, k>>
      BY <1>15, <1>17, <3>1
    <3>3. x = <<fn, 0>> \/ \E k \in N : x = <<fn, k>>
      BY <1>13, <3>1, <3>2
    <3> QED
      BY <3>3 DEF Side
  <2>2. <<fn, 0>> \in Z
    BY <1>9, <1>13, <1>15
  <2>3. ASSUME NEW x \in Side(fn, N) PROVE x \in Z
    <3>1. PICK k \in N : x = <<fn, k>>
      BY DEF Side
    <3> QED
      BY <1>9, <1>16, <3>1
  <2> HIDE DEF Z
  <2> QED
    BY <2>1, <2>2, <2>3
<1>20. SumFunctionOnSet(a, Z) <= 1 /\ \A x \in Z : T[x].asset.token = Contract /\ T[x].asset.id = TokenId
  <2>1. /\ \A k \in N : a[<<fn, k>>] = given[k] /\ given[k] \in Nat
        /\ a[<<fn, 0>>] = kept
    BY <1>12, <1>13, <1>15, <1>16, <1>18
  <2>2. <<fn, 0>> \notin Side(fn, N)
    BY <1>16 DEF Side
  <2>3. \A x \in Side(fn, N) \cup {<<fn, 0>>} : a[x] \in Nat
    BY <1>18, <1>19
  <2>4. IsFiniteSet(Side(fn, N))
    BY <1>12, FS_Singleton, FS_Product DEF Side
  <2>5. \A x \in Z : T[x].asset = piece
    <3>1. ASSUME NEW x \in Side(fn, N) PROVE T[x].asset = piece
      BY <1>16 DEF Side
    <3> QED
      BY <1>15, <1>19, <3>1
  <2> HIDE DEF Z, N
  <2>6. SumFunctionOnSet(a, Side(fn, N)) = SumFunctionOnSet(given, N)
    BY <1>12, <2>1, SideSum
  <2>7. SumFunctionOnSet(a, Side(fn, N) \cup {<<fn, 0>>}) = kept + SumFunctionOnSet(given, N)
    BY <2>1, <2>2, <2>3, <2>4, <2>6, SumAdds
  <2>8. kept + SumFunctionOnSet(given, N) = 1
    BY <1>12 DEF kept
  <2> QED
    BY <1>9, <1>19, <2>5, <2>7, <2>8
<1>21. Selling!GainOf(T, PA) = value - fee /\ value - fee \in Nat
  <2>1. Selling!Spent(T, PA) = {}
    <3> SUFFICES ASSUME NEW x \in Selling!Spent(T, PA) PROVE FALSE
      OBVIOUS
    <3>1. x \in DOMAIN T /\ T[x].from = Seller /\ T[x].asset = PA
      BY DEF Selling!Spent
    <3>2. x # <<fm, 0>> /\ ~\E k \in M : x = <<fm, k>>
      BY <1>15, <1>17, <3>1
    <3>3. x # <<fn, 0>> /\ ~\E k \in N : x = <<fn, k>>
      BY <1>9, <1>15, <1>16, <3>1
    <3> QED
      BY <1>13, <3>1, <3>2, <3>3
  <2>2. Selling!Received(T, PA) = Side(fm, own) \cup {<<fm, 0>>}
    <3>1. ASSUME NEW x \in Selling!Received(T, PA) PROVE x \in Side(fm, own) \cup {<<fm, 0>>}
      <4>1. x \in DOMAIN T /\ T[x].to = Seller /\ T[x].asset = PA
        BY DEF Selling!Received
      <4>2. x = <<fm, 0>> \/ \E k \in own : x = <<fm, k>>
        <5>1. x # <<fn, 0>> /\ ~\E k \in N : x = <<fn, k>>
          BY <1>9, <1>15, <1>16, <4>1
        <5>2. x = <<fm, 0>> \/ \E k \in M : x = <<fm, k>>
          BY <1>13, <4>1, <5>1
        <5>3. \A k \in M : x = <<fm, k>> => k \in own
          BY <1>17, <4>1
        <5> QED
          BY <5>2, <5>3
      <4> QED
        BY <4>2 DEF Side
    <3>2. ASSUME NEW x \in Side(fm, own) PROVE x \in Selling!Received(T, PA)
      <4>1. PICK k \in own : x = <<fm, k>>
        BY DEF Side
      <4> QED
        BY <1>17, <4>1 DEF Selling!Received
    <3>3. <<fm, 0>> \in Selling!Received(T, PA)
      BY <1>13, <1>15 DEF Selling!Received
    <3> QED
      BY <3>1, <3>2, <3>3
  <2>3. <<fm, 0>> \notin Side(fm, own)
    BY <1>17 DEF Side
  <2>4. /\ \A k \in own : a[<<fm, k>>] = dues[k] /\ dues[k] \in Nat
        /\ a[<<fm, 0>>] = left
    BY <1>11, <1>13, <1>15, <1>17, <1>18
  <2>5. \A x \in Side(fm, own) \cup {<<fm, 0>>} : a[x] \in Nat
    BY <1>18, <2>2 DEF Selling!Received
  <2>6. IsFiniteSet(own)
    <3>1. own \subseteq M
      OBVIOUS
    <3> HIDE DEF own, M
    <3> QED
      BY <1>11, <3>1, FS_Subset
  <2>7. IsFiniteSet(Side(fm, own))
    <3> HIDE DEF own
    <3> QED
      BY <2>6, FS_Singleton, FS_Product DEF Side
  <2>8. Selling!GainOf(T, PA) = SumFunctionOnSet(a, Side(fm, own) \cup {<<fm, 0>>}) - SumFunctionOnSet(a, {})
    BY <2>1, <2>2, SalesSum DEF Selling!GainOf, a
  <2>9. own \subseteq M /\ M \ own = other
    OBVIOUS
  <2> HIDE DEF own, other, M
  <2>10. SumFunctionOnSet(a, Side(fm, own)) = SumFunctionOnSet(dues, own)
    BY <2>4, <2>6, SideSum
  <2>11. SumFunctionOnSet(a, Side(fm, own) \cup {<<fm, 0>>}) = left + SumFunctionOnSet(dues, own)
    BY <2>3, <2>4, <2>5, <2>7, <2>10, SumAdds
  <2>12. /\ SumFunctionOnSet(dues, M) = SumFunctionOnSet(dues, own) + SumFunctionOnSet(dues, M \ own)
         /\ SumFunctionOnSet(dues, own) \in Nat /\ SumFunctionOnSet(dues, M \ own) \in Nat
    BY <1>11, <2>9, SumOfPart
  <2>13. left = value - SumFunctionOnSet(dues, M)
    BY <1>11 DEF left
  <2>14. SumFunctionOnSet(dues, M \ own) = fee
    BY <1>4, <2>9
  <2>15. SumFunctionOnSet(a, {}) = 0
    BY SumOfNone
  <2> HIDE DEF value
  <2> QED
    BY <1>4, <2>8, <2>11, <2>12, <2>13, <2>14, <2>15
<1>22. IsFiniteSet(DOMAIN T)
  <2>1. IsFiniteSet({0} \cup N) /\ IsFiniteSet({0} \cup M)
    BY <1>11, <1>12, FS_Singleton, FS_Union
  <2>2. IsFiniteSet(Side(fn, {0} \cup N)) /\ IsFiniteSet(Side(fm, {0} \cup M))
    BY <2>1, FS_Singleton, FS_Product DEF Side
  <2>3. DOMAIN T \subseteq Side(fn, {0} \cup N) \cup Side(fm, {0} \cup M)
    BY <1>13 DEF Side
  <2> QED
    BY <2>2, <2>3, FS_Union, FS_Subset
<1>23. \E x \in DOMAIN T : T[x].asset = PA
  BY <1>13, <1>15
<1> HIDE DEF value
<1>24. GoodSale(T, value - fee)
  BY <1>18, <1>20, <1>21, <1>22, <1>23, OneTokenForMoney DEF PA, a
<1> QED
  BY <1>4, <1>24

\* An accepted match that executes is a good sale.
LEMMA MatchSale ==
  ASSUME NEW p \in Selling!MatchCall, Selling!Policy(p), Selling!Encodable(p)
  PROVE  LET c == Selling!Encode(p)
         IN  /\ Selling!Conduits(c) \subseteq {"zero"}
             /\ \A T \in Selling!Outcomes(c) : ~Selling!Reverts(c) =>
                  GoodSale(T, Selling!Payout(p).seller)
<1> DEFINE c == Selling!Encode(p)
<1>1. /\ p.kind = "match" /\ p.orders \in Seq(Selling!Order) /\ p.value \in Nat
      /\ p.fulfillments \in Seq(Selling!Fulfilment) /\ IsFiniteSet(p.resolvers)
      /\ Selling!Encode(p) = Selling!EncodeMatch(p)
  BY SalesCount DEF Selling!MatchCall, Selling!Encode
<1>2. Selling!Cut(p.orders) = p.orders
  <2>1. \A o \in DOMAIN p.orders : Selling!Fits(p.orders[o].n) /\ Selling!Fits(p.orders[o].d)
    BY <1>1 DEF Selling!Encodable, Selling!Orders
  <2> QED
    BY <1>1, <2>1, SaleOrderIsKept
<1>3. /\ c.kind = "match" /\ c.orders = p.orders /\ c.fulfillments = p.fulfillments
      /\ c.resolvers = p.resolvers /\ c.value = p.value /\ c.recipient = Seller
  BY <1>1, <1>2 DEF Selling!EncodeMatch, Selling!MatchCall
<1> HIDE DEF c
<1>4. Selling!MatchAllowed(p) /\ Selling!MatchPayout(p) # None
      /\ Selling!Payout(p) = Selling!MatchPayout(p)
  BY <1>1 DEF Selling!Policy, Selling!Allowed, Selling!Payout
<1>5. Selling!Uses(c) = Selling!Uses(p) /\ Selling!ItemsOf(c) = Selling!ItemsOf(p)
      /\ \A use : Selling!Used(c, use) = Selling!Used(p, use)
  BY <1>3 DEF Selling!Uses, Selling!ItemsOf, Selling!Used
<1>6. Selling!EveryItemOnce(c) = Selling!EveryItemOnce(p)
  BY <1>5 DEF Selling!EveryItemOnce
<1>7. \A item, o, side, index : Selling!IsSelected(c, item, o, side, index)
                                  = Selling!IsSelected(p, item, o, side, index)
  BY <1>3 DEF Selling!IsSelected, Selling!ResolvedHere
<1>8. \A order, item, o, side, index : Selling!SelectedNft(c, order, item, o, side, index)
                                         = Selling!SelectedNft(p, order, item, o, side, index)
  BY <1>7 DEF Selling!SelectedNft
<1>9. Selling!MatchAllowed(c)
  BY <1>3, <1>4, <1>6, <1>8 DEF Selling!MatchAllowed
<1>10. Selling!MatchPayout(c) = Selling!MatchPayout(p)
  <2>1. Selling!MatchesToken(c) = Selling!MatchesToken(p)
    BY <1>3, <1>7 DEF Selling!MatchesToken
  <2>2. \A x : Selling!Target(c, x) = Selling!Target(p, x)
    BY <1>3 DEF Selling!Target
  <2>3. \A x : Selling!ItemAt(c, x) = Selling!ItemAt(p, x)
    BY <1>3 DEF Selling!ItemAt
  <2>4. Selling!Candidates(c) = Selling!Candidates(p)
    BY <1>3 DEF Selling!Candidates
  <2>5. \A x : Selling!PaidBy(c, x) = Selling!PaidBy(p, x)
    BY <1>3 DEF Selling!PaidBy, Selling!Target, Selling!ItemAt
  <2>6. \A paid, own : Selling!Part(c, paid, own) = Selling!Part(p, paid, own)
    BY <1>3 DEF Selling!Part, Selling!Target, Selling!ItemAt
  <2> DEFINE pick == CHOOSE x \in Selling!Candidates(p) : TRUE
             paid == Selling!PaidBy(p, pick)
             fee == Selling!Part(p, paid, FALSE)
  <2>7. (CHOOSE x \in Selling!Candidates(c) : TRUE) = pick
    BY <2>4
  <2>8. Selling!PaidBy(c, pick) = paid
    BY <2>5
  <2>9. Selling!Part(c, paid, FALSE) = fee /\ Selling!Part(c, paid, TRUE) = Selling!Part(p, paid, TRUE)
    BY <2>6
  <2>10. (\E x \in paid : ~Selling!Fixed(Selling!ItemAt(c, Selling!Target(c, x))))
           <=> \E x \in paid : ~Selling!Fixed(Selling!ItemAt(p, Selling!Target(p, x)))
    BY <2>2, <2>3
  <2> DEFINE none(q, z) ==
               \/ \E o \in DOMAIN q.orders : ~Selling!ValidFraction(q.orders[o])
               \/ \E o \in DOMAIN q.orders : \E i \in Selling!Money(q.orders[o]) :
                    ~Selling!Fixed(q.orders[o].offer[i])
               \/ ~Selling!MatchesToken(q)
               \/ Selling!Cardinality(Selling!Candidates(q)) # 1
               \/ z = {}
               \/ \E x \in z : ~Selling!Fixed(Selling!ItemAt(q, Selling!Target(q, x)))
               \/ Selling!Part(q, z, FALSE) > q.value
               \/ Selling!Part(q, z, TRUE) # q.value - Selling!Part(q, z, FALSE)
  <2>11. Selling!MatchPayout(p) = IF none(p, paid) THEN None ELSE Selling!PayoutOf(p.value, fee)
    BY DEF Selling!MatchPayout
  <2> DEFINE first == CHOOSE x \in Selling!Candidates(c) : TRUE
             here == Selling!PaidBy(c, first)
  <2>12. Selling!MatchPayout(c) = IF none(c, here) THEN None
                                  ELSE Selling!PayoutOf(c.value, Selling!Part(c, here, FALSE))
    BY DEF Selling!MatchPayout
  <2>13. here = paid
    BY <2>7, <2>8
  <2> HIDE DEF here, paid, pick, first
  <2>14. none(c, paid) <=> none(p, paid)
    BY <1>3, <2>1, <2>4, <2>9, <2>10
  <2> HIDE DEF none, fee
  <2>15. Selling!MatchPayout(c) = IF none(c, paid) THEN None
                                  ELSE Selling!PayoutOf(c.value, Selling!Part(c, paid, FALSE))
    BY <2>12, <2>13
  <2>16. Selling!MatchPayout(c) = IF none(c, paid) THEN None ELSE Selling!PayoutOf(p.value, fee)
    BY <1>3, <2>9, <2>15
  <2>17. CASE none(p, paid)
    BY <2>11, <2>14, <2>16, <2>17
  <2>18. CASE ~none(p, paid)
    BY <2>11, <2>14, <2>16, <2>18
  <2> QED
    BY <2>17, <2>18
<1>11. Selling!Conduits(c) \subseteq {"zero"}
  BY <1>3, <1>9 DEF Selling!Conduits, Selling!MatchAllowed
<1>12. ASSUME NEW T \in Selling!Outcomes(c), ~Selling!Reverts(c)
       PROVE  GoodSale(T, Selling!Payout(p).seller)
  <2>1. T = Selling!MatchTransfers(c) /\ ~Selling!MatchReverts(c)
    BY <1>3, <1>12 DEF Selling!Outcomes, Selling!Reverts
  <2>2. GoodSale(T, Selling!MatchPayout(c).seller)
    BY <1>1, <1>3, <1>4, <1>9, <1>10, <2>1, MatchPays
  <2> QED
    BY <1>4, <1>10, <2>2
<1> QED
  BY <1>11, <1>12 DEF c

-----------------------------------------------------------------------------
(* What a sale is judged to do is what it does. *)

\* What SaleIsAsJudged says of an executed call.
Sold ==
  /\ Selling!PaymentAsset \in DOMAIN gain
  /\ gain[Selling!PaymentAsset] = payout.seller
  /\ Selling!Conduits(call) \subseteq {"zero"}
  /\ \A asset \in DOMAIN gain :
       gain[asset] < 0 => /\ asset.token = Contract
                          /\ asset.id = TokenId
                          /\ gain[asset] = -1

\* The invariant: every stage of a sale follows from the judgement before it.
SaleInv ==
  judged = "sale" =>
    /\ payload \in SaleCalls
    /\ stage \in {"judge", "refused", "accepted", "executed", "reverted"}
    /\ stage = "refused" => ~(Selling!Policy(payload) /\ Selling!Encodable(payload))
    /\ stage = "accepted" => /\ Selling!Policy(payload)
                             /\ Selling!Encodable(payload)
                             /\ payout = Selling!Payout(payload)
                             /\ call = Selling!Encode(payload)
    /\ stage = "executed" => Sold

\* Whatever Seaport makes of an accepted call that does not revert is a good sale.
LEMMA SaleIsGood ==
  ASSUME SaleInv, judged = "sale", stage = "accepted", ~Selling!Reverts(call)
  PROVE  /\ Selling!Conduits(call) \subseteq {"zero"}
         /\ \A T \in Selling!Outcomes(call) : GoodSale(T, payout.seller)
<1> DEFINE p == payload
<1>1. /\ Selling!Policy(p) /\ Selling!Encodable(p) /\ call = Selling!Encode(p)
      /\ payout = Selling!Payout(p) /\ p \in Selling!Call
  BY CallsAssumption DEF SaleInv
<1> HIDE DEF p
<1>2. CASE p \in Selling!BasicCall
  BY <1>1, <1>2, BasicSale
<1>3. CASE p \in Selling!StandardCall
  BY <1>1, <1>3, StandardSale
<1>4. CASE p \in Selling!MatchCall
  BY <1>1, <1>4, MatchSale
<1> QED
  BY <1>1, <1>2, <1>3, <1>4 DEF Selling!Call

LEMMA SaleInit == InitMC => SaleInv
  BY DEF InitMC, SaleInv, Selling!Init

LEMMA SaleStep == SaleInv /\ [NextMC]_<<judged, calls, vars>> => SaleInv'
<1> SUFFICES ASSUME SaleInv, [NextMC]_<<judged, calls, vars>>, judged' = "sale"
             PROVE  SaleInv'
  BY DEF SaleInv
<1>1. judged = "sale" /\ (Selling!Next \/ UNCHANGED <<payload, stage, payout, call, gain>>)
  BY DEF NextMC, calls
<1>2. CASE UNCHANGED <<payload, stage, payout, call, gain>>
  BY <1>1, <1>2 DEF SaleInv, Sold
<1>3. CASE Selling!Judge
  BY <1>1, <1>3 DEF SaleInv, Selling!Judge
<1>4. CASE Selling!Execute
  <2>1. stage = "accepted" /\ UNCHANGED <<payload, payout, call>>
    BY <1>4 DEF Selling!Execute
  <2>2. CASE Selling!Reverts(call)
    BY <1>1, <1>4, <2>1, <2>2 DEF SaleInv, Selling!Execute
  <2>3. CASE ~Selling!Reverts(call)
    <3>1. PICK T \in Selling!Outcomes(call) : stage' = "executed" /\ gain' = Selling!Gain(T)
      BY <1>4, <2>3 DEF Selling!Execute
    <3>2. GoodSale(T, payout.seller) /\ Selling!Conduits(call) \subseteq {"zero"}
      BY <1>1, <2>1, <2>3, SaleIsGood
    <3>3. Sold'
      BY <2>1, <3>1, <3>2 DEF Sold, GoodSale
    <3> QED
      BY <1>1, <2>1, <3>1, <3>3 DEF SaleInv
  <2> QED
    BY <2>2, <2>3
<1> QED
  BY <1>1, <1>2, <1>3, <1>4 DEF Selling!Next

LEMMA SalesStayJudged == SpecMC => []SaleInv
  BY SaleInit, SaleStep, PTL DEF SpecMC

\* A sale that was accepted and executes pays the wallet exactly the payout it was
\* judged to pay, in the trusted token, takes at most one unit of the token for sale
\* and nothing else, and lets no conduit do it (fulfillment_payout,
\* validate_fulfillment_policy and encode_fulfillment, for every call of every kind).
THEOREM SalesAreAsJudged == SpecMC => []SaleIsAsJudged
<1>1. SaleInv => SaleIsAsJudged
  BY DEF SaleInv, SaleIsAsJudged, Selling!SaleIsAsJudged, Sold
<1> QED
  BY <1>1, SalesStayJudged, PTL

\* No ordinary offer is refused: an order for the whole of what the offer says, in
\* the trusted token, for one unit of the token and fees that leave something.
THEOREM OrdinaryOffersAreAccepted == SpecMC => []OrdinaryIsAccepted
<1>1. SaleInv => OrdinaryIsAccepted
  <2> SUFFICES ASSUME SaleInv, judged = "sale", stage = "refused", Selling!Ordinary(payload)
               PROVE  FALSE
    BY DEF OrdinaryIsAccepted, Selling!OrdinaryIsAccepted
  <2>1. payload \in Selling!Call /\ ~(Selling!Policy(payload) /\ Selling!Encodable(payload))
    BY CallsAssumption DEF SaleInv
  <2> QED
    BY <2>1, OrdinaryIsJudged
<1> QED
  BY <1>1, SalesStayJudged, PTL
=============================================================================
