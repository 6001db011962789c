------------------------------- MODULE Profit -------------------------------
(***************************************************************************)
(* The profit gate of a sale (src/src/pricing.rs, src/src/autosell.rs):    *)
(* prices are taken from the configuration, the environment or a feed, the *)
(* mint's cost is shared among the tokens of its batch, everything is      *)
(* converted to whole micro-dollars, and a token is sold when the gross    *)
(* offer covers the costs and the profit asked for.  The module's actions  *)
(* are the second judgement of evaluate_and_maybe_sell and the sale that   *)
(* follows it, for one token after another.                                *)
(***************************************************************************)
EXTENDS Amounts, Sequences, FiniteSetsExt

CONSTANTS
  Mints,      \* what was minted and what for (see Mint)
  Sources,    \* where prices come from (see Source)
  Offers,     \* offers for a token, and the gas of their sale (see Offer)
  Multiplier, \* gas.multiplier, in Parts of one
  Parts,      \* a power of two
  None        \* no price, no sale

VARIABLES
  mint,     \* the mint and the configuration
  token,    \* tokens that were judged
  prices,   \* the price snapshot of the token that is judged
  source,   \* where that snapshot comes from
  pending,  \* the sale that was judged profitable
  sales,    \* the sales that were mined
  skipped,  \* the offer that was judged unprofitable
  pc        \* "snapshot", "judge", "sale", "next"

vars == <<mint, token, prices, source, pending, sales, skipped, pc>>

Currencies == {"ETH", "WETH", "HYPE", "USDG"}

\* Zero is the price of a currency that was not asked for.
Prices == [Currencies -> Nat]

\* What a feed answers: a list of assets with their prices.
Answer == [ok : BOOLEAN, error : Nat, assets : Seq([id : Nat, symbol : STRING, price : Nat])]

\* A feed is asked about ETH, another about HYPE.
Source == [configured : [Currencies -> Nat \cup {None}], environment : [Currencies -> Nat \cup {None}],
           feed : [{"ETH", "HYPE"} -> Answer]]

Mint == [payment : Nat, currency : Currencies, native : {"ETH", "HYPE"}, gas : Nat,
         extra : Nat, tokens : Nat \ {0}, profit : Nat]

Offer == [currency : Currencies, gross : Nat, fee : Nat, seller : Nat, gas : Nat,
          feeCap : Nat, extra : Nat, approval : Nat]

Sale == [token : Nat, offer : Offer, prices : Prices, cost : Nat]

ASSUME ProfitAssumption ==
  /\ Scale \in Nat \ {0}
  /\ Fine \in Nat \ {0}
  /\ Multiplier \in Nat /\ Multiplier >= Parts
  /\ Parts \in Nat \ {0}
  /\ Mints \subseteq Mint
  /\ Sources \subseteq Source
  /\ Offers \subseteq Offer
  /\ None \notin Prices \cup Sale \cup Source \cup Nat

Init ==
  /\ mint \in Mints
  /\ token = 1
  /\ prices = None
  /\ source = None
  /\ pending = None
  /\ sales = {}
  /\ skipped = {}
  /\ pc = "snapshot"

-----------------------------------------------------------------------------
(* PriceOracle::snapshot *)

\* load_explicit_price: the configuration goes before the environment.
Explicit(from, currency) ==
  IF from.configured[currency] # None THEN from.configured[currency]
  ELSE from.environment[currency]

\* CoinMarketCap's number of an asset.
AssetId(currency) == IF currency = "ETH" THEN 1027 ELSE 32196

\* parse_coinmarketcap_asset_price
IsAsset(assets, currency, i) ==
  LET matches(j) == assets[j].id = AssetId(currency) \/ assets[j].symbol = currency
  IN  matches(i) /\ \A j \in 1..(i - 1) : ~matches(j)

\* Mutant: the first asset of the answer is taken for the one that was asked for.
FetchedFirst(answer, currency) ==
  IF answer.ok /\ answer.error = 0 /\ answer.assets # <<>> THEN answer.assets[1].price
  ELSE None

\* fetch_eth_price, fetch_hype_price
Fetched(answer, currency) ==
  IF /\ answer.ok
     /\ answer.error = 0
     /\ \E i \in DOMAIN answer.assets : IsAsset(answer.assets, currency, i)
  THEN answer.assets[CHOOSE i \in DOMAIN answer.assets :
                       IsAsset(answer.assets, currency, i)].price
  ELSE None

\* One price for ETH and WETH; the two explicit ones have to agree.
Ether(from) ==
  LET eth == Explicit(from, "ETH")
      weth == Explicit(from, "WETH")
  IN  IF eth = None /\ weth = None THEN Fetched(from.feed["ETH"], "ETH")
      ELSE IF eth = None THEN weth
      ELSE IF weth = None \/ ParsePrice(eth) = ParsePrice(weth) THEN eth
      ELSE None

\* What the price of a currency is read from; None when there is no price.
Text(from, currency) ==
  IF currency \in {"ETH", "WETH"} THEN Ether(from)
  ELSE IF Explicit(from, currency) # None THEN Explicit(from, currency)
  ELSE IF currency = "HYPE" THEN Fetched(from.feed["HYPE"], "HYPE")
  ELSE None

Known(text) == text # None /\ ParsePrice(text) # 0

Needed(offer) == {mint.currency, mint.native, offer.currency}

Aliases(requested) ==
  IF requested \cap {"ETH", "WETH"} = {} THEN requested ELSE requested \cup {"ETH", "WETH"}

\* One snapshot for one decision: any price that is missing fails it.
SnapshotOf(from, requested) ==
  IF \A c \in requested : Known(Text(from, c))
  THEN [c \in Currencies |-> IF c \in Aliases(requested) THEN ParsePrice(Text(from, c)) ELSE 0]
  ELSE None

-----------------------------------------------------------------------------
(* calculate_profitability *)

\* raw_mint_cost_basis, shared by run_after_mint; usd_cost_basis
PaymentUsd(p) == CostToUsd(ShareOf(mint.payment, mint.tokens), p[mint.currency])

MintGasUsd(p) == CostToUsd(ShareOf(mint.gas + mint.extra, mint.tokens), p[mint.native])

\* Mutant: the surcharges of the chain are left out.
BudgetWithoutExtra(offer) == ScaleUp(offer.gas, Multiplier, Parts) * offer.feeCap

\* transaction_gas_budget: the gas limit at the fee cap, and twice the surcharges
\* as they are now (ink_extra_fee_reserve).
Budget(offer) == ScaleUp(offer.gas, Multiplier, Parts) * offer.feeCap + 2 * offer.extra

\* What is paid over the gross offer counts as a cost.
FeeUsd(offer, p) ==
  AmountToUsd(offer.gross, p[offer.currency]) - AmountToUsd(offer.seller, p[offer.currency])

Costs(offer, p) ==
  PaymentUsd(p) + MintGasUsd(p) + FeeUsd(offer, p)
    + CostToUsd(Budget(offer), p[mint.native]) + CostToUsd(offer.approval, p[mint.native])

\* The payout is the offer's.
Consistent(offer) == offer.fee + offer.seller = offer.gross

\* Mutant: the fee is taken off twice.
ProfitableNet(offer, p) ==
  AmountToUsd(offer.seller, p[offer.currency]) >= Costs(offer, p) + mint.profit

Profitable(offer, p) ==
  AmountToUsd(offer.gross, p[offer.currency]) >= Costs(offer, p) + mint.profit

-----------------------------------------------------------------------------

Snapshot ==
  /\ pc = "snapshot"
  /\ \E from \in Sources :
       /\ source' = from
       /\ pc' = "judge"
  /\ UNCHANGED <<mint, token, prices, pending, sales, skipped>>

\* The snapshot is of the offer's currencies and fails when a price is missing.
Judge ==
  /\ pc = "judge"
  /\ \E offer \in Offers :
       /\ prices' = SnapshotOf(source, Needed(offer))
       /\ IF prices' # None /\ Consistent(offer)
          THEN IF Profitable(offer, prices')
               THEN /\ pending' = [token |-> token, offer |-> offer, prices |-> prices',
                                   cost |-> Budget(offer)]
                    /\ pc' = "sale"
                    /\ UNCHANGED skipped
               ELSE /\ skipped' = skipped \cup {[token |-> token, offer |-> offer,
                                                 prices |-> prices', cost |-> 0]}
                    /\ pc' = "next"
                    /\ UNCHANGED pending
          ELSE pc' = "next" /\ UNCHANGED <<pending, skipped>>
  /\ UNCHANGED <<mint, token, source, sales>>

\* The gas that is used is at most its limit, at a price of at most the cap, and the
\* surcharges have at most doubled.
Mined ==
  /\ pc = "sale"
  /\ LET offer == pending.offer
         limit == ScaleUp(offer.gas, Multiplier, Parts)
     IN  \E used \in {offer.gas, limit}, price \in {1, offer.feeCap},
            extra \in {0, 2 * offer.extra} :
           /\ price <= offer.feeCap
           /\ sales' = sales \cup {[pending EXCEPT !.cost = used * price + extra]}
  /\ pending' = None
  /\ pc' = "next"
  /\ UNCHANGED <<mint, token, prices, source, skipped>>

\* The sale fails or reverts.
NotMined ==
  /\ pc = "sale"
  /\ pending' = None
  /\ pc' = "next"
  /\ UNCHANGED <<mint, token, prices, source, sales, skipped>>

NextToken ==
  /\ pc = "next"
  /\ token < mint.tokens
  /\ token' = token + 1
  /\ pc' = "snapshot"
  /\ prices' = None
  /\ source' = None
  /\ skipped' = {}
  /\ UNCHANGED <<mint, pending, sales>>

Next == Snapshot \/ Judge \/ Mined \/ NotMined \/ NextToken

Spec == Init /\ [][Next]_vars

-----------------------------------------------------------------------------
(* Properties. *)

\* Every variable has its type, and no price that a decision needs is zero.
TypeOK ==
  /\ mint \in Mints
  /\ token \in 1..mint.tokens
  /\ prices # None => /\ prices \in Prices
                      /\ prices[mint.currency] > 0
                      /\ prices[mint.native] > 0
  /\ source \in Sources \cup {None}
  /\ pending # None => /\ pending \in Sale
                       /\ \A c \in Needed(pending.offer) : pending.prices[c] > 0
  /\ sales \subseteq Sale
  /\ skipped \subseteq Sale
  /\ pc \in {"snapshot", "judge", "sale", "next"}
  /\ pc = "judge" => source # None
  /\ pc = "sale" <=> pending # None

\* What a token costs, in Scale-ths of a micro-dollar and times the tokens of its
\* batch, with nothing rounded.
Exact(sale) ==
  mint.payment * sale.prices[mint.currency]
    + (mint.gas + mint.extra) * sale.prices[mint.native]
    + mint.tokens * ((sale.cost + sale.offer.approval) * sale.prices[mint.native])
    + mint.tokens * (Scale * mint.profit)

\* What it brings.
Proceeds(sale) ==
  mint.tokens * (sale.offer.seller * sale.prices[sale.offer.currency])

\* A token that was sold has brought, at the prices of its judgement and with
\* what its transactions really cost, its share of the mint, their cost and the
\* profit asked for: no rounding is in the seller's disfavour.
SoldAtProfit == \A sale \in sales : Proceeds(sale) >= Exact(sale)

\* An offer that is refused would have brought at most the rounding of the four
\* costs and the two shares more than was asked for.
NoProfitLost ==
  \A sale \in skipped :
    LET budgeted == [sale EXCEPT !.cost = Budget(sale.offer)]
    IN  Proceeds(budgeted) <
          Exact(budgeted) + 4 * (mint.tokens * Scale)
            + mint.tokens * (sale.prices[mint.currency] + sale.prices[mint.native])

\* The currencies that have one price.
Peers(c) == IF c \in {"ETH", "WETH"} THEN {"ETH", "WETH"} ELSE {c}

\* The price of an asset with the number or the symbol of the feed's currency, in an
\* answer of that feed that reports no error.
IsFeedPrice(currency, price) ==
  LET answer == source.feed[currency]
  IN  /\ answer.ok
      /\ answer.error = 0
      /\ \E i \in DOMAIN answer.assets :
           /\ answer.assets[i].id = AssetId(currency) \/ answer.assets[i].symbol = currency
           /\ price = ParsePrice(answer.assets[i].price)

\* ETH and WETH have one price. A price that is given explicitly, for either of them
\* or for another currency, is the price that counts. Without one, what counts comes
\* from the feed of the currency, the one of ETH also for WETH, and is the price of the
\* asset that was asked for; a stablecoin is never assumed to be worth a dollar.
PricesAreGiven ==
  prices # None =>
    \A c \in {c \in Currencies : prices[c] # 0} :
      /\ \A d \in Peers(c) :
           /\ prices[d] = prices[c]
           /\ Explicit(source, d) # None => prices[c] = ParsePrice(Explicit(source, d))
      /\ (\A d \in Peers(c) : Explicit(source, d) = None) =>
           /\ c # "USDG"
           /\ IsFeedPrice(IF c = "HYPE" THEN "HYPE" ELSE "ETH", prices[c])
=============================================================================
