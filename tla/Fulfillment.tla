---------------------------- MODULE Fulfillment ----------------------------
(***************************************************************************)
(* Accepting an offer (src/src/autosell.rs): what OpenSea returns for it   *)
(* is a call of Seaport with structured arguments, and the bot decides     *)
(* from these arguments what the call will pay and whether to sign it.     *)
(* The module has the judgement and the encoding as the code has them.     *)
(* Items, orders and calls are those of module Seaport, which has what     *)
(* Seaport does with the encoded call as the code relies on it.  JSON      *)
(* fields that are missing or malformed end the judgement with an error    *)
(* like any other refusal, and each argument is there under one name.      *)
(***************************************************************************)
EXTENDS Integers, Sequences, FiniteSets

CONSTANTS
  Payloads,  \* calls to judge, with the value of the offer they are for
  Contract,  \* the collection
  TokenId,   \* the token that is for sale
  Payment,   \* the trusted ERC-20 token of the offer's currency
  Seller,    \* the wallet
  Width,     \* bits of a fill fraction's numerator and denominator (120 in Seaport)
  None       \* no payout, no call, no gain

VARIABLES
  payload,  \* the call that is judged
  stage,    \* "judge", "refused", "accepted", "executed" or "reverted"
  payout,   \* what the judgement says that the call pays
  call,     \* what is signed
  gain      \* what the wallet has more of each asset after the call

vars == <<payload, stage, payout, call, gain>>

INSTANCE Seaport WITH Caller <- Seller
INSTANCE Encoding WITH Wallet <- Seller

-----------------------------------------------------------------------------
(* fulfillment_payout *)

\* Mutant: fees may not take everything.
PositivePayoutOf(gross, fee) ==
  IF fee >= gross THEN None ELSE [gross |-> gross, fee |-> fee, seller |-> gross - fee]

\* payout_from_amounts; None stands for every error.
PayoutOf(gross, fee) ==
  IF fee > gross THEN None ELSE [gross |-> gross, fee |-> fee, seller |-> gross - fee]

Fixed(item) == item.start = item.end

Floor(amount, order) == (amount * order.n) \div order.d

Ceil(amount, order) == (amount * order.n + (order.d - 1)) \div order.d

ValidFraction(order) == order.n > 0 /\ order.n <= order.d

\* Is the item of type 4 or 5 resolved to the token?
ResolvedHere(p, order, side, index) ==
  \E r \in p.resolvers : r = [order |-> order, side |-> side, index |-> index, id |-> TokenId]

\* An item that can be the selected NFT; order and index count from 0.
IsSelected(p, item, order, side, index) ==
  /\ item.token = Contract
  /\ \/ item.type \in {2, 3} /\ item.id = TokenId
     \/ item.type \in {4, 5} /\ ResolvedHere(p, order, side, index)

SameAsset(a, b) == a.type = b.type /\ a.token = b.token /\ a.id = b.id

BasicPayout(p) ==
  IF p.route \notin {4, 5} \/ p.considerationToken # Contract \/ p.considerationId # TokenId
  THEN None
  ELSE PayoutOf(p.offerAmount,
         SumFunctionOnSet(AmountsOf(p.recipients),
                          {i \in DOMAIN p.recipients : p.recipients[i].to # Seller}))

\* Indices of the offered items that are money.
Money(order) == {i \in DOMAIN order.offer : order.offer[i].type <= 1}

\* The consideration items in the currency of the offered item that go to others.
Fees(order, item) ==
  {i \in DOMAIN order.consideration :
     SameAsset(order.consideration[i], item) /\ order.consideration[i].to # Seller}

\* What each consideration item takes at most.
Rounded(order) ==
  [i \in DOMAIN order.consideration |-> Ceil(order.consideration[i].start, order)]

StandardPayout(p) ==
  LET order == p.orders[1]
      money == {order.offer[i] : i \in Money(order)}
      item == CHOOSE item \in money : TRUE
  IN  IF \/ ~ValidFraction(order)
         \/ Cardinality(Money(order)) # 1
         \/ ~Fixed(item)
         \/ \A i \in DOMAIN order.consideration :
              ~IsSelected(p, order.consideration[i], 0, 1, i - 1)
         \/ \E i \in Fees(order, item) : ~Fixed(order.consideration[i])
      THEN None
      ELSE PayoutOf(Floor(item.start, order), SumFunctionOnSet(Rounded(order), Fees(order, item)))

\* The offered items of a match that are worth what the offer says.
Candidates(p) ==
  UNION {{<<o, i>> : i \in {i \in Money(p.orders[o]) :
                              Floor(p.orders[o].offer[i].start, p.orders[o]) = p.value}} :
         o \in DOMAIN p.orders}

\* The components that are connected with the candidate and in its currency.
PaidBy(p, candidate) ==
  LET connected == {f \in DOMAIN p.fulfillments :
                      \E k \in DOMAIN p.fulfillments[f].offer :
                        p.fulfillments[f].offer[k] = candidate}
      item == p.orders[candidate[1]].offer[candidate[2]]
  IN  UNION {{<<f, k>> : k \in {k \in DOMAIN p.fulfillments[f].consideration :
                                 SameAsset(ItemAt(p, Target(p, <<f, k>>)), item)}} :
             f \in connected}

\* The sum over the components to the wallet, or to others.
Part(p, paid, own) ==
  SumFunctionOnSet([x \in paid |-> Ceil(ItemAt(p, Target(p, x)).start, p.orders[Target(p, x)[1]])],
                   {x \in paid : (ItemAt(p, Target(p, x)).to = Seller) = own})

\* validate_match_advanced_nft
MatchesToken(p) ==
  \E o \in DOMAIN p.orders :
    \/ \E i \in DOMAIN p.orders[o].offer :
         IsSelected(p, p.orders[o].offer[i], o - 1, 0, i - 1)
    \/ \E i \in DOMAIN p.orders[o].consideration :
         IsSelected(p, p.orders[o].consideration[i], o - 1, 1, i - 1)

MatchPayout(p) ==
  LET paid == PaidBy(p, CHOOSE c \in Candidates(p) : TRUE)
      fee == Part(p, paid, FALSE)
  IN  IF \/ \E o \in DOMAIN p.orders : ~ValidFraction(p.orders[o])
         \/ \E o \in DOMAIN p.orders : \E i \in Money(p.orders[o]) :
              ~Fixed(p.orders[o].offer[i])
         \/ ~MatchesToken(p)
         \/ Cardinality(Candidates(p)) # 1
         \/ paid = {}
         \/ \E x \in paid : ~Fixed(ItemAt(p, Target(p, x)))
         \/ fee > p.value
         \/ Part(p, paid, TRUE) # p.value - fee
      THEN None
      ELSE PayoutOf(p.value, fee)

-----------------------------------------------------------------------------
(* validate_fulfillment_policy *)

TrustedPayment(item) == item.type = 1 /\ item.token = Payment /\ item.id = 0

\* validate_selected_nft: one unit of the token for sale.
SelectedNft(p, order, item, o, side, index) ==
  /\ Fixed(item)
  /\ IsSelected(p, item, o, side, index)
  /\ item.start * order.n = order.d

BasicAllowed(p) ==
  /\ p.offerToken = Payment
  /\ p.offerId = 0
  /\ p.considerationAmount = 1
  /\ p.offerer # Seller

StandardAllowed(p) ==
  LET order == p.orders[1]
      nfts == {i \in DOMAIN order.consideration : ~TrustedPayment(order.consideration[i])}
  IN  /\ order.offerer # Seller
      /\ ValidFraction(order)
      /\ Len(order.offer) = 1
      /\ TrustedPayment(order.offer[1])
      /\ \A i \in nfts : SelectedNft(p, order, order.consideration[i], 0, 1, i - 1)
      /\ Cardinality(nfts) = 1

\* Every item takes part exactly once.
EveryItemOnce(p) ==
  LET item(use) == <<use[2], Used(p, use)[1], Used(p, use)[2]>>
  IN  /\ {item(use) : use \in Uses(p)} = ItemsOf(p)
      /\ Cardinality(Uses(p)) = Cardinality(ItemsOf(p))

\* validate_match_assets: the buyer's money for the wallet's token, and back.
MatchAllowed(p) ==
  LET Own == {o \in DOMAIN p.orders : p.orders[o].offerer = Seller}
      nft(o, item, side, index) == SelectedNft(p, p.orders[o], item, o - 1, side, index)
  IN  /\ Len(p.orders) = 2
      /\ Cardinality(Own) = 1
      /\ \A o \in DOMAIN p.orders :
           LET order == p.orders[o]
           IN  /\ ValidFraction(order)
               /\ Len(order.offer) = 1
               /\ order.consideration # <<>>
               /\ IF o \in Own
                  THEN /\ nft(o, order.offer[1], 0, 0)
                       /\ \A i \in DOMAIN order.consideration :
                            TrustedPayment(order.consideration[i])
                  ELSE /\ TrustedPayment(order.offer[1])
                       /\ Len(order.consideration) = 1
                       /\ nft(o, order.consideration[1], 1, 0)
      /\ \A f \in DOMAIN p.fulfillments :
           /\ Len(p.fulfillments[f].offer) = 1
           /\ p.fulfillments[f].consideration # <<>>
           /\ \A k \in DOMAIN p.fulfillments[f].consideration :
                p.fulfillments[f].consideration[k][1] # p.fulfillments[f].offer[1][1]
      /\ EveryItemOnce(p)
      /\ \A o \in Own : p.orders[o].conduit = "zero"

Payout(p) ==
  CASE p.kind = "basic" -> BasicPayout(p)
    [] p.kind = "standard" -> StandardPayout(p)
    [] p.kind = "match" -> MatchPayout(p)

Allowed(p) ==
  CASE p.kind = "basic" -> BasicAllowed(p)
    [] p.kind = "standard" -> StandardAllowed(p)
    [] p.kind = "match" -> MatchAllowed(p)

\* Zero-value call of Seaport on the right chain, and a payout that is the offer's.
Policy(p) ==
  /\ p.target = "seaport"
  /\ Allowed(p)
  /\ Payout(p) # None
  /\ Payout(p).gross = p.value

-----------------------------------------------------------------------------

Init ==
  /\ payload \in Payloads
  /\ stage = "judge"
  /\ payout = None
  /\ call = None
  /\ gain = None

\* evaluate_and_maybe_sell: policy, payout, calldata.
Judge ==
  /\ stage = "judge"
  /\ IF Policy(payload) /\ Encodable(payload)
     THEN stage' = "accepted" /\ payout' = Payout(payload) /\ call' = Encode(payload)
     ELSE stage' = "refused" /\ UNCHANGED <<payout, call>>
  /\ UNCHANGED <<payload, gain>>

Execute ==
  /\ stage = "accepted"
  /\ IF Reverts(call)
     THEN stage' = "reverted" /\ UNCHANGED gain
     ELSE \E transfers \in Outcomes(call) : stage' = "executed" /\ gain' = Gain(transfers)
  /\ UNCHANGED <<payload, payout, call>>

Next == Judge \/ Execute

Spec == Init /\ [][Next]_vars

-----------------------------------------------------------------------------
(* Properties. *)

PaymentAsset == [type |-> 1, token |-> Payment, id |-> 0]

\* Every variable has its type: a call that is accepted has a payout.
TypeOK ==
  /\ payload \in Payloads
  /\ stage \in {"judge", "refused", "accepted", "executed", "reverted"}
  /\ stage = "executed" <=> gain # None
  /\ stage \in {"accepted", "executed", "reverted"} <=> payout # None

\* Conduits that can take the wallet's token.
Conduits(c) ==
  IF c.kind = "match"
  THEN {c.orders[o].conduit : o \in {o \in DOMAIN c.orders : c.orders[o].offerer = Seller}}
  ELSE {c.conduit}

\* A call that was accepted and executes does what it was judged to do: it pays
\* the wallet the payout in the trusted token, takes at most one unit of the
\* token for sale, through no conduit, and nothing else.
SaleIsAsJudged ==
  stage = "executed" =>
    /\ PaymentAsset \in DOMAIN gain
    /\ gain[PaymentAsset] = payout.seller
    /\ Conduits(call) \subseteq {"zero"}
    /\ \A asset \in DOMAIN gain :
         gain[asset] < 0 => /\ asset.token = Contract
                            /\ asset.id = TokenId
                            /\ gain[asset] = -1

\* An order that offers the trusted token for the whole of what the offer says,
\* and asks for one unit of the token for sale and for fees that leave something.
Ordinary(p) ==
  LET order == p.orders[1]
      fee == SumFunctionOnSet([i \in DOMAIN order.consideration |-> order.consideration[i].start],
                              {i \in DOMAIN order.consideration : i > 1})
  IN  /\ p.kind = "standard"
      /\ p.target = "seaport"
      /\ order.offerer # Seller
      /\ order.n = order.d
      /\ order.n # 0
      /\ Encodable(p)
      /\ Len(order.offer) = 1
      /\ SameAsset(order.offer[1], PaymentAsset)
      /\ order.offer[1].start = p.value
      /\ \A item \in {order.offer[1]} \cup
            {order.consideration[i] : i \in DOMAIN order.consideration} : Fixed(item)
      /\ order.consideration # <<>>
      /\ SameAsset(order.consideration[1], [type |-> 2, token |-> Contract, id |-> TokenId])
      /\ order.consideration[1].start = 1
      /\ \A i \in DOMAIN order.consideration :
           i > 1 => SameAsset(order.consideration[i], PaymentAsset)
      /\ fee <= p.value

\* The judgement refuses no ordinary offer.
OrdinaryIsAccepted == stage = "refused" => ~Ordinary(payload)
=============================================================================
