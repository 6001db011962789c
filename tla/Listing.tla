------------------------------ MODULE Listing ------------------------------
(***************************************************************************)
(* Buying a listing (src/src/autobuy.rs): the listing is read from the     *)
(* signed order that OpenSea lists, and the call that OpenSea then returns *)
(* for it is validated before it is signed.  Calls are those of module     *)
(* Seaport; "value" is the native currency that goes with the call.        *)
(***************************************************************************)
EXTENDS Integers, Sequences, FiniteSets

CONSTANTS
  Cases,     \* listed orders, each with a call that is returned for it
  Contract,  \* config.contract_address
  Buyer,     \* the wallet
  Width,     \* bits of a fill fraction's numerator and denominator
  None       \* no listing, no amount, no call

VARIABLES
  case,      \* what OpenSea answers, and whether the time is between start and end of
             \* the call's order: [active, listed, call, live]
  stage,     \* "list", "skipped", "listed", "refused", "accepted", "executed" or "reverted"
  selected,  \* the listing
  call,      \* what is signed
  gain       \* what the wallet has more of each asset after the call

vars == <<case, stage, selected, call, gain>>

INSTANCE Seaport WITH Caller <- Buyer
INSTANCE Encoding WITH Wallet <- Buyer

-----------------------------------------------------------------------------

Fixed(item) == item.start = item.end

NativeItem(item) == item.type = 0 /\ item.token = "zero" /\ item.id = 0

\* Mutant: a fill that is not exact is rounded.
RoundedConsideration(items, n, d) ==
  IF \/ d = 0
     \/ items = <<>>
     \/ \E i \in DOMAIN items : ~NativeItem(items[i]) \/ ~Fixed(items[i])
  THEN None
  ELSE SumFunction([i \in DOMAIN items |-> (items[i].start * n) \div d])

\* native_consideration; None stands for every error.
NativeConsideration(items, n, d) ==
  IF \/ d = 0
     \/ items = <<>>
     \/ \E i \in DOMAIN items : \/ ~NativeItem(items[i])
                                \/ ~Fixed(items[i])
                                \/ (items[i].start * n) % d # 0
  THEN None
  ELSE SumFunction([i \in DOMAIN items |-> (items[i].start * n) \div d])

\* An ERC-721 token is one unit.
UnitsAllowed(offer) == offer.start # 0 /\ (offer.type = 2 => offer.start = 1)

\* parse_listing: the price of one unit, from the signed order.
Parse(active, order) ==
  LET offer == order.offer[1]
      value == NativeConsideration(order.consideration, 1, offer.start)
  IN  IF \/ ~active
         \/ order.offerer = Buyer
         \/ Len(order.offer) # 1
         \/ offer.type \notin {2, 3}
         \/ offer.token # Contract
         \/ ~Fixed(offer)
         \/ ~UnitsAllowed(offer)
         \/ value = None
      THEN None
      ELSE [id |-> offer.id, type |-> offer.type, value |-> value]

-----------------------------------------------------------------------------
(* validate_fulfillment *)

\* basicOrderType \div 4 is the route.
BasicTotal(p) ==
  IF \/ p.route # (IF selected.type = 2 THEN 0 ELSE 1)
     \/ p.considerationToken # "zero"
     \/ p.considerationId # 0
     \/ p.offerToken # Contract
     \/ p.offerId # selected.id
     \/ p.offerAmount # 1
  THEN None
  ELSE p.considerationAmount + SumFunction(AmountsOf(p.recipients))

\* Mutant: any fraction of the offer will do.
AnyFraction(offer, order) == TRUE

OneUnit(offer, order) == offer.start * order.n = order.d

StandardTotal(p) ==
  LET order == p.orders[1]
      offer == order.offer[1]
  IN  IF \/ p.resolvers # {}
         \/ order.n = 0
         \/ order.n > order.d
         \/ Len(order.offer) # 1
         \/ offer.token # Contract
         \/ offer.type # selected.type
         \/ offer.id # selected.id
         \/ ~Fixed(offer)
         \/ ~OneUnit(offer, order)
      THEN None
      ELSE NativeConsideration(order.consideration, order.n, order.d)

Total(p) ==
  CASE p.kind = "basic" -> BasicTotal(p)
    [] p.kind = "standard" -> StandardTotal(p)
    [] p.kind = "match" -> None

Offerer(p) == IF p.kind = "basic" THEN p.offerer ELSE p.orders[1].offerer

Valid(p) ==
  /\ p.target = "seaport"
  /\ Total(p) # None
  /\ Offerer(p) # Buyer
  /\ case.live
  /\ p.value = Total(p)

-----------------------------------------------------------------------------

Init ==
  /\ case \in Cases
  /\ stage = "list"
  /\ selected = None
  /\ call = None
  /\ gain = None

List ==
  /\ stage = "list"
  /\ selected' = Parse(case.active, case.listed)
  /\ stage' = IF selected' = None THEN "skipped" ELSE "listed"
  /\ UNCHANGED <<case, call, gain>>

Validate ==
  /\ stage = "listed"
  /\ IF Valid(case.call) /\ Encodable(case.call)
     THEN stage' = "accepted" /\ call' = Encode(case.call)
     ELSE stage' = "refused" /\ UNCHANGED call
  /\ UNCHANGED <<case, selected, gain>>

\* Seaport gives back what it was sent too much.
Execute ==
  /\ stage = "accepted"
  /\ IF Reverts(call)
     THEN stage' = "reverted" /\ UNCHANGED gain
     ELSE \E transfers \in Outcomes(call) :
            IF NativeDue(transfers) > call.value THEN stage' = "reverted" /\ UNCHANGED gain
            ELSE stage' = "executed" /\ gain' = Gain(transfers)
  /\ UNCHANGED <<case, selected, call>>

Next == List \/ Validate \/ Execute

Spec == Init /\ [][Next]_vars

-----------------------------------------------------------------------------
(* Properties. *)

Token == [type |-> selected.type, token |-> Contract, id |-> selected.id]

\* Every variable has its type: a listing is there from the moment it is read, and
\* an ERC-721 listing is of one unit.
TypeOK ==
  /\ case \in Cases
  /\ selected = None <=> stage \in {"list", "skipped"}
  /\ selected # None /\ selected.type = 2 => case.listed.offer[1].start = 1
  /\ call # None <=> stage \in {"accepted", "executed", "reverted"}
  /\ gain # None <=> stage = "executed"

\* The call is for the order that was listed.
Listed(p) ==
  /\ p.kind = "standard"
  /\ p.orders[1].offerer = case.listed.offerer
  /\ p.orders[1].offer = case.listed.offer
  /\ p.orders[1].consideration = case.listed.consideration

\* A purchase that executes brings one unit of the listed token, costs at most the
\* value that was judged, and takes nothing else from the wallet.  That value is
\* the price that was read from the listing.
PurchaseIsAsJudged ==
  /\ stage = "executed" =>
       /\ Token \in DOMAIN gain
       /\ gain[Token] = 1
       /\ \A asset \in DOMAIN gain :
            gain[asset] < 0 => asset.type = 0 /\ gain[asset] >= -call.value
  /\ stage = "accepted" /\ Listed(call) => call.value = selected.value

\* A proper call for one unit of the listed order.
Proper(p) ==
  /\ Listed(p)
  /\ p.target = "seaport"
  /\ case.live
  /\ p.resolvers = {}
  /\ p.value = selected.value
  /\ p.orders[1].n # 0
  /\ case.listed.offer[1].start * p.orders[1].n = p.orders[1].d
  /\ Encodable(p)

\* A proper call is not refused, and Seaport does not refuse what was accepted:
\* its fill is exact, and its value is what it needs.
AcceptedExecutes ==
  /\ stage = "refused" => ~Proper(case.call)
  /\ stage # "reverted"
=============================================================================
