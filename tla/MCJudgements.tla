------------------------------ MODULE MCJudgements --------------------------
(* The judgements that are made before something is signed: a call that sells, *)
(* a call that buys, or whether a sale pays.  One of them is made.             *)
EXTENDS MCProfit

CONSTANTS
  Contract, TokenId, Payment,  \* the collection, the token for sale, the offer's currency
  Seller, Buyer,               \* the wallet that sells, and the one that buys
  Width,                       \* bits of a fill fraction's parts
  SaleCalls, PurchaseCases     \* what is judged

VARIABLES
  judged,    \* "sale", "purchase" or "profit"
  payload,   \* the call that would sell
  case,      \* the listing, and the call that would buy
  stage, payout, selected, call, gain

LOCAL Sales == INSTANCE SaleCases
LOCAL Purchases == INSTANCE PurchaseCases

SaleCallsMC == Sales!SellingCalls
PurchaseCasesMC == Purchases!PurchaseCalls

Selling == INSTANCE Fulfillment WITH Payloads <- SaleCalls

Buying == INSTANCE Listing WITH Cases <- PurchaseCases

ASSUME CallsAssumption ==
  /\ Width \in Nat
  /\ 2^Width \in Nat \ {0}
  /\ SaleCalls \subseteq Selling!Call
  /\ PurchaseCases \subseteq [active : BOOLEAN, live : BOOLEAN, listed : Buying!Order,
                            call : Buying!Call]
  /\ None \notin [gross : Nat, fee : Nat, seller : Nat]

calls == <<payload, case, stage, payout, selected, call, gain>>

InitMC ==
  \/ /\ judged = "profit"
     /\ Init
     /\ payload = None /\ case = None /\ stage = "none"
     /\ payout = None /\ selected = None /\ call = None /\ gain = None
  \/ /\ Init
     /\ mint = CHOOSE m \in Mints : TRUE
     /\ \/ judged = "sale" /\ Selling!Init /\ case = None /\ selected = None
        \/ judged = "purchase" /\ Buying!Init /\ payload = None /\ payout = None

NextMC ==
  \/ judged = "sale" /\ Selling!Next /\ UNCHANGED <<judged, case, selected, vars>>
  \/ judged = "purchase" /\ Buying!Next /\ UNCHANGED <<judged, payload, payout, vars>>
  \/ judged = "profit" /\ Next /\ UNCHANGED <<judged, calls>>

SpecMC == InitMC /\ [][NextMC]_<<judged, calls, vars>>

SaleIsAsJudged == judged = "sale" => Selling!SaleIsAsJudged
OrdinaryIsAccepted == judged = "sale" => Selling!OrdinaryIsAccepted
PurchaseIsAsJudged == judged = "purchase" => Buying!PurchaseIsAsJudged
AcceptedExecutes == judged = "purchase" => Buying!AcceptedExecutes
=============================================================================
