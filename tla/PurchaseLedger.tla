--------------------------- MODULE PurchaseLedger ---------------------------
(***************************************************************************)
(* What one auto-buy session promises its owner, with no process, journal, *)
(* node or chain in sight: a session commits to at most one purchase at a  *)
(* time, never commits to more than the quantity or to gas the session's   *)
(* loss limit cannot pay, and gives up an order for good when it fails.    *)
(* AutoBuy.tla implements it with a journal on disk and a wallet lock.     *)
(***************************************************************************)
EXTENDS Integers

CONSTANTS
  None,          \* no purchase is open
  Orders,        \* marketplace orders
  Quantity,      \* number of NFTs to buy
  FailedGasCap,  \* limit of the gas lost in reverted purchases
  Reserves       \* gas that a purchase may reserve

VARIABLES
  open,     \* the purchase committed to, [order, nonce, reserve], or None
  bought,   \* number of purchases that succeeded
  lost,     \* gas lost in purchases that reverted
  dropped   \* orders given up

ledger == <<open, bought, lost, dropped>>

Purchase == [order : Orders, nonce : Nat, reserve : Reserves]

\* A new session, or one of an older version that still has a purchase open.
Init ==
  /\ open \in Purchase \cup {None}
  /\ open # None => Quantity > 0 /\ open.reserve <= FailedGasCap
  /\ bought = 0
  /\ lost = 0
  /\ dropped = {}

\* Committing reserves the gas that the purchase can lose.
Commit ==
  /\ open = None
  /\ bought < Quantity
  /\ open' \in Purchase
  /\ open'.order \notin dropped
  /\ lost + open'.reserve <= FailedGasCap
  /\ UNCHANGED <<bought, lost, dropped>>

Fill ==
  /\ open # None
  /\ open' = None
  /\ bought' = bought + 1
  /\ UNCHANGED <<lost, dropped>>

\* The purchase reverted and cost gas, or was never sent and cost nothing.
Fail ==
  /\ open # None
  /\ open' = None
  /\ lost' \in lost..(lost + open.reserve)
  /\ dropped' = dropped \cup {open.order}
  /\ UNCHANGED bought

Next == Commit \/ Fill \/ Fail

Spec == Init /\ [][Next]_ledger
=============================================================================
