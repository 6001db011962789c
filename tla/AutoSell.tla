------------------------------ MODULE AutoSell ------------------------------
(***************************************************************************)
(* Selling what a mint has brought (src/src/autosell.rs): one run takes    *)
(* the minted tokens one by one, waits for an offer, judges it, approves   *)
(* Seaport when it has to, judges the offer of that moment again and sells *)
(* to it.  The wallet lock is taken for each token, after the first        *)
(* judgement, and given back when the token is done with.                  *)
(*                                                                         *)
(* What OpenSea, the oracle and the fee estimates say is a choice at every *)
(* read: an offer that is sold elsewhere, a price that moves and a fee     *)
(* that rises are different answers to a later read.  Money is counted in  *)
(* units of the native currency's value; Amounts.tla has the rounding.     *)
(***************************************************************************)
EXTENDS Integers, FiniteSets

CONSTANTS
  Tokens,           \* token ids that the mint's receipt shows
  None,             \* no token, no transaction, no receipt
  Payouts,          \* what an offer's fulfilment pays the seller, in its currency
  Prices,           \* prices that the oracle can give for that currency
  Gases,            \* worst-case gas costs that a request can be quoted
  Share,            \* what one token of the mint has cost, payment and gas
  MinProfit,        \* config.auto_sell.min_profit_usd
  GasCap,           \* config.auto_sell.max_sell_gas_cost_native
  Approved,         \* the wallet had approved Seaport before the run
  RequireUsdPrice,  \* config.auto_sell.require_usd_price
  Confirmations,    \* config.confirmations
  NonceSlack,       \* how far a pending-nonce read can be from the account's
  MaxForks,         \* bound on reorganisations
  MaxForeign        \* bound on the nonces that other processes take

ASSUME ConstantsAssumption ==
  /\ None \notin Tokens
  /\ Payouts \subseteq Nat
  /\ Prices \subseteq Nat
  /\ Gases \subseteq Nat \ {0}
  /\ Share \in Nat
  /\ MinProfit \in Nat
  /\ GasCap \in Nat
  /\ Approved \in BOOLEAN
  /\ RequireUsdPrice \in BOOLEAN
  /\ Confirmations \in Nat \ {0}
  /\ NonceSlack \in Nat
  /\ MaxForks \in Nat
  /\ MaxForeign \in Nat

VARIABLES
  lock,     \* who holds the wallet lock: "run", "other" or "free"
  run,      \* where the run is and what it has in memory
  network,  \* its transactions that some node holds or may still be handed
  chain,    \* receipts of its transactions
  head,     \* height of the newest block
  forks,    \* number of reorganisations so far
  nonce     \* the account's nonce on chain

vars == <<lock, run, network, chain, head, forks, nonce>>
environment == <<network, chain, head, forks, nonce>>

\* "price" is history: the price that the sale was judged with.
Tx == [kind : {"approve", "sale"}, token : Tokens, nonce : Nat, gas : Gases,
       pays : Nat, price : Nat]

Receipt == [tx : Tx, height : Nat, fork : Nat, ok : BOOLEAN, cost : Nat]

ASSUME NoneAssumption == None \notin Tx \cup Receipt

Sending == {"approve", "send"}
Waiting == {"watch", "confirm", "recheck", "settle"}
Ended == {"summary", "error", "unknown", "killed"}
PCs == {"next", "poll", "quote", "lock", "nonce", "reread", "requote"}
         \cup Sending \cup Waiting \cup Ended

Run == [pc : PCs, todo : SUBSET Tokens, sold : SUBSET Tokens, skipped : SUBSET Tokens,
        token : Tokens \cup {None}, pays : Nat, latest : Nat, approvalGas : Nat,
        paid : Nat, nonce : Nat, tx : Tx \cup {None}, landed : BOOLEAN, seen : Receipt \cup {None}]

\* run_after_mint
Init ==
  /\ lock = "free"
  /\ run = [pc |-> "next", todo |-> Tokens, sold |-> {}, skipped |-> {}, token |-> None,
            pays |-> 0, latest |-> 0, approvalGas |-> 0, paid |-> 0, nonce |-> 0,
            tx |-> None, landed |-> FALSE, seen |-> None]
  /\ network = {}
  /\ chain = {}
  /\ head = 0
  /\ forks = 0
  /\ nonce = 0

-----------------------------------------------------------------------------
(* What is judged. *)

\* Mutant: the approval's cost is left out.
ProfitableWithoutApproval(pays, price, gas, approvalCost) ==
  pays * price >= Share + gas + MinProfit

\* calculate_profitability: the gross offer covers the mint, the fees, the gas
\* and the profit asked for; gross less fees is what the seller is paid.
Profitable(pays, price, gas, approvalCost) ==
  pays * price >= Share + gas + approvalCost + MinProfit

WithinCap(gas) == gas <= GasCap

\* evaluate_and_maybe_sell, before the lock.
Verdict(pays, price, gas, approvalCost) ==
  IF Profitable(pays, price, gas, approvalCost) /\ WithinCap(gas) THEN "sell" ELSE "skip"

\* wallet_owns_token: an ERC-1155 contract does not answer ownerOf.
Owns(owner, balance) == IF owner # None THEN owner = "wallet" ELSE balance > 0

\* Mutant: the cap is not looked at.
DryRunUncapped(active, owns, pays, price, gas, approvalCost) ==
  IF ~active \/ ~owns THEN "error"
  ELSE IF Profitable(pays, price, gas, approvalCost) THEN "would sell" ELSE "would skip"

\* simulate_auto_sell
DryRun(active, owns, pays, price, gas, approvalCost) ==
  IF ~active \/ ~owns \/ ~WithinCap(gas) THEN "error"
  ELSE IF Profitable(pays, price, gas, approvalCost) THEN "would sell" ELSE "would skip"

-----------------------------------------------------------------------------
(* The batch. *)

\* The lock is given back when evaluate_and_maybe_sell returns.
Return(new) ==
  /\ run' = [new EXCEPT !.token = None, !.pays = 0, !.latest = 0, !.approvalGas = 0,
                        !.paid = 0, !.nonce = 0, !.tx = None, !.landed = FALSE,
                        !.seen = None]
  /\ lock' = IF lock = "run" THEN "free" ELSE lock
  /\ UNCHANGED environment

Skipped == [run EXCEPT !.pc = "next", !.skipped = @ \cup {run.token}]

Skip == Return(Skipped)

Sell == Return([run EXCEPT !.pc = "next", !.sold = @ \cup {run.token}])

\* Any error but an unknown outcome.
Raise == Return(IF RequireUsdPrice THEN [run EXCEPT !.pc = "error"] ELSE Skipped)

\* Mutant: an unknown outcome is an error like the others.
UnknownIsSkipped == Return(Skipped)

Unknown == Return([run EXCEPT !.pc = "unknown"])

Step(new) ==
  /\ run' = new
  /\ UNCHANGED <<lock, environment>>

NextToken ==
  /\ run.pc = "next"
  /\ \E token \in run.todo :
       Step([run EXCEPT !.pc = "poll", !.token = token, !.todo = @ \ {token}])

Summarise ==
  /\ run.pc = "next"
  /\ run.todo = {}
  /\ Step([run EXCEPT !.pc = "summary"])

-----------------------------------------------------------------------------
(* sell_one, and evaluate_and_maybe_sell until the lock. *)

FindOffer ==
  /\ run.pc = "poll"
  /\ \E pays \in Payouts : Step([run EXCEPT !.pc = "quote", !.pays = pays])

\* There is no active offer, and the deadline has passed.
NoOffer ==
  /\ run.pc = "poll"
  /\ Skip

Deep(receipt) == head >= receipt.height + (Confirmations - 1)

\* isApprovedForAll at the latest block.
IsApproved == Approved \/ \E receipt \in chain : receipt.tx.kind = "approve" /\ receipt.ok

\* Before Seaport is approved the sale's gas is a default, and the approval's is
\* an estimate.
Quote ==
  /\ run.pc = "quote"
  /\ \E price \in Prices, gas \in Gases,
        approvalGas \in IF IsApproved THEN {0} ELSE Gases :
       IF Verdict(run.pays, price, gas, approvalGas) = "sell"
       THEN Step([run EXCEPT !.pc = "lock", !.approvalGas = approvalGas])
       ELSE Skip

\* A lookup, a validation or an estimate fails, or the offer is gone at the
\* second lookup.
ReadFails ==
  /\ run.pc \in {"poll", "quote", "nonce", "reread", "requote"}
  /\ Raise

Acquire ==
  /\ run.pc = "lock"
  /\ lock = "free"
  /\ lock' = "run"
  /\ run' = [run EXCEPT !.pc = "nonce"]
  /\ UNCHANGED environment

-----------------------------------------------------------------------------
(* The approval and the sale, under the lock. *)

NonceReads == ((nonce - NonceSlack)..(nonce + NonceSlack)) \cap Nat

Approval(n) == [kind |-> "approve", token |-> run.token, nonce |-> n,
                gas |-> run.approvalGas, pays |-> 0, price |-> 0]

\* preload_nonce, before the approval and again after it.
ReadNonce ==
  /\ run.pc = "nonce"
  /\ \E n \in NonceReads :
       Step(IF run.approvalGas > 0
            THEN [run EXCEPT !.pc = "approve", !.tx = Approval(n)]
            ELSE [run EXCEPT !.pc = "reread", !.nonce = n])

\* The offer may have been consumed while the approval was mined.
RereadOffer ==
  /\ run.pc = "reread"
  /\ \/ \E pays \in Payouts : Step([run EXCEPT !.pc = "requote", !.latest = pays])
     \/ Skip

Sale(gas, price) == [kind |-> "sale", token |-> run.token, nonce |-> run.nonce,
                     gas |-> gas, pays |-> run.latest, price |-> price]

\* Gas and every price are read again, and the approval counts as what it cost.
Requote ==
  /\ run.pc = "requote"
  /\ \E price \in Prices, gas \in Gases :
       IF WithinCap(gas) /\ Profitable(run.latest, price, gas, run.paid)
       THEN Step([run EXCEPT !.pc = "send", !.tx = Sale(gas, price)])
       ELSE Skip

\* An endpoint takes the transaction; the sender need not hear of it.
Land ==
  /\ run.pc \in Sending
  /\ WithinCap(run.tx.gas)
  /\ run.tx.nonce >= nonce
  /\ network' = network \cup {run.tx}
  /\ run' = [run EXCEPT !.landed = TRUE]
  /\ UNCHANGED <<lock, chain, head, forks, nonce>>

Accepted ==
  /\ run.pc \in Sending
  /\ run.landed
  /\ Step([run EXCEPT !.pc = "watch", !.landed = FALSE])

\* Over the cap, not enough balance, or rejected by every endpoint.
SendFails ==
  /\ run.pc \in Sending
  /\ ~run.landed
  /\ Raise

\* No endpoint has acknowledged it.
SendUnknown ==
  /\ run.pc \in Sending
  /\ Unknown

ReceiptsOf(tx) == {receipt \in chain : receipt.tx = tx}

FindReceipt ==
  /\ run.pc = "watch"
  /\ \E receipt \in ReceiptsOf(run.tx) :
       Step([run EXCEPT !.seen = receipt,
                        !.pc = IF Confirmations <= 1 THEN "settle" ELSE "confirm"])

\* Mutant: the receipt found first will do.
NoWait ==
  /\ run.pc = "confirm"
  /\ Step([run EXCEPT !.pc = "settle"])

\* The head is read; until it is deep enough the receipt is looked up again.
CheckDepth ==
  /\ run.pc = "confirm"
  /\ Step([run EXCEPT !.pc = IF Deep(run.seen) THEN "recheck" ELSE "watch"])

Revalidate ==
  /\ run.pc = "recheck"
  /\ \E receipt \in ReceiptsOf(run.tx) :
       /\ receipt.height = run.seen.height
       /\ receipt.fork = run.seen.fork
       /\ Step([run EXCEPT !.seen = receipt, !.pc = "settle"])

\* A read fails, or the receipt is gone or in another block.
Resume ==
  /\ run.pc \in {"confirm", "recheck"}
  /\ Step([run EXCEPT !.pc = "watch"])

\* Mutant: the deadline covers each lookup, not the whole wait.
TimeOutOfLookup ==
  /\ run.pc = "watch"
  /\ Unknown

\* receipt_timeout_seconds have passed, or ctrl-C.
TimeOut ==
  /\ run.pc \in {"watch", "confirm", "recheck"}
  /\ Unknown

ApprovalMined ==
  /\ run.pc = "settle"
  /\ run.tx.kind = "approve"
  /\ run.seen.ok
  /\ Step([run EXCEPT !.pc = "nonce", !.approvalGas = 0, !.paid = run.seen.cost,
                      !.tx = None, !.seen = None])

SaleMined ==
  /\ run.pc = "settle"
  /\ run.tx.kind = "sale"
  /\ run.seen.ok
  /\ Sell

Reverted ==
  /\ run.pc = "settle"
  /\ ~run.seen.ok
  /\ Raise

Kill ==
  /\ run.pc \notin Ended
  /\ Return([run EXCEPT !.pc = "killed"])

-----------------------------------------------------------------------------
(* The chain, the mempool and the other processes of the wallet. *)

\* A transaction costs what it was quoted at most.  A sale needs the approval and
\* an order that nobody else has filled; an approval that has run out of gas, and
\* a sale whose order is filled, revert.
Mine(tx) ==
  /\ tx \in network
  /\ tx.nonce = nonce
  /\ \E ok \in IF tx.kind = "sale" /\ ~IsApproved THEN {FALSE} ELSE BOOLEAN,
        cost \in 1..tx.gas :
       chain' = chain \cup {[tx |-> tx, height |-> head + 1, fork |-> forks,
                             ok |-> ok, cost |-> cost]}
  /\ network' = network \ {tx}
  /\ nonce' = nonce + 1
  /\ head' = head + 1
  /\ UNCHANGED <<lock, run, forks>>

NewBlock ==
  /\ \E receipt \in chain : ~Deep(receipt)
  /\ head' = head + 1
  /\ UNCHANGED <<lock, run, network, chain, forks, nonce>>

\* A fork drops the last transaction, to the mempool or for good.
Reorganise(receipt) ==
  /\ forks < MaxForks
  /\ receipt \in chain
  /\ ~Deep(receipt)
  /\ chain' = chain \ {receipt}
  /\ network' \in {network, network \cup {receipt.tx}}
  /\ nonce' = receipt.tx.nonce
  /\ head' = head + 1
  /\ forks' = forks + 1
  /\ UNCHANGED <<lock, run>>

Forget(tx) ==
  /\ tx \in network
  /\ network' = network \ {tx}
  /\ UNCHANGED <<lock, run, chain, head, forks, nonce>>

OtherAcquires ==
  /\ lock = "free"
  /\ nonce < MaxForeign
  /\ lock' = "other"
  /\ UNCHANGED <<run, environment>>

\* Another process of the wallet, behind the same lock, has one mined.
OtherSpends ==
  /\ lock = "other"
  /\ nonce' = nonce + 1
  /\ lock' = "free"
  /\ UNCHANGED <<run, network, chain, head, forks>>

-----------------------------------------------------------------------------

Batch == NextToken \/ Summarise
Judge == FindOffer \/ NoOffer \/ Quote \/ RereadOffer \/ Requote \/ ReadFails
Send == ReadNonce \/ Accepted \/ SendFails \/ SendUnknown
Wait == FindReceipt \/ CheckDepth \/ Revalidate \/ Resume \/ TimeOut
Settle == ApprovalMined \/ SaleMined \/ Reverted

Environment ==
  \/ Land \/ Kill
  \/ \E tx \in network : Mine(tx) \/ Forget(tx)
  \/ \E receipt \in chain : Reorganise(receipt)
  \/ NewBlock \/ OtherAcquires \/ OtherSpends

Next == Batch \/ Judge \/ Acquire \/ Send \/ Wait \/ Settle \/ Environment

Spec == Init /\ [][Next]_vars

\* Reads and broadcasts return, deadlines pass, and others let go of the lock.
Fairness ==
  /\ WF_vars(Batch)
  /\ WF_vars(Judge)
  /\ SF_vars(Acquire)
  /\ WF_vars(Send)
  /\ WF_vars(TimeOut)
  /\ WF_vars(Settle)
  /\ WF_vars(OtherSpends)

FairSpec == Spec /\ Fairness

-----------------------------------------------------------------------------
(* Properties. *)

\* Every variable has its type, and a token is waiting, being worked on, sold or
\* skipped, and only one of these.
TypeOK ==
  /\ lock \in {"run", "other", "free"}
  /\ run \in Run
  /\ run.pc \notin Ended \cup {"next"} => run.token \in Tokens
  /\ run.todo \cap (run.sold \cup run.skipped \cup {run.token}) = {}
  /\ run.sold \cap run.skipped = {}
  /\ run.token \notin run.sold \cup run.skipped
  /\ network \subseteq Tx
  /\ chain \subseteq Receipt
  /\ head \in Nat
  /\ forks \in Nat
  /\ nonce \in Nat

\* Every sale in the chain pays for the token's share of the mint, the gas it
\* really took, the approval that was mined for it, and the profit asked for, at
\* the price of the last look.
SalesPay ==
  \A sale \in chain : sale.tx.kind = "sale" /\ sale.ok =>
    LET proceeds == sale.tx.pays * sale.tx.price
    IN  /\ proceeds >= Share + MinProfit + sale.cost
        /\ \A approval \in chain :
             approval.tx.kind = "approve" /\ approval.tx.token = sale.tx.token =>
               proceeds >= Share + MinProfit + sale.cost + approval.cost

\* No fork that the confirmations cover lets the transaction be mined.
Dead(tx) == \E receipt \in chain : Deep(receipt) /\ receipt.tx.nonce >= tx.nonce

\* While the batch goes on, the only transaction of the run that can still be
\* mined is the one it is sending or waiting for: an outcome that is unknown ends
\* the batch, it does not start the next token.  And no process that takes the
\* wallet lock uses the nonce of that one: it is mined, or the nonce is free.
OneInFlight ==
  run.pc \notin Ended =>
    /\ \A tx \in network :
         (tx = run.tx /\ run.pc \in Sending \cup Waiting) \/ Dead(tx)
    /\ run.pc \in Waiting /\ nonce > run.tx.nonce => ReceiptsOf(run.tx) # {}

\* A token reported sold has its sale in the chain for good, and one reported
\* skipped has no sale in the chain and none that can still get there.
ReportIsRight ==
  /\ \A token \in run.sold : \E sale \in chain :
       sale.tx.kind = "sale" /\ sale.tx.token = token /\ sale.ok /\ Deep(sale)
  /\ \A token \in run.skipped :
       /\ \A sale \in chain :
            sale.tx.kind = "sale" /\ sale.tx.token = token => ~sale.ok /\ Deep(sale)
       /\ \A tx \in network : tx.kind = "sale" /\ tx.token = token => Dead(tx)

\* A sale is out only when Seaport's approval is final: a fork that the
\* confirmations cover cannot make it revert for want of the approval.
ApprovalIsFinal ==
  ~Approved /\ (\E tx \in network : tx.kind = "sale") =>
    \E receipt \in chain : receipt.tx.kind = "approve" /\ receipt.ok /\ Deep(receipt)

\* The dry run, given the same answers, says that it would sell exactly when the
\* run would go on to the wallet lock and the token is the wallet's.
DryRunAgrees ==
  run.pc = "quote" =>
    \A owner \in {None, "wallet", "other"}, balance \in 0..1, price \in Prices,
       gas \in Gases, approvalGas \in Gases \cup {0} :
      DryRun(TRUE, Owns(owner, balance), run.pays, price, gas, approvalGas) = "would sell"
        <=> /\ Verdict(run.pays, price, gas, approvalGas) = "sell"
            /\ Owns(owner, balance)

\* The batch comes to an end, whatever the network does.
RunEnds == <>(run.pc \in Ended)
=============================================================================
