------------------------------ MODULE AutoBuy ------------------------------
(***************************************************************************)
(* One auto-buy session (src/src/autobuy.rs): processes of one wallet that *)
(* take turns under the wallet lock, the journal they keep on disk, and    *)
(* the chain their purchases are mined on.                                 *)
(*                                                                         *)
(* A process holds the lock from before it loads the journal until it      *)
(* ends.  It journals a signed purchase before it sends it, records that   *)
(* it is about to send, sends, and clears the journal entry only for a     *)
(* receipt deep enough in the chain, or for a first submission that every  *)
(* endpoint refused.  A process can end between any two steps: ctrl-C, a   *)
(* returned error and a kill all release the lock and lose its memory.     *)
(***************************************************************************)
EXTENDS Integers, FiniteSets

CONSTANTS
  Procs,          \* processes started with this wallet, chain and session
  None,           \* no process, no pending purchase, no receipt
  Orders,         \* marketplace orders
  Tokens,         \* token ids of the collection
  Token,          \* the token an order sells
  Erc721,         \* orders of item type 2; the others are ERC-1155
  Quantity,       \* config.quantity
  FailedGasCap,   \* config.max_failed_gas_cost_native
  Reserves,       \* worst-case gas costs a purchase can be prepared with
  Confirmations,  \* config.confirmations
  Legacy,         \* orders a journal of an older version can have pending
  NonceSlack,     \* how far a pending-nonce read can be from the account's
  MaxForks,       \* bound on reorganisations
  MaxNonce        \* bound on the nonces that the wallet's other users take

ASSUME ConstantsAssumption ==
  /\ None \notin Procs
  /\ Token \in [Orders -> Tokens]
  /\ Erc721 \subseteq Orders
  /\ Legacy \subseteq Orders
  /\ Reserves \subseteq Nat \ {0}
  /\ Quantity \in Nat \ {0}
  /\ FailedGasCap \in Nat
  /\ Confirmations \in Nat \ {0}
  /\ NonceSlack \in Nat
  /\ MaxForks \in Nat
  /\ MaxNonce \in Nat

VARIABLES
  disk,     \* the journal file, or its default when there is none
  lock,     \* the process that holds the wallet lock, or None
  run,      \* per process: where it is and what it has in memory
  network,  \* transactions that some node holds or may still be handed
  chain,    \* receipts of this session's transactions, one per transaction
  head,     \* height of the newest block
  forks,    \* number of reorganisations so far
  wallet    \* the account on chain: nonce, NFTs bought, gas lost in reverts

vars == <<disk, lock, run, network, chain, head, forks, wallet>>
environment == <<network, chain, head, forks, wallet>>

Tx == [order : Orders, nonce : Nat, reserve : Reserves]

\* "empty": status success, but no log that proves the NFT arrived.
Receipt == [tx : Tx, height : Nat, fork : Nat,
            outcome : {"bought", "empty", "reverted"}, cost : Nat]

Pending == [tx : Tx, raw : BOOLEAN, attempted : BOOLEAN]

ASSUME NoneAssumption == None \notin Tx \cup Receipt \cup Pending

Journal == [purchased : Nat, completed : SUBSET Orders, tokens : SUBSET Tokens,
            pending : Pending \cup {None}, failed : SUBSET Orders,
            failedGas : Nat]

EmptyJournal == [purchased |-> 0, completed |-> {}, tokens |-> {},
                 pending |-> None, failed |-> {}, failedGas |-> 0]

PCs == {"down", "load", "watch", "sign", "recover", "mark", "send",
        "receipt", "depth", "recheck", "settle"}

Run == [pc : PCs, journal : Journal, plan : Tx \cup {None},
        first : BOOLEAN, landed : BOOLEAN, seen : Receipt \cup {None}]

Idle == [pc |-> "down", journal |-> EmptyJournal, plan |-> None,
         first |-> FALSE, landed |-> FALSE, seen |-> None]

\* A journal of an older version has no signed bytes, and may have been sent.
LegacyJournal(tx) ==
  [EmptyJournal EXCEPT !.pending = [tx |-> tx, raw |-> FALSE, attempted |-> TRUE]]

Init ==
  /\ \/ disk = EmptyJournal /\ network = {}
     \/ \E order \in Legacy, reserve \in Reserves :
          LET tx == [order |-> order, nonce |-> 0, reserve |-> reserve]
          IN  /\ reserve <= FailedGasCap
              /\ disk = LegacyJournal(tx)
              /\ network \in {{}, {tx}}
  /\ lock = None
  /\ run = [p \in Procs |-> Idle]
  /\ chain = {}
  /\ head = 0
  /\ forks = 0
  /\ wallet = [nonce |-> 0, nfts |-> 0, gasLost |-> 0]

-----------------------------------------------------------------------------
(* The journal. *)

Goto(p, from, to) ==
  /\ run[p].pc = from
  /\ run' = [run EXCEPT ![p].pc = to]

\* The save is atomic: a process that ends around it leaves the old file or
\* the new one, which is ending before this step or after it.
SaveAndGoto(p, journal, to) ==
  /\ disk' = journal
  /\ run' = [run EXCEPT ![p].journal = journal, ![p].pc = to]

\* BuyProgress::finish
Finish(journal, success) ==
  LET order == journal.pending.tx.order
      unique == success /\ order \in Erc721
  IN  [journal EXCEPT
        !.pending = None,
        !.purchased = IF success THEN @ + 1 ELSE @,
        !.completed = IF unique THEN @ \cup {order} ELSE @,
        !.tokens = IF unique THEN @ \cup {Token[order]} ELSE @,
        !.failed = IF success THEN @ ELSE @ \cup {order}]

\* Mutants: only orders are looked up, or only purchases that succeeded.
SkippedByOrder(journal, order) == order \in journal.completed \cup journal.failed
SkippedIfBought(journal, order) ==
  \/ order \in journal.completed
  \/ order \in Erc721 /\ Token[order] \in journal.tokens

\* An order that find_purchase passes over because of the journal.
Skipped(journal, order) ==
  \/ order \in journal.completed \cup journal.failed
  \/ order \in Erc721 /\ Token[order] \in journal.tokens

\* Mutant: nothing is reserved for the attempt itself.
WithinBudgetSoFar(journal, reserve) == journal.failedGas < FailedGasCap

\* ensure_failure_budget
WithinFailureBudget(journal, reserve) ==
  /\ journal.failedGas < FailedGasCap
  /\ journal.failedGas + reserve <= FailedGasCap

-----------------------------------------------------------------------------
(* A process, from taking the wallet lock to a signed purchase on disk. *)

LockIsFree == lock = None

Acquire(p) ==
  /\ LockIsFree
  /\ Goto(p, "down", "load")
  /\ lock' = p
  /\ UNCHANGED <<disk, environment>>

\* Mutant: a restart passes over the purchase that is pending.
LoadAbandoning(p) ==
  /\ run[p].pc = "load"
  /\ run' = [run EXCEPT ![p].journal = disk, ![p].pc = "watch"]
  /\ UNCHANGED <<disk, lock, environment>>

Load(p) ==
  /\ run[p].pc = "load"
  /\ run' = [run EXCEPT ![p].journal = disk,
                        ![p].pc = IF disk.pending = None THEN "watch" ELSE "recover"]
  /\ UNCHANGED <<disk, lock, environment>>

\* The process ends: it is done, interrupted, killed, or returns an error.
\* The operating system releases the lock.
Quit(p) ==
  /\ run[p].pc # "down"
  /\ run' = [run EXCEPT ![p] = Idle]
  /\ lock' = IF lock = p THEN None ELSE lock
  /\ UNCHANGED <<disk, environment>>

WantsMore(journal) == journal.purchased < Quantity

\* What preload_nonce can return: providers lag, and they count the pooled
\* transactions of the wallet's other users.
NonceReads ==
  ((wallet.nonce - NonceSlack)..(wallet.nonce + NonceSlack)) \cap Nat

\* find_purchase returns a listing.  Prices and the marketplace choose among
\* the orders.  Each fulfilment carries fresh data, so that the transaction is
\* none of the earlier ones.
FindPurchase(p) ==
  /\ run[p].pc = "watch"
  /\ WantsMore(run[p].journal)
  /\ \E order \in Orders, nonce \in NonceReads, reserve \in Reserves :
       LET tx == [order |-> order, nonce |-> nonce, reserve |-> reserve]
       IN  /\ ~Skipped(run[p].journal, order)
           /\ WithinFailureBudget(run[p].journal, reserve)
           /\ \A receipt \in chain : receipt.tx # tx
           /\ run' = [run EXCEPT ![p].plan = tx, ![p].pc = "sign"]
  /\ UNCHANGED <<disk, lock, environment>>

\* Sign, then journal the purchase with its bytes before anything is sent.
SignAndSave(p) ==
  /\ run[p].pc = "sign"
  /\ SaveAndGoto(p,
       [run[p].journal EXCEPT
         !.pending = [tx |-> run[p].plan, raw |-> TRUE, attempted |-> FALSE]],
       "recover")
  /\ UNCHANGED <<lock, environment>>

-----------------------------------------------------------------------------
(* recover_pending: the same path for a new purchase and after a restart. *)

PendingTx(p) == run[p].journal.pending.tx

ReceiptsOf(tx) == {receipt \in chain : receipt.tx = tx}

\* A receipt, however shallow, is reconciled and never resubmitted.
RecoverMined(p) ==
  /\ Goto(p, "recover", "receipt")
  /\ ReceiptsOf(PendingTx(p)) # {}
  /\ UNCHANGED <<disk, lock, environment>>

\* Mutant: a restart waits for a receipt and never submits again.
RecoverWaiting(p) ==
  /\ Goto(p, "recover", IF ~run[p].journal.pending.attempted THEN "mark" ELSE "receipt")
  /\ UNCHANGED <<disk, lock, environment>>

\* No receipt, or providers too far behind to have it.  Bytes are needed to
\* submit again.
RecoverMissing(p) ==
  /\ Goto(p, "recover", IF run[p].journal.pending.raw THEN "mark" ELSE "receipt")
  /\ UNCHANGED <<disk, lock, environment>>

\* Record that the transaction may be out, before it can be.
MarkAttempted(p) ==
  /\ run[p].pc = "mark"
  /\ LET journal == [run[p].journal EXCEPT !.pending.attempted = TRUE]
     IN  /\ disk' = journal
         /\ run' = [run EXCEPT ![p].journal = journal, ![p].pc = "send",
                               ![p].first = ~run[p].journal.pending.attempted,
                               ![p].landed = FALSE]
  /\ UNCHANGED <<lock, environment>>

\* An endpoint takes the transaction; the sender need not hear of it.  Nodes
\* refuse nonces that are used up.
Land(p) ==
  /\ run[p].pc = "send"
  /\ PendingTx(p).nonce >= wallet.nonce
  /\ run' = [run EXCEPT ![p].landed = TRUE]
  /\ network' = network \cup {PendingTx(p)}
  /\ UNCHANGED <<disk, lock, chain, head, forks, wallet>>

\* An endpoint answers that it took the transaction or already knew it.
BroadcastAccepted(p) ==
  /\ Goto(p, "send", "receipt")
  /\ \/ run[p].landed
     \/ PendingTx(p) \in network
     \/ ReceiptsOf(PendingTx(p)) # {}
  /\ UNCHANGED <<disk, lock, environment>>

\* Timeouts and broken connections say nothing of what the nodes hold.
BroadcastUnknown(p) ==
  /\ Goto(p, "send", "receipt")
  /\ UNCHANGED <<disk, lock, environment>>

\* Mutant: every rejection drops the purchase.
RejectionIsAlwaysFinal(p) == TRUE

\* Only a first submission is known to have no earlier copy elsewhere.
RejectionIsFinal(p) == run[p].first

\* Every endpoint answers with an error, so none took this submission.
BroadcastRejected(p) ==
  /\ run[p].pc = "send"
  /\ ~run[p].landed
  /\ IF RejectionIsFinal(p)
       THEN SaveAndGoto(p, Finish(run[p].journal, FALSE), "watch")
       ELSE Goto(p, "send", "receipt") /\ UNCHANGED disk
  /\ UNCHANGED <<lock, environment>>

-----------------------------------------------------------------------------
(* reconcile_pending: a receipt counts once it is confirmed and, read again, *)
(* still in the same block.                                                  *)

ReadReceipt(p) ==
  /\ run[p].pc = "receipt"
  /\ \E receipt \in ReceiptsOf(PendingTx(p)) :
       run' = [run EXCEPT ![p].seen = receipt, ![p].pc = "depth"]
  /\ UNCHANGED <<disk, lock, environment>>

DeepEnough(receipt) == head >= receipt.height + (Confirmations - 1)

\* Mutant: the first receipt will do.
CheckNoDepth(p) ==
  /\ Goto(p, "depth", "recheck")
  /\ UNCHANGED <<disk, lock, environment>>

CheckDepth(p) ==
  /\ Goto(p, "depth", "recheck")
  /\ DeepEnough(run[p].seen)
  /\ UNCHANGED <<disk, lock, environment>>

SameBlock(receipt, seen) ==
  receipt.height = seen.height /\ receipt.fork = seen.fork

\* Mutant: the receipt read first is not read again.
TrustFirstRead(p) ==
  /\ Goto(p, "recheck", "settle")
  /\ UNCHANGED <<disk, lock, environment>>

ReadAgain(p) ==
  /\ run[p].pc = "recheck"
  /\ \E receipt \in ReceiptsOf(PendingTx(p)) :
       /\ SameBlock(receipt, run[p].seen)
       /\ run' = [run EXCEPT ![p].seen = receipt, ![p].pc = "settle"]
  /\ UNCHANGED <<disk, lock, environment>>

\* A read failed, lagged, came too early or found another block: sleep and
\* begin again.
PollAgain(p) ==
  /\ run[p].pc \in {"depth", "recheck"}
  /\ run' = [run EXCEPT ![p].pc = "receipt"]
  /\ UNCHANGED <<disk, lock, environment>>

\* receipt_timeout_seconds bounds the polling: the outcome is unknown, the
\* process ends and the journal keeps the purchase.
ReceiptTimeout(p) ==
  /\ run[p].pc \in {"receipt", "depth", "recheck"}
  /\ Quit(p)

SettleBought(p) ==
  /\ run[p].pc = "settle"
  /\ run[p].seen.outcome = "bought"
  /\ SaveAndGoto(p, Finish(run[p].journal, TRUE), "watch")
  /\ UNCHANGED <<lock, environment>>

\* The gas of a reverted purchase counts against the loss limit.
ChargeFailedGas(journal, cost) == [journal EXCEPT !.failedGas = @ + cost]

\* Without proof of the NFT the process ends instead, its journal unchanged.
SettleReverted(p) ==
  /\ run[p].pc = "settle"
  /\ run[p].seen.outcome = "reverted"
  /\ SaveAndGoto(p, Finish(ChargeFailedGas(run[p].journal, run[p].seen.cost), FALSE),
                 "watch")
  /\ UNCHANGED <<lock, environment>>

-----------------------------------------------------------------------------
(* The chain and the mempool. *)

Included(tx, outcome, cost) ==
  [tx |-> tx, height |-> head + 1, fork |-> forks, outcome |-> outcome, cost |-> cost]

Mine(tx) ==
  /\ tx \in network
  /\ tx.nonce = wallet.nonce
  /\ \E outcome \in {"bought", "empty", "reverted"}, cost \in 0..tx.reserve :
       /\ outcome = "reverted" <=> cost > 0
       /\ chain' = chain \cup {Included(tx, outcome, cost)}
       /\ wallet' = [nonce |-> wallet.nonce + 1,
                     nfts |-> wallet.nfts + (IF outcome = "bought" THEN 1 ELSE 0),
                     gasLost |-> wallet.gasLost + cost]
  /\ network' = network \ {tx}
  /\ head' = head + 1
  /\ UNCHANGED <<disk, lock, run, forks>>

\* A block without a transaction of the session matters while one is waiting
\* to be confirmed.
NewBlock ==
  /\ \E receipt \in chain : ~DeepEnough(receipt)
  /\ head' = head + 1
  /\ UNCHANGED <<disk, lock, run, network, chain, forks, wallet>>

\* A longer fork replaces blocks that are not confirmed.  The last of the
\* session's transactions is out of the chain, back in the mempool or lost; a
\* fork that keeps all of them is a NewBlock.  Later nonces leave with it.
Reorganise(receipt) ==
  /\ forks < MaxForks
  /\ receipt \in chain
  /\ ~DeepEnough(receipt)
  /\ \A other \in chain : other.height <= receipt.height
  /\ chain' = chain \ {receipt}
  /\ network' \in {network, network \cup {receipt.tx}}
  /\ head' = head + 1
  /\ forks' = forks + 1
  /\ wallet' = [nonce |-> receipt.tx.nonce,
                nfts |-> wallet.nfts - (IF receipt.outcome = "bought" THEN 1 ELSE 0),
                gasLost |-> wallet.gasLost - receipt.cost]
  /\ UNCHANGED <<disk, lock, run>>

\* Every node forgets a transaction: underpriced, expired or replaced.
Forget(tx) ==
  /\ tx \in network
  /\ network' = network \ {tx}
  /\ UNCHANGED <<disk, lock, run, chain, head, forks, wallet>>

\* Something else that signs for the wallet uses a nonce.
SpendNonce ==
  /\ wallet.nonce < MaxNonce
  /\ wallet' = [wallet EXCEPT !.nonce = @ + 1]
  /\ UNCHANGED <<disk, lock, run, network, chain, head, forks>>

-----------------------------------------------------------------------------

Buy(p) ==
  \/ Acquire(p) \/ Load(p) \/ FindPurchase(p) \/ SignAndSave(p)
  \/ RecoverMined(p) \/ RecoverMissing(p) \/ MarkAttempted(p)
  \/ Land(p) \/ BroadcastAccepted(p) \/ BroadcastUnknown(p) \/ BroadcastRejected(p)
  \/ ReadReceipt(p) \/ CheckDepth(p) \/ ReadAgain(p) \/ PollAgain(p)
  \/ ReceiptTimeout(p) \/ SettleBought(p) \/ SettleReverted(p) \/ Quit(p)

Environment ==
  \/ \E tx \in network : Mine(tx) \/ Forget(tx)
  \/ \E receipt \in chain : Reorganise(receipt)
  \/ NewBlock
  \/ SpendNonce

Next == (\E p \in Procs : Buy(p)) \/ Environment

Spec == Init /\ [][Next]_vars

\* Whoever uses the bot starts it again, blocks are produced, broadcasts return
\* and polling stops at their timeouts, and no step of a process or the mempool
\* that can be taken again and again is prevented by an interruption, a timeout
\* or a failing read every time.
Fairness ==
  /\ WF_vars(\E p \in Procs : Acquire(p))
  /\ WF_vars(\E p \in Procs : ReceiptTimeout(p))
  /\ SF_vars(\E p \in Procs : BroadcastUnknown(p) \/ BroadcastRejected(p))
  /\ WF_vars(NewBlock)
  /\ SF_vars(\E tx \in network : Mine(tx))
  /\ SF_vars(\E p \in Procs : Load(p))
  /\ SF_vars(\E p \in Procs : RecoverMined(p) \/ RecoverMissing(p))
  /\ SF_vars(\E p \in Procs : MarkAttempted(p))
  /\ SF_vars(\E p \in Procs : Land(p))
  /\ SF_vars(\E p \in Procs : ReadReceipt(p))
  /\ SF_vars(\E p \in Procs : CheckDepth(p))
  /\ SF_vars(\E p \in Procs : ReadAgain(p))
  /\ SF_vars(\E p \in Procs : SettleBought(p) \/ SettleReverted(p))

FairSpec == Spec /\ Fairness

-----------------------------------------------------------------------------
(* Properties. *)

\* Every variable has its type, and the session has bought no more than the
\* quantity it counts to (the loop of run and its break).
TypeOK ==
  /\ disk \in Journal
  /\ disk.purchased <= Quantity
  /\ lock \in Procs \cup {None}
  /\ run \in [Procs -> Run]
  /\ network \subseteq Tx
  /\ chain \subseteq Receipt
  /\ head \in Nat
  /\ forks \in Nat
  /\ wallet \in [nonce : Nat, nfts : Int, gasLost : Int]

PendingTxs == IF disk.pending = None THEN {} ELSE {disk.pending.tx}

\* A transaction of the session that can still be mined, or that is mined and
\* can still leave the chain, is the one in the journal: no crash, timeout,
\* rejection or early receipt makes the session forget it.
NoOrphan ==
  /\ network \subseteq PendingTxs
  /\ \A receipt \in chain : receipt.tx \in PendingTxs \/ DeepEnough(receipt)

MinedPending(outcome) ==
  {receipt \in chain : receipt.tx \in PendingTxs /\ receipt.outcome = outcome}

\* The journal counts exactly the NFTs that the wallet bought on chain, the
\* pending purchase apart: none twice, none forgotten, whatever restarts and
\* reorganisations come between.
CountMatchesChain ==
  wallet.nfts = disk.purchased + Cardinality(MinedPending("bought"))

\* On chain, and not only in the journal, the wallet gets no more NFTs than
\* the session asked for, whichever of its processes bought them.
NoOverbuy == wallet.nfts <= Quantity

\* Gas lost on chain in reverted purchases stays within the session's limit,
\* which find_purchase reserves before it prepares a purchase.
LossWithinBudget == wallet.gasLost <= FailedGasCap

\* The session does not pay for the same ERC-721 token twice.
NoTokenTwice ==
  \A r, s \in chain :
    /\ {r.tx.order, s.tx.order} \subseteq Erc721
    /\ Token[r.tx.order] = Token[s.tx.order]
    /\ {r.outcome, s.outcome} \subseteq {"bought", "empty"}
    => r = s

\* A reverted order is skipped for the rest of the session: no transaction
\* that is signed, pooled or mined after it is for the same order.
RevertedNotRetried ==
  \A r \in chain :
    r.outcome = "reverted" /\ r.tx \notin PendingTxs =>
      /\ \A tx \in network \cup PendingTxs : tx.order # r.tx.order
      /\ \A p \in Procs : run[p].pc = "sign" => run[p].plan.order # r.tx.order

\* The process that works on the session works from the journal on disk.
WorksFromDisk ==
  \A p \in Procs : run[p].pc \notin {"down", "load"} => run[p].journal = disk

\* The pending purchase leaves the journal only when its fate cannot change:
\* its receipt is confirmed, or no node has it nor can get it.
ResolvedForGood ==
  [][disk.pending # None /\ disk'.pending = None =>
       \/ \E receipt \in ReceiptsOf(disk.pending.tx) :
            DeepEnough(receipt) /\ receipt.outcome # "empty"
       \/ disk.pending.tx \notin network /\ ReceiptsOf(disk.pending.tx) = {}]_vars

\* A purchase in the journal is settled in the end, or found on chain without
\* proof of its NFT and kept for its owner to look at.  It holds where nothing
\* else spends the wallet's nonces and the journal has the signed bytes.
PendingIsSettled ==
  disk.pending # None ~> disk.pending = None \/ MinedPending("empty") # {}

OpenPurchase == IF disk.pending = None THEN None ELSE disk.pending.tx

\* The session keeps what PurchaseLedger promises.
Ledger == INSTANCE PurchaseLedger WITH
  open <- OpenPurchase,
  bought <- disk.purchased,
  lost <- disk.failedGas,
  dropped <- disk.failed

KeepsLedger == Ledger!Spec
=============================================================================
