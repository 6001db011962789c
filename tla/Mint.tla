-------------------------------- MODULE Mint --------------------------------
(***************************************************************************)
(* The mint transaction (src/src/bot.rs): runs of the bot with one wallet, *)
(* each from the wallet lock to a final receipt.  A run signs a mint with  *)
(* the pending nonce, replaces it at higher fees while it is not mined,    *)
(* watches every hash that may be out, and mints again only when a mint    *)
(* that was mined before the sale had opened is final.  It holds the lock  *)
(* all this time.                                                          *)
(*                                                                         *)
(* When the trigger fires and what the sale does with a transaction are    *)
(* choices of the environment here.  A run can be killed at any step; who  *)
(* starts the bot again starts another run.                                *)
(***************************************************************************)
EXTENDS Integers, FiniteSets

CONSTANTS
  Runs,             \* runs of the bot with this wallet and chain
  None,             \* no run, no transaction, no receipt
  Fees,             \* fee levels a mint can be prepared with
  MaxReplacements,  \* config.replacement.max_attempts, 0 when disabled
  Confirmations,    \* config.confirmations
  NonceSlack,       \* how far a pending-nonce read can be from the account's
  MaxForks,         \* bound on reorganisations
  MaxNonce,         \* bound on the nonces that a run signs with
  MaxForeign        \* bound on the nonces that the wallet's other users take

ASSUME ConstantsAssumption ==
  /\ None \notin Runs
  /\ Fees \subseteq Nat
  /\ MaxReplacements \in Nat
  /\ Confirmations \in Nat \ {0}
  /\ NonceSlack \in Nat
  /\ MaxForks \in Nat
  /\ MaxNonce \in Nat
  /\ MaxForeign \in Nat

VARIABLES
  lock,     \* the run that holds the wallet lock, or None
  run,      \* per run: where it is and what it has in memory
  network,  \* transactions that some node holds or may still be handed
  chain,    \* receipts of the runs' transactions, one per transaction
  head,     \* height of the newest block
  forks,    \* number of reorganisations so far
  nonce     \* the account's nonce on chain

vars == <<lock, run, network, chain, head, forks, nonce>>
environment == <<network, chain, head, forks, nonce>>

Tx == [run : Runs, nonce : Nat, fee : Nat]

\* "early": the sale was closed in the block before.
Receipt == [tx : Tx, height : Nat, fork : Nat, minted : BOOLEAN, early : BOOLEAN]

ASSUME NoneAssumption == None \notin Tx \cup Receipt

Watching == {"watch", "bump", "resend", "confirm", "recheck", "settle"}
Ended == {"confirmed", "reverted", "failed", "stopped"}
PCs == {"waiting", "locked", "ready", "send"} \cup Watching \cup Ended

Run == [pc : PCs, request : Tx \cup {None}, replacement : Tx \cup {None},
        landed : BOOLEAN, candidates : SUBSET Tx, replacements : Nat,
        seen : Receipt \cup {None}]

Start == [pc |-> "waiting", request |-> None, replacement |-> None, landed |-> FALSE,
          candidates |-> {}, replacements |-> 0, seen |-> None]

Init ==
  /\ lock = None
  /\ run = [r \in Runs |-> Start]
  /\ network = {}
  /\ chain = {}
  /\ head = 0
  /\ forks = 0
  /\ nonce = 0

-----------------------------------------------------------------------------
(* From the trigger to the first submission. *)

Goto(r, from, to) ==
  /\ run[r].pc = from
  /\ run' = [run EXCEPT ![r].pc = to]

\* The run is over, or waits for the trigger, and lets go of the lock.
Leave(r, to) ==
  /\ run' = [run EXCEPT ![r] = [Start EXCEPT !.pc = to]]
  /\ lock' = IF lock = r THEN None ELSE lock
  /\ UNCHANGED environment

Acquire(r) ==
  /\ lock = None
  /\ Goto(r, "waiting", "locked")
  /\ lock' = r
  /\ UNCHANGED environment

NonceReads == ((nonce - NonceSlack)..(nonce + NonceSlack)) \cap 0..MaxNonce

\* The mint is prepared and the pending nonce read, both behind the lock.
Prepare(r) ==
  /\ run[r].pc = "locked"
  /\ \E n \in NonceReads, fee \in Fees :
       run' = [run EXCEPT ![r].request = [run |-> r, nonce |-> n, fee |-> fee],
                          ![r].pc = "ready"]
  /\ UNCHANGED <<lock, environment>>

\* The sale is closed, the stage has moved or the fields cannot be refreshed.
NotReady(r) ==
  /\ run[r].pc = "locked"
  /\ Leave(r, "waiting")

Sign(r) ==
  /\ Goto(r, "ready", "send")
  /\ UNCHANGED <<lock, environment>>

\* Preparation fails, the code hash has changed, or the budget or the signing
\* policy forbids the mint.
Fail(r) ==
  /\ run[r].pc \in {"locked", "ready"}
  /\ Leave(r, "failed")

\* An endpoint takes what is being sent; the sender need not hear of it.
Land(r) ==
  LET tx == IF run[r].pc = "send" THEN run[r].request ELSE run[r].replacement
  IN  /\ run[r].pc \in {"send", "resend"}
      /\ tx.nonce >= nonce
      /\ run' = [run EXCEPT ![r].landed = TRUE]
      /\ network' = network \cup {tx}
      /\ UNCHANGED <<lock, chain, head, forks, nonce>>

\* What an endpoint needs to answer that it has the transaction.
MayBeAccepted(r, tx) ==
  \/ run[r].landed
  \/ tx \in network
  \/ \E receipt \in chain : receipt.tx = tx

\* Mutant: the lock is released when the mint is sent.
SubmitUnlocked(r) ==
  /\ run[r].pc = "send"
  /\ MayBeAccepted(r, run[r].request)
  /\ run' = [run EXCEPT ![r].candidates = {run[r].request},
                        ![r].landed = FALSE, ![r].pc = "watch"]
  /\ lock' = None
  /\ UNCHANGED environment

Submit(r) ==
  /\ run[r].pc = "send"
  /\ MayBeAccepted(r, run[r].request)
  /\ run' = [run EXCEPT ![r].candidates = {run[r].request},
                        ![r].landed = FALSE, ![r].pc = "watch"]
  /\ UNCHANGED <<lock, environment>>

\* A rejected or an unknown first submission ends the run with its error, which
\* names the hash when a copy may be out.
SubmitFails(r) ==
  /\ run[r].pc = "send"
  /\ Leave(r, "failed")

-----------------------------------------------------------------------------
(* monitor_receipt: a receipt of any candidate, else perhaps a replacement. *)

ReceiptsOf(txs) == {receipt \in chain : receipt.tx \in txs}

\* Mutant: only the latest hash is looked up.
FindReceiptOfLatest(r) ==
  /\ run[r].pc = "watch"
  /\ \E receipt \in ReceiptsOf({run[r].request}) :
       run' = [run EXCEPT ![r].seen = receipt,
                          ![r].pc = IF Confirmations > 1 THEN "confirm" ELSE "settle"]
  /\ UNCHANGED <<lock, environment>>

FindReceipt(r) ==
  /\ run[r].pc = "watch"
  /\ \E receipt \in ReceiptsOf(run[r].candidates) :
       run' = [run EXCEPT ![r].seen = receipt,
                          ![r].pc = IF Confirmations > 1 THEN "confirm" ELSE "settle"]
  /\ UNCHANGED <<lock, environment>>

MayReplace(r) == run[r].replacements < MaxReplacements

\* No receipt is there, or no provider that answers has it.
FindNone(r) ==
  /\ MayReplace(r)
  /\ Goto(r, "watch", "bump")
  /\ UNCHANGED <<lock, environment>>

\* The head is not known, or after_blocks have not passed.
NotYet(r) ==
  /\ Goto(r, "bump", "watch")
  /\ UNCHANGED <<lock, environment>>

SignReplacement(r) ==
  /\ run[r].pc = "bump"
  /\ run' = [run EXCEPT ![r].replacement = [run[r].request EXCEPT !.fee = @ + 1],
                        ![r].pc = "resend"]
  /\ UNCHANGED <<lock, environment>>

\* The replacement cannot be made, is over a limit, or is rejected by every
\* endpoint: there will be none.
GiveUpReplacing(r) ==
  /\ run[r].pc \in {"bump", "resend"}
  /\ ~run[r].landed
  /\ run' = [run EXCEPT ![r].replacements = MaxReplacements, ![r].replacement = None,
                        ![r].pc = "watch"]
  /\ UNCHANGED <<lock, environment>>

Replaced(r, replacements) ==
  run' = [run EXCEPT ![r].request = run[r].replacement,
                     ![r].candidates = @ \cup {run[r].replacement},
                     ![r].replacements = replacements,
                     ![r].replacement = None,
                     ![r].landed = FALSE,
                     ![r].pc = "watch"]

Replace(r) ==
  /\ run[r].pc = "resend"
  /\ MayBeAccepted(r, run[r].replacement)
  /\ Replaced(r, run[r].replacements + 1)
  /\ UNCHANGED <<lock, environment>>

\* Mutant: a replacement of unknown outcome is not counted.
ReplacementUncounted(r) ==
  /\ run[r].pc = "resend"
  /\ Replaced(r, run[r].replacements)
  /\ UNCHANGED <<lock, environment>>

\* The acknowledgement is lost: the replacement may be the one that is mined.
ReplacementUnknown(r) ==
  /\ run[r].pc = "resend"
  /\ Replaced(r, MaxReplacements)
  /\ UNCHANGED <<lock, environment>>

DeepEnough(receipt) == head >= receipt.height + (Confirmations - 1)

\* Mutant: the receipt found first will do.
NoWait(r) ==
  /\ Goto(r, "confirm", "recheck")
  /\ UNCHANGED <<lock, environment>>

AwaitConfirmations(r) ==
  /\ Goto(r, "confirm", "recheck")
  /\ DeepEnough(run[r].seen)
  /\ UNCHANGED <<lock, environment>>

\* The receipt is read again and still in the same block.
Revalidate(r) ==
  /\ run[r].pc = "recheck"
  /\ \E receipt \in ReceiptsOf({run[r].seen.tx}) :
       /\ receipt.height = run[r].seen.height
       /\ receipt.fork = run[r].seen.fork
       /\ run' = [run EXCEPT ![r].seen = receipt, ![r].pc = "settle"]
  /\ UNCHANGED <<lock, environment>>

\* The read fails, or the receipt is gone or in another block.
Resume(r) ==
  /\ Goto(r, "recheck", "watch")
  /\ UNCHANGED <<lock, environment>>

Confirm(r) ==
  /\ run[r].pc = "settle"
  /\ run[r].seen.minted
  /\ Leave(r, "confirmed")

\* mint_was_closed_before_receipt: the run waits for the trigger again.
Retry(r) ==
  /\ run[r].pc = "settle"
  /\ ~run[r].seen.minted
  /\ run[r].seen.early
  /\ Leave(r, "waiting")

\* The sale was open, or whether it was cannot be found out.
Revert(r) ==
  /\ run[r].pc = "settle"
  /\ ~run[r].seen.minted
  /\ Leave(r, "reverted")

\* Ctrl-C and kills.  A submitted transaction stays out.
Stop(r) ==
  /\ run[r].pc \notin Ended
  /\ Leave(r, "stopped")

-----------------------------------------------------------------------------
(* The chain and the mempool. *)

Mine(tx) ==
  /\ tx \in network
  /\ tx.nonce = nonce
  /\ \E minted, early \in BOOLEAN :
       chain' = chain \cup {[tx |-> tx, height |-> head + 1, fork |-> forks,
                             minted |-> minted, early |-> early]}
  /\ network' = network \ {tx}
  /\ nonce' = nonce + 1
  /\ head' = head + 1
  /\ UNCHANGED <<lock, run, forks>>

\* A block without a mint matters while one is waiting to be confirmed, or a run
\* waits for the confirmations of one that a fork has dropped.
NewBlock ==
  /\ \/ \E receipt \in chain : ~DeepEnough(receipt)
     \/ \E r \in Runs : run[r].pc = "confirm" /\ ~DeepEnough(run[r].seen)
  /\ head' = head + 1
  /\ UNCHANGED <<lock, run, network, chain, forks, nonce>>

\* A fork drops the last mint, to the mempool or for good.
Reorganise(receipt) ==
  /\ forks < MaxForks
  /\ receipt \in chain
  /\ ~DeepEnough(receipt)
  /\ \A other \in chain : other.height <= receipt.height
  /\ chain' = chain \ {receipt}
  /\ network' \in {network, network \cup {receipt.tx}}
  /\ nonce' = receipt.tx.nonce
  /\ head' = head + 1
  /\ forks' = forks + 1
  /\ UNCHANGED <<lock, run>>

\* Every node forgets a transaction: underpriced, expired or replaced.
Forget(tx) ==
  /\ tx \in network
  /\ network' = network \ {tx}
  /\ UNCHANGED <<lock, run, chain, head, forks, nonce>>

\* Something else that signs for the wallet uses a nonce.
SpendNonce ==
  /\ nonce < MaxForeign
  /\ nonce' = nonce + 1
  /\ UNCHANGED <<lock, run, network, chain, head, forks>>

-----------------------------------------------------------------------------

Step(r) ==
  \/ Acquire(r) \/ Prepare(r) \/ NotReady(r) \/ Sign(r) \/ Fail(r)
  \/ Land(r) \/ Submit(r) \/ SubmitFails(r)
  \/ FindReceipt(r) \/ FindNone(r) \/ NotYet(r)
  \/ SignReplacement(r) \/ GiveUpReplacing(r) \/ Replace(r) \/ ReplacementUnknown(r)
  \/ AwaitConfirmations(r) \/ Revalidate(r) \/ Resume(r)
  \/ Confirm(r) \/ Retry(r) \/ Revert(r) \/ Stop(r)

Environment ==
  \/ \E tx \in network : Mine(tx) \/ Forget(tx)
  \/ \E receipt \in chain : Reorganise(receipt)
  \/ NewBlock
  \/ SpendNonce

Next == (\E r \in Runs : Step(r)) \/ Environment

Spec == Init /\ [][Next]_vars

\* Blocks are produced, broadcasts and fee checks return, and what can be read or
\* mined again and again is read or mined.
Fairness ==
  /\ WF_vars(NewBlock)
  /\ SF_vars(\E tx \in network : Mine(tx))
  /\ \A r \in Runs :
       /\ WF_vars(NotYet(r) \/ SignReplacement(r) \/ GiveUpReplacing(r))
       /\ WF_vars(Replace(r) \/ ReplacementUnknown(r) \/ GiveUpReplacing(r))
       /\ SF_vars(FindReceipt(r))
       /\ SF_vars(AwaitConfirmations(r))
       /\ SF_vars(Revalidate(r))
       /\ WF_vars(Revalidate(r) \/ Resume(r))
       /\ WF_vars(Confirm(r) \/ Retry(r) \/ Revert(r))

FairSpec == Spec /\ Fairness

-----------------------------------------------------------------------------
(* Properties. *)

\* Every variable has its type, and a run replaces its mint no more often than
\* it is configured to.
TypeOK ==
  /\ lock \in Runs \cup {None}
  /\ run \in [Runs -> Run]
  /\ \A r \in Runs : run[r].replacements <= MaxReplacements
  /\ network \subseteq Tx
  /\ chain \subseteq Receipt
  /\ head \in Nat
  /\ forks \in Nat
  /\ nonce \in Nat

\* No fork that the confirmations cover lets the transaction be mined.
Dead(tx) == \E receipt \in chain : DeepEnough(receipt) /\ receipt.tx.nonce >= tx.nonce

InFlight(r) ==
  run[r].candidates \cup
  IF run[r].pc = "resend" /\ run[r].landed THEN {run[r].replacement} ELSE {}

\* A run that monitors its mint looks up every transaction it has signed that
\* may be mined, whatever acknowledgements were lost.
SignedIsWatched ==
  \A r \in Runs : run[r].pc \in Watching =>
    /\ \A tx \in network : tx.run = r => tx \in InFlight(r) \/ Dead(tx)
    /\ \A receipt \in chain :
         receipt.tx.run = r => receipt.tx \in InFlight(r) \/ DeepEnough(receipt)

\* One run mints at most once, through replacements, retries and forks.
AtMostOneMint ==
  \A s, t \in chain : s.minted /\ t.minted /\ s.tx.run = t.tx.run => s = t

\* What a run reports stays true: a confirmed mint stays in the chain, and after
\* a reverted one nothing that the run has signed can mint.
ReportIsFinal ==
  \A r \in Runs :
    /\ run[r].pc = "confirmed" =>
         \E receipt \in chain : receipt.tx.run = r /\ receipt.minted /\ DeepEnough(receipt)
    /\ run[r].pc = "reverted" =>
         /\ \A receipt \in chain : receipt.tx.run = r => ~receipt.minted
         /\ \A tx \in network : tx.run = r => Dead(tx)

\* A run whose mint may be mined has the wallet lock, unless it has ended: no
\* other run reads a nonce that this mint is about to use.
LiveMintHoldsLock ==
  \A tx \in network : run[tx.run].pc \notin Ended => lock = tx.run \/ Dead(tx)

\* No receipt, and no node holds a candidate with the nonce that is next.
Unminable(r) ==
  /\ ReceiptsOf(run[r].candidates) = {}
  /\ \A tx \in run[r].candidates \cap network : tx.nonce # nonce

\* A monitored mint comes to its end, as long as the chain has it or a node can
\* still mine it: nothing else waits for a mint that was forgotten by every node,
\* or whose nonce another signer took.
MintIsResolved ==
  \A r \in Runs : run[r].pc \in Watching ~> run[r].pc \notin Watching \/ Unminable(r)

StateOf(pc) ==
  IF pc \in {"waiting", "locked", "ready"} THEN "idle"
  ELSE IF pc \in Ended THEN pc
  ELSE "ongoing"

SendingOf(r) ==
  IF run[r].pc = "send" THEN run[r].request
  ELSE IF run[r].pc = "resend" THEN run[r].replacement
  ELSE None

\* The code counts a replacement when it has been sent.
AttemptsLeft(r) ==
  MaxReplacements - run[r].replacements - IF run[r].pc = "resend" THEN 1 ELSE 0

\* A mint is under way from its signature to its final receipt.
MintOf(r) ==
  LET ongoing == StateOf(run[r].pc) = "ongoing"
  IN  [state |-> StateOf(run[r].pc),
       attempt |-> IF ongoing THEN run[r].request ELSE None,
       sending |-> SendingOf(r),
       left |-> IF ongoing THEN AttemptsLeft(r) ELSE 0]

Undertakings == [r \in Runs |-> MintOf(r)]

CanTakeEffect ==
  {tx \in network : ~Dead(tx)} \cup {receipt.tx : receipt \in {t \in chain : ~DeepEnough(t)}}

FinalOutcomes ==
  {[tx |-> receipt.tx, minted |-> receipt.minted, early |-> receipt.early] :
     receipt \in {t \in chain : DeepEnough(t)}}

\* The runs keep what MintOutcome promises.
Outcome == INSTANCE MintOutcome WITH
  Attempts <- MaxReplacements + 1,
  mint <- Undertakings,
  out <- CanTakeEffect,
  final <- FinalOutcomes

KeepsOutcome == Outcome!Spec
=============================================================================
