--------------------------- MODULE AutoBuyProofs ---------------------------
(***************************************************************************)
(* Proofs, for every value of the constants, of the safety properties of   *)
(* AutoBuy.  The inductive invariant comes in layers, each proved from the *)
(* ones before it: types, who works from what, where the session's         *)
(* transactions are, what the wallet paid, and which orders are over.      *)
(***************************************************************************)
EXTENDS AutoBuy, FiniteSetTheorems, TLAPS

Types ==
  /\ disk \in Journal
  /\ lock \in Procs \cup {None}
  /\ run \in [Procs -> Run]
  /\ network \subseteq Tx
  /\ chain \subseteq Receipt
  /\ head \in Nat
  /\ forks \in Nat
  /\ wallet \in [nonce : Nat, nfts : Int, gasLost : Int]

-----------------------------------------------------------------------------
(* The lock holder is the only process at work, and it works from the disk. *)

Unsent == {"watch", "sign"}
Committed == {"recover", "mark", "send", "receipt", "depth", "recheck", "settle"}

Discipline ==
  \A p \in Procs :
    /\ run[p].pc # "down" <=> lock = p
    /\ run[p].pc \in Unsent => disk.pending = None
    /\ run[p].pc \in Committed => disk.pending # None
    /\ run[p].pc \in Unsent \cup Committed => run[p].journal = disk
    /\ run[p].pc = "sign" => run[p].plan # None
    /\ run[p].pc \in {"depth", "recheck", "settle"} => run[p].seen # None

-----------------------------------------------------------------------------
(* Receipts follow each other in height and nonce; what is not yet final    *)
(* belongs to the journal's purchase; and that has not been sent before the *)
(* journal says so.                                                         *)

ChainOrder ==
  /\ \A r \in chain : r.height <= head /\ r.tx.nonce < wallet.nonce /\ r.tx \notin network
  /\ \A r, s \in chain : r.height < s.height => r.tx.nonce < s.tx.nonce
  /\ \A r, s \in chain : r.height = s.height => r = s

Nowhere(tx) == network = {} /\ \A r \in chain : r.tx # tx

Sending ==
  /\ disk.pending # None /\ ~disk.pending.attempted => Nowhere(disk.pending.tx)
  /\ \A p \in Procs :
       /\ run[p].pc = "sign" => Nowhere(run[p].plan)
       /\ run[p].pc = "send" => disk.pending.attempted
       /\ run[p].pc = "send" /\ run[p].first /\ ~run[p].landed => Nowhere(disk.pending.tx)

Confirming ==
  \A p \in Procs :
    /\ run[p].pc = "recheck" => DeepEnough(run[p].seen)
    /\ run[p].pc = "settle" =>
         /\ run[p].seen \in chain
         /\ run[p].seen.tx = disk.pending.tx
         /\ DeepEnough(run[p].seen)

Tracking == ChainOrder /\ NoOrphan /\ Sending /\ Confirming

-----------------------------------------------------------------------------
(* The journal and the chain agree on what was bought and what was lost.    *)

Costs ==
  \A r \in chain : r.cost <= r.tx.reserve /\ (r.outcome = "reverted" <=> r.cost > 0)

Balance ==
  /\ (\A r \in chain : r.tx \notin PendingTxs) =>
       wallet.nfts = disk.purchased /\ wallet.gasLost = disk.failedGas
  /\ \A r \in chain : r.tx \in PendingTxs =>
       /\ wallet.nfts = disk.purchased + (IF r.outcome = "bought" THEN 1 ELSE 0)
       /\ wallet.gasLost = disk.failedGas + r.cost

Limits ==
  /\ disk.purchased <= Quantity
  /\ disk.failedGas <= FailedGasCap
  /\ disk.pending # None =>
       disk.purchased < Quantity /\ disk.failedGas + disk.pending.tx.reserve <= FailedGasCap
  /\ \A p \in Procs : run[p].pc = "sign" =>
       disk.purchased < Quantity /\ disk.failedGas + run[p].plan.reserve <= FailedGasCap

Accounts == Costs /\ Balance /\ Limits

-----------------------------------------------------------------------------
(* The journal knows every order that is over. *)

Over ==
  /\ \A r \in chain : r.tx \notin PendingTxs =>
       /\ r.outcome # "empty"
       /\ r.outcome = "reverted" => r.tx.order \in disk.failed
       /\ r.outcome = "bought" /\ r.tx.order \in Erc721 => Token[r.tx.order] \in disk.tokens
  /\ disk.pending # None => ~Skipped(disk, disk.pending.tx.order)
  /\ \A p \in Procs : run[p].pc = "sign" => ~Skipped(disk, run[p].plan.order)

IInv == Types /\ Discipline /\ Tracking /\ Accounts /\ Over

-----------------------------------------------------------------------------

LEMMA EmptyIsJournal == EmptyJournal \in Journal /\ Idle \in Run
  BY ConstantsAssumption DEF EmptyJournal, Journal, Idle, Run, PCs

\* BuyProgress::finish maps a journal with a pending purchase to a journal.
LEMMA FinishType ==
  ASSUME NEW journal \in Journal, journal.pending # None, NEW success \in BOOLEAN
  PROVE  Finish(journal, success) \in Journal
  <1> DEFINE order == journal.pending.tx.order
  <1>1. order \in Orders /\ Token[order] \in Tokens
    <2>1. journal.pending \in Pending
      BY DEF Journal
    <2>2. journal.pending.tx \in Tx
      BY <2>1 DEF Pending
    <2>3. QED
      BY <2>2, ConstantsAssumption DEF Tx
  <1>2. /\ journal.completed \cup {order} \in SUBSET Orders
        /\ journal.failed \cup {order} \in SUBSET Orders
        /\ journal.tokens \cup {Token[order]} \in SUBSET Tokens
        /\ journal.purchased + 1 \in Nat
    BY <1>1 DEF Journal
  <1> HIDE DEF order
  <1>3. CASE success
    BY <1>2, <1>3 DEF Finish, Journal, order
  <1>4. CASE ~success
    BY <1>2, <1>4 DEF Finish, Journal, order
  <1>5. QED
    BY <1>3, <1>4

\* Updates of the pending entry keep a journal a journal.
LEMMA PendingType ==
  /\ \A tx \in Tx : LegacyJournal(tx) \in Journal
  /\ \A journal \in Journal, pending \in Pending :
       [journal EXCEPT !.pending = pending] \in Journal
  /\ \A journal \in Journal : journal.pending # None =>
       /\ journal.pending \in Pending
       /\ [journal EXCEPT !.pending.attempted = TRUE] \in Journal
  <1>1. ASSUME NEW journal \in Journal, NEW pending \in Pending
        PROVE  [journal EXCEPT !.pending = pending] \in Journal
    BY DEF Journal
  <1>2. ASSUME NEW journal \in Journal, journal.pending # None
        PROVE  /\ journal.pending \in Pending
               /\ [journal EXCEPT !.pending.attempted = TRUE] \in Journal
    <2>1. journal.pending \in Pending
      BY <1>2 DEF Journal
    <2>2. [journal.pending EXCEPT !.attempted = TRUE] \in Pending
      BY <2>1 DEF Pending
    <2>3. QED
      BY <2>1, <2>2, <1>1
  <1>3. ASSUME NEW tx \in Tx PROVE LegacyJournal(tx) \in Journal
    <2>1. [tx |-> tx, raw |-> FALSE, attempted |-> TRUE] \in Pending
      BY DEF Pending
    <2>2. QED
      BY <2>1, EmptyIsJournal, <1>1 DEF LegacyJournal
  <1>4. QED
    BY <1>1, <1>2, <1>3

LEMMA InitTypes == Init => Types
  <1> SUFFICES ASSUME Init PROVE Types
    OBVIOUS
  <1> USE EmptyIsJournal, ConstantsAssumption
  <1>1. disk \in Journal /\ network \subseteq Tx
    <2>1. CASE disk = EmptyJournal /\ network = {}
      BY <2>1
    <2>2. ASSUME NEW order \in Legacy, NEW reserve \in Reserves,
                 disk = LegacyJournal([order |-> order, nonce |-> 0, reserve |-> reserve]),
                 network \in {{}, {[order |-> order, nonce |-> 0, reserve |-> reserve]}}
          PROVE  disk \in Journal /\ network \subseteq Tx
      <3>1. [order |-> order, nonce |-> 0, reserve |-> reserve] \in Tx
        BY DEF Tx
      <3>2. QED
        BY <2>2, <3>1, PendingType
    <2>3. QED
      BY <2>1, <2>2 DEF Init
  <1>2. QED
    BY <1>1 DEF Init, Types

LEMMA TypesStep == Types /\ Discipline /\ [Next]_vars => Types'
  <1> SUFFICES ASSUME Types, Discipline, [Next]_vars PROVE Types'
    OBVIOUS
  <1> USE EmptyIsJournal, ConstantsAssumption DEF Types, environment
  <1>1. ASSUME NEW p \in Procs, Acquire(p) PROVE Types'
    BY <1>1 DEF Acquire, Goto, Run, PCs
  <1>2. ASSUME NEW p \in Procs, Load(p) PROVE Types'
    BY <1>2 DEF Load, Run, PCs
  <1>3. ASSUME NEW p \in Procs, FindPurchase(p) PROVE Types'
    BY <1>3 DEF FindPurchase, Run, PCs, Tx, NonceReads
  <1>4. ASSUME NEW p \in Procs, SignAndSave(p) PROVE Types'
    <2> DEFINE pending == [tx |-> run[p].plan, raw |-> TRUE, attempted |-> FALSE]
               journal == [run[p].journal EXCEPT !.pending = pending]
    <2>1. run[p].plan \in Tx /\ run[p].journal \in Journal
      BY <1>4 DEF SignAndSave, Discipline, Run
    <2>2. journal \in Journal
      BY <2>1, PendingType DEF Pending
    <2>3. disk' = journal /\ run' = [run EXCEPT ![p].journal = journal, ![p].pc = "recover"]
      BY <1>4 DEF SignAndSave, SaveAndGoto
    <2> HIDE DEF journal
    <2>4. QED
      BY <1>4, <2>2, <2>3 DEF SignAndSave, Run, PCs
  <1>5. ASSUME NEW p \in Procs, RecoverMined(p) \/ RecoverMissing(p) PROVE Types'
    BY <1>5 DEF RecoverMined, RecoverMissing, Goto, Run, PCs
  <1>6. ASSUME NEW p \in Procs, MarkAttempted(p) PROVE Types'
    <2> DEFINE journal == [run[p].journal EXCEPT !.pending.attempted = TRUE]
    <2>1. run[p].journal \in Journal /\ run[p].journal.pending # None
      BY <1>6 DEF MarkAttempted, Discipline, Committed, Unsent, Run
    <2>2. journal \in Journal /\ run[p].journal.pending \in Pending
      BY <2>1, PendingType
    <2>3. disk' = journal /\ run' = [run EXCEPT ![p].journal = journal, ![p].pc = "send",
                                              ![p].first = ~run[p].journal.pending.attempted,
                                              ![p].landed = FALSE]
      BY <1>6 DEF MarkAttempted
    <2> HIDE DEF journal
    <2>4. QED
      BY <1>6, <2>2, <2>3 DEF MarkAttempted, Run, PCs, Pending
  <1>7. ASSUME NEW p \in Procs, Land(p) PROVE Types'
    <2>1. run[p].journal \in Journal /\ run[p].journal.pending # None
      BY <1>7 DEF Land, Discipline, Committed, Unsent, Run
    <2>2. PendingTx(p) \in Tx
      BY <2>1, PendingType DEF PendingTx, Pending
    <2>3. QED
      BY <1>7, <2>2 DEF Land, Run
  <1>8. ASSUME NEW p \in Procs, BroadcastAccepted(p) \/ BroadcastUnknown(p) PROVE Types'
    BY <1>8 DEF BroadcastAccepted, BroadcastUnknown, Goto, Run, PCs
  <1>9. ASSUME NEW p \in Procs, BroadcastRejected(p) PROVE Types'
    <2>1. run[p].journal \in Journal /\ run[p].journal.pending # None
      BY <1>9 DEF BroadcastRejected, Discipline, Committed, Unsent, Run
    <2>2. Finish(run[p].journal, FALSE) \in Journal
      BY <2>1, FinishType
    <2>3. CASE RejectionIsFinal(p)
      BY <1>9, <2>2, <2>3 DEF BroadcastRejected, SaveAndGoto, Run, PCs
    <2>4. CASE ~RejectionIsFinal(p)
      BY <1>9, <2>4 DEF BroadcastRejected, Goto, Run, PCs
    <2>5. QED
      BY <2>3, <2>4
  <1>10. ASSUME NEW p \in Procs, ReadReceipt(p) \/ CheckDepth(p) \/ ReadAgain(p) \/ PollAgain(p)
         PROVE  Types'
    <2>1. ASSUME NEW receipt \in chain, NEW pc \in PCs,
                 run' = [run EXCEPT ![p].seen = receipt, ![p].pc = pc],
                 UNCHANGED <<disk, lock, environment>>
          PROVE  Types'
      BY <2>1 DEF Run
    <2>2. CASE CheckDepth(p) \/ PollAgain(p)
      BY <2>2 DEF CheckDepth, PollAgain, Goto, Run, PCs
    <2>3. QED
      BY <1>10, <2>1, <2>2 DEF ReadReceipt, ReadAgain, ReceiptsOf, PCs
  <1>11. ASSUME NEW p \in Procs, SettleBought(p) PROVE Types'
    <2>1. run[p].journal \in Journal /\ run[p].journal.pending # None
      BY <1>11 DEF SettleBought, Discipline, Committed, Unsent, Run
    <2>2. Finish(run[p].journal, TRUE) \in Journal
      BY <2>1, FinishType
    <2>3. QED
      BY <1>11, <2>2 DEF SettleBought, SaveAndGoto, Run, PCs
  <1>12. ASSUME NEW p \in Procs, SettleReverted(p) PROVE Types'
    <2>1. run[p].journal \in Journal /\ run[p].journal.pending # None /\ run[p].seen.cost \in Nat
      BY <1>12 DEF SettleReverted, Discipline, Committed, Unsent, Run, Receipt
    <2>2. ChargeFailedGas(run[p].journal, run[p].seen.cost) \in Journal
      BY <2>1 DEF ChargeFailedGas, Journal
    <2>3. ChargeFailedGas(run[p].journal, run[p].seen.cost).pending # None
      BY <2>1 DEF ChargeFailedGas, Journal
    <2>4. QED
      BY <1>12, <2>2, <2>3, FinishType DEF SettleReverted, SaveAndGoto, Run, PCs
  <1>13. ASSUME NEW p \in Procs, Quit(p) \/ ReceiptTimeout(p) PROVE Types'
    BY <1>13 DEF Quit, ReceiptTimeout
  <1>14. ASSUME NEW tx \in network, Mine(tx) PROVE Types'
    BY <1>14 DEF Mine, Included, Receipt, Tx
  <1>15. ASSUME NEW tx \in network, Forget(tx) PROVE Types'
    BY <1>15 DEF Forget
  <1>16. ASSUME NEW receipt \in chain, Reorganise(receipt) PROVE Types'
    BY <1>16 DEF Reorganise, Receipt, Tx
  <1>17. CASE NewBlock \/ SpendNonce
    BY <1>17 DEF NewBlock, SpendNonce
  <1>18. CASE UNCHANGED vars
    BY <1>18 DEF vars
  <1>19. QED
    BY <1>1, <1>2, <1>3, <1>4, <1>5, <1>6, <1>7, <1>8, <1>9, <1>10, <1>11, <1>12, <1>13,
       <1>14, <1>15, <1>16, <1>17, <1>18 DEF Next, Buy, Environment

-----------------------------------------------------------------------------

LEMMA InitDiscipline == Init => Discipline
  BY ConstantsAssumption DEF Init, Discipline, Idle, Unsent, Committed

\* What a saved journal has pending.
LEMMA FinishPending ==
  ASSUME NEW journal \in Journal, NEW success \in BOOLEAN
  PROVE  /\ Finish(journal, success).pending = None
         /\ Finish(journal, success).purchased = journal.purchased + (IF success THEN 1 ELSE 0)
         /\ Finish(journal, success).failedGas = journal.failedGas
  BY DEF Finish, Journal

\* Which orders and tokens a finished purchase retires.
LEMMA FinishOrders ==
  ASSUME NEW journal \in Journal
  PROVE  LET order == journal.pending.tx.order
         IN  /\ Finish(journal, FALSE).failed = journal.failed \cup {order}
             /\ Finish(journal, FALSE).tokens = journal.tokens
             /\ Finish(journal, FALSE).completed = journal.completed
             /\ Finish(journal, TRUE).failed = journal.failed
             /\ Finish(journal, TRUE).tokens =
                  IF order \in Erc721 THEN journal.tokens \cup {Token[order]} ELSE journal.tokens
             /\ Finish(journal, TRUE).completed =
                  IF order \in Erc721 THEN journal.completed \cup {order} ELSE journal.completed
  BY DEF Finish, Journal

\* Recording the attempt changes nothing else.
LEMMA AttemptPending ==
  ASSUME NEW journal \in Journal, journal.pending # None
  PROVE  LET marked == [journal EXCEPT !.pending.attempted = TRUE]
         IN  /\ marked.pending # None
             /\ marked.pending.tx = journal.pending.tx
             /\ marked.pending.attempted
             /\ marked.purchased = journal.purchased
             /\ marked.failedGas = journal.failedGas
             /\ marked.completed = journal.completed
             /\ marked.tokens = journal.tokens
             /\ marked.failed = journal.failed
  <1>1. journal.pending \in Pending
    BY PendingType
  <1>2. [journal.pending EXCEPT !.attempted = TRUE] \in Pending
    BY <1>1 DEF Pending
  <1>3. [journal.pending EXCEPT !.attempted = TRUE] # None
    BY <1>2, NoneAssumption
  <1>4. QED
    BY <1>1, <1>3 DEF Journal, Pending

LEMMA DisciplineStep == Types /\ Types' /\ Discipline /\ [Next]_vars => Discipline'
  <1> SUFFICES ASSUME Types, Types', Discipline, [Next]_vars PROVE Discipline'
    OBVIOUS
  <1> USE ConstantsAssumption, NoneAssumption
      DEF Types, Discipline, environment, Run, Unsent, Committed
  <1>1. ASSUME NEW p \in Procs, Acquire(p) PROVE Discipline'
    BY <1>1 DEF Acquire, LockIsFree, Goto
  <1>2. ASSUME NEW p \in Procs, Load(p) PROVE Discipline'
    BY <1>2 DEF Load
  <1>3. ASSUME NEW p \in Procs, FindPurchase(p) PROVE Discipline'
    BY <1>3 DEF FindPurchase, Tx, NonceReads
  <1>4. ASSUME NEW p \in Procs, SignAndSave(p) PROVE Discipline'
    BY <1>4 DEF SignAndSave, SaveAndGoto
  <1>5. ASSUME NEW p \in Procs, RecoverMined(p) \/ RecoverMissing(p) PROVE Discipline'
    BY <1>5 DEF RecoverMined, RecoverMissing, Goto
  <1>6. ASSUME NEW p \in Procs, MarkAttempted(p) PROVE Discipline'
    <2>1. run[p].journal \in Journal /\ run[p].journal.pending # None
      BY <1>6 DEF MarkAttempted
    <2>2. disk'.pending # None
      BY <1>6, <2>1, AttemptPending DEF MarkAttempted
    <2>3. run'[p].pc = "send" /\ run'[p].journal = disk' /\ lock' = lock
      BY <1>6 DEF MarkAttempted
    <2>4. \A q \in Procs \ {p} : run'[q] = run[q]
      BY <1>6 DEF MarkAttempted
    <2>5. run[p].pc = "mark"
      BY <1>6 DEF MarkAttempted
    <2>6. QED
      BY <2>2, <2>3, <2>4, <2>5
  <1>7. ASSUME NEW p \in Procs, Land(p) PROVE Discipline'
    BY <1>7 DEF Land
  <1>8. ASSUME NEW p \in Procs, BroadcastAccepted(p) \/ BroadcastUnknown(p) PROVE Discipline'
    BY <1>8 DEF BroadcastAccepted, BroadcastUnknown, Goto
  <1>9. ASSUME NEW p \in Procs, BroadcastRejected(p) PROVE Discipline'
    <2>1. CASE RejectionIsFinal(p)
      <3>1. run[p].journal \in Journal /\ run[p].pc = "send"
        BY <1>9 DEF BroadcastRejected
      <3>2. disk' = Finish(run[p].journal, FALSE) /\ disk'.pending = None
        BY <1>9, <2>1, <3>1, FinishPending DEF BroadcastRejected, SaveAndGoto
      <3>3. QED
        BY <1>9, <2>1, <3>1, <3>2 DEF BroadcastRejected, SaveAndGoto
    <2>2. CASE ~RejectionIsFinal(p)
      BY <1>9, <2>2 DEF BroadcastRejected, Goto
    <2>3. QED
      BY <2>1, <2>2
  <1>10. ASSUME NEW p \in Procs, ReadReceipt(p) \/ CheckDepth(p) \/ ReadAgain(p) \/ PollAgain(p)
         PROVE  Discipline'
    <2>1. \A receipt \in chain : receipt # None
      OBVIOUS
    <2>2. CASE ReadReceipt(p)
      BY <2>1, <2>2 DEF ReadReceipt, ReceiptsOf
    <2>3. CASE ReadAgain(p)
      BY <2>1, <2>3 DEF ReadAgain, ReceiptsOf
    <2>4. CASE CheckDepth(p) \/ PollAgain(p)
      BY <2>4 DEF CheckDepth, PollAgain, Goto
    <2>5. QED
      BY <1>10, <2>2, <2>3, <2>4
  <1>11. ASSUME NEW p \in Procs, SettleBought(p) PROVE Discipline'
    BY <1>11, FinishPending DEF SettleBought, SaveAndGoto
  <1>12. ASSUME NEW p \in Procs, SettleReverted(p) PROVE Discipline'
    BY <1>12, FinishPending DEF SettleReverted, SaveAndGoto
  <1>13. ASSUME NEW p \in Procs, Quit(p) \/ ReceiptTimeout(p) PROVE Discipline'
    BY <1>13 DEF Quit, ReceiptTimeout, Idle
  <1>14. CASE Environment
    BY <1>14 DEF Environment, Mine, Forget, Reorganise, NewBlock, SpendNonce
  <1>15. CASE UNCHANGED vars
    BY <1>15 DEF vars
  <1>16. QED
    BY <1>1, <1>2, <1>3, <1>4, <1>5, <1>6, <1>7, <1>8, <1>9, <1>10, <1>11, <1>12, <1>13,
       <1>14, <1>15 DEF Next, Buy

\* Every state is well typed, at most one process works on the session, and it
\* works from the journal on disk.
THEOREM TypesAndDiscipline == Spec => [](Types /\ Discipline)
  <1>1. Init => Types /\ Discipline
    BY InitTypes, InitDiscipline
  <1>2. Types /\ Discipline /\ [Next]_vars => Types' /\ Discipline'
    BY TypesStep, DisciplineStep
  <1>3. QED
    BY <1>1, <1>2, PTL DEF Spec

-----------------------------------------------------------------------------
(* What the steps of a process leave alone, and what its saves write.       *)

LEMMA Frames ==
  ASSUME NEW p \in Procs, Buy(p)
  PROVE  /\ Land(p) \/ UNCHANGED environment
         /\ \/ SignAndSave(p) \/ MarkAttempted(p) \/ BroadcastRejected(p)
            \/ SettleBought(p) \/ SettleReverted(p) \/ UNCHANGED disk
  BY DEF Buy, environment, Acquire, Load, FindPurchase, SignAndSave, RecoverMined, RecoverMissing,
         MarkAttempted, Land, BroadcastAccepted, BroadcastUnknown, BroadcastRejected, ReadReceipt,
         CheckDepth, ReadAgain, PollAgain, ReceiptTimeout, SettleBought, SettleReverted, Quit

\* While one process takes a step the others are down, and stay so.
LEMMA Alone ==
  ASSUME Types, Discipline, NEW p \in Procs, Buy(p)
  PROVE  \A q \in Procs \ {p} : run[q].pc = "down" /\ run'[q] = run[q]
  <1>1. \A q \in Procs \ {p} : run'[q] = run[q]
    BY DEF Types, Buy, Goto, SaveAndGoto, Acquire, Load, FindPurchase, SignAndSave, RecoverMined,
           RecoverMissing, MarkAttempted, Land, BroadcastAccepted, BroadcastUnknown,
           BroadcastRejected, ReadReceipt, CheckDepth, ReadAgain, PollAgain, ReceiptTimeout,
           SettleBought, SettleReverted, Quit
  <1>2. run[p].pc # "down" \/ Acquire(p)
    BY DEF Buy, Goto, SaveAndGoto, Load, FindPurchase, SignAndSave, RecoverMined,
           RecoverMissing, MarkAttempted, Land, BroadcastAccepted, BroadcastUnknown,
           BroadcastRejected, ReadReceipt, CheckDepth, ReadAgain, PollAgain, ReceiptTimeout,
           SettleBought, SettleReverted, Quit
  <1>3. lock = p \/ lock = None
    BY <1>2 DEF Discipline, Acquire, LockIsFree
  <1>4. QED
    BY <1>1, <1>3, ConstantsAssumption DEF Discipline

LEMMA SignEffect ==
  ASSUME Types, Discipline, NEW p \in Procs, SignAndSave(p)
  PROVE  /\ run[p].pc = "sign" /\ run'[p].pc = "recover"
         /\ disk.pending = None
         /\ disk'.pending = [tx |-> run[p].plan, raw |-> TRUE, attempted |-> FALSE]
         /\ disk'.pending.tx = run[p].plan
         /\ disk'.purchased = disk.purchased /\ disk'.failedGas = disk.failedGas
         /\ disk'.completed = disk.completed /\ disk'.tokens = disk.tokens
         /\ disk'.failed = disk.failed
         /\ run[p].plan \in Tx
         /\ PendingTxs = {} /\ PendingTxs' = {run[p].plan} /\ disk'.pending # None
  <1>1. run[p].pc = "sign" /\ run[p].journal = disk /\ disk.pending = None /\ disk \in Journal
    BY DEF SignAndSave, Discipline, Types, Unsent
  <1>2. run[p].plan \in Tx
    BY <1>1 DEF Discipline, Types, Run
  <1>3. [tx |-> run[p].plan, raw |-> TRUE, attempted |-> FALSE] # None
    <2>1. [tx |-> run[p].plan, raw |-> TRUE, attempted |-> FALSE] \in Pending
      BY <1>2 DEF Pending
    <2>2. QED
      BY <2>1, NoneAssumption
  <1>4. /\ disk' = [disk EXCEPT !.pending = [tx |-> run[p].plan, raw |-> TRUE, attempted |-> FALSE]]
        /\ run'[p].pc = "recover"
    BY <1>1 DEF SignAndSave, SaveAndGoto, Types, Run
  <1>5. QED
    BY <1>1, <1>2, <1>3, <1>4 DEF PendingTxs, Journal

LEMMA MarkEffect ==
  ASSUME Types, Discipline, NEW p \in Procs, MarkAttempted(p)
  PROVE  /\ run[p].pc = "mark" /\ run'[p].pc = "send"
         /\ run'[p].first = ~disk.pending.attempted
         /\ disk.pending # None /\ disk'.pending # None
         /\ disk'.pending.tx = disk.pending.tx
         /\ disk'.pending.attempted
         /\ disk'.purchased = disk.purchased /\ disk'.failedGas = disk.failedGas
         /\ disk'.completed = disk.completed /\ disk'.tokens = disk.tokens
         /\ disk'.failed = disk.failed
         /\ PendingTxs' = PendingTxs
  <1>1. /\ run[p].pc = "mark" /\ run[p].journal = disk
        /\ disk.pending # None /\ disk \in Journal
    BY DEF MarkAttempted, Discipline, Types, Committed, Unsent
  <1>2. /\ disk' = [disk EXCEPT !.pending.attempted = TRUE]
        /\ run'[p].pc = "send" /\ run'[p].first = ~disk.pending.attempted
    BY <1>1 DEF MarkAttempted, Types, Run
  <1>3. QED
    BY <1>1, <1>2, AttemptPending DEF PendingTxs

LEMMA RejectEffect ==
  ASSUME Types, Discipline, NEW p \in Procs, BroadcastRejected(p)
  PROVE  /\ run[p].pc = "send" /\ ~run[p].landed /\ disk.pending # None
         /\ \/ UNCHANGED disk /\ run'[p].pc = "receipt"
            \/ /\ run[p].first /\ disk' = Finish(disk, FALSE) /\ run'[p].pc = "watch"
               /\ PendingTxs = {disk.pending.tx} /\ PendingTxs' = {}
  <1>1. /\ run[p].pc = "send" /\ ~run[p].landed /\ run[p].journal = disk
        /\ disk.pending # None /\ disk \in Journal
    BY DEF BroadcastRejected, Discipline, Types, Committed, Unsent
  <1>2. CASE run[p].first
    <2>1. disk' = Finish(disk, FALSE) /\ run'[p].pc = "watch"
      BY <1>1, <1>2 DEF BroadcastRejected, RejectionIsFinal, SaveAndGoto, Types, Run
    <2>2. QED
      BY <1>1, <1>2, <2>1, FinishPending DEF PendingTxs
  <1>3. CASE ~run[p].first
    BY <1>1, <1>3 DEF BroadcastRejected, RejectionIsFinal, Goto, Types, Run
  <1>4. QED
    BY <1>2, <1>3

\* A settled purchase leaves the journal.
LEMMA SettleEffect ==
  ASSUME Types, Discipline, NEW p \in Procs, SettleBought(p) \/ SettleReverted(p)
  PROVE  /\ run[p].pc = "settle" /\ run'[p].pc = "watch" /\ disk.pending # None
         /\ run[p].seen \in Receipt
         /\ \/ /\ SettleBought(p) /\ run[p].seen.outcome = "bought"
               /\ disk' = Finish(disk, TRUE)
            \/ /\ SettleReverted(p) /\ run[p].seen.outcome = "reverted"
               /\ disk' = Finish(ChargeFailedGas(disk, run[p].seen.cost), FALSE)
         /\ PendingTxs = {disk.pending.tx} /\ PendingTxs' = {}
  <1>1. /\ run[p].pc = "settle" /\ run[p].journal = disk
        /\ disk.pending # None /\ disk \in Journal /\ run[p].seen \in Receipt
    BY DEF SettleBought, SettleReverted, Discipline, Types, Committed, Unsent, Run
  <1>2. ChargeFailedGas(disk, run[p].seen.cost) \in Journal
    BY <1>1 DEF ChargeFailedGas, Journal, Receipt
  <1>3. CASE SettleBought(p)
    <2>1. /\ disk' = Finish(disk, TRUE) /\ run'[p].pc = "watch" /\ run[p].seen.outcome = "bought"
      BY <1>1, <1>3 DEF SettleBought, SaveAndGoto, Types, Run
    <2>2. QED
      BY <1>1, <1>3, <2>1, FinishPending DEF PendingTxs
  <1>4. CASE SettleReverted(p)
    <2>1. /\ disk' = Finish(ChargeFailedGas(disk, run[p].seen.cost), FALSE)
          /\ run'[p].pc = "watch" /\ run[p].seen.outcome = "reverted"
      BY <1>1, <1>4 DEF SettleReverted, SaveAndGoto, Types, Run
    <2>2. QED
      BY <1>1, <1>2, <1>4, <2>1, FinishPending DEF PendingTxs
  <1>5. QED
    BY <1>3, <1>4

-----------------------------------------------------------------------------
(* Where the session's transactions are. *)

LEMMA InitTracking == Init => Tracking
  <1> SUFFICES ASSUME Init PROVE Tracking
    OBVIOUS
  <1>1. chain = {} /\ \A p \in Procs : run[p].pc = "down"
    BY DEF Init, Idle
  <1>2. network \subseteq PendingTxs
    <2>1. ASSUME NEW tx \in Tx, disk = LegacyJournal(tx), network \in {{}, {tx}}
          PROVE  network \subseteq PendingTxs
      <3>1. disk.pending = [tx |-> tx, raw |-> FALSE, attempted |-> TRUE]
        BY <2>1 DEF LegacyJournal, EmptyJournal
      <3>2. disk.pending \in Pending /\ disk.pending.tx = tx
        BY <3>1 DEF Pending
      <3>3. QED
        BY <2>1, <3>1, <3>2, NoneAssumption DEF PendingTxs
    <2>2. QED
      BY <2>1, ConstantsAssumption DEF Init, Tx
  <1>3. disk.pending # None => disk.pending.attempted
    BY DEF Init, LegacyJournal, EmptyJournal
  <1>4. QED
    BY <1>1, <1>2, <1>3 DEF Tracking, ChainOrder, NoOrphan, Sending, Confirming

\* A mined transaction gets one receipt, and the account pays and gets what
\* the receipt says.
LEMMA MineEffect ==
  ASSUME Types, NEW tx \in network, Mine(tx)
  PROVE  \E r \in Receipt :
           /\ chain' = chain \cup {r} /\ r.tx = tx /\ r.height = head + 1
           /\ r.cost <= tx.reserve /\ (r.outcome = "reverted" <=> r.cost > 0)
           /\ wallet'.nfts = wallet.nfts + (IF r.outcome = "bought" THEN 1 ELSE 0)
           /\ wallet'.gasLost = wallet.gasLost + r.cost
  <1>1. PICK outcome \in {"bought", "empty", "reverted"}, cost \in 0..tx.reserve :
          /\ outcome = "reverted" <=> cost > 0
          /\ chain' = chain \cup {Included(tx, outcome, cost)}
          /\ wallet' = [nonce |-> wallet.nonce + 1,
                        nfts |-> wallet.nfts + (IF outcome = "bought" THEN 1 ELSE 0),
                        gasLost |-> wallet.gasLost + cost]
    BY DEF Mine
  <1>2. tx \in Tx /\ tx.reserve \in Nat /\ cost \in Nat /\ cost <= tx.reserve
    <2>1. tx \in Tx /\ tx.reserve \in Nat
      BY ConstantsAssumption DEF Types, Tx
    <2>2. QED
      BY <2>1
  <1>3. Included(tx, outcome, cost) \in Receipt
    BY <1>2 DEF Included, Receipt, Types
  <1>4. WITNESS Included(tx, outcome, cost) \in Receipt
  <1>5. QED
    BY <1>1, <1>2 DEF Included

LEMMA ChainOrderStep ==
  ASSUME Types, Types', Discipline, ChainOrder, NoOrphan, [Next]_vars
  PROVE  ChainOrder'
  <1> USE DEF Types, ChainOrder, environment
  <1>1. CASE UNCHANGED environment
    BY <1>1
  <1>2. ASSUME NEW p \in Procs, Land(p) PROVE ChainOrder'
    BY <1>2 DEF Land, Receipt, Tx
  <1>3. ASSUME NEW tx \in network, Mine(tx) PROVE ChainOrder'
    <2>1. PICK r \in Receipt : chain' = chain \cup {r} /\ r.tx = tx /\ r.height = head + 1
      BY <1>3, MineEffect
    <2>2. /\ head' = head + 1 /\ network' = network \ {tx}
          /\ wallet'.nonce = wallet.nonce + 1 /\ tx.nonce = wallet.nonce
      BY <1>3 DEF Mine
    <2>3. \A s \in chain : s \in Receipt /\ s.tx.nonce \in Nat /\ s.height \in Nat
      BY DEF Receipt, Tx
    <2>4. QED
      BY <2>1, <2>2, <2>3
  <1>4. ASSUME NEW receipt \in chain, Reorganise(receipt) PROVE ChainOrder'
    <2>1. /\ chain' = chain \ {receipt} /\ network' \subseteq network \cup {receipt.tx}
          /\ head' = head + 1 /\ wallet'.nonce = receipt.tx.nonce
          /\ \A other \in chain : other.height <= receipt.height
      BY <1>4 DEF Reorganise
    <2>2. \A s \in chain : s \in Receipt /\ s.tx.nonce \in Nat /\ s.height \in Nat
      BY DEF Receipt, Tx
    <2>3. \A s \in chain' : s.height < receipt.height /\ s.tx.nonce < receipt.tx.nonce
      BY <2>1, <2>2
    <2>4. QED
      BY <2>1, <2>2, <2>3
  <1>5. ASSUME NEW tx \in network, Forget(tx) PROVE ChainOrder'
    BY <1>5 DEF Forget
  <1>6. CASE NewBlock \/ SpendNonce
    BY <1>6 DEF NewBlock, SpendNonce, Receipt, Tx
  <1>7. QED
    BY <1>1, <1>2, <1>3, <1>4, <1>5, <1>6, Frames DEF Next, Environment, vars

\* A height at which the check of reconcile_pending succeeds stays one.
LEMMA DeepStaysDeep ==
  ASSUME Types, [Next]_vars, NEW r \in Receipt, DeepEnough(r)
  PROVE  DeepEnough(r)'
  <1>1. head' >= head
    BY Frames DEF Types, Next, Environment, vars, environment, Land, Mine, Forget, Reorganise,
                  NewBlock, SpendNonce
  <1>2. head' \in Int
    BY Frames DEF Types, Next, Environment, vars, environment, Land, Mine, Forget, Reorganise,
                  NewBlock, SpendNonce
  <1>3. QED
    BY <1>1, <1>2, ConstantsAssumption DEF Types, DeepEnough, Receipt

\* Two receipts of one transaction are the same.
LEMMA OneReceipt ==
  ASSUME Types, ChainOrder, NEW r \in chain, NEW s \in chain, r.tx = s.tx
  PROVE  r = s
  BY DEF Types, ChainOrder, Receipt, Tx

LEMMA NoOrphanStep ==
  ASSUME Types, Types', Discipline, Tracking, [Next]_vars
  PROVE  NoOrphan'
  <1> USE DEF Tracking
  <1>1. \A r \in chain : DeepEnough(r) => DeepEnough(r)'
    BY DeepStaysDeep DEF Types
  <1>2. ASSUME NEW p \in Procs, SignAndSave(p), UNCHANGED environment PROVE NoOrphan'
    BY <1>1, <1>2, SignEffect DEF NoOrphan, environment
  <1>3. ASSUME NEW p \in Procs, MarkAttempted(p), UNCHANGED environment PROVE NoOrphan'
    BY <1>1, <1>3, MarkEffect DEF NoOrphan, environment
  <1>4. ASSUME NEW p \in Procs, BroadcastRejected(p), UNCHANGED environment PROVE NoOrphan'
    <2>1. CASE UNCHANGED disk
      BY <1>1, <1>4, <2>1 DEF NoOrphan, environment, PendingTxs
    <2>2. CASE run[p].first /\ PendingTxs = {disk.pending.tx} /\ PendingTxs' = {}
      <3>1. Nowhere(disk.pending.tx)
        BY <1>4, <2>2, RejectEffect DEF Sending
      <3>2. QED
        BY <1>1, <1>4, <2>2, <3>1 DEF NoOrphan, environment, Nowhere
    <2>3. QED
      BY <1>4, <2>1, <2>2, RejectEffect
  <1>5. ASSUME NEW p \in Procs, SettleBought(p) \/ SettleReverted(p), UNCHANGED environment
        PROVE  NoOrphan'
    <2>1. /\ run[p].seen \in chain /\ run[p].seen.tx = disk.pending.tx
          /\ DeepEnough(run[p].seen)
          /\ PendingTxs = {disk.pending.tx} /\ PendingTxs' = {}
      BY <1>5, SettleEffect DEF Confirming
    <2>2. network = {}
      BY <2>1 DEF NoOrphan, ChainOrder
    <2>3. \A r \in chain : DeepEnough(r)
      BY <2>1, OneReceipt DEF NoOrphan
    <2>4. QED
      BY <1>1, <1>5, <2>1, <2>2, <2>3 DEF NoOrphan, environment
  <1>6. CASE UNCHANGED <<disk, environment>>
    BY <1>1, <1>6 DEF NoOrphan, environment, PendingTxs
  <1>7. ASSUME NEW p \in Procs, Land(p) PROVE NoOrphan'
    <2>1. PendingTx(p) \in PendingTxs
      BY <1>7 DEF Land, PendingTx, PendingTxs, Discipline, Committed, Unsent
    <2>2. QED
      BY <1>1, <1>7, <2>1 DEF Land, NoOrphan, PendingTxs
  <1>8. ASSUME NEW tx \in network, Mine(tx) PROVE NoOrphan'
    <2>1. PICK r \in Receipt : chain' = chain \cup {r} /\ r.tx = tx
      BY <1>8, MineEffect
    <2>2. QED
      BY <1>1, <1>8, <2>1 DEF Mine, NoOrphan, PendingTxs
  <1>9. ASSUME NEW receipt \in chain, Reorganise(receipt) PROVE NoOrphan'
    BY <1>1, <1>9 DEF Reorganise, NoOrphan, PendingTxs
  <1>10. CASE (\E tx \in network : Forget(tx)) \/ NewBlock \/ SpendNonce
    BY <1>1, <1>10 DEF Forget, NewBlock, SpendNonce, NoOrphan, PendingTxs
  <1>11. QED
    BY <1>2, <1>3, <1>4, <1>5, <1>6, <1>7, <1>8, <1>9, <1>10, Frames
       DEF Next, Environment, vars, environment, Land

\* A transaction that is nowhere stays nowhere until a process sends it.
LEMMA NowhereStays ==
  ASSUME NoOrphan, Environment, NEW tx, Nowhere(tx), PendingTxs \subseteq {tx}
  PROVE  network' = {} /\ \A r \in chain' : r.tx # tx
  <1> USE DEF Nowhere
  <1>1. ASSUME NEW receipt \in chain, Reorganise(receipt) PROVE FALSE
    BY <1>1 DEF Reorganise, NoOrphan
  <1>2. CASE NewBlock \/ SpendNonce
    BY <1>2 DEF NewBlock, SpendNonce
  <1>3. QED
    BY <1>1, <1>2 DEF Environment

\* The only ways into the steps that the invariant says something about.
LEMMA Entry ==
  ASSUME Types, NEW p \in Procs, Buy(p)
  PROVE  /\ run'[p].pc = "sign" => FindPurchase(p)
         /\ run'[p].pc = "send" => MarkAttempted(p) \/ Land(p)
         /\ run'[p].pc = "recheck" => CheckDepth(p)
         /\ run'[p].pc = "settle" => ReadAgain(p)
  <1> USE DEF Types, Run, Goto, SaveAndGoto
  <1>1. CASE Acquire(p)
    BY <1>1 DEF Acquire
  <1>2. CASE Load(p)
    BY <1>2 DEF Load
  <1>3. CASE FindPurchase(p)
    <2>1. run'[p].pc = "sign"
      BY <1>3 DEF FindPurchase
    <2>2. QED
      BY <1>3, <2>1
  <1>4. CASE SignAndSave(p)
    BY <1>4 DEF SignAndSave
  <1>5. CASE RecoverMined(p)
    BY <1>5 DEF RecoverMined
  <1>6. CASE RecoverMissing(p)
    BY <1>6 DEF RecoverMissing
  <1>7. CASE MarkAttempted(p)
    BY <1>7 DEF MarkAttempted
  <1>8. CASE Land(p)
    BY <1>8 DEF Land
  <1>9. CASE BroadcastAccepted(p)
    BY <1>9 DEF BroadcastAccepted
  <1>10. CASE BroadcastUnknown(p)
    BY <1>10 DEF BroadcastUnknown
  <1>11. CASE BroadcastRejected(p)
    <2>1. run'[p].pc \in {"watch", "receipt"}
      BY <1>11 DEF BroadcastRejected
    <2>2. QED
      BY <2>1
  <1>12. CASE ReadReceipt(p)
    BY <1>12 DEF ReadReceipt
  <1>13. CASE CheckDepth(p)
    BY <1>13 DEF CheckDepth
  <1>14. CASE ReadAgain(p)
    <2>1. run'[p].pc = "settle"
      BY <1>14 DEF ReadAgain
    <2>2. QED
      BY <1>14, <2>1
  <1>15. CASE PollAgain(p)
    BY <1>15 DEF PollAgain
  <1>16. CASE ReceiptTimeout(p)
    BY <1>16 DEF ReceiptTimeout, Quit, Idle
  <1>17. CASE SettleBought(p)
    BY <1>17 DEF SettleBought
  <1>18. CASE SettleReverted(p)
    BY <1>18 DEF SettleReverted
  <1>19. CASE Quit(p)
    BY <1>19 DEF Quit, Idle
  <1>20. QED
    BY <1>1, <1>2, <1>3, <1>4, <1>5, <1>6, <1>7, <1>8, <1>9, <1>10,
       <1>11, <1>12, <1>13, <1>14, <1>15, <1>16, <1>17, <1>18, <1>19 DEF Buy

LEMMA SendingStep ==
  ASSUME Types, Types', Discipline, Discipline', Tracking, [Next]_vars
  PROVE  Sending'
  <1> USE DEF Tracking
  <1>1. ASSUME NEW p \in Procs, FindPurchase(p) PROVE Sending'
    <2>1. \A q \in Procs \ {p} : run'[q].pc = "down"
      BY <1>1, Alone DEF Buy
    <2>2. disk.pending = None /\ UNCHANGED <<disk, environment>> /\ run'[p].pc = "sign"
      BY <1>1 DEF FindPurchase, Discipline, Unsent, Types, Run
    <2>3. \A r \in chain : r.tx # run'[p].plan
      BY <1>1 DEF FindPurchase, Types, Run
    <2>4. network = {}
      BY <2>2 DEF NoOrphan, PendingTxs
    <2>5. QED
      BY <2>1, <2>2, <2>3, <2>4 DEF Sending, Nowhere, environment
  <1>2. ASSUME NEW p \in Procs, SignAndSave(p), UNCHANGED environment PROVE Sending'
    <2>1. \A q \in Procs \ {p} : run'[q].pc = "down"
      BY <1>2, Alone DEF Buy
    <2>2. /\ network' = {} /\ \A r \in chain' : r.tx # run[p].plan
          /\ disk'.pending.tx = run[p].plan /\ run'[p].pc = "recover"
      <3>1. /\ run[p].pc = "sign" /\ run'[p].pc = "recover"
            /\ disk'.pending = [tx |-> run[p].plan, raw |-> TRUE, attempted |-> FALSE]
        BY <1>2, SignEffect
      <3>2. Nowhere(run[p].plan)
        BY <3>1 DEF Sending
      <3>3. QED
        BY <1>2, <3>1, <3>2 DEF Nowhere, environment
    <2>3. QED
      BY <2>1, <2>2 DEF Sending, Nowhere
  <1>3. ASSUME NEW p \in Procs, MarkAttempted(p), UNCHANGED environment PROVE Sending'
    <2>1. \A q \in Procs \ {p} : run'[q].pc = "down"
      BY <1>3, Alone DEF Buy
    <2>2. /\ run'[p].pc = "send" /\ run'[p].first = ~disk.pending.attempted
          /\ disk.pending # None /\ disk'.pending.tx = disk.pending.tx /\ disk'.pending.attempted
      BY <1>3, MarkEffect
    <2>3. run'[p].first => network' = {} /\ \A r \in chain' : r.tx # disk'.pending.tx
      BY <1>3, <2>2 DEF Sending, Nowhere, environment
    <2>4. QED
      BY <2>1, <2>2, <2>3 DEF Sending, Nowhere
  <1>4. ASSUME NEW p \in Procs, Land(p) PROVE Sending'
    <2>1. \A q \in Procs \ {p} : run'[q].pc = "down"
      BY <1>4, Alone DEF Buy
    <2>2. /\ run[p].pc = "send" /\ run'[p].pc = "send" /\ run'[p].landed
          /\ UNCHANGED disk
      BY <1>4 DEF Land, Types, Run
    <2>3. disk.pending.attempted
      BY <2>2 DEF Sending
    <2>4. QED
      BY <2>1, <2>2, <2>3 DEF Sending, Nowhere
  <1>5. ASSUME NEW p \in Procs, Buy(p), UNCHANGED environment, run'[p].pc \notin {"sign", "send"},
               UNCHANGED disk \/ disk'.pending = None
        PROVE  Sending'
    <2>1. \A q \in Procs \ {p} : run'[q].pc = "down"
      BY <1>5, Alone
    <2>2. QED
      BY <1>5, <2>1 DEF Sending, Nowhere, environment
  <1>6. CASE Environment
    <2>1. UNCHANGED <<disk, run>>
      BY <1>6 DEF Environment, Mine, Forget, Reorganise, NewBlock, SpendNonce
    <2>2. disk.pending # None => PendingTxs = {disk.pending.tx}
      BY DEF PendingTxs
    <2>3. disk.pending # None /\ Nowhere(disk.pending.tx) =>
            network' = {} /\ \A r \in chain' : r.tx # disk.pending.tx
      BY <1>6, <2>2, NowhereStays
    <2>4. ASSUME NEW p \in Procs, run[p].pc = "sign"
          PROVE  network' = {} /\ \A r \in chain' : r.tx # run[p].plan
      <3>1. PendingTxs = {} /\ Nowhere(run[p].plan)
        BY <2>4 DEF Sending, Discipline, Unsent, PendingTxs
      <3>2. QED
        BY <1>6, <3>1, NowhereStays
    <2>5. \A p \in Procs : run[p].pc = "send" => disk.pending # None
      BY DEF Discipline, Committed
    <2>6. QED
      BY <2>1, <2>3, <2>4, <2>5 DEF Sending, Nowhere
  <1>7. CASE UNCHANGED vars
    BY <1>7 DEF vars, Sending, Nowhere
  <1>8. ASSUME NEW p \in Procs, Buy(p) PROVE Sending'
    <2>1. CASE BroadcastRejected(p)
      <3>1. disk'.pending = None \/ UNCHANGED disk
        BY <2>1, RejectEffect, FinishPending DEF Types
      <3>2. UNCHANGED environment
        BY <2>1 DEF BroadcastRejected
      <3>3. QED
        BY <1>5, <1>8, <2>1, <3>1, <3>2, RejectEffect
    <2>2. CASE SettleBought(p) \/ SettleReverted(p)
      <3>1. disk'.pending = None
        BY <2>2, SettleEffect DEF PendingTxs
      <3>2. UNCHANGED environment
        BY <2>2 DEF SettleBought, SettleReverted
      <3>3. QED
        BY <1>5, <1>8, <2>2, <3>1, <3>2, SettleEffect
    <2>3. CASE UNCHANGED <<disk, environment>> /\ run'[p].pc \notin {"sign", "send"}
      BY <1>5, <1>8, <2>3
    <2>4. QED
      BY <1>1, <1>2, <1>3, <1>4, <1>8, <2>1, <2>2, <2>3, Frames, Entry
         DEF SignAndSave, MarkAttempted
  <1>9. QED
    BY <1>6, <1>7, <1>8 DEF Next

LEMMA ConfirmingStep ==
  ASSUME Types, Types', Discipline, Discipline', Tracking, [Next]_vars
  PROVE  Confirming'
  <1> USE DEF Tracking
  <1>1. ASSUME NEW p \in Procs, Buy(p) PROVE Confirming'
    <2>1. \A q \in Procs \ {p} : run'[q].pc = "down"
      BY <1>1, Alone
    <2>2. ASSUME run'[p].pc = "recheck" PROVE DeepEnough(run[p].seen)' 
      <3>1. CheckDepth(p)
        BY <1>1, <2>2, Entry
      <3>2. DeepEnough(run[p].seen) /\ run'[p].seen = run[p].seen /\ head' = head
        BY <3>1 DEF CheckDepth, Goto, Types, environment
      <3>3. QED
        BY <3>2 DEF DeepEnough
    <2>3. ASSUME run'[p].pc = "settle"
          PROVE  /\ run'[p].seen \in chain' /\ run'[p].seen.tx = disk'.pending.tx
                 /\ DeepEnough(run[p].seen)'
      <3>1. ReadAgain(p)
        BY <1>1, <2>3, Entry
      <3>2. PICK receipt \in chain :
              /\ receipt.tx = run[p].journal.pending.tx /\ receipt.height = run[p].seen.height
              /\ run'[p].seen = receipt
        BY <3>1 DEF ReadAgain, ReceiptsOf, PendingTx, SameBlock, Types, Run
      <3>3. run[p].pc = "recheck" /\ UNCHANGED <<disk, environment>>
        BY <3>1 DEF ReadAgain
      <3>4. run[p].journal = disk /\ DeepEnough(run[p].seen)
        BY <3>3 DEF Discipline, Committed, Confirming
      <3>5. QED
        BY <3>2, <3>3, <3>4 DEF DeepEnough, environment
    <2>4. QED
      BY <2>1, <2>2, <2>3 DEF Confirming
  <1>2. CASE Environment
    <2>1. UNCHANGED <<disk, run>>
      BY <1>2 DEF Environment, Mine, Forget, Reorganise, NewBlock, SpendNonce
    <2>2. \A r \in chain : DeepEnough(r) => r \in chain'
      BY <1>2 DEF Environment, Mine, Forget, Reorganise, NewBlock, SpendNonce
    <2>3. \A p \in Procs : run[p].pc \in {"recheck", "settle"} => run[p].seen \in Receipt
      BY DEF Discipline, Types, Run
    <2>4. \A p \in Procs : run[p].pc \in {"recheck", "settle"} => DeepEnough(run[p].seen)
      BY DEF Confirming
    <2>5. \A p \in Procs : run[p].pc \in {"recheck", "settle"} => DeepEnough(run[p].seen)'
      <3> TAKE p \in Procs
      <3>1. HAVE run[p].pc \in {"recheck", "settle"}
      <3>2. DeepEnough(run[p].seen)
        BY <3>1, <2>4
      <3>3. run[p].seen \in Receipt /\ run'[p] = run[p]
        BY <3>1, <2>1, <2>3
      <3>4. QED
        BY <3>2, <3>3, DeepStaysDeep
    <2>6. QED
      BY <2>1, <2>2, <2>4, <2>5 DEF Confirming
  <1>3. CASE UNCHANGED vars
    BY <1>3 DEF vars, Confirming, DeepEnough
  <1>4. QED
    BY <1>1, <1>2, <1>3 DEF Next

LEMMA TrackingStep ==
  Types /\ Types' /\ Discipline /\ Discipline' /\ Tracking /\ [Next]_vars => Tracking'
  BY ChainOrderStep, NoOrphanStep, SendingStep, ConfirmingStep DEF Tracking

-----------------------------------------------------------------------------
(* What was bought and what was lost. *)

LEMMA InitAccounts == Init => Accounts
  <1> SUFFICES ASSUME Init PROVE Accounts
    OBVIOUS
  <1>1. /\ chain = {} /\ wallet.nfts = 0 /\ wallet.gasLost = 0
        /\ disk.purchased = 0 /\ disk.failedGas = 0
        /\ \A p \in Procs : run[p].pc = "down"
    BY DEF Init, Idle, LegacyJournal, EmptyJournal
  <1>2. disk.pending # None =>
          disk.pending.tx.reserve \in Nat /\ disk.pending.tx.reserve <= FailedGasCap
    BY ConstantsAssumption DEF Init, LegacyJournal, EmptyJournal
  <1>3. QED
    BY <1>1, <1>2, ConstantsAssumption DEF Accounts, Costs, Balance, Limits

LEMMA CostsStep ==
  ASSUME Types, Costs, [Next]_vars
  PROVE  Costs'
  <1>1. ASSUME NEW tx \in network, Mine(tx) PROVE Costs'
    BY <1>1, MineEffect DEF Costs
  <1>2. ASSUME NEW receipt \in chain, Reorganise(receipt) PROVE Costs'
    BY <1>2 DEF Reorganise, Costs
  <1>3. CASE UNCHANGED chain
    BY <1>3 DEF Costs
  <1>4. QED
    BY <1>1, <1>2, <1>3, Frames
       DEF Next, Environment, vars, environment, Land, Forget, NewBlock, SpendNonce

\* The numbers the accounts are made of.
LEMMA Numbers ==
  ASSUME Types
  PROVE  /\ disk.purchased \in Nat /\ disk.failedGas \in Nat
         /\ wallet.nfts \in Int /\ wallet.gasLost \in Int
         /\ \A r \in Receipt : r.cost \in Nat /\ r.tx.reserve \in Nat
         /\ disk.pending # None => disk.pending.tx \in Tx /\ disk.pending.tx.reserve \in Nat
  <1>1. \A tx \in Tx : tx.reserve \in Nat
    BY ConstantsAssumption DEF Tx
  <1>2. disk.pending # None => disk.pending.tx \in Tx
    BY PendingType DEF Types, Pending
  <1>3. \A r \in Receipt : r.cost \in Nat /\ r.tx \in Tx
    BY DEF Receipt
  <1>4. QED
    BY <1>1, <1>2, <1>3 DEF Types, Journal

\* What a settled purchase adds to the journal's two counters.
LEMMA SettleCounts ==
  ASSUME Types, Discipline, Costs, NEW p \in Procs, SettleBought(p) \/ SettleReverted(p),
         run[p].seen \in chain
  PROVE  /\ disk'.purchased = disk.purchased + (IF run[p].seen.outcome = "bought" THEN 1 ELSE 0)
         /\ disk'.failedGas = disk.failedGas + run[p].seen.cost
         /\ disk'.pending = None
  <1> DEFINE seen == run[p].seen
  <1>1. /\ seen \in Receipt /\ seen.cost \in Nat /\ (seen.outcome = "reverted" <=> seen.cost > 0)
        /\ disk \in Journal
    BY SettleEffect, Numbers DEF Costs, Types
  <1>2. CASE SettleBought(p) /\ seen.outcome = "bought" /\ disk' = Finish(disk, TRUE)
    <2>1. seen.cost = 0
      BY <1>1, <1>2
    <2> HIDE DEF seen
    <2>2. /\ disk'.pending = None /\ disk'.purchased = disk.purchased + 1
          /\ disk'.failedGas = disk.failedGas
      BY <1>1, <1>2, FinishPending
    <2>3. disk.failedGas \in Nat /\ seen.outcome = "bought"
      BY <1>2, Numbers
    <2>4. disk.failedGas = disk.failedGas + seen.cost
      BY <2>1, <2>3
    <2>5. QED
      BY <2>2, <2>3, <2>4 DEF seen
  <1>3. CASE /\ SettleReverted(p) /\ seen.outcome = "reverted"
             /\ disk' = Finish(ChargeFailedGas(disk, seen.cost), FALSE)
    <2> HIDE DEF seen
    <2>1. /\ ChargeFailedGas(disk, seen.cost) \in Journal
          /\ ChargeFailedGas(disk, seen.cost).purchased = disk.purchased
          /\ ChargeFailedGas(disk, seen.cost).failedGas = disk.failedGas + seen.cost
      BY <1>1 DEF ChargeFailedGas, Journal
    <2>2. /\ disk'.pending = None /\ disk'.purchased = disk.purchased + 0
          /\ disk'.failedGas = disk.failedGas + seen.cost
      BY <1>3, <2>1, FinishPending
    <2>3. QED
      BY <1>3, <2>2 DEF seen
  <1>4. QED
    BY <1>2, <1>3, SettleEffect

LEMMA LimitsStep ==
  ASSUME Types, Types', Discipline, Discipline', Tracking, Accounts, [Next]_vars
  PROVE  Limits'
  <1> USE DEF Limits, Accounts
  <1>1. ASSUME NEW p \in Procs, FindPurchase(p) PROVE Limits'
    <2>1. \A q \in Procs \ {p} : run'[q].pc = "down"
      BY <1>1, Alone DEF Buy
    <2>2. /\ disk.pending = None /\ UNCHANGED disk /\ run[p].journal = disk
      BY <1>1 DEF FindPurchase, Discipline, Unsent
    <2>3. /\ disk.purchased < Quantity
          /\ disk.failedGas + run'[p].plan.reserve <= FailedGasCap
      BY <1>1, <2>2 DEF FindPurchase, WantsMore, WithinFailureBudget, Types, Run
    <2>4. QED
      BY <2>1, <2>2, <2>3
  <1>2. ASSUME NEW p \in Procs, SignAndSave(p) PROVE Limits'
    <2>1. \A q \in Procs \ {p} : run'[q].pc = "down"
      BY <1>2, Alone DEF Buy
    <2>2. run'[p].pc = "recover" /\ disk'.pending.tx = run[p].plan
      BY <1>2, SignEffect
    <2>3. QED
      BY <1>2, <2>1, <2>2, SignEffect
  <1>3. ASSUME NEW p \in Procs, MarkAttempted(p) PROVE Limits'
    <2>1. \A q \in Procs \ {p} : run'[q].pc = "down"
      BY <1>3, Alone DEF Buy
    <2>2. QED
      BY <1>3, <2>1, MarkEffect
  <1>4. ASSUME NEW p \in Procs, BroadcastRejected(p), disk' = Finish(disk, FALSE),
               run'[p].pc = "watch"
        PROVE  Limits'
    <2>1. \A q \in Procs \ {p} : run'[q].pc = "down"
      BY <1>4, Alone DEF Buy
    <2>2. /\ disk'.pending = None /\ disk'.purchased = disk.purchased + 0
          /\ disk'.failedGas = disk.failedGas
      BY <1>4, FinishPending DEF Types
    <2>3. disk'.purchased = disk.purchased
      BY <2>2, Numbers
    <2>4. QED
      BY <1>4, <2>1, <2>2, <2>3
  <1>5. ASSUME NEW p \in Procs, SettleBought(p) \/ SettleReverted(p) PROVE Limits'
    <2>1. \A q \in Procs \ {p} : run'[q].pc = "down"
      BY <1>5, Alone DEF Buy
    <2>2. /\ run'[p].pc = "watch" /\ disk.pending # None
          /\ run[p].seen \in chain /\ run[p].seen.tx = disk.pending.tx
      BY <1>5, SettleEffect DEF Tracking, Confirming
    <2>3. /\ disk'.purchased = disk.purchased + (IF run[p].seen.outcome = "bought" THEN 1 ELSE 0)
          /\ disk'.failedGas = disk.failedGas + run[p].seen.cost
          /\ disk'.pending = None
      BY <1>5, <2>2, SettleCounts
    <2>4. /\ run[p].seen.cost \in Nat /\ run[p].seen.cost <= disk.pending.tx.reserve
          /\ disk.pending.tx.reserve \in Nat
      BY <2>2, Numbers DEF Costs, Types
    <2>5. disk'.failedGas <= FailedGasCap
      BY <2>2, <2>3, <2>4, Numbers, ConstantsAssumption
    <2>6. disk'.purchased <= Quantity
      BY <2>2, <2>3, Numbers, ConstantsAssumption
    <2>7. QED
      BY <2>1, <2>2, <2>3, <2>5, <2>6
  <1>6. ASSUME NEW p \in Procs, Buy(p), UNCHANGED disk, run'[p].pc # "sign" PROVE Limits'
    <2>1. \A q \in Procs \ {p} : run'[q].pc = "down"
      BY <1>6, Alone
    <2>2. QED
      BY <1>6, <2>1
  <1>7. CASE UNCHANGED <<disk, run>>
    BY <1>7
  <1>8. ASSUME NEW p \in Procs, Buy(p) PROVE Limits'
    <2>1. CASE BroadcastRejected(p)
      <3>1. CASE UNCHANGED disk /\ run'[p].pc = "receipt"
        BY <1>6, <1>8, <3>1
      <3>2. QED
        BY <1>4, <2>1, <3>1, RejectEffect
    <2>2. CASE UNCHANGED disk
      BY <1>1, <1>6, <1>8, <2>2, Entry
    <2>3. QED
      BY <1>2, <1>3, <1>5, <1>8, <2>1, <2>2, Frames
  <1>9. Environment => UNCHANGED <<disk, run>>
    BY DEF Environment, Mine, Forget, Reorganise, NewBlock, SpendNonce
  <1>10. QED
    BY <1>7, <1>8, <1>9 DEF Next, vars

LEMMA BalanceStep ==
  ASSUME Types, Types', Discipline, Discipline', Tracking, Accounts, [Next]_vars
  PROVE  Balance'
  <1> USE DEF Tracking, Accounts
  <1>1. CASE UNCHANGED <<chain, wallet.nfts, wallet.gasLost, disk.purchased, disk.failedGas,
                         PendingTxs>>
    BY <1>1 DEF Balance
  <1>2. ASSUME NEW p \in Procs, SignAndSave(p) PROVE Balance'
    <2>1. /\ PendingTxs = {} /\ PendingTxs' = {run[p].plan}
          /\ UNCHANGED <<disk.purchased, disk.failedGas, environment>>
      BY <1>2, SignEffect DEF SignAndSave
    <2>2. Nowhere(run[p].plan)
      BY <1>2, SignEffect DEF Sending
    <2>3. QED
      BY <2>1, <2>2 DEF Balance, Nowhere, environment
  <1>3. ASSUME NEW p \in Procs, MarkAttempted(p) PROVE Balance'
    BY <1>1, <1>3, MarkEffect DEF MarkAttempted, environment
  <1>4. ASSUME NEW p \in Procs, BroadcastRejected(p) PROVE Balance'
    <2>1. UNCHANGED environment
      BY <1>4 DEF BroadcastRejected
    <2>2. CASE UNCHANGED disk
      BY <1>1, <2>1, <2>2 DEF environment, PendingTxs
    <2>3. CASE /\ run[p].pc = "send" /\ ~run[p].landed /\ run[p].first
               /\ disk' = Finish(disk, FALSE)
               /\ PendingTxs = {disk.pending.tx} /\ PendingTxs' = {}
      <3>1. \A r \in chain : r.tx # disk.pending.tx
        BY <2>3 DEF Sending, Nowhere
      <3>2. disk'.purchased = disk.purchased + 0 /\ disk'.failedGas = disk.failedGas
        BY <2>3, FinishPending DEF Types
      <3>3. disk'.purchased = disk.purchased
        BY <3>2, Numbers
      <3>4. QED
        BY <2>1, <2>3, <3>1, <3>2, <3>3 DEF Balance, environment
    <2>4. QED
      BY <1>4, <2>2, <2>3, RejectEffect
  <1>5. ASSUME NEW p \in Procs, SettleBought(p) \/ SettleReverted(p) PROVE Balance'
    <2>1. /\ run[p].seen \in chain /\ run[p].seen.tx \in PendingTxs /\ PendingTxs' = {}
      BY <1>5, SettleEffect DEF Confirming
    <2>2. /\ disk'.purchased = disk.purchased + (IF run[p].seen.outcome = "bought" THEN 1 ELSE 0)
          /\ disk'.failedGas = disk.failedGas + run[p].seen.cost
      BY <1>5, <2>1, SettleCounts
    <2>3. UNCHANGED environment
      BY <1>5 DEF SettleBought, SettleReverted
    <2>4. wallet'.nfts = disk'.purchased /\ wallet'.gasLost = disk'.failedGas
      BY <2>1, <2>2, <2>3 DEF Balance, environment
    <2>5. QED
      BY <2>1, <2>4 DEF Balance
  <1>6. ASSUME NEW tx \in network, Mine(tx) PROVE Balance'
    <2>1. PICK r \in Receipt :
            /\ chain' = chain \cup {r} /\ r.tx = tx
            /\ wallet'.nfts = wallet.nfts + (IF r.outcome = "bought" THEN 1 ELSE 0)
            /\ wallet'.gasLost = wallet.gasLost + r.cost
      BY <1>6, MineEffect
    <2>2. UNCHANGED disk /\ PendingTxs' = PendingTxs
      BY <1>6 DEF Mine, PendingTxs
    <2>3. PendingTxs = {tx}
      BY <1>6 DEF NoOrphan, PendingTxs
    <2>4. \A s \in chain : s.tx \notin PendingTxs
      BY <2>3 DEF ChainOrder
    <2>5. wallet.nfts = disk.purchased /\ wallet.gasLost = disk.failedGas
      BY <2>4 DEF Balance
    <2>6. QED
      BY <2>1, <2>2, <2>3, <2>4, <2>5 DEF Balance
  <1>7. ASSUME NEW receipt \in chain, Reorganise(receipt) PROVE Balance'
    <2>1. /\ chain' = chain \ {receipt} /\ UNCHANGED disk /\ PendingTxs' = PendingTxs
          /\ wallet'.nfts = wallet.nfts - (IF receipt.outcome = "bought" THEN 1 ELSE 0)
          /\ wallet'.gasLost = wallet.gasLost - receipt.cost
      BY <1>7 DEF Reorganise, PendingTxs
    <2>2. receipt.tx \in PendingTxs
      BY <1>7 DEF Reorganise, NoOrphan
    <2>3. /\ wallet.nfts = disk.purchased + (IF receipt.outcome = "bought" THEN 1 ELSE 0)
          /\ wallet.gasLost = disk.failedGas + receipt.cost
      BY <2>2 DEF Balance
    <2>4. wallet'.nfts = disk'.purchased /\ wallet'.gasLost = disk'.failedGas
      <3>1. receipt.cost \in Nat
        BY Numbers DEF Types
      <3>2. QED
        BY <2>1, <2>3, <3>1, Numbers
    <2>5. \A r \in chain' : r.tx \notin PendingTxs
      BY <2>1, <2>2, OneReceipt DEF PendingTxs
    <2>6. QED
      BY <2>1, <2>4, <2>5 DEF Balance
  <1>8. CASE \/ \E p \in Procs : Land(p)
             \/ \E tx \in network : Forget(tx)
             \/ NewBlock \/ SpendNonce
    BY <1>1, <1>8 DEF Land, Forget, NewBlock, SpendNonce, PendingTxs, Types
  <1>9. CASE UNCHANGED <<disk, environment>>
    BY <1>1, <1>9 DEF PendingTxs, environment
  <1>10. QED
    BY <1>2, <1>3, <1>4, <1>5, <1>6, <1>7, <1>8, <1>9, Frames DEF Next, Environment, vars, environment

LEMMA AccountsStep ==
  /\ Types /\ Types' /\ Discipline /\ Discipline' /\ Tracking /\ Accounts /\ [Next]_vars
  => Accounts'
  BY CostsStep, LimitsStep, BalanceStep DEF Accounts

-----------------------------------------------------------------------------
(* Which orders are over. *)

\* A settled purchase retires its order when it reverted and its token when it
\* was bought.
LEMMA SettleOrders ==
  ASSUME Types, Discipline, NEW p \in Procs, SettleBought(p) \/ SettleReverted(p)
  PROVE  /\ disk.failed \subseteq disk'.failed /\ disk.tokens \subseteq disk'.tokens
         /\ run[p].seen.outcome # "empty"
         /\ run[p].seen.outcome = "reverted" => disk.pending.tx.order \in disk'.failed
         /\ run[p].seen.outcome = "bought" /\ disk.pending.tx.order \in Erc721 =>
              Token[disk.pending.tx.order] \in disk'.tokens
  <1>1. disk \in Journal /\ run[p].seen \in Receipt /\ run[p].seen.cost \in Nat
    BY SettleEffect DEF Types, Receipt
  <1>2. CASE run[p].seen.outcome = "bought" /\ disk' = Finish(disk, TRUE)
    BY <1>1, <1>2, FinishOrders
  <1>3. CASE /\ run[p].seen.outcome = "reverted"
             /\ disk' = Finish(ChargeFailedGas(disk, run[p].seen.cost), FALSE)
    <2>1. /\ ChargeFailedGas(disk, run[p].seen.cost) \in Journal
          /\ ChargeFailedGas(disk, run[p].seen.cost).failed = disk.failed
          /\ ChargeFailedGas(disk, run[p].seen.cost).tokens = disk.tokens
          /\ ChargeFailedGas(disk, run[p].seen.cost).pending = disk.pending
      BY <1>1 DEF ChargeFailedGas, Journal
    <2>2. QED
      BY <1>3, <2>1, FinishOrders
  <1>4. QED
    BY <1>2, <1>3, SettleEffect

LEMMA InitOver == Init => Over
  <1> SUFFICES ASSUME Init PROVE Over
    OBVIOUS
  <1>1. /\ chain = {} /\ disk.completed = {} /\ disk.failed = {} /\ disk.tokens = {}
        /\ \A p \in Procs : run[p].pc = "down"
    BY DEF Init, Idle, LegacyJournal, EmptyJournal
  <1>2. QED
    BY <1>1 DEF Over, Skipped

LEMMA OverStep ==
  ASSUME Types, Types', Discipline, Discipline', Tracking, Accounts, Over, [Next]_vars
  PROVE  Over'
  <1> USE DEF Over, Tracking, Skipped
  <1>1. ASSUME NEW p \in Procs, FindPurchase(p) PROVE Over'
    <2>1. \A q \in Procs \ {p} : run'[q].pc = "down"
      BY <1>1, Alone DEF Buy
    <2>2. /\ disk.pending = None /\ run[p].journal = disk /\ UNCHANGED <<disk, chain>>
      BY <1>1 DEF FindPurchase, Discipline, Unsent, environment
    <2>3. ~Skipped(disk, run'[p].plan.order)
      BY <1>1, <2>2 DEF FindPurchase, Types, Run
    <2>4. QED
      BY <2>1, <2>2, <2>3 DEF PendingTxs
  <1>2. ASSUME NEW p \in Procs, SignAndSave(p) PROVE Over'
    <2>1. \A q \in Procs \ {p} : run'[q].pc = "down"
      BY <1>2, Alone DEF Buy
    <2>2. /\ run'[p].pc = "recover" /\ disk'.pending.tx = run[p].plan /\ run[p].pc = "sign"
          /\ PendingTxs = {} /\ UNCHANGED <<disk.completed, disk.tokens, disk.failed, chain>>
      BY <1>2, SignEffect DEF SignAndSave, environment
    <2>3. QED
      BY <2>1, <2>2
  <1>3. ASSUME NEW p \in Procs, MarkAttempted(p) PROVE Over'
    <2>1. \A q \in Procs \ {p} : run'[q].pc = "down"
      BY <1>3, Alone DEF Buy
    <2>2. /\ run'[p].pc = "send" /\ disk.pending # None /\ disk'.pending.tx = disk.pending.tx
          /\ UNCHANGED <<PendingTxs, disk.completed, disk.tokens, disk.failed, chain>>
      BY <1>3, MarkEffect DEF MarkAttempted, environment
    <2>3. QED
      BY <2>1, <2>2
  <1>4. ASSUME NEW p \in Procs, BroadcastRejected(p), run[p].first, ~run[p].landed,
               run[p].pc = "send", disk' = Finish(disk, FALSE), run'[p].pc = "watch",
               PendingTxs = {disk.pending.tx}
        PROVE  Over'
    <2>1. \A q \in Procs \ {p} : run'[q].pc = "down"
      BY <1>4, Alone DEF Buy
    <2>2. /\ disk'.pending = None /\ disk.failed \subseteq disk'.failed
          /\ UNCHANGED <<disk.tokens, chain>>
      BY <1>4, FinishPending, FinishOrders DEF Types, BroadcastRejected, environment
    <2>3. \A r \in chain : r.tx \notin PendingTxs
      BY <1>4 DEF Sending, Nowhere
    <2>4. QED
      BY <1>4, <2>1, <2>2, <2>3
  <1>5. ASSUME NEW p \in Procs, SettleBought(p) \/ SettleReverted(p) PROVE Over'
    <2>1. \A q \in Procs \ {p} : run'[q].pc = "down"
      BY <1>5, Alone DEF Buy
    <2>2. /\ run'[p].pc = "watch" /\ disk.pending # None /\ PendingTxs = {disk.pending.tx}
          /\ run[p].seen \in chain /\ run[p].seen.tx = disk.pending.tx /\ run[p].seen \in Receipt
      BY <1>5, SettleEffect DEF Confirming
    <2>3. disk'.pending = None /\ UNCHANGED chain
      BY <1>5, <2>2, SettleCounts DEF Accounts, SettleBought, SettleReverted, environment
    <2>4. \A r \in chain : r.tx \in PendingTxs => r = run[p].seen
      BY <2>2, OneReceipt
    <2>5. disk.failed \subseteq disk'.failed /\ disk.tokens \subseteq disk'.tokens
      BY <1>5, SettleOrders
    <2>6. /\ run[p].seen.outcome # "empty"
          /\ run[p].seen.outcome = "reverted" => run[p].seen.tx.order \in disk'.failed
          /\ run[p].seen.outcome = "bought" /\ run[p].seen.tx.order \in Erc721 =>
               Token[run[p].seen.tx.order] \in disk'.tokens
      BY <1>5, <2>2, SettleOrders
    <2>7. QED
      BY <2>1, <2>2, <2>3, <2>4, <2>5, <2>6
  <1>6. ASSUME NEW p \in Procs, Buy(p), UNCHANGED <<disk, chain>>, run'[p].pc # "sign" PROVE Over'
    <2>1. \A q \in Procs \ {p} : run'[q].pc = "down"
      BY <1>6, Alone
    <2>2. QED
      BY <1>6, <2>1 DEF PendingTxs
  <1>7. ASSUME NEW tx \in network, Mine(tx) PROVE Over'
    <2>1. PICK r \in Receipt : chain' = chain \cup {r} /\ r.tx = tx
      BY <1>7, MineEffect
    <2>2. UNCHANGED <<disk, run, PendingTxs>> /\ tx \in PendingTxs
      BY <1>7 DEF Mine, PendingTxs, NoOrphan
    <2>3. QED
      BY <2>1, <2>2
  <1>8. CASE UNCHANGED <<disk, run>> /\ chain' \subseteq chain
    BY <1>8 DEF PendingTxs
  <1>9. ASSUME NEW p \in Procs, Buy(p) PROVE Over'
    <2>1. UNCHANGED chain
      BY <1>9, Frames DEF environment, Land
    <2>2. CASE BroadcastRejected(p)
      BY <1>4, <1>6, <1>9, <2>1, <2>2, RejectEffect
    <2>3. CASE UNCHANGED disk
      BY <1>1, <1>6, <1>9, <2>1, <2>3, Entry
    <2>4. QED
      BY <1>2, <1>3, <1>5, <1>9, <2>2, <2>3, Frames
  <1>10. Environment => \/ \E tx \in network : Mine(tx)
                        \/ UNCHANGED <<disk, run>> /\ chain' \subseteq chain
    BY DEF Environment, Forget, Reorganise, NewBlock, SpendNonce
  <1>11. QED
    BY <1>7, <1>8, <1>9, <1>10 DEF Next, vars

\* No two receipts paid for one ERC-721 token: the journal knows the tokens
\* bought so far, and the purchase that is mined is for none of them.
LEMMA NoTokenTwiceStep ==
  ASSUME Types, Types', Discipline, Tracking, Over, NoTokenTwice, [Next]_vars
  PROVE  NoTokenTwice'
  <1> USE DEF NoTokenTwice
  <1>1. ASSUME NEW tx \in network, Mine(tx) PROVE NoTokenTwice'
    <2>1. PICK r \in Receipt : chain' = chain \cup {r} /\ r.tx = tx
      BY <1>1, MineEffect
    <2>2. PendingTxs = {tx} /\ disk.pending # None /\ disk.pending.tx = tx
      BY <1>1 DEF Tracking, NoOrphan, PendingTxs
    <2>3. \A s \in chain : s.tx \notin PendingTxs
      BY <2>2, <1>1 DEF Tracking, ChainOrder
    <2>4. tx.order \in Erc721 => Token[tx.order] \notin disk.tokens
      BY <2>2 DEF Over, Skipped
    <2>5. ASSUME NEW s \in chain, tx.order \in Erc721, s.tx.order \in Erc721,
                 Token[s.tx.order] = Token[tx.order], s.outcome \in {"bought", "empty"}
          PROVE  FALSE
      BY <2>3, <2>4, <2>5 DEF Over
    <2>6. ASSUME NEW a \in chain', NEW b \in chain',
                 {a.tx.order, b.tx.order} \subseteq Erc721,
                 Token[a.tx.order] = Token[b.tx.order],
                 {a.outcome, b.outcome} \subseteq {"bought", "empty"}
          PROVE  a = b
      <3>1. CASE a \in chain /\ b \in chain
        BY <2>6, <3>1
      <3>2. CASE a = r /\ b \in chain
        BY <2>1, <2>5, <2>6, <3>2
      <3>3. CASE b = r /\ a \in chain
        BY <2>1, <2>5, <2>6, <3>3
      <3>4. QED
        BY <2>1, <3>1, <3>2, <3>3
    <2>7. QED
      BY <2>6
  <1>2. CASE chain' \subseteq chain
    BY <1>2
  <1>3. QED
    BY <1>1, <1>2, Frames
       DEF Next, Environment, vars, environment, Land, Reorganise, Forget, NewBlock, SpendNonce

-----------------------------------------------------------------------------
(* The theorems. *)

LEMMA Invariance == Spec => [](IInv /\ NoTokenTwice)
  <1>1. Init => IInv /\ NoTokenTwice
    BY InitTypes, InitDiscipline, InitTracking, InitAccounts, InitOver
       DEF IInv, Init, NoTokenTwice
  <1>2. IInv /\ NoTokenTwice /\ [Next]_vars => IInv' /\ NoTokenTwice'
    <2> SUFFICES ASSUME IInv, NoTokenTwice, [Next]_vars PROVE IInv' /\ NoTokenTwice'
      OBVIOUS
    <2>1. Types' /\ Discipline'
      BY TypesStep, DisciplineStep DEF IInv
    <2>2. Tracking' /\ Accounts' /\ Over' /\ NoTokenTwice'
      BY <2>1, TrackingStep, AccountsStep, OverStep, NoTokenTwiceStep DEF IInv
    <2>3. QED
      BY <2>1, <2>2 DEF IInv
  <1>3. QED
    BY <1>1, <1>2, PTL DEF Spec

\* Types, and the quantity: the loop of run never counts past it.
THEOREM TypeCorrect == Spec => []TypeOK
  <1>1. IInv => TypeOK
    BY DEF IInv, Types, Accounts, Limits, TypeOK
  <1>2. QED
    BY <1>1, Invariance, PTL

\* Whatever crashes, times out, is refused or leaves the chain, the journal
\* has the one transaction of the session whose fate is open.
THEOREM OrphanFree == Spec => []NoOrphan
  <1>1. IInv => NoOrphan
    BY DEF IInv, Tracking
  <1>2. QED
    BY <1>1, Invariance, PTL

\* The process that works on the session has the journal of the disk in memory.
THEOREM JournalInMemory == Spec => []WorksFromDisk
  <1>1. IInv => WorksFromDisk
    <2> SUFFICES ASSUME IInv, NEW p \in Procs, run[p].pc \notin {"down", "load"}
                 PROVE  run[p].journal = disk
      BY DEF WorksFromDisk
    <2>1. run[p].pc \in Unsent \cup Committed
      BY DEF IInv, Types, Run, PCs, Unsent, Committed
    <2>2. QED
      BY <2>1 DEF IInv, Discipline
  <1>2. QED
    BY <1>1, Invariance, PTL

\* The count in the journal is the count on chain.
THEOREM CountIsExact == Spec => []CountMatchesChain
  <1>1. IInv => CountMatchesChain
    <2> SUFFICES ASSUME IInv PROVE CountMatchesChain
      OBVIOUS
    <2> DEFINE mined == MinedPending("bought")
    <2>1. CASE \A r \in chain : r.tx \notin PendingTxs
      <3>1. mined = {} /\ wallet.nfts = disk.purchased
        BY <2>1 DEF MinedPending, IInv, Accounts, Balance
      <3>2. Cardinality(mined) = 0
        BY <3>1, FS_EmptySet
      <3>3. QED
        BY <3>1, <3>2, Numbers DEF CountMatchesChain, IInv
    <2>2. ASSUME NEW r \in chain, r.tx \in PendingTxs PROVE CountMatchesChain
      <3>1. \A s \in chain : s.tx \in PendingTxs => s = r
        BY <2>2, OneReceipt DEF PendingTxs, IInv, Tracking
      <3>2. wallet.nfts = disk.purchased + (IF r.outcome = "bought" THEN 1 ELSE 0)
        BY <2>2 DEF IInv, Accounts, Balance
      <3>3. CASE r.outcome = "bought"
        <4>1. mined = {r}
          BY <2>2, <3>1, <3>3 DEF MinedPending
        <4>2. Cardinality(mined) = 1
          BY <4>1, FS_Singleton
        <4>3. QED
          BY <3>2, <3>3, <4>2 DEF CountMatchesChain
      <3>4. CASE r.outcome # "bought"
        <4>1. mined = {}
          BY <2>2, <3>1, <3>4 DEF MinedPending
        <4>2. Cardinality(mined) = 0
          BY <4>1, FS_EmptySet
        <4>3. QED
          BY <3>2, <3>4, <4>2 DEF CountMatchesChain
      <3>5. QED
        BY <3>3, <3>4
    <2>3. QED
      BY <2>1, <2>2
  <1>2. QED
    BY <1>1, Invariance, PTL

\* The wallet never gets more NFTs than the session asked for.
THEOREM QuantityIsKept == Spec => []NoOverbuy
  <1>1. IInv => NoOverbuy
    <2> SUFFICES ASSUME IInv PROVE NoOverbuy
      OBVIOUS
    <2>1. /\ disk.purchased \in Nat /\ disk.purchased <= Quantity /\ Quantity \in Nat
          /\ disk.pending # None => disk.purchased < Quantity
      BY Numbers, ConstantsAssumption DEF IInv, Accounts, Limits
    <2>2. CASE \A r \in chain : r.tx \notin PendingTxs
      BY <2>1, <2>2 DEF NoOverbuy, IInv, Accounts, Balance
    <2>3. ASSUME NEW r \in chain, r.tx \in PendingTxs PROVE NoOverbuy
      <3>1. wallet.nfts = disk.purchased + (IF r.outcome = "bought" THEN 1 ELSE 0)
        BY <2>3 DEF IInv, Accounts, Balance
      <3>2. disk.purchased < Quantity
        BY <2>1, <2>3 DEF PendingTxs
      <3>3. QED
        BY <2>1, <3>1, <3>2 DEF NoOverbuy
    <2>4. QED
      BY <2>2, <2>3
  <1>2. QED
    BY <1>1, Invariance, PTL

\* Reverted purchases never cost more than the limit, the pending one included.
THEOREM LossLimitIsKept == Spec => []LossWithinBudget
  <1>1. IInv => LossWithinBudget
    <2> SUFFICES ASSUME IInv PROVE LossWithinBudget
      OBVIOUS
    <2>1. CASE \A r \in chain : r.tx \notin PendingTxs
      BY <2>1 DEF LossWithinBudget, IInv, Accounts, Balance, Limits
    <2>2. ASSUME NEW r \in chain, r.tx \in PendingTxs PROVE LossWithinBudget
      <3>1. wallet.gasLost = disk.failedGas + r.cost
        BY <2>2 DEF IInv, Accounts, Balance
      <3>2. disk.pending # None /\ r.tx = disk.pending.tx
        BY <2>2 DEF PendingTxs
      <3>3. /\ r.cost <= disk.pending.tx.reserve
            /\ disk.failedGas + disk.pending.tx.reserve <= FailedGasCap
        BY <3>2 DEF IInv, Accounts, Costs, Limits
      <3>4. /\ r.cost \in Nat /\ disk.pending.tx.reserve \in Nat /\ disk.failedGas \in Nat
        BY <3>2, Numbers DEF IInv, Types
      <3>5. QED
        BY <3>1, <3>3, <3>4, ConstantsAssumption DEF LossWithinBudget
    <2>3. QED
      BY <2>1, <2>2
  <1>2. QED
    BY <1>1, Invariance, PTL

\* No ERC-721 token is paid for twice.
THEOREM TokensAreUnique == Spec => []NoTokenTwice
  BY Invariance, PTL

\* An order that reverted is given up.
THEOREM RevertedOrdersAreOver == Spec => []RevertedNotRetried
  <1>1. IInv => RevertedNotRetried
    <2> SUFFICES ASSUME IInv, NEW r \in chain, r.outcome = "reverted", r.tx \notin PendingTxs
                 PROVE  /\ \A tx \in network \cup PendingTxs : tx.order # r.tx.order
                        /\ \A p \in Procs : run[p].pc = "sign" =>
                             run[p].plan.order # r.tx.order
      BY DEF RevertedNotRetried
    <2>1. r.tx.order \in disk.failed
      BY DEF IInv, Over
    <2>2. \A tx \in network \cup PendingTxs : disk.pending # None /\ tx = disk.pending.tx
      BY DEF IInv, Tracking, NoOrphan, PendingTxs
    <2>3. QED
      BY <2>1, <2>2 DEF IInv, Over, Skipped
  <1>2. QED
    BY <1>1, Invariance, PTL

\* The pending purchase leaves the journal only when its fate cannot change.
THEOREM PurchasesAreResolved == Spec => ResolvedForGood
  <1> DEFINE Leaves == disk.pending # None /\ disk'.pending = None
             Final == \/ \E receipt \in ReceiptsOf(disk.pending.tx) :
                           DeepEnough(receipt) /\ receipt.outcome # "empty"
                      \/ disk.pending.tx \notin network /\ ReceiptsOf(disk.pending.tx) = {}
  <1>1. IInv /\ [Next]_vars => [Leaves => Final]_vars
    <2> SUFFICES ASSUME IInv, [Next]_vars, Leaves PROVE Final
      OBVIOUS
    <2> USE DEF IInv
    <2>1. ASSUME NEW p \in Procs, Buy(p), disk' # disk PROVE Final
      <3>1. CASE SignAndSave(p)
        BY <3>1, SignEffect
      <3>2. CASE MarkAttempted(p)
        BY <3>2, MarkEffect
      <3>3. CASE BroadcastRejected(p)
        <4>1. run[p].pc = "send" /\ ~run[p].landed /\ run[p].first
          BY <2>1, <3>3, RejectEffect
        <4>2. Nowhere(disk.pending.tx)
          BY <4>1 DEF Tracking, Sending
        <4>3. QED
          BY <4>2 DEF Nowhere, ReceiptsOf
      <3>4. CASE SettleBought(p) \/ SettleReverted(p)
        <4>1. /\ run[p].seen \in chain /\ run[p].seen.tx = disk.pending.tx
              /\ DeepEnough(run[p].seen)
          BY <3>4, SettleEffect DEF Tracking, Confirming
        <4>2. run[p].seen.outcome # "empty"
          BY <3>4, SettleOrders
        <4>3. QED
          BY <4>1, <4>2 DEF ReceiptsOf
      <3>5. QED
        BY <2>1, <3>1, <3>2, <3>3, <3>4, Frames
    <2>2. Environment => UNCHANGED disk
      BY DEF Environment, Mine, Forget, Reorganise, NewBlock, SpendNonce
    <2>3. QED
      BY <2>1, <2>2 DEF Next, vars
  <1>2. Spec => [][Leaves => Final]_vars
    BY <1>1, Invariance, PTL DEF Spec
  <1>3. QED
    BY <1>2 DEF ResolvedForGood

-----------------------------------------------------------------------------
(* AutoBuy implements PurchaseLedger. *)

LEMMA LedgerInit == Init => Ledger!Init
  <1> SUFFICES ASSUME Init PROVE Ledger!Init
    OBVIOUS
  <1>1. disk.purchased = 0 /\ disk.failedGas = 0 /\ disk.failed = {}
    BY DEF Init, LegacyJournal, EmptyJournal
  <1>2. CASE disk.pending = None
    BY <1>1, <1>2 DEF Ledger!Init, OpenPurchase
  <1>3. CASE disk.pending # None
    <2>1. disk.pending.tx \in Tx /\ disk.pending.tx.reserve <= FailedGasCap
      BY <1>3, ConstantsAssumption DEF Init, LegacyJournal, EmptyJournal, Tx
    <2>2. QED
      BY <1>1, <1>3, <2>1, ConstantsAssumption DEF Ledger!Init, Ledger!Purchase, Tx,
                                                        OpenPurchase
  <1>4. QED
    BY <1>2, <1>3

\* Signing commits; settling fills or fails; a refused first submission fails;
\* every other step leaves the ledger alone.
LEMMA LedgerStep == IInv /\ IInv' /\ [Next]_vars => [Ledger!Next]_(Ledger!ledger)
  <1> SUFFICES ASSUME IInv, IInv', [Next]_vars PROVE [Ledger!Next]_(Ledger!ledger)
    OBVIOUS
  <1> USE DEF IInv
  <1>0. /\ disk.pending # None => OpenPurchase = disk.pending.tx /\ OpenPurchase # None
        /\ disk'.pending = None => OpenPurchase' = None
    BY Numbers, NoneAssumption DEF OpenPurchase
  <1>1. CASE UNCHANGED disk
    BY <1>1 DEF Ledger!ledger, OpenPurchase
  <1>2. ASSUME NEW p \in Procs, SignAndSave(p) PROVE Ledger!Commit
    <2>1. /\ run[p].pc = "sign" /\ disk.pending = None /\ disk'.pending # None
          /\ disk'.pending.tx = run[p].plan /\ run[p].plan \in Tx
          /\ UNCHANGED <<disk.purchased, disk.failedGas, disk.failed>>
      BY <1>2, SignEffect
    <2>2. run[p].plan.order \notin disk.failed
      BY <2>1 DEF Over, Skipped
    <2>3. disk.purchased < Quantity /\ disk.failedGas + run[p].plan.reserve <= FailedGasCap
      BY <2>1 DEF Accounts, Limits
    <2>4. OpenPurchase = None /\ OpenPurchase' = run[p].plan
      BY <2>1 DEF OpenPurchase
    <2>5. QED
      BY <2>1, <2>2, <2>3, <2>4 DEF Ledger!Commit, Ledger!Purchase, Tx
  <1>3. ASSUME NEW p \in Procs, MarkAttempted(p) PROVE UNCHANGED Ledger!ledger
    BY <1>3, MarkEffect DEF Ledger!ledger, OpenPurchase
  <1>4. ASSUME NEW p \in Procs, BroadcastRejected(p), disk' = Finish(disk, FALSE) PROVE Ledger!Fail
    <2>1. disk.pending # None /\ disk \in Journal
      BY <1>4, RejectEffect DEF Types
    <2>2. disk'.purchased = disk.purchased + 0 /\ disk'.failedGas = disk.failedGas
          /\ disk'.pending = None /\ disk'.failed = disk.failed \cup {disk.pending.tx.order}
      BY <1>4, <2>1, FinishPending, FinishOrders
    <2>3. disk'.purchased = disk.purchased
      BY <2>2, Numbers
    <2>4. disk'.failedGas \in disk.failedGas..(disk.failedGas + disk.pending.tx.reserve)
      BY <2>1, <2>2, Numbers
    <2>5. QED
      BY <1>0, <2>1, <2>2, <2>3, <2>4 DEF Ledger!Fail
  <1>5. ASSUME NEW p \in Procs, SettleBought(p) \/ SettleReverted(p)
        PROVE  Ledger!Fill \/ Ledger!Fail
    <2>1. /\ disk.pending # None /\ disk \in Journal /\ run[p].seen \in Receipt
          /\ run[p].seen \in chain /\ run[p].seen.tx = disk.pending.tx
      BY <1>5, SettleEffect DEF Tracking, Confirming, Types
    <2>2. /\ disk'.purchased = disk.purchased + (IF run[p].seen.outcome = "bought" THEN 1 ELSE 0)
          /\ disk'.failedGas = disk.failedGas + run[p].seen.cost
          /\ disk'.pending = None
      BY <1>5, <2>1, SettleCounts DEF Accounts
    <2>3. /\ run[p].seen.cost \in Nat /\ run[p].seen.cost <= disk.pending.tx.reserve
          /\ run[p].seen.outcome = "reverted" <=> run[p].seen.cost > 0
      BY <2>1, Numbers DEF Accounts, Costs
    <2>4. CASE run[p].seen.outcome = "bought" /\ disk' = Finish(disk, TRUE)
      <3>1. disk'.failed = disk.failed
        BY <2>1, <2>4, FinishOrders
      <3>2. disk'.failedGas = disk.failedGas
        BY <2>2, <2>3, <2>4, Numbers
      <3>3. disk'.purchased = disk.purchased + 1
        BY <2>2, <2>4
      <3>4. QED
        BY <1>0, <2>1, <2>2, <3>1, <3>2, <3>3 DEF Ledger!Fill
    <2>5. CASE /\ run[p].seen.outcome = "reverted"
               /\ disk' = Finish(ChargeFailedGas(disk, run[p].seen.cost), FALSE)
      <3>1. /\ ChargeFailedGas(disk, run[p].seen.cost) \in Journal
            /\ ChargeFailedGas(disk, run[p].seen.cost).failed = disk.failed
            /\ ChargeFailedGas(disk, run[p].seen.cost).pending = disk.pending
        BY <2>1, <2>3 DEF ChargeFailedGas, Journal
      <3>2. disk'.failed = disk.failed \cup {disk.pending.tx.order}
        BY <2>5, <3>1, FinishOrders
      <3>3. disk'.failedGas \in disk.failedGas..(disk.failedGas + disk.pending.tx.reserve)
        BY <2>1, <2>2, <2>3, Numbers
      <3>4. disk'.purchased = disk.purchased
        BY <2>2, <2>5, Numbers
      <3>5. QED
        BY <1>0, <2>1, <2>2, <3>2, <3>3, <3>4 DEF Ledger!Fail
    <2>6. QED
      BY <1>5, <2>4, <2>5, SettleEffect
  <1>6. ASSUME NEW p \in Procs, Buy(p) PROVE [Ledger!Next]_(Ledger!ledger)
    <2>1. CASE BroadcastRejected(p)
      BY <1>1, <1>4, <2>1, RejectEffect DEF Ledger!Next
    <2>2. QED
      BY <1>1, <1>2, <1>3, <1>5, <1>6, <2>1, Frames DEF Ledger!Next
  <1>7. Environment => UNCHANGED disk
    BY DEF Environment, Mine, Forget, Reorganise, NewBlock, SpendNonce
  <1>8. QED
    BY <1>1, <1>6, <1>7 DEF Next, vars

\* The session, with its crashes, lock, lagging nodes and reorganisations, is a
\* purchase ledger.
THEOREM ImplementsLedger == Spec => KeepsLedger
  <1>1. Init => Ledger!Init
    BY LedgerInit
  <1>2. IInv /\ IInv' /\ [Next]_vars => [Ledger!Next]_(Ledger!ledger)
    BY LedgerStep
  <1>3. QED
    BY <1>1, <1>2, Invariance, PTL DEF Spec, KeepsLedger, Ledger!Spec
=============================================================================
