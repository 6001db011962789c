--------------------------- MODULE AutoSellProofs ---------------------------
(***************************************************************************)
(* Proofs, for any tokens, prices, fees, confirmations and forks, that the *)
(* sales of an AutoSell run pay, that one transaction is in flight at a    *)
(* time, that a sale goes out on a final approval only, and that what the  *)
(* run reports stays true.                                                 *)
(***************************************************************************)
EXTENDS AutoSell, TLAPS

Underway == Sending \cup Waiting

\* What the run has in memory at each step.
Memory ==
  /\ run.pc \in {"nonce", "reread", "requote"} \cup Underway => lock = "run"
  /\ run.pc \in Underway => run.tx \in Tx /\ run.tx.token = run.token
  /\ run.pc = "approve" => run.tx.kind = "approve"
  /\ run.pc = "send" => run.tx.kind = "sale"
  /\ run.landed => run.pc \in Sending
  /\ run.pc \in {"confirm", "recheck", "settle"} =>
       run.seen \in Receipt /\ run.seen.tx = run.tx
  /\ run.pc = "recheck" => Deep(run.seen)
  /\ run.pc = "settle" => run.seen \in chain /\ Deep(run.seen)
  /\ run.pc \in {"reread", "requote"} => run.approvalGas = 0
  /\ run.approvalGas \in Gases \cup {0}

\* Heights and nonces grow together along the chain.
ChainOrder ==
  /\ \A r \in chain : r.height <= head /\ r.tx.nonce < nonce /\ r.cost <= r.tx.gas
  /\ \A r, s \in chain : r # s => r.tx.nonce # s.tx.nonce
  /\ \A r, s \in chain : r.height < s.height => r.tx.nonce < s.tx.nonce

\* Every transaction that has landed and that a node or the chain still has.
Known == network \cup {r.tx : r \in chain}

\* Those that may be mined, or dropped by a fork.
Live == {tx \in network : ~Dead(tx)} \cup {r.tx : r \in {s \in chain : ~Deep(s)}}

\* There is one at most.  While the batch goes on it is the run's.
InFlight ==
  /\ \A x, y \in Live : x = y
  /\ run.pc \notin Ended => \A x \in Live : run.pc \in Underway /\ x = run.tx
  /\ run.pc \in Sending /\ ~run.landed => run.tx \notin Known
  /\ (run.pc \in Waiting \/ run.landed) /\ nonce > run.tx.nonce =>
       ReceiptsOf(run.tx) # {}

\* The run has nothing to approve, or no longer.
Selling ==
  \/ run.pc \in {"lock", "nonce", "reread", "requote"} /\ run.approvalGas = 0
  \/ run.pc \in Underway /\ run.tx.kind = "sale"

\* Nothing has been sent yet for the token.
Untouched ==
  \/ run.pc \in {"poll", "quote"}
  \/ run.pc \in {"lock", "nonce"} /\ run.approvalGas > 0

\* The transactions of a token are those that the run has come to.
Fresh ==
  /\ \A x \in Known : x.token \notin run.todo
  /\ Untouched => \A x \in Known : x.token # run.token
  /\ run.pc \in Underway /\ run.tx.kind = "approve" =>
       \A x \in Known : x.token = run.token => x = run.tx
  /\ Selling => \A x \in Known : x.token = run.token /\ x.kind = "sale" =>
                   run.pc \in Underway /\ x = run.tx

\* A bound on what the approvals of a token have cost, and no more will be mined.
ApprovalsCost(token, bound) ==
  /\ \A r \in chain : r.tx.kind = "approve" /\ r.tx.token = token => r.cost <= bound
  /\ \A x \in Live : x.kind = "approve" => x.token # token

Pays(sale) ==
  LET surplus == sale.pays * sale.price - (Share + MinProfit + sale.gas)
  IN  surplus >= 0 /\ ApprovalsCost(sale.token, surplus)

\* Sales were judged with what their approval cost.
Earned ==
  /\ Selling => ApprovalsCost(run.token, run.paid)
  /\ run.pc \in Underway /\ run.tx.kind = "sale" => Pays(run.tx)
  /\ \A x \in Known : x.kind = "sale" => Pays(x)

FinalApproval ==
  Approved \/ \E r \in chain : r.tx.kind = "approve" /\ r.ok /\ Deep(r)

Allowed == (Selling \/ \E x \in Known : x.kind = "sale") => FinalApproval

IInv == TypeOK /\ Memory /\ ChainOrder /\ InFlight /\ Fresh /\ Earned /\ Allowed /\ ReportIsRight

-----------------------------------------------------------------------------
(* Kinds of steps. *)

\* The run ends, with its token's outcome unknown or in error.
End ==
  /\ run.pc \notin Ended
  /\ \E pc \in Ended : Return([run EXCEPT !.pc = pc])

\* No sale of the token can be mined, any more or at all.
GiveUp ==
  /\ \/ run.pc \in {"poll", "quote", "nonce", "reread", "requote"}
     \/ run.pc \in Sending /\ ~run.landed
     \/ run.pc = "settle" /\ ~run.seen.ok
  /\ Skip

\* The run goes on with its token.
Advance ==
  \/ NextToken \/ Summarise \/ FindOffer \/ Acquire \/ ReadNonce
  \/ Accepted \/ FindReceipt \/ CheckDepth \/ Revalidate \/ Resume \/ ApprovalMined
  \/ run.pc = "quote" /\ \E price \in Prices, gas \in Gases,
        approvalGas \in IF IsApproved THEN {0} ELSE Gases :
       Step([run EXCEPT !.pc = "lock", !.approvalGas = approvalGas])
  \/ run.pc = "reread" /\ \E pays \in Payouts :
       Step([run EXCEPT !.pc = "requote", !.latest = pays])
  \/ run.pc = "requote" /\ \E price \in Prices, gas \in Gases :
       /\ Profitable(run.latest, price, gas, run.paid)
       /\ Step([run EXCEPT !.pc = "send", !.tx = Sale(gas, price)])

\* The nodes and the wallet's other processes.
World ==
  \/ \E tx \in network : Mine(tx) \/ Forget(tx)
  \/ \E receipt \in chain : Reorganise(receipt)
  \/ NewBlock \/ OtherAcquires \/ OtherSpends

LEMMA Kinds == Next => End \/ GiveUp \/ SaleMined \/ Advance \/ Land \/ World
  <1> SUFFICES ASSUME Next PROVE End \/ GiveUp \/ SaleMined \/ Advance \/ Land \/ World
    OBVIOUS
  <1> USE DEF Sending, Waiting, Ended
  <1>1. CASE Batch \/ FindOffer \/ Acquire \/ ReadNonce \/ Accepted \/ FindReceipt
             \/ CheckDepth \/ Revalidate \/ Resume \/ ApprovalMined
    BY <1>1 DEF Batch, Advance
  <1>2. CASE NoOffer
    BY <1>2 DEF NoOffer, GiveUp
  <1>3. CASE Quote
    BY <1>3 DEF Quote, GiveUp, Advance
  <1>4. CASE RereadOffer
    BY <1>4 DEF RereadOffer, GiveUp, Advance
  <1>5. CASE Requote
    BY <1>5 DEF Requote, GiveUp, Advance
  <1>6. CASE ReadFails \/ SendFails \/ Reverted
    <2>1. CASE RequireUsdPrice
      BY <1>6, <2>1 DEF ReadFails, SendFails, Reverted, Raise, End
    <2>2. CASE ~RequireUsdPrice
      BY <1>6, <2>2 DEF ReadFails, SendFails, Reverted, Raise, GiveUp, Skip
    <2>3. QED
      BY <2>1, <2>2
  <1>7. CASE SendUnknown \/ TimeOut \/ Kill
    BY <1>7 DEF SendUnknown, TimeOut, Unknown, Kill, End
  <1>8. CASE SaleMined \/ Land \/ World
    BY <1>8
  <1>9. QED
    BY <1>1, <1>2, <1>3, <1>4, <1>5, <1>6, <1>7, <1>8
    DEF Next, Judge, Send, Wait, Settle, Environment, World, Batch


\* The run has left its token.
Left ==
  /\ run' \in Run
  /\ run'.pc \in {"next"} \cup Ended
  /\ run'.todo = run.todo
  /\ run'.token = None
  /\ run'.landed = FALSE
  /\ run'.approvalGas = 0
  /\ lock' \in {"run", "other", "free"}
  /\ UNCHANGED environment

LEMMA Returned ==
  ASSUME TypeOK, NEW new \in Run, Return(new),
         new.pc \in {"next"} \cup Ended, new.todo = run.todo
  PROVE  Left /\ run'.pc = new.pc /\ run'.sold = new.sold /\ run'.skipped = new.skipped
  BY DEF Return, Run, TypeOK, Left

LEMMA Ends ==
  ASSUME TypeOK, End
  PROVE  /\ Left
         /\ run'.pc \in Ended
         /\ run'.sold = run.sold
         /\ run'.skipped = run.skipped
  <1>1. PICK pc \in Ended : Return([run EXCEPT !.pc = pc])
    BY DEF End
  <1>2. [run EXCEPT !.pc = pc] \in Run /\ [run EXCEPT !.pc = pc].pc = pc
        /\ [run EXCEPT !.pc = pc].todo = run.todo
        /\ [run EXCEPT !.pc = pc].sold = run.sold
        /\ [run EXCEPT !.pc = pc].skipped = run.skipped
    BY DEF TypeOK, Run, PCs
  <1>3. QED
    BY <1>1, <1>2, Returned

LEMMA GivesUp ==
  ASSUME TypeOK, GiveUp
  PROVE  /\ Left
         /\ run.token \in Tokens
         /\ run'.pc = "next"
         /\ run'.sold = run.sold
         /\ run'.skipped = run.skipped \cup {run.token}
  <1>1. run.token \in Tokens
    BY DEF TypeOK, GiveUp, Ended, Sending
  <1>2. Skipped \in Run /\ Skipped.pc = "next" /\ Skipped.todo = run.todo
        /\ Skipped.sold = run.sold /\ Skipped.skipped = run.skipped \cup {run.token}
    BY <1>1 DEF TypeOK, Run, PCs, Skipped
  <1>3. QED
    BY <1>1, <1>2, Returned DEF GiveUp, Skip

LEMMA Sells ==
  ASSUME TypeOK, SaleMined
  PROVE  /\ Left
         /\ run.token \in Tokens
         /\ run'.pc = "next"
         /\ run'.sold = run.sold \cup {run.token}
         /\ run'.skipped = run.skipped
  <1> DEFINE new == [run EXCEPT !.pc = "next", !.sold = @ \cup {run.token}]
  <1>1. run.token \in Tokens
    BY DEF TypeOK, SaleMined, Ended
  <1>2. new \in Run /\ new.pc = "next" /\ new.todo = run.todo
        /\ new.sold = run.sold \cup {run.token} /\ new.skipped = run.skipped
    BY <1>1 DEF TypeOK, Run, PCs
  <1>3. QED
    BY <1>1, <1>2, Returned DEF SaleMined, Sell

-----------------------------------------------------------------------------
(* Types. *)

LEMMA InitType == Init => TypeOK
  BY ConstantsAssumption DEF Init, TypeOK, Run, PCs, Ended

\* A step that goes on leaves the chain alone.
LEMMA AdvanceFrame ==
  ASSUME TypeOK, Advance
  PROVE  UNCHANGED environment /\ (lock' = lock \/ (lock' = "run" /\ run.pc = "lock"))
  <1>1. CASE NextToken \/ Summarise \/ FindOffer \/ ReadNonce \/ Accepted
    BY <1>1 DEF NextToken, Summarise, FindOffer, ReadNonce, Accepted, Step
  <1>2. CASE FindReceipt \/ CheckDepth \/ Revalidate \/ Resume \/ ApprovalMined
    BY <1>2 DEF FindReceipt, CheckDepth, Revalidate, Resume, ApprovalMined, Step
  <1>3. CASE Acquire
    BY <1>3 DEF Acquire
  <1>4. QED
    BY <1>1, <1>2, <1>3 DEF Advance, Step

\* A step that goes on with the token keeps the types.
LEMMA AdvanceType ==
  ASSUME TypeOK, Memory, Advance
  PROVE  TypeOK'
  <1>0. run \in Run
    BY DEF TypeOK
  <1>1. /\ run' \in Run
        /\ run'.pc \notin Ended \cup {"next"} => run'.token \in Tokens
        /\ run'.sold = run.sold /\ run'.skipped = run.skipped
        /\ \/ run'.todo = run.todo /\ run'.token = run.token
           \/ run'.token \in run.todo /\ run'.todo = run.todo \ {run'.token}
    <2> USE <1>0, ConstantsAssumption DEF Step
    <2>1. CASE NextToken
      <3>1. PICK token \in run.todo :
              run' = [run EXCEPT !.pc = "poll", !.token = token, !.todo = @ \ {token}]
        BY <2>1 DEF NextToken
      <3>2. QED
        BY <3>1 DEF Run, PCs
    <2>2. CASE Summarise
      BY <2>2 DEF Summarise, Run, PCs, Ended
    <2>3. CASE FindOffer \/ Acquire
      <3>1. run.token \in Tokens
        BY <2>3 DEF FindOffer, Acquire, TypeOK, Ended
      <3>2. CASE FindOffer
        BY <3>1, <3>2 DEF FindOffer, Run, PCs
      <3>3. CASE Acquire
        BY <3>1, <3>3 DEF Acquire, Run, PCs
      <3>4. QED
        BY <2>3, <3>2, <3>3
    <2>4. CASE ReadNonce
      <3>1. PICK n \in NonceReads :
              run' = IF run.approvalGas > 0
                     THEN [run EXCEPT !.pc = "approve", !.tx = Approval(n)]
                     ELSE [run EXCEPT !.pc = "reread", !.nonce = n]
        BY <2>4 DEF ReadNonce
      <3>2. n \in Nat /\ run.token \in Tokens
        BY <2>4 DEF NonceReads, ReadNonce, TypeOK, Ended
      <3>3. run.approvalGas > 0 => Approval(n) \in Tx
        BY <3>2 DEF Approval, Tx, Memory
      <3>4. CASE run.approvalGas > 0
        BY <3>1, <3>2, <3>3, <3>4 DEF Run, PCs, Sending
      <3>5. CASE ~(run.approvalGas > 0)
        BY <3>1, <3>2, <3>5 DEF Run, PCs
      <3>6. QED
        BY <3>4, <3>5
    <2>5. CASE Accepted \/ CheckDepth \/ Resume
      <3>1. run.token \in Tokens
        BY <2>5 DEF Accepted, CheckDepth, Resume, TypeOK, Ended, Sending
      <3>2. CASE Accepted
        BY <3>1, <3>2 DEF Accepted, Run, PCs, Waiting
      <3>3. CASE CheckDepth \/ Resume
        <4>1. PICK pc \in {"watch", "recheck"} : run' = [run EXCEPT !.pc = pc]
          BY <3>3 DEF CheckDepth, Resume
        <4>2. QED
          BY <3>1, <4>1 DEF Run, PCs, Waiting
      <3>4. QED
        BY <2>5, <3>2, <3>3
    <2>6. CASE FindReceipt \/ Revalidate
      <3>1. PICK receipt \in chain, pc \in {"settle", "confirm"} :
              run' = [run EXCEPT !.seen = receipt, !.pc = pc]
        BY <2>6 DEF FindReceipt, Revalidate, ReceiptsOf
      <3>2. receipt \in Receipt /\ run.token \in Tokens
        BY <2>6 DEF FindReceipt, Revalidate, TypeOK, Ended
      <3>3. QED
        BY <3>1, <3>2 DEF Run, PCs, Waiting
    <2>7. CASE ApprovalMined
      <3>1. run.seen.cost \in Nat /\ run.token \in Tokens
        BY <2>7 DEF ApprovalMined, Memory, Receipt, TypeOK, Ended
      <3>2. QED
        BY <2>7, <3>1 DEF ApprovalMined, Run, PCs
    <2>8. CASE run.pc = "quote" /\ \E price \in Prices, gas \in Gases,
                 approvalGas \in IF IsApproved THEN {0} ELSE Gases :
               Step([run EXCEPT !.pc = "lock", !.approvalGas = approvalGas])
      <3>1. PICK approvalGas \in Gases \cup {0} :
              run' = [run EXCEPT !.pc = "lock", !.approvalGas = approvalGas]
        BY <2>8
      <3>2. run.token \in Tokens /\ approvalGas \in Nat
        BY <2>8 DEF TypeOK, Ended
      <3>3. QED
        BY <3>1, <3>2 DEF Run, PCs
    <2>9. CASE run.pc = "reread" /\ \E pays \in Payouts :
               Step([run EXCEPT !.pc = "requote", !.latest = pays])
      <3>1. PICK pays \in Payouts : run' = [run EXCEPT !.pc = "requote", !.latest = pays]
        BY <2>9
      <3>2. run.token \in Tokens
        BY <2>9 DEF TypeOK, Ended
      <3>3. QED
        BY <3>1, <3>2 DEF Run, PCs
    <2>10. CASE run.pc = "requote" /\ \E price \in Prices, gas \in Gases :
               /\ Profitable(run.latest, price, gas, run.paid)
               /\ Step([run EXCEPT !.pc = "send", !.tx = Sale(gas, price)])
      <3>1. PICK price \in Prices, gas \in Gases :
              run' = [run EXCEPT !.pc = "send", !.tx = Sale(gas, price)]
        BY <2>10
      <3>2. run.token \in Tokens
        BY <2>10 DEF TypeOK, Ended
      <3>3. Sale(gas, price) \in Tx
        BY <3>2 DEF Sale, Tx, Run
      <3>4. QED
        BY <3>1, <3>2, <3>3 DEF Run, PCs, Sending
    <2>11. QED
      BY <2>1, <2>2, <2>3, <2>4, <2>5, <2>6, <2>7, <2>8, <2>9, <2>10 DEF Advance
  <1>2. run'.token \notin run.sold \cup run.skipped
    BY <1>1 DEF TypeOK
  <1>3. run'.todo \cap (run'.sold \cup run'.skipped \cup {run'.token}) = {}
    BY <1>1 DEF TypeOK
  <1>4. QED
    BY <1>1, <1>2, <1>3, AdvanceFrame DEF TypeOK, environment

LEMMA WorldType ==
  ASSUME TypeOK, World
  PROVE  TypeOK'
  <1>1. ASSUME NEW tx \in network, Mine(tx) PROVE TypeOK'
    <2>1. PICK ok \in BOOLEAN, cost \in 1..tx.gas :
            chain' = chain \cup {[tx |-> tx, height |-> head + 1, fork |-> forks,
                                  ok |-> ok, cost |-> cost]}
      BY <1>1 DEF Mine
    <2>2. chain' \subseteq Receipt
      BY <2>1, ConstantsAssumption DEF TypeOK, Receipt, Tx
    <2>3. QED
      BY <1>1, <2>2 DEF Mine, TypeOK
  <1>2. ASSUME NEW tx \in network, Forget(tx) PROVE TypeOK'
    BY <1>2 DEF Forget, TypeOK
  <1>3. ASSUME NEW receipt \in chain, Reorganise(receipt) PROVE TypeOK'
    BY <1>3 DEF Reorganise, TypeOK, Receipt, Tx
  <1>4. CASE NewBlock \/ OtherAcquires \/ OtherSpends
    BY <1>4 DEF NewBlock, OtherAcquires, OtherSpends, TypeOK, environment
  <1>5. QED
    BY <1>1, <1>2, <1>3, <1>4 DEF World

LEMMA LeftType ==
  ASSUME TypeOK, End \/ GiveUp \/ SaleMined
  PROVE  TypeOK'
  <1>1. /\ Left
        /\ run'.sold \cap run'.skipped = {}
        /\ run'.sold \cup run'.skipped \subseteq Tokens
        /\ run.todo \cap (run'.sold \cup run'.skipped) = {}
    BY Ends, GivesUp, Sells DEF TypeOK, Run
  <1>2. QED
    BY <1>1, ConstantsAssumption DEF Left, TypeOK, environment, Run

LEMMA LandType ==
  ASSUME TypeOK, Memory, Land
  PROVE  TypeOK'
  BY DEF Land, TypeOK, Memory, Underway, Run

LEMMA TypeStep == TypeOK /\ Memory /\ [Next]_vars => TypeOK'
  <1>1. TypeOK /\ UNCHANGED vars => TypeOK'
    BY DEF TypeOK, vars
  <1>2. QED
    BY <1>1, Kinds, AdvanceType, WorldType, LeftType, LandType

-----------------------------------------------------------------------------
(* What the run has in memory. *)

LEMMA WorldFrame == World => UNCHANGED run /\ (lock = "run" => lock' = "run")
  BY DEF World, Mine, Forget, Reorganise, NewBlock, OtherAcquires, OtherSpends, environment

\* The run itself does not touch the chain, and hands the nodes transactions only
\* by landing them.
LEMMA RunFrame ==
  ASSUME TypeOK, End \/ GiveUp \/ SaleMined \/ Advance
  PROVE  UNCHANGED environment
  BY Ends, GivesUp, Sells, AdvanceFrame DEF Left

\* A receipt that is deep enough stays in the chain and deep enough.
LEMMA DeepStays ==
  ASSUME TypeOK, [Next]_vars
  PROVE  /\ head' >= head
         /\ \A r \in Receipt : Deep(r) => Deep(r)'
         /\ \A r \in chain : Deep(r) => r \in chain' /\ Deep(r)'
         /\ \A tx : Dead(tx) => Dead(tx)'
  <1>1. /\ head' \in Nat /\ head' >= head
        /\ \A r \in chain : Deep(r) => r \in chain'
    <2>1. CASE End \/ GiveUp \/ SaleMined \/ Advance \/ UNCHANGED vars
      BY <2>1, RunFrame DEF environment, vars, TypeOK
    <2>2. CASE Land
      BY <2>2 DEF Land, TypeOK
    <2>3. ASSUME NEW tx \in network, Mine(tx)
          PROVE  head' \in Nat /\ head' >= head /\ chain \subseteq chain'
      BY <2>3 DEF Mine, TypeOK
    <2>4. ASSUME NEW receipt \in chain, Reorganise(receipt)
          PROVE  head' \in Nat /\ head' >= head /\ chain' = chain \ {receipt} /\ ~Deep(receipt)
      BY <2>4 DEF Reorganise, TypeOK
    <2>5. CASE World
      BY <2>3, <2>4, <2>5
      DEF World, Forget, NewBlock, OtherAcquires, OtherSpends, environment, TypeOK
    <2>6. QED
      BY <2>1, <2>2, <2>5, Kinds
  <1>2. /\ \A r \in Receipt : Deep(r) => Deep(r)'
        /\ \A r \in chain : Deep(r) => r \in chain' /\ Deep(r)'
    BY <1>1, ConstantsAssumption DEF Deep, TypeOK, Receipt
  <1>3. QED
    BY <1>1, <1>2 DEF Dead

LEMMA InitMemory == Init => Memory
  BY DEF Init, Memory, Underway, Sending, Waiting

LEMMA AdvanceMemory ==
  ASSUME TypeOK, Memory, ChainOrder, Advance
  PROVE  Memory'
  <1>0. run \in Run /\ UNCHANGED environment
    BY AdvanceFrame DEF TypeOK
  <1> USE <1>0, ConstantsAssumption DEF Step, environment
  <1>1. CASE NextToken \/ Summarise \/ FindOffer
    <2>1. run'.pc \in {"poll", "summary", "quote"} /\ run'.landed = run.landed
          /\ run'.approvalGas = run.approvalGas
      BY <1>1 DEF NextToken, Summarise, FindOffer, Run
    <2>2. ~run.landed
      BY <1>1 DEF NextToken, Summarise, FindOffer, Memory, Sending
    <2>3. QED
      BY <2>1, <2>2 DEF Memory, Underway, Sending, Waiting
  <1>2. CASE Acquire
    BY <1>2 DEF Acquire, Memory, Run, Underway, Sending, Waiting
  <1>3. CASE Accepted \/ Resume
    <2>1. /\ run.pc \in Sending \cup {"confirm", "recheck"} /\ run'.pc = "watch"
          /\ run'.tx = run.tx /\ run'.token = run.token /\ run'.approvalGas = run.approvalGas
          /\ lock' = lock /\ ~run'.landed
      <3>1. CASE Accepted
        BY <3>1 DEF Accepted, Run
      <3>2. CASE Resume
        BY <3>2 DEF Resume, Run, Memory, Sending
      <3>3. QED
        BY <1>3, <3>1, <3>2
    <2>2. QED
      BY <2>1 DEF Memory, Underway, Sending, Waiting
  <1>4. CASE ReadNonce
    <2>1. PICK n \in NonceReads :
            run' = IF run.approvalGas > 0
                   THEN [run EXCEPT !.pc = "approve", !.tx = Approval(n)]
                   ELSE [run EXCEPT !.pc = "reread", !.nonce = n]
      BY <1>4 DEF ReadNonce
    <2>2. n \in Nat /\ run.token \in Tokens /\ lock = "run" /\ lock' = lock /\ ~run.landed
      BY <1>4 DEF NonceReads, ReadNonce, TypeOK, Memory, Ended, Sending
    <2>3. CASE run.approvalGas > 0
      <3>1. Approval(n) \in Tx /\ Approval(n).token = run.token /\ Approval(n).kind = "approve"
        BY <2>2, <2>3 DEF Approval, Tx, Memory
      <3>2. QED
        BY <2>1, <2>2, <2>3, <3>1 DEF Memory, Run, Underway, Sending, Waiting
    <2>4. CASE ~(run.approvalGas > 0)
      <3>1. run.approvalGas = 0
        BY <2>4 DEF Run
      <3>2. QED
        BY <2>1, <2>2, <2>4, <3>1 DEF Memory, Run, Underway, Sending, Waiting
    <2>5. QED
      BY <2>3, <2>4
  <1>5. CASE FindReceipt
    <2>1. PICK r \in ReceiptsOf(run.tx) :
            run' = [run EXCEPT !.seen = r,
                               !.pc = IF Confirmations <= 1 THEN "settle" ELSE "confirm"]
      BY <1>5 DEF FindReceipt
    <2>2. r \in chain /\ r \in Receipt /\ r.tx = run.tx /\ (Confirmations <= 1 => Deep(r))
      BY <2>1 DEF ReceiptsOf, TypeOK, Deep, ChainOrder, Receipt
    <2>3. QED
      BY <1>5, <2>1, <2>2 DEF FindReceipt, Memory, Run, Underway, Sending, Waiting, Deep
  <1>6. CASE CheckDepth
    BY <1>6 DEF CheckDepth, Memory, Run, Underway, Sending, Waiting, Deep
  <1>7. CASE Revalidate
    <2>1. PICK r \in ReceiptsOf(run.tx) :
            r.height = run.seen.height /\ run' = [run EXCEPT !.seen = r, !.pc = "settle"]
      BY <1>7 DEF Revalidate
    <2>2. r \in chain /\ r \in Receipt /\ r.tx = run.tx /\ Deep(r)
      BY <1>7, <2>1 DEF ReceiptsOf, TypeOK, Deep, Memory, Revalidate
    <2>3. QED
      BY <1>7, <2>1, <2>2 DEF Revalidate, Memory, Run, Underway, Sending, Waiting, Deep
  <1>8. CASE ApprovalMined
    BY <1>8 DEF ApprovalMined, Memory, Run, Underway, Sending, Waiting
  <1>9. CASE \/ run.pc = "quote" /\ \E price \in Prices, gas \in Gases,
                 approvalGas \in IF IsApproved THEN {0} ELSE Gases :
                Step([run EXCEPT !.pc = "lock", !.approvalGas = approvalGas])
    <2>1. PICK approvalGas \in Gases \cup {0} :
            run' = [run EXCEPT !.pc = "lock", !.approvalGas = approvalGas]
      BY <1>9
    <2>2. QED
      BY <1>9, <2>1 DEF Memory, Run, Underway, Sending, Waiting
  <1>10. CASE run.pc = "reread" /\ \E pays \in Payouts :
                Step([run EXCEPT !.pc = "requote", !.latest = pays])
    BY <1>10 DEF Memory, Run, Underway, Sending, Waiting
  <1>11. CASE run.pc = "requote" /\ \E price \in Prices, gas \in Gases :
                /\ Profitable(run.latest, price, gas, run.paid)
                /\ Step([run EXCEPT !.pc = "send", !.tx = Sale(gas, price)])
    <2>1. PICK price \in Prices, gas \in Gases :
            run' = [run EXCEPT !.pc = "send", !.tx = Sale(gas, price)]
      BY <1>11
    <2>2. run.token \in Tokens
      BY <1>11 DEF TypeOK, Ended
    <2>3. Sale(gas, price) \in Tx /\ Sale(gas, price).token = run.token
          /\ Sale(gas, price).kind = "sale"
      BY <2>2 DEF Sale, Tx, Run
    <2>4. QED
      BY <1>11, <2>1, <2>3 DEF Memory, Run, Underway, Sending, Waiting
  <1>12. QED
    BY <1>1, <1>2, <1>3, <1>4, <1>5, <1>6, <1>7, <1>8, <1>9, <1>10, <1>11 DEF Advance

LEMMA MemoryStep == TypeOK /\ Memory /\ ChainOrder /\ [Next]_vars => Memory'
  <1> SUFFICES ASSUME TypeOK, Memory, ChainOrder, [Next]_vars PROVE Memory'
    OBVIOUS
  <1>1. CASE End \/ GiveUp \/ SaleMined
    <2>1. Left
      BY <1>1, Ends, GivesUp, Sells
    <2>2. QED
      BY <2>1 DEF Left, Memory, Underway, Sending, Waiting, Ended
  <1>2. CASE Land
    BY <1>2 DEF Land, TypeOK, Run, Memory, Underway, Sending, Waiting, Deep
  <1>3. CASE World \/ UNCHANGED vars
    <2>1. UNCHANGED run /\ (lock = "run" => lock' = "run")
      BY <1>3, WorldFrame DEF vars
    <2>2. QED
      BY <2>1, DeepStays DEF Memory
  <1>4. QED
    BY <1>1, <1>2, <1>3, Kinds, AdvanceMemory

-----------------------------------------------------------------------------
(* The chain. *)

\* The last receipt is the one that a fork drops.
LEMMA ForkIsLast ==
  ASSUME TypeOK, ChainOrder, InFlight, NEW r \in chain, ~Deep(r)
  PROVE  \A s \in chain \ {r} : s.tx.nonce < r.tx.nonce
  <1> SUFFICES ASSUME NEW s \in chain \ {r} PROVE s.tx.nonce < r.tx.nonce
    OBVIOUS
  <1>1. Deep(s)
    BY DEF InFlight, Live, ChainOrder
  <1>2. s.height < r.height
    BY <1>1, ConstantsAssumption DEF Deep, TypeOK, Receipt
  <1>3. QED
    BY <1>2 DEF ChainOrder

LEMMA InitChainOrder == Init => ChainOrder
  BY DEF Init, ChainOrder

LEMMA ChainOrderStep == TypeOK /\ ChainOrder /\ InFlight /\ [Next]_vars => ChainOrder'
  <1> SUFFICES ASSUME TypeOK, ChainOrder, InFlight, [Next]_vars PROVE ChainOrder'
    OBVIOUS
  <1>0. /\ head \in Nat /\ nonce \in Nat /\ chain \subseteq Receipt
        /\ \A r \in chain : r.height \in Nat /\ r.tx.nonce \in Nat
    BY DEF TypeOK, Receipt, Tx
  <1>1. CASE UNCHANGED chain /\ head' \in Nat /\ head' >= head
             /\ nonce' \in Nat /\ nonce' >= nonce
    BY <1>0, <1>1 DEF ChainOrder
  <1>2. CASE End \/ GiveUp \/ SaleMined \/ Advance \/ Land \/ UNCHANGED vars
    BY <1>0, <1>1, <1>2, RunFrame DEF environment, vars, Land
  <1>3. ASSUME NEW tx \in network, Mine(tx) PROVE ChainOrder'
    <2>1. PICK ok \in BOOLEAN, cost \in 1..tx.gas :
            chain' = chain \cup {[tx |-> tx, height |-> head + 1, fork |-> forks,
                                  ok |-> ok, cost |-> cost]}
      BY <1>3 DEF Mine
    <2>2. tx.nonce = nonce /\ nonce' = nonce + 1 /\ head' = head + 1 /\ cost <= tx.gas
      BY <1>3, ConstantsAssumption DEF Mine, TypeOK, Tx
    <2>3. QED
      BY <1>0, <2>1, <2>2 DEF ChainOrder
  <1>4. ASSUME NEW r \in chain, Reorganise(r) PROVE ChainOrder'
    <2>1. /\ chain' = chain \ {r} /\ nonce' = r.tx.nonce /\ head' = head + 1
          /\ \A s \in chain \ {r} : s.tx.nonce < r.tx.nonce
      BY <1>4, ForkIsLast DEF Reorganise
    <2>2. QED
      BY <1>0, <2>1 DEF ChainOrder
  <1>5. ASSUME NEW tx \in network, Forget(tx) PROVE ChainOrder'
    BY <1>0, <1>1, <1>5 DEF Forget
  <1>6. CASE NewBlock \/ OtherAcquires \/ OtherSpends
    BY <1>0, <1>1, <1>6 DEF NewBlock, OtherAcquires, OtherSpends, environment
  <1>7. QED
    BY <1>2, <1>3, <1>4, <1>5, <1>6, Kinds DEF World

-----------------------------------------------------------------------------
(* What is in flight. *)

\* No block and no fork brings a transaction back, and what is mined was in flight.
LEMMA WorldLive ==
  ASSUME TypeOK, ChainOrder, InFlight, World
  PROVE  /\ Live' \subseteq Live
         /\ Known' \subseteq Known
         /\ \A r \in chain' \ chain : r.tx \in Live
  <1>0. /\ \A tx : Dead(tx) => Dead(tx)'
        /\ \A r \in chain : Deep(r) => Deep(r)'
    BY DeepStays DEF Next, World, Environment
  <1>1. CASE network' \subseteq network /\ chain' = chain
    BY <1>0, <1>1 DEF Live, Known
  <1>2. ASSUME NEW tx \in network, Mine(tx)
        PROVE  Live' \subseteq Live /\ Known' \subseteq Known
               /\ \A r \in chain' \ chain : r.tx \in Live
    <2>1. ~Dead(tx)
      BY <1>2 DEF Mine, Dead, ChainOrder, TypeOK, Receipt, Tx
    <2>2. /\ network' \subseteq network
          /\ \A r \in chain' : r \in chain \/ r.tx = tx
      BY <1>2 DEF Mine
    <2>3. QED
      BY <1>0, <2>1, <2>2 DEF Live, Known
  <1>3. ASSUME NEW r \in chain, Reorganise(r)
        PROVE  Live' \subseteq Live /\ Known' \subseteq Known /\ chain' \subseteq chain
    <2>1. /\ ~Deep(r) /\ chain' \subseteq chain
          /\ network' \subseteq network \cup {r.tx}
      BY <1>3 DEF Reorganise
    <2>2. QED
      BY <1>0, <2>1 DEF Live, Known
  <1>4. ASSUME NEW tx \in network, Forget(tx) PROVE network' \subseteq network /\ chain' = chain
    BY <1>4 DEF Forget
  <1>5. CASE NewBlock \/ OtherAcquires \/ OtherSpends
    BY <1>1, <1>5 DEF NewBlock, OtherAcquires, OtherSpends, environment
  <1>6. QED
    BY <1>1, <1>2, <1>3, <1>4, <1>5 DEF World

\* When the run has settled with its transaction, nothing is in flight.
LEMMA Settled ==
  ASSUME TypeOK, Memory, ChainOrder, InFlight, run.pc = "settle"
  PROVE  /\ run.tx \in Tx /\ run.seen \in chain /\ Deep(run.seen) /\ run.seen.tx = run.tx
         /\ \A r \in chain : r.tx = run.tx => r = run.seen
         /\ Dead(run.tx)
         /\ Live = {}
  <1>1. run.tx \in Tx /\ run.seen \in chain /\ Deep(run.seen) /\ run.seen.tx = run.tx
    BY DEF Memory, Underway, Waiting
  <1>2. \A r \in chain : r.tx = run.tx => r = run.seen
    BY <1>1 DEF ChainOrder
  <1>3. Dead(run.tx)
    BY <1>1 DEF Dead, Tx
  <1>4. Live = {}
    BY <1>1, <1>2, <1>3 DEF Live, InFlight, Ended
  <1>5. QED
    BY <1>1, <1>2, <1>3, <1>4

\* A token is given up, or sold, with nothing in flight.
LEMMA NothingInFlight ==
  ASSUME TypeOK, Memory, ChainOrder, InFlight, GiveUp \/ SaleMined
  PROVE  Live = {}
  <1>1. CASE run.pc \in {"poll", "quote", "nonce", "reread", "requote"}
    BY <1>1 DEF InFlight, Ended, Underway, Sending, Waiting
  <1>2. CASE run.pc \in Sending /\ ~run.landed
    BY <1>2 DEF InFlight, Live, Known, Sending, Ended
  <1>3. CASE run.pc = "settle"
    BY <1>3, Settled
  <1>4. QED
    BY <1>1, <1>2, <1>3 DEF GiveUp, SaleMined

LEMMA Unchanged ==
  ASSUME UNCHANGED environment
  PROVE  /\ Known' = Known
         /\ Live' = Live
         /\ FinalApproval' <=> FinalApproval
         /\ \A tx : ReceiptsOf(tx)' = ReceiptsOf(tx)
         /\ \A tx : Dead(tx)' <=> Dead(tx)
         /\ \A r : Deep(r)' <=> Deep(r)
         /\ \A token, bound : ApprovalsCost(token, bound)' <=> ApprovalsCost(token, bound)
         /\ \A sale : Pays(sale)' <=> Pays(sale)
  BY DEF Known, Live, FinalApproval, ReceiptsOf, Dead, Deep, ApprovalsCost, Pays, environment

LEMMA InitInFlight == Init => InFlight
  BY DEF Init, InFlight, Live, Ended, Sending, Waiting

LEMMA AdvanceInFlight ==
  ASSUME TypeOK, Memory, ChainOrder, InFlight, Fresh, Advance
  PROVE  InFlight'
  <1>0. run \in Run /\ UNCHANGED environment /\ nonce' = nonce
    BY AdvanceFrame DEF TypeOK, environment
  <1>1. CASE Live = {} /\ run'.pc \notin Waiting /\ ~run'.landed
             /\ (run'.pc \in Sending => run'.tx \notin Known)
    BY <1>0, <1>1, Unchanged DEF InFlight
  <1>2. CASE /\ run.pc \in Underway /\ run'.pc \in Waiting /\ run'.tx = run.tx /\ ~run'.landed
             /\ run.pc \in Waiting \/ run.landed
    BY <1>0, <1>2, Unchanged DEF InFlight, Ended, Underway, Sending, Waiting
  <1>3. run.pc \notin Underway \cup Ended => Live = {} /\ ~run.landed
    BY DEF InFlight, Memory, Underway
  <1> USE <1>0, ConstantsAssumption DEF Step
  <1>4. CASE NextToken \/ Summarise \/ FindOffer \/ Acquire
    BY <1>1, <1>3, <1>4
    DEF NextToken, Summarise, FindOffer, Acquire, Run, Underway, Sending, Waiting, Ended
  <1>5. CASE Accepted \/ Resume \/ CheckDepth
    BY <1>2, <1>5 DEF Accepted, Resume, CheckDepth, Run, Underway, Sending, Waiting, Memory
  <1>6. CASE FindReceipt \/ Revalidate
    <2>1. PICK r \in chain, pc \in {"settle", "confirm"} :
            run' = [run EXCEPT !.seen = r, !.pc = pc]
      BY <1>6 DEF FindReceipt, Revalidate, ReceiptsOf
    <2>2. run.pc \in Waiting /\ ~run.landed
      BY <1>6 DEF FindReceipt, Revalidate, Waiting, Sending, Memory
    <2>3. QED
      BY <1>2, <2>1, <2>2 DEF Run, Underway, Waiting
  <1>7. CASE ApprovalMined
    <2>1. Live = {} /\ ~run.landed
      BY <1>7, Settled DEF ApprovalMined, Memory, Sending
    <2>2. QED
      BY <1>1, <1>7, <2>1 DEF ApprovalMined, Run, Sending, Waiting
  <1>8. CASE ReadNonce
    <2>1. PICK n \in NonceReads :
            run' = IF run.approvalGas > 0
                   THEN [run EXCEPT !.pc = "approve", !.tx = Approval(n)]
                   ELSE [run EXCEPT !.pc = "reread", !.nonce = n]
      BY <1>8 DEF ReadNonce
    <2>2. Live = {} /\ ~run.landed
      BY <1>3, <1>8 DEF ReadNonce, Underway, Sending, Waiting, Ended
    <2>3. CASE run.approvalGas > 0
      <3>1. Approval(n) \notin Known
        BY <1>8, <2>3 DEF ReadNonce, Fresh, Untouched, Approval
      <3>2. QED
        BY <1>1, <2>1, <2>2, <2>3, <3>1 DEF Run, Sending, Waiting
    <2>4. CASE ~(run.approvalGas > 0)
      BY <1>1, <2>1, <2>2, <2>4 DEF Run, Sending, Waiting
    <2>5. QED
      BY <2>3, <2>4
  <1>9. CASE \/ run.pc = "quote" /\ \E price \in Prices, gas \in Gases,
                 approvalGas \in IF IsApproved THEN {0} ELSE Gases :
                Step([run EXCEPT !.pc = "lock", !.approvalGas = approvalGas])
             \/ run.pc = "reread" /\ \E pays \in Payouts :
                Step([run EXCEPT !.pc = "requote", !.latest = pays])
    <2>1. run'.pc \in {"lock", "requote"} /\ run'.landed = run.landed
      BY <1>9 DEF Run
    <2>2. run.pc \notin Underway \cup Ended
      BY <1>9 DEF Underway, Sending, Waiting, Ended
    <2>3. QED
      BY <1>1, <1>3, <2>1, <2>2 DEF Sending, Waiting
  <1>10. CASE run.pc = "requote" /\ \E price \in Prices, gas \in Gases :
                /\ Profitable(run.latest, price, gas, run.paid)
                /\ Step([run EXCEPT !.pc = "send", !.tx = Sale(gas, price)])
    <2>1. PICK price \in Prices, gas \in Gases :
            run' = [run EXCEPT !.pc = "send", !.tx = Sale(gas, price)]
      BY <1>10
    <2>2. Live = {} /\ ~run.landed /\ run.pc \notin Underway /\ run.approvalGas = 0
      BY <1>3, <1>10 DEF Underway, Sending, Waiting, Ended, Memory
    <2>3. Sale(gas, price) \notin Known
      BY <1>10, <2>2 DEF Fresh, Selling, Sale
    <2>4. QED
      BY <1>1, <2>1, <2>2, <2>3 DEF Run, Sending, Waiting
  <1>11. QED
    BY <1>4, <1>5, <1>6, <1>7, <1>8, <1>9, <1>10 DEF Advance

LEMMA LandLive ==
  ASSUME TypeOK, Land
  PROVE  /\ Live' \subseteq Live \cup {run.tx}
         /\ Known' = Known \cup {run.tx}
         /\ UNCHANGED <<chain, head, nonce, lock>>
         /\ run'.tx = run.tx /\ run'.pc = run.pc /\ run'.landed
         /\ run'.token = run.token /\ run'.approvalGas = run.approvalGas
         /\ run'.paid = run.paid /\ run'.todo = run.todo
         /\ run'.sold = run.sold /\ run'.skipped = run.skipped
  BY DEF Land, Live, Known, Dead, Deep, TypeOK, Run

LEMMA WorldInFlight ==
  ASSUME TypeOK, Memory, ChainOrder, InFlight, World
  PROVE  InFlight'
  <1>1. /\ UNCHANGED run
        /\ Live' \subseteq Live
        /\ Known' \subseteq Known
    BY WorldLive, WorldFrame
  <1>2. ASSUME run.pc \in Waiting \/ run.landed, nonce' > run.tx.nonce
        PROVE  ReceiptsOf(run.tx)' # {}
    <2>1. /\ run.pc \in Underway /\ run.pc \notin Ended /\ run.tx \in Tx /\ lock = "run"
          /\ run.tx.nonce \in Nat /\ nonce \in Nat
      BY <1>2 DEF Memory, Underway, Ended, Sending, Waiting, TypeOK, Tx
    <2>2. \A x \in Live : x = run.tx
      BY <2>1 DEF InFlight
    <2>3. CASE UNCHANGED <<chain, nonce>>
      BY <1>1, <1>2, <2>3 DEF InFlight, ReceiptsOf
    <2>4. ASSUME NEW tx \in network, Mine(tx) PROVE ReceiptsOf(run.tx)' # {}
      <3>1. \E r \in chain' : r.tx = tx
        <4>1. PICK ok \in BOOLEAN, cost \in 1..tx.gas :
                chain' = chain \cup {[tx |-> tx, height |-> head + 1, fork |-> forks,
                                      ok |-> ok, cost |-> cost]}
          BY <2>4 DEF Mine
        <4> DEFINE mined == [tx |-> tx, height |-> head + 1, fork |-> forks,
                             ok |-> ok, cost |-> cost]
        <4>2. mined \in chain' /\ mined.tx = tx
          BY <4>1
        <4>3. QED
          BY <4>2
      <3>2. ~Dead(tx)
        BY <2>4 DEF Mine, Dead, ChainOrder, TypeOK, Receipt, Tx
      <3>3. tx = run.tx
        BY <2>2, <3>2 DEF Live
      <3>4. QED
        BY <1>1, <3>1, <3>3 DEF ReceiptsOf
    <2>5. ASSUME NEW r \in chain, Reorganise(r) PROVE ReceiptsOf(run.tx)' # {}
      <3>1. r.tx = run.tx /\ nonce' = r.tx.nonce
        BY <2>2, <2>5 DEF Reorganise, Live
      <3>2. QED
        BY <1>2, <2>1, <3>1
    <2>6. ASSUME NEW tx \in network, Forget(tx) PROVE UNCHANGED <<chain, nonce>>
      BY <2>6 DEF Forget
    <2>7. CASE NewBlock \/ OtherAcquires \/ OtherSpends
      BY <2>1, <2>3, <2>7 DEF NewBlock, OtherAcquires, OtherSpends, environment
    <2>8. QED
      BY <2>3, <2>4, <2>5, <2>6, <2>7 DEF World
  <1>3. QED
    BY <1>1, <1>2 DEF InFlight

LEMMA InFlightStep ==
  TypeOK /\ Memory /\ ChainOrder /\ InFlight /\ Fresh /\ [Next]_vars => InFlight'
  <1> SUFFICES ASSUME TypeOK, Memory, ChainOrder, InFlight, Fresh, [Next]_vars PROVE InFlight'
    OBVIOUS
  <1>1. CASE End
    <2>1. Left /\ run'.pc \in Ended
      BY <1>1, Ends
    <2>2. QED
      BY <2>1, Unchanged DEF Left, InFlight, Ended, Sending, Waiting
  <1>2. CASE GiveUp \/ SaleMined
    <2>1. Left /\ Live = {}
      BY <1>2, GivesUp, Sells, NothingInFlight
    <2>2. QED
      BY <2>1, Unchanged DEF Left, InFlight, Ended, Sending, Waiting
  <1>3. CASE Land
    <2>1. run.pc \in Sending /\ run.tx.nonce >= nonce
      BY <1>3 DEF Land
    <2>2. run.tx.nonce \in Nat /\ nonce \in Nat /\ run.pc \notin Ended
      BY <2>1 DEF TypeOK, Memory, Tx, Underway, Ended, Sending
    <2>3. \A x \in Live' : x = run.tx
      BY <1>3, <2>2, LandLive DEF InFlight
    <2>4. QED
      BY <1>3, <2>1, <2>2, <2>3, LandLive DEF InFlight, Underway
  <1>4. CASE UNCHANGED vars
    BY <1>4, Unchanged DEF InFlight, vars, environment
  <1>5. QED
    BY <1>1, <1>2, <1>3, <1>4, Kinds, AdvanceInFlight, WorldInFlight

-----------------------------------------------------------------------------
(* The transactions of a token. *)

\* The steps that do not change how far the run is with its token...
SameStage ==
  /\ run'.token = run.token /\ run'.todo = run.todo /\ run'.paid = run.paid
  /\ Untouched' => Untouched
  /\ Selling' => Selling
  /\ run'.pc \in Underway => run.pc \in Underway /\ run'.tx = run.tx
  /\ run.pc \in Underway => run'.pc \in Underway

\* ... and those that do: its first approval or its sale is near,
Judged ==
  /\ run.pc = "quote" /\ run'.pc = "lock"
  /\ run'.token = run.token /\ run'.todo = run.todo
  /\ run'.approvalGas = 0 => IsApproved

\* the approval is signed,
SignsApproval ==
  /\ Untouched
  /\ run'.pc = "approve" /\ run'.tx.kind = "approve"
  /\ run'.token = run.token /\ run'.todo = run.todo

\* or the sale is.
SignsSale ==
  /\ run.pc = "requote" /\ run.approvalGas = 0 /\ run'.pc = "send"
  /\ run'.token = run.token /\ run'.todo = run.todo /\ run'.paid = run.paid
  /\ \E price \in Prices, gas \in Gases :
       Profitable(run.latest, price, gas, run.paid) /\ run'.tx = Sale(gas, price)

LEMMA Stages ==
  ASSUME TypeOK, Memory, Advance
  PROVE  NextToken \/ Summarise \/ SameStage \/ Judged \/ SignsApproval \/ SignsSale
           \/ ApprovalMined
  <1>0. run \in Run
    BY DEF TypeOK
  <1> USE <1>0 DEF Step
  <1>1. CASE FindOffer \/ Acquire
    BY <1>1
    DEF FindOffer, Acquire, Run, SameStage, Untouched, Selling, Underway, Sending, Waiting
  <1>2. CASE Accepted \/ Resume \/ CheckDepth
    BY <1>2 DEF Accepted, Resume, CheckDepth, Run, SameStage, Untouched, Selling, Underway,
                Sending, Waiting
  <1>3. CASE FindReceipt \/ Revalidate
    <2>1. PICK r \in chain, pc \in {"settle", "confirm"} :
            run' = [run EXCEPT !.seen = r, !.pc = pc]
      BY <1>3 DEF FindReceipt, Revalidate, ReceiptsOf
    <2>2. run.pc \in Waiting
      BY <1>3 DEF FindReceipt, Revalidate, Waiting
    <2>3. QED
      BY <2>1, <2>2 DEF Run, SameStage, Untouched, Selling, Underway, Waiting
  <1>4. CASE ReadNonce
    <2>1. PICK n \in NonceReads :
            run' = IF run.approvalGas > 0
                   THEN [run EXCEPT !.pc = "approve", !.tx = Approval(n)]
                   ELSE [run EXCEPT !.pc = "reread", !.nonce = n]
      BY <1>4 DEF ReadNonce
    <2>2. CASE run.approvalGas > 0
      BY <1>4, <2>1, <2>2 DEF ReadNonce, Run, SignsApproval, Untouched, Approval
    <2>3. CASE ~(run.approvalGas > 0)
      <3>1. run.approvalGas = 0
        BY <2>3 DEF Run
      <3>2. QED
        BY <1>4, <2>1, <2>3, <3>1
        DEF ReadNonce, Run, SameStage, Untouched, Selling, Underway, Sending, Waiting
    <2>4. QED
      BY <2>2, <2>3
  <1>5. CASE run.pc = "quote" /\ \E price \in Prices, gas \in Gases,
               approvalGas \in IF IsApproved THEN {0} ELSE Gases :
               Step([run EXCEPT !.pc = "lock", !.approvalGas = approvalGas])
    <2>1. PICK approvalGas \in Gases \cup {0} :
            /\ run' = [run EXCEPT !.pc = "lock", !.approvalGas = approvalGas]
            /\ approvalGas = 0 => IsApproved
      BY <1>5, ConstantsAssumption
    <2>2. QED
      BY <1>5, <2>1 DEF Run, Judged
  <1>6. CASE run.pc = "reread" /\ \E pays \in Payouts :
               Step([run EXCEPT !.pc = "requote", !.latest = pays])
    BY <1>6 DEF Run, SameStage, Untouched, Selling, Underway, Sending, Waiting
  <1>7. CASE run.pc = "requote" /\ \E price \in Prices, gas \in Gases :
               /\ Profitable(run.latest, price, gas, run.paid)
               /\ Step([run EXCEPT !.pc = "send", !.tx = Sale(gas, price)])
    BY <1>7 DEF Run, Memory, SignsSale
  <1>8. QED
    BY <1>1, <1>2, <1>3, <1>4, <1>5, <1>6, <1>7 DEF Advance

LEMMA InitFresh == Init => Fresh
  BY DEF Init, Fresh, Known, Untouched, Selling, Underway, Sending, Waiting

LEMMA FreshStep ==
  TypeOK /\ Memory /\ ChainOrder /\ InFlight /\ Fresh /\ [Next]_vars => Fresh'
  <1> SUFFICES ASSUME TypeOK, Memory, ChainOrder, InFlight, Fresh, [Next]_vars PROVE Fresh'
    OBVIOUS
  <1> USE DEF Underway, Sending, Waiting
  <1>1. CASE End \/ GiveUp \/ SaleMined
    <2>1. Left
      BY <1>1, Ends, GivesUp, Sells
    <2>2. QED
      BY <2>1, Unchanged DEF Left, Fresh, Untouched, Selling, Ended
  <1>2. CASE Land
    <2>1. run.pc \in Sending /\ run.tx.token = run.token /\ run.token \notin run.todo
          /\ run.tx.kind \in {"approve", "sale"}
      BY <1>2 DEF Land, Memory, TypeOK, Tx
    <2>2. QED
      BY <1>2, <2>1, LandLive DEF Fresh, Untouched, Selling
  <1>3. CASE World
    <2>1. UNCHANGED run /\ Known' \subseteq Known
      BY <1>3, WorldFrame, WorldLive
    <2>2. QED
      BY <2>1 DEF Fresh, Untouched, Selling
  <1>4. CASE UNCHANGED vars
    BY <1>4, Unchanged DEF Fresh, Untouched, Selling, vars, environment
  <1>5. ASSUME Advance PROVE Fresh'
    <2>0. Known' = Known
      BY <1>5, AdvanceFrame, Unchanged
    <2>1. CASE NextToken
      <3>1. /\ run'.pc = "poll" /\ run'.token \in run.todo
            /\ run'.todo \subseteq run.todo
        BY <2>1 DEF NextToken, Step, TypeOK, Run
      <3>2. QED
        BY <2>0, <3>1 DEF Fresh, Untouched, Selling
    <2>2. CASE Summarise
      <3>1. run'.pc = "summary" /\ run'.todo = run.todo
        BY <2>2 DEF Summarise, Step, TypeOK, Run
      <3>2. QED
        BY <2>0, <3>1 DEF Fresh, Untouched, Selling
    <2>3. CASE SameStage
      BY <2>0, <2>3 DEF SameStage, Fresh
    <2>4. CASE Judged \/ SignsApproval
      BY <2>0, <2>4 DEF Judged, SignsApproval, Fresh, Untouched, Selling
    <2>5. CASE SignsSale
      BY <2>0, <2>5 DEF SignsSale, Fresh, Untouched, Selling, Sale
    <2>6. CASE ApprovalMined
      <3>1. /\ run'.pc = "nonce" /\ run'.token = run.token /\ run'.todo = run.todo
            /\ run'.approvalGas = 0
        BY <2>6 DEF ApprovalMined, Step, TypeOK, Run
      <3>2. QED
        BY <2>0, <2>6, <3>1 DEF ApprovalMined, Fresh, Untouched, Selling
    <2>7. QED
      BY <1>5, <2>1, <2>2, <2>3, <2>4, <2>5, <2>6, Stages
  <1>6. QED
    BY <1>1, <1>2, <1>3, <1>4, <1>5, Kinds

-----------------------------------------------------------------------------
(* What the sales pay. *)

LEMMA InitEarned == Init => Earned
  BY DEF Init, Earned, Known, Selling, Underway, Sending, Waiting

\* The world adds nothing to the cost of a token's approvals.
LEMMA WorldCost ==
  ASSUME TypeOK, ChainOrder, InFlight, World
  PROVE  /\ \A token, bound : ApprovalsCost(token, bound) => ApprovalsCost(token, bound)'
         /\ \A sale : Pays(sale) => Pays(sale)'
  <1>1. \A token, bound : ApprovalsCost(token, bound) => ApprovalsCost(token, bound)'
    BY WorldLive DEF ApprovalsCost
  <1>2. QED
    BY <1>1 DEF Pays

\* A sale that was judged profitable pays.
LEMMA ProfitablePays ==
  ASSUME TypeOK, NEW price \in Prices, NEW gas \in Gases,
         ApprovalsCost(run.token, run.paid), Profitable(run.latest, price, gas, run.paid)
  PROVE  Pays(Sale(gas, price))
  <1> DEFINE sale == Sale(gas, price)
             surplus == sale.pays * sale.price - (Share + MinProfit + sale.gas)
  <1>1. sale.pays = run.latest /\ sale.price = price /\ sale.gas = gas
        /\ sale.token = run.token
    BY DEF Sale
  <1>2. run.latest * price \in Nat /\ run.paid \in Nat /\ gas \in Nat
    BY ConstantsAssumption DEF TypeOK, Run
  <1>3. surplus \in Int /\ surplus >= run.paid
    BY <1>1, <1>2, ConstantsAssumption DEF Profitable
  <1>4. \A r \in chain : r.cost \in Nat
    BY DEF TypeOK, Receipt
  <1>5. surplus >= 0
    BY <1>2, <1>3
  <1>6. ApprovalsCost(sale.token, surplus)
    BY <1>1, <1>2, <1>3, <1>4 DEF ApprovalsCost
  <1>7. QED
    BY <1>5, <1>6 DEF Pays

LEMMA EarnedStep ==
  TypeOK /\ Memory /\ ChainOrder /\ InFlight /\ Fresh /\ Earned /\ [Next]_vars => Earned'
  <1> SUFFICES ASSUME TypeOK, Memory, ChainOrder, InFlight, Fresh, Earned, [Next]_vars
               PROVE  Earned'
    OBVIOUS
  <1> USE DEF Underway, Sending, Waiting
  <1>1. CASE End \/ GiveUp \/ SaleMined
    <2>1. Left
      BY <1>1, Ends, GivesUp, Sells
    <2>2. QED
      BY <2>1, Unchanged DEF Left, Earned, Selling, Ended
  <1>2. CASE Land
    <2>1. run.pc \in Sending /\ run.tx.token = run.token /\ run.tx.kind \in {"approve", "sale"}
      BY <1>2 DEF Land, Memory, Tx
    <2>2. CASE run.tx.kind = "sale"
      <3>1. /\ \A token, bound : ApprovalsCost(token, bound) => ApprovalsCost(token, bound)'
            /\ \A sale : Pays(sale) => Pays(sale)'
        BY <1>2, <2>2, LandLive DEF ApprovalsCost, Pays
      <3>2. QED
        BY <1>2, <2>1, <2>2, <3>1, LandLive DEF Earned, Selling
    <2>3. CASE run.tx.kind = "approve"
      <3>1. \A x \in Known : x.kind = "sale" => x.token # run.token
        BY <2>1, <2>3 DEF Fresh
      <3>2. \A token, bound : token # run.token /\ ApprovalsCost(token, bound)
                                => ApprovalsCost(token, bound)'
        BY <1>2, <2>1, LandLive DEF ApprovalsCost
      <3>3. \A sale : sale.token # run.token /\ Pays(sale) => Pays(sale)'
        BY <3>2 DEF Pays
      <3>4. ~Selling'
        BY <1>2, <2>1, <2>3, LandLive DEF Selling
      <3>5. QED
        BY <1>2, <2>1, <2>3, <3>1, <3>3, <3>4, LandLive DEF Earned
    <2>4. QED
      BY <2>1, <2>2, <2>3
  <1>3. CASE World
    <2>1. UNCHANGED run /\ Known' \subseteq Known
      BY <1>3, WorldFrame, WorldLive
    <2>2. QED
      BY <1>3, <2>1, WorldCost DEF Earned, Selling
  <1>4. CASE UNCHANGED vars
    BY <1>4, Unchanged DEF Earned, Selling, vars, environment
  <1>5. ASSUME Advance PROVE Earned'
    <2>0. /\ Known' = Known
          /\ \A token, bound : ApprovalsCost(token, bound)' <=> ApprovalsCost(token, bound)
          /\ \A sale : Pays(sale)' <=> Pays(sale)
      BY <1>5, AdvanceFrame, Unchanged
    <2>1. CASE NextToken \/ Summarise \/ SignsApproval
      <3>1. run'.pc \in {"poll", "summary", "approve"}
            /\ (run'.pc = "approve" => run'.tx.kind = "approve")
        BY <2>1 DEF NextToken, Summarise, SignsApproval, Step, TypeOK, Run
      <3>2. QED
        BY <2>0, <3>1 DEF Earned, Selling
    <2>2. CASE SameStage
      <3>1. (Selling => ApprovalsCost(run.token, run.paid))'
        BY <2>0, <2>2 DEF SameStage, Earned
      <3>2. (run.pc \in Underway /\ run.tx.kind = "sale" => Pays(run.tx))'
        BY <2>0, <2>2 DEF SameStage, Earned
      <3>3. QED
        BY <2>0, <3>1, <3>2 DEF Earned
    <2>3. CASE Judged
      <3>1. \A x \in Known : x.token # run.token
        BY <2>3 DEF Judged, Fresh, Untouched
      <3>2. \A bound : ApprovalsCost(run.token, bound)
        BY <3>1 DEF ApprovalsCost, Known, Live
      <3>3. QED
        BY <2>0, <2>3, <3>2 DEF Judged, Earned
    <2>4. CASE SignsSale
      <3>1. PICK price \in Prices, gas \in Gases :
              Profitable(run.latest, price, gas, run.paid) /\ run'.tx = Sale(gas, price)
        BY <2>4 DEF SignsSale
      <3>2. ApprovalsCost(run.token, run.paid)
        BY <2>4 DEF SignsSale, Earned, Selling
      <3>3. Pays(run'.tx)
        BY <3>1, <3>2, ProfitablePays
      <3>4. QED
        BY <2>0, <2>4, <3>2, <3>3 DEF SignsSale, Earned
    <2>5. CASE ApprovalMined
      <3>1. /\ run'.token = run.token /\ run'.paid = run.seen.cost /\ run'.pc = "nonce"
            /\ run.pc = "settle" /\ run.tx.kind = "approve"
        BY <2>5 DEF ApprovalMined, Step, TypeOK, Run
      <3>2. /\ \A r \in chain : r.tx = run.tx => r = run.seen
            /\ Live = {}
            /\ run.seen \in chain
        BY <3>1, Settled
      <3>3. \A x \in Known : x.token = run.token => x = run.tx
        BY <3>1 DEF Fresh
      <3>4. ApprovalsCost(run.token, run.seen.cost)
        BY <3>2, <3>3 DEF ApprovalsCost, Known, TypeOK, Receipt
      <3>5. QED
        BY <2>0, <3>1, <3>4 DEF Earned
    <2>6. QED
      BY <1>5, <2>1, <2>2, <2>3, <2>4, <2>5, Stages
  <1>6. QED
    BY <1>1, <1>2, <1>3, <1>4, <1>5, Kinds

-----------------------------------------------------------------------------
(* The approval. *)

LEMMA InitAllowed == Init => Allowed
  BY DEF Init, Allowed, Known, Selling, Underway, Sending, Waiting

LEMMA AllowedStep ==
  TypeOK /\ Memory /\ ChainOrder /\ InFlight /\ Fresh /\ Allowed /\ [Next]_vars => Allowed'
  <1> SUFFICES ASSUME TypeOK, Memory, ChainOrder, InFlight, Fresh, Allowed, [Next]_vars
               PROVE  Allowed'
    OBVIOUS
  <1>0. FinalApproval => FinalApproval'
    BY DeepStays DEF FinalApproval
  <1> USE DEF Underway, Sending, Waiting
  <1>1. CASE End \/ GiveUp \/ SaleMined
    <2>1. Left
      BY <1>1, Ends, GivesUp, Sells
    <2>2. QED
      BY <2>1, Unchanged DEF Left, Allowed, Selling, Ended
  <1>2. CASE Land
    <2>1. run.pc \in Sending
      BY <1>2 DEF Land
    <2>2. QED
      BY <1>0, <1>2, <2>1, LandLive DEF Allowed, Selling
  <1>3. CASE World
    <2>1. UNCHANGED run /\ Known' \subseteq Known
      BY <1>3, WorldFrame, WorldLive
    <2>2. QED
      BY <1>0, <2>1 DEF Allowed, Selling
  <1>4. CASE UNCHANGED vars
    BY <1>4, Unchanged DEF Allowed, Selling, vars, environment
  <1>5. ASSUME Advance PROVE Allowed'
    <2>0. Known' = Known
      BY <1>5, AdvanceFrame, Unchanged
    <2>1. CASE NextToken \/ Summarise \/ SignsApproval
      <3>1. run'.pc \in {"poll", "summary", "approve"}
            /\ (run'.pc = "approve" => run'.tx.kind = "approve")
        BY <2>1 DEF NextToken, Summarise, SignsApproval, Step, TypeOK, Run
      <3>2. QED
        BY <1>0, <2>0, <3>1 DEF Allowed, Selling
    <2>2. CASE SameStage
      BY <1>0, <2>0, <2>2 DEF SameStage, Allowed
    <2>3. CASE Judged
      <3>1. Live = {}
        BY <2>3 DEF Judged, InFlight, Ended
      <3>2. IsApproved => FinalApproval
        BY <3>1 DEF IsApproved, FinalApproval, Live
      <3>3. QED
        BY <1>0, <2>0, <2>3, <3>2 DEF Judged, Allowed, Selling
    <2>4. CASE SignsSale
      BY <1>0, <2>0, <2>4 DEF SignsSale, Allowed, Selling
    <2>5. CASE ApprovalMined
      <3>1. run.seen \in chain /\ Deep(run.seen) /\ run.seen.tx = run.tx
        BY <2>5, Settled DEF ApprovalMined
      <3>2. FinalApproval
        BY <2>5, <3>1 DEF ApprovalMined, FinalApproval
      <3>3. QED
        BY <1>0, <3>2 DEF Allowed
    <2>6. QED
      BY <1>5, <2>1, <2>2, <2>3, <2>4, <2>5, Stages
  <1>6. QED
    BY <1>1, <1>2, <1>3, <1>4, <1>5, Kinds

-----------------------------------------------------------------------------
(* What is reported. *)

\* A sale of the token that counts.
SoldFor(token) ==
  \E sale \in chain : sale.tx.kind = "sale" /\ sale.tx.token = token /\ sale.ok /\ Deep(sale)

\* None that counts, or ever will.
NotSold(token) ==
  /\ \A sale \in chain : sale.tx.kind = "sale" /\ sale.tx.token = token => ~sale.ok /\ Deep(sale)
  /\ \A tx \in network : tx.kind = "sale" /\ tx.token = token => Dead(tx)

LEMMA ReportIs ==
  ReportIsRight <=> (\A token \in run.sold : SoldFor(token))
                      /\ (\A token \in run.skipped : NotSold(token))
  BY DEF ReportIsRight, SoldFor, NotSold

LEMMA InitReport == Init => ReportIsRight
  BY DEF Init, ReportIsRight

\* What is reported stays true.
LEMMA ReportStays ==
  ASSUME TypeOK, Memory, ChainOrder, InFlight, [Next]_vars
  PROVE  /\ \A token : SoldFor(token) => SoldFor(token)'
         /\ \A token \in run.skipped : NotSold(token) => NotSold(token)'
  <1>0. /\ \A r \in chain : Deep(r) => r \in chain' /\ Deep(r)'
        /\ \A tx : Dead(tx) => Dead(tx)'
    BY DeepStays
  <1>1. \A token : SoldFor(token) => SoldFor(token)'
    BY <1>0 DEF SoldFor
  <1>2. ASSUME NEW token \in run.skipped, NotSold(token) PROVE NotSold(token)'
    <2>1. CASE UNCHANGED <<network, chain>>
      BY <1>0, <1>2, <2>1 DEF NotSold
    <2>2. CASE End \/ GiveUp \/ SaleMined \/ Advance \/ UNCHANGED vars
      BY <2>1, <2>2, RunFrame DEF environment, vars
    <2>3. CASE Land
      <3>1. run.tx.token # token
        BY <2>3 DEF Land, Memory, TypeOK, Underway
      <3>2. network' = network \cup {run.tx} /\ chain' = chain
        BY <2>3 DEF Land
      <3>3. QED
        BY <1>0, <1>2, <3>1, <3>2 DEF NotSold
    <2>4. CASE World
      <3>1. \A x \in Live : x.kind = "sale" => x.token # token
        BY <1>2 DEF NotSold, Live
      <3>2. \A r \in chain' : r \in chain \/ r.tx \in Live
        BY <2>4, WorldLive
      <3>3. \A x \in network' : x \in network \/ x \in Live
        BY <2>4 DEF World, Mine, Forget, Reorganise, NewBlock, OtherAcquires, OtherSpends,
                    environment, Live
      <3>4. QED
        BY <1>0, <1>2, <3>1, <3>2, <3>3 DEF NotSold
    <2>5. QED
      BY <2>2, <2>3, <2>4, Kinds
  <1>3. QED
    BY <1>1, <1>2

\* A token that is given up has no sale that counts, or ever will.
LEMMA GivenUp ==
  ASSUME TypeOK, Memory, ChainOrder, InFlight, Fresh, GiveUp
  PROVE  NotSold(run.token)
  <1>1. CASE \A x \in Known : x.token = run.token => x.kind # "sale"
    BY <1>1 DEF NotSold, Known
  <1>2. CASE run.pc \in {"poll", "quote", "nonce", "reread", "requote"}
    <2>1. Untouched \/ (Selling /\ run.pc \notin Underway)
      BY <1>2 DEF Untouched, Selling, Underway, Sending, Waiting, Memory, TypeOK, Run
    <2>2. QED
      BY <1>1, <2>1 DEF Fresh
  <1>3. ASSUME run.pc \in Underway
        PROVE  /\ \A x \in Known : x.token = run.token /\ x.kind = "sale" => x = run.tx
               /\ run.tx \in Tx
    BY <1>3 DEF Fresh, Selling, Memory, Tx
  <1>4. CASE run.pc \in Sending /\ ~run.landed
    BY <1>1, <1>3, <1>4 DEF InFlight, Underway
  <1>5. CASE run.pc = "settle" /\ ~run.seen.ok
    <2>1. /\ \A r \in chain : r.tx = run.tx => ~r.ok /\ Deep(r)
          /\ Dead(run.tx)
      BY <1>5, Settled
    <2>2. QED
      BY <1>3, <1>5, <2>1 DEF NotSold, Known, Underway, Waiting
  <1>6. QED
    BY <1>2, <1>4, <1>5 DEF GiveUp

LEMMA AdvanceReport ==
  ASSUME TypeOK, Advance
  PROVE  run'.sold = run.sold /\ run'.skipped = run.skipped
  <1>0. run \in Run
    BY DEF TypeOK
  <1> USE <1>0 DEF Step
  <1>1. CASE NextToken \/ Summarise \/ FindOffer \/ Acquire \/ Accepted
    BY <1>1 DEF NextToken, Summarise, FindOffer, Acquire, Accepted, Run
  <1>2. CASE ReadNonce \/ FindReceipt \/ CheckDepth \/ Revalidate \/ Resume \/ ApprovalMined
    BY <1>2 DEF ReadNonce, FindReceipt, CheckDepth, Revalidate, Resume, ApprovalMined, Run
  <1>3. QED
    BY <1>1, <1>2 DEF Advance, Run

LEMMA ReportStep ==
  TypeOK /\ Memory /\ ChainOrder /\ InFlight /\ Fresh /\ ReportIsRight /\ [Next]_vars
    => ReportIsRight'
  <1> SUFFICES ASSUME TypeOK, Memory, ChainOrder, InFlight, Fresh, ReportIsRight, [Next]_vars
               PROVE  ReportIsRight'
    OBVIOUS
  <1>0. /\ \A token \in run.sold : SoldFor(token)'
        /\ \A token \in run.skipped : NotSold(token)'
    BY ReportIs, ReportStays
  <1>1. CASE run'.sold = run.sold /\ run'.skipped = run.skipped
    BY <1>0, <1>1 DEF ReportIsRight, SoldFor, NotSold
  <1>2. CASE End
    BY <1>1, <1>2, Ends
  <1>3. CASE GiveUp
    <2>1. /\ run'.sold = run.sold /\ run'.skipped = run.skipped \cup {run.token}
          /\ UNCHANGED environment
      BY <1>3, GivesUp DEF Left
    <2>2. NotSold(run.token)
      BY <1>3, GivenUp
    <2>3. \A token : NotSold(token) => NotSold(token)'
      BY <2>1, Unchanged DEF NotSold, environment
    <2>4. \A token \in run'.skipped : NotSold(token)'
      BY <1>0, <2>1, <2>2, <2>3
    <2>5. QED
      BY <1>0, <2>1, <2>4 DEF ReportIsRight, SoldFor, NotSold
  <1>4. CASE SaleMined
    <2>1. /\ run'.sold = run.sold \cup {run.token} /\ run'.skipped = run.skipped
          /\ UNCHANGED environment
      BY <1>4, Sells DEF Left
    <2>2. SoldFor(run.token)
      BY <1>4, Settled DEF SaleMined, SoldFor, Memory, Underway, Waiting
    <2>3. \A token : SoldFor(token) => SoldFor(token)'
      BY ReportStays
    <2>4. \A token \in run'.sold : SoldFor(token)'
      BY <1>0, <2>1, <2>2, <2>3
    <2>5. QED
      BY <1>0, <2>1, <2>4 DEF ReportIsRight, SoldFor, NotSold
  <1>5. CASE Advance
    <2>1. run'.sold = run.sold /\ run'.skipped = run.skipped
      BY <1>5, AdvanceReport
    <2>2. QED
      BY <1>1, <2>1
  <1>6. CASE Land \/ World \/ UNCHANGED vars
    BY <1>1, <1>6, LandLive, WorldFrame DEF vars
  <1>7. QED
    BY <1>2, <1>3, <1>4, <1>5, <1>6, Kinds

-----------------------------------------------------------------------------
(* The theorems. *)

LEMMA Invariance == Spec => []IInv
  <1>1. Init => IInv
    BY InitType, InitMemory, InitChainOrder, InitInFlight, InitFresh, InitEarned, InitAllowed,
       InitReport DEF IInv
  <1>2. IInv /\ [Next]_vars => IInv'
    BY TypeStep, MemoryStep, ChainOrderStep, InFlightStep, FreshStep, EarnedStep, AllowedStep,
       ReportStep DEF IInv
  <1>3. QED
    BY <1>1, <1>2, PTL DEF Spec

\* The types of TypeOK: a token waits, is worked on, is sold or is skipped, and
\* only one of these.
THEOREM TypesAreKept == Spec => []TypeOK
  <1>1. IInv => TypeOK
    BY DEF IInv
  <1>2. QED
    BY <1>1, Invariance, PTL

\* SalesPay: the confirmation of a sale shows a price that covers the mint, the gas
\* and the approval that the run has paid, and the profit asked for.
THEOREM EverySalePays == Spec => []SalesPay
  <1>1. ASSUME IInv PROVE SalesPay
    <2> SUFFICES ASSUME NEW sale \in chain, sale.tx.kind = "sale"
                 PROVE  /\ sale.tx.pays * sale.tx.price >= Share + MinProfit + sale.cost
                        /\ \A approval \in chain :
                             approval.tx.kind = "approve" /\ approval.tx.token = sale.tx.token =>
                               sale.tx.pays * sale.tx.price
                                 >= Share + MinProfit + sale.cost + approval.cost
      BY DEF SalesPay
    <2> DEFINE proceeds == sale.tx.pays * sale.tx.price
               surplus == proceeds - (Share + MinProfit + sale.tx.gas)
    <2>1. surplus >= 0 /\ ApprovalsCost(sale.tx.token, surplus)
      BY <1>1 DEF IInv, Earned, Known, Pays
    <2>2. proceeds \in Nat /\ sale.tx.gas \in Nat /\ sale.cost \in Nat
          /\ sale.cost <= sale.tx.gas /\ \A r \in chain : r.cost \in Nat
      <3>1. sale \in Receipt /\ sale.cost <= sale.tx.gas /\ chain \subseteq Receipt
        BY <1>1 DEF IInv, TypeOK, ChainOrder
      <3>2. sale.tx.pays \in Nat /\ sale.tx.price \in Nat /\ sale.tx.gas \in Nat
        BY <3>1, ConstantsAssumption DEF Receipt, Tx
      <3>3. QED
        BY <3>1, <3>2 DEF Receipt
    <2>3. proceeds >= Share + MinProfit + sale.cost
      BY <2>1, <2>2, ConstantsAssumption
    <2>4. ASSUME NEW r \in chain, r.tx.kind = "approve", r.tx.token = sale.tx.token
          PROVE  proceeds >= Share + MinProfit + sale.cost + r.cost
      <3>1. r.cost <= surplus
        BY <2>1, <2>4 DEF ApprovalsCost
      <3> HIDE DEF proceeds
      <3>2. QED
        BY <2>2, <3>1, ConstantsAssumption
    <2>5. QED
      BY <2>3, <2>4
  <1>2. QED
    BY <1>1, Invariance, PTL

\* OneInFlight: an unknown outcome ends the batch, and the transaction that the run
\* waits for is the only one of its own that can be mined.
THEOREM OneAtATime == Spec => []OneInFlight
  <1>1. IInv => OneInFlight
    BY DEF IInv, OneInFlight, InFlight, Live, Underway
  <1>2. QED
    BY <1>1, Invariance, PTL

\* ReportIsRight: what the summary says of a token cannot be undone by a fork.
THEOREM ReportsStayRight == Spec => []ReportIsRight
  <1>1. IInv => ReportIsRight
    BY DEF IInv
  <1>2. QED
    BY <1>1, Invariance, PTL

\* ApprovalIsFinal: a sale is sent behind an approval that no fork takes away.
THEOREM SalesAreApproved == Spec => []ApprovalIsFinal
  <1>1. IInv => ApprovalIsFinal
    BY DEF IInv, ApprovalIsFinal, Allowed, FinalApproval, Known
  <1>2. QED
    BY <1>1, Invariance, PTL

\* DryRunAgrees: the dry run answers for the run, for all answers that both can get.
THEOREM DryRunIsTrue == Spec => []DryRunAgrees
  <1>1. DryRunAgrees
    BY DEF DryRunAgrees, DryRun, Verdict
  <1>2. QED
    BY <1>1, PTL
=============================================================================
