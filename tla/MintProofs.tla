----------------------------- MODULE MintProofs -----------------------------
(***************************************************************************)
(* Proofs, for any number of runs, replacements, confirmations and forks,  *)
(* that a run of Mint watches every transaction it has signed, mints at    *)
(* most once, reports what stays true, and implements MintOutcome; and,    *)
(* for every schedule and delay, that a mint which has waited for an       *)
(* OpenSea stage is signed with the wallet's next nonce, and that no stage *)
(* is slept through while the schedules are orderly.                       *)
(***************************************************************************)
EXTENDS MCMint, Sequences, TLAPS

\* What a run has in memory at each step.
Holds(r) ==
  /\ run[r].pc \notin {"waiting"} \cup Ended => lock = r
  /\ run[r].pc \notin Watching => run[r].candidates = {} /\ run[r].replacements = 0
  /\ run[r].landed => run[r].pc \in {"send", "resend"}
  /\ run[r].pc \in {"ready", "send"} \cup Watching =>
       run[r].request \in Tx /\ run[r].request.run = r
  /\ \A tx \in run[r].candidates : tx.run = r /\ tx.nonce = run[r].request.nonce
  /\ run[r].pc \in {"bump", "resend"} => run[r].replacements < MaxReplacements
  /\ run[r].pc = "resend" =>
       /\ run[r].replacement \in Tx /\ run[r].replacement.run = r
       /\ run[r].replacement.nonce = run[r].request.nonce
  /\ run[r].pc \in {"confirm", "recheck", "settle"} =>
       run[r].seen \in Receipt /\ run[r].seen.tx \in run[r].candidates
  /\ run[r].pc \in {"recheck", "settle"} => DeepEnough(run[r].seen)
  /\ run[r].pc = "settle" => run[r].seen \in chain

Memory == \A r \in Runs : Holds(r)

\* Heights and nonces grow together along the chain.
ChainOrder ==
  /\ \A s \in chain : s.height <= head /\ s.tx.nonce < nonce
  /\ \A s, t \in chain : s # t => s.height # t.height
  /\ \A s, t \in chain : s.height < t.height => s.tx.nonce < t.tx.nonce

\* The transactions of the run that may be mined, may be dropped by a fork, or
\* have minted.
Live(r) ==
  {tx \in network : tx.run = r /\ ~Dead(tx)} \cup
  {s.tx : s \in {t \in chain : t.tx.run = r /\ (~DeepEnough(t) \/ t.minted)}}

OneNonce(txs) == \A t, u \in txs : t.nonce = u.nonce

Sending(r) == IF run[r].pc = "send" THEN run[r].request ELSE run[r].replacement

Out(r) == run[r].candidates \cup IF run[r].landed THEN {Sending(r)} ELSE {}

\* While a run lasts, what it watches is all that it has live.  What it leaves
\* behind has one nonce, and is nothing when the mint reverted.
Tracking ==
  \A r \in Runs :
    /\ run[r].pc \notin {"confirmed", "failed", "stopped"} => Live(r) \subseteq Out(r)
    /\ OneNonce(Live(r))

Minted ==
  \A r \in Runs : run[r].pc = "confirmed" =>
    \E s \in chain : s.tx.run = r /\ s.minted /\ DeepEnough(s)

IInv == TypeOK /\ Memory /\ ChainOrder /\ Tracking /\ Minted

-----------------------------------------------------------------------------
(* Types. *)

LEMMA StartIsRun ==
  \A pc \in PCs : [Start EXCEPT !.pc = pc] \in Run /\ Start \in Run
  BY ConstantsAssumption DEF Start, Run, PCs

LEMMA InitType == Init => TypeOK
  <1>1. Start \in Run /\ Start.replacements = 0
    BY StartIsRun DEF PCs, Start
  <1>2. QED
    BY <1>1, ConstantsAssumption DEF Init, TypeOK

LEMMA LeaveType ==
  ASSUME TypeOK, NEW r \in Runs, NEW pc \in PCs, Leave(r, pc)
  PROVE  TypeOK'
  <1>1. [Start EXCEPT !.pc = pc] \in Run /\ [Start EXCEPT !.pc = pc].replacements = 0
    BY StartIsRun DEF Start
  <1>2. run' = [run EXCEPT ![r] = [Start EXCEPT !.pc = pc]]
    BY DEF Leave
  <1>3. /\ run' \in [Runs -> Run]
        /\ \A q \in Runs : run'[q].replacements <= MaxReplacements
    BY <1>1, <1>2, ConstantsAssumption DEF TypeOK
  <1>4. QED
    BY <1>3 DEF TypeOK, Leave, environment

LEMMA GotoType ==
  ASSUME TypeOK, NEW r \in Runs, NEW from, NEW to \in PCs, Goto(r, from, to)
  PROVE  /\ run' \in [Runs -> Run]
         /\ \A q \in Runs : run'[q].replacements <= MaxReplacements
  <1>1. [run[r] EXCEPT !.pc = to] \in Run
    BY DEF TypeOK, Run
  <1>2. run' = [run EXCEPT ![r] = [run[r] EXCEPT !.pc = to]]
    BY DEF Goto
  <1>3. QED
    BY <1>1, <1>2 DEF TypeOK

\* Every step of a run keeps the types.
LEMMA StepType ==
  ASSUME TypeOK, Memory, NEW r \in Runs, Step(r)
  PROVE  TypeOK'
  <1> USE DEF PCs, Watching, Ended
  <1>1. CASE NotReady(r) \/ Fail(r) \/ SubmitFails(r) \/ Confirm(r) \/ Retry(r) \/ Revert(r)
             \/ Stop(r)
    BY <1>1, LeaveType DEF NotReady, Fail, SubmitFails, Confirm, Retry, Revert, Stop
  <1>2. CASE Acquire(r) \/ Sign(r) \/ FindNone(r) \/ NotYet(r) \/ AwaitConfirmations(r)
             \/ Resume(r)
    <2>1. /\ run' \in [Runs -> Run]
          /\ \A q \in Runs : run'[q].replacements <= MaxReplacements
      BY <1>2, GotoType
      DEF Acquire, Sign, FindNone, NotYet, AwaitConfirmations, Resume
    <2>2. QED
      BY <1>2, <2>1
      DEF Acquire, Sign, FindNone, NotYet, AwaitConfirmations, Resume, TypeOK, environment
  <1>3. CASE Prepare(r)
    <2>1. PICK n \in NonceReads, fee \in Fees :
            run' = [run EXCEPT ![r].request = [run |-> r, nonce |-> n, fee |-> fee],
                               ![r].pc = "ready"]
      BY <1>3 DEF Prepare
    <2>2. [run |-> r, nonce |-> n, fee |-> fee] \in Tx
      BY ConstantsAssumption DEF NonceReads, Tx
    <2>3. QED
      BY <1>3, <2>1, <2>2 DEF Prepare, TypeOK, Run, environment
  <1>4. CASE Land(r)
    <2>1. run' = [run EXCEPT ![r].landed = TRUE]
      BY <1>4 DEF Land
    <2>2. [run[r] EXCEPT !.landed = TRUE] \in Run
      BY DEF TypeOK, Run
    <2>3. /\ run' \in [Runs -> Run]
          /\ \A q \in Runs : run'[q].replacements <= MaxReplacements
      BY <2>1, <2>2 DEF TypeOK
    <2>4. network' \subseteq Tx
      BY <1>4 DEF Land, TypeOK, Memory, Holds
    <2>5. QED
      BY <1>4, <2>3, <2>4 DEF Land, TypeOK
  <1>5. CASE Submit(r)
    <2>1. run[r].request \in Tx
      BY <1>5 DEF Submit, Memory, Holds
    <2>2. QED
      BY <1>5, <2>1 DEF Submit, TypeOK, Run, environment
  <1>6. CASE FindReceipt(r)
    BY <1>6 DEF FindReceipt, ReceiptsOf, TypeOK, Run, environment
  <1>7. CASE Revalidate(r)
    BY <1>7 DEF Revalidate, ReceiptsOf, TypeOK, Run, environment
  <1>8. CASE SignReplacement(r)
    <2>1. [run[r].request EXCEPT !.fee = @ + 1] \in Tx
      BY <1>8 DEF SignReplacement, Memory, Holds, Tx
    <2>2. QED
      BY <1>8, <2>1 DEF SignReplacement, TypeOK, Run, environment
  <1>9. CASE GiveUpReplacing(r)
    BY <1>9, ConstantsAssumption DEF GiveUpReplacing, TypeOK, Run, environment
  <1>10. CASE Replace(r) \/ ReplacementUnknown(r)
    <2>1. PICK n \in Nat : Replaced(r, n) /\ n <= MaxReplacements /\ run[r].pc = "resend"
      BY <1>10, ConstantsAssumption DEF Replace, ReplacementUnknown, TypeOK, Run, Memory, Holds
    <2>2. run[r].replacement \in Tx
      BY <2>1 DEF Memory, Holds
    <2>3. UNCHANGED <<lock, environment>>
      BY <1>10 DEF Replace, ReplacementUnknown
    <2>4. QED
      BY <2>1, <2>2, <2>3 DEF Replaced, TypeOK, Run, environment
  <1>11. QED
    BY <1>1, <1>2, <1>3, <1>4, <1>5, <1>6, <1>7, <1>8, <1>9, <1>10 DEF Step

\* Blocks and mempools keep the types.
LEMMA EnvironmentType ==
  ASSUME TypeOK, Environment
  PROVE  TypeOK'
  <1>1. ASSUME NEW tx \in network, Mine(tx) PROVE TypeOK'
    BY <1>1 DEF Mine, TypeOK, Receipt
  <1>2. ASSUME NEW tx \in network, Forget(tx) PROVE TypeOK'
    BY <1>2 DEF Forget, TypeOK
  <1>3. ASSUME NEW s \in chain, Reorganise(s) PROVE TypeOK'
    BY <1>3 DEF Reorganise, TypeOK, Receipt, Tx
  <1>4. CASE NewBlock \/ SpendNonce
    BY <1>4 DEF NewBlock, SpendNonce, TypeOK
  <1>5. QED
    BY <1>1, <1>2, <1>3, <1>4 DEF Environment

-----------------------------------------------------------------------------
(* What a run has in memory. *)

LEMMA InitMemory == Init => Memory
  BY DEF Init, Memory, Holds, Start, Watching, Ended

\* A step of one run leaves the others, the blocks and their lock alone.
LEMMA Others ==
  ASSUME TypeOK, Memory, NEW r \in Runs, Step(r)
  PROVE  /\ \A q \in Runs \ {r} : run'[q] = run[q]
         /\ \A q \in Runs \ {r} : lock = q => lock' = q
         /\ UNCHANGED <<chain, head, forks, nonce>>
         /\ network' = network \/ Land(r)
  <1> USE DEF Goto, environment, TypeOK
  <1>1. CASE NotReady(r) \/ Fail(r) \/ SubmitFails(r) \/ Confirm(r) \/ Retry(r) \/ Revert(r)
             \/ Stop(r)
    <2>1. \E pc : Leave(r, pc)
      BY <1>1 DEF NotReady, Fail, SubmitFails, Confirm, Retry, Revert, Stop
    <2>2. QED
      BY <2>1 DEF Leave
  <1>2. CASE Acquire(r)
    BY <1>2, ConstantsAssumption DEF Acquire
  <1>3. CASE Sign(r) \/ FindNone(r) \/ NotYet(r) \/ AwaitConfirmations(r) \/ Resume(r)
    BY <1>3 DEF Sign, FindNone, NotYet, AwaitConfirmations, Resume
  <1>4. CASE Prepare(r) \/ Submit(r) \/ SignReplacement(r) \/ GiveUpReplacing(r)
    BY <1>4 DEF Prepare, Submit, SignReplacement, GiveUpReplacing
  <1>5. CASE FindReceipt(r) \/ Revalidate(r)
    BY <1>5 DEF FindReceipt, Revalidate
  <1>6. CASE Replace(r) \/ ReplacementUnknown(r)
    BY <1>6 DEF Replace, ReplacementUnknown, Replaced
  <1>7. CASE Land(r)
    BY <1>7 DEF Land
  <1>8. QED
    BY <1>1, <1>2, <1>3, <1>4, <1>5, <1>6, <1>7 DEF Step

\* Every step of a run keeps what its memory holds.
LEMMA OwnMemory ==
  ASSUME TypeOK, Memory, ChainOrder, NEW r \in Runs, Step(r)
  PROVE  Holds(r)'
  <1>0. Holds(r) /\ run[r] \in Run /\ run \in [Runs -> Run] /\ r # None
    BY ConstantsAssumption DEF Memory, TypeOK
  <1> USE DEF Holds, Watching, Ended, environment
  <1>1. CASE NotReady(r) \/ Fail(r) \/ SubmitFails(r) \/ Confirm(r) \/ Retry(r) \/ Revert(r)
             \/ Stop(r)
    <2>1. PICK pc \in {"waiting"} \cup Ended : Leave(r, pc)
      BY <1>1 DEF NotReady, Fail, SubmitFails, Confirm, Retry, Revert, Stop
    <2>2. run'[r] = [Start EXCEPT !.pc = pc]
      BY <1>0, <2>1 DEF Leave
    <2>3. QED
      BY <2>1, <2>2 DEF Start
  <1>2. CASE Acquire(r) \/ Sign(r) \/ FindNone(r) \/ NotYet(r) \/ Resume(r)
    BY <1>0, <1>2 DEF Acquire, Sign, FindNone, NotYet, Resume, Goto, Run, MayReplace
  <1>3. CASE AwaitConfirmations(r)
    BY <1>0, <1>3 DEF AwaitConfirmations, Goto, Run, DeepEnough
  <1>4. CASE Prepare(r)
    <2>1. PICK n \in NonceReads, fee \in Fees :
            run' = [run EXCEPT ![r].request = [run |-> r, nonce |-> n, fee |-> fee],
                               ![r].pc = "ready"]
      BY <1>4 DEF Prepare
    <2>2. [run |-> r, nonce |-> n, fee |-> fee] \in Tx
      BY ConstantsAssumption DEF NonceReads, Tx
    <2>3. QED
      BY <1>0, <1>4, <2>1, <2>2 DEF Prepare, Run
  <1>5. CASE Land(r)
    BY <1>0, <1>5 DEF Land, Run
  <1>6. CASE Submit(r)
    BY <1>0, <1>6 DEF Submit, Run
  <1>7. CASE FindReceipt(r)
    <2>1. PICK s \in ReceiptsOf(run[r].candidates) :
            run' = [run EXCEPT ![r].seen = s,
                               ![r].pc = IF Confirmations > 1 THEN "confirm" ELSE "settle"]
      BY <1>7 DEF FindReceipt
    <2>2. s \in chain /\ s.tx \in run[r].candidates /\ s \in Receipt /\ s.height \in Nat
      BY <2>1 DEF ReceiptsOf, TypeOK, Receipt
    <2>3. Confirmations > 1 \/ (DeepEnough(s) /\ head' = head)
      BY <1>7, <2>2, ConstantsAssumption DEF DeepEnough, ChainOrder, FindReceipt, TypeOK
    <2>4. QED
      BY <1>0, <1>7, <2>1, <2>2, <2>3 DEF FindReceipt, Run, DeepEnough
  <1>8. CASE Revalidate(r)
    <2>1. PICK s \in ReceiptsOf({run[r].seen.tx}) :
            /\ s.height = run[r].seen.height
            /\ run' = [run EXCEPT ![r].seen = s, ![r].pc = "settle"]
      BY <1>8 DEF Revalidate
    <2>2. s \in chain /\ s.tx = run[r].seen.tx /\ s \in Receipt
      BY <2>1 DEF ReceiptsOf, TypeOK
    <2>3. QED
      BY <1>0, <1>8, <2>1, <2>2 DEF Revalidate, Run, DeepEnough
  <1>9. CASE SignReplacement(r)
    <2>1. /\ [run[r].request EXCEPT !.fee = @ + 1] \in Tx
          /\ [run[r].request EXCEPT !.fee = @ + 1].run = r
          /\ [run[r].request EXCEPT !.fee = @ + 1].nonce = run[r].request.nonce
      BY <1>0, <1>9 DEF SignReplacement, Tx
    <2>2. QED
      BY <1>0, <1>9, <2>1 DEF SignReplacement, Run
  <1>10. CASE GiveUpReplacing(r)
    BY <1>0, <1>10 DEF GiveUpReplacing, Run
  <1>11. CASE Replace(r) \/ ReplacementUnknown(r)
    <2>1. PICK n : Replaced(r, n) /\ run[r].pc = "resend" /\ UNCHANGED <<lock, environment>>
      BY <1>11 DEF Replace, ReplacementUnknown
    <2>2. QED
      BY <1>0, <2>1 DEF Replaced, Run
  <1>12. QED
    BY <1>1, <1>2, <1>3, <1>4, <1>5, <1>6, <1>7, <1>8, <1>9, <1>10, <1>11 DEF Step

\* A receipt that is deep enough stays in the chain and deep enough.
LEMMA DeepStays ==
  ASSUME TypeOK, [Next]_vars, Memory
  PROVE  /\ head' >= head
         /\ \A s \in Receipt : DeepEnough(s) => DeepEnough(s)'
         /\ \A s \in chain : DeepEnough(s) => s \in chain'
  <1>1. /\ head' \in Nat /\ head' >= head
        /\ \A s \in chain : DeepEnough(s) => s \in chain'
    <2>1. CASE \E r \in Runs : Step(r)
      BY <2>1, Others DEF TypeOK
    <2>2. CASE Environment
      BY <2>2 DEF Environment, Mine, Forget, Reorganise, NewBlock, SpendNonce, TypeOK
    <2>3. CASE UNCHANGED vars
      BY <2>3 DEF vars, TypeOK
    <2>4. QED
      BY <2>1, <2>2, <2>3 DEF Next
  <1>2. QED
    BY <1>1, ConstantsAssumption DEF DeepEnough, TypeOK, Receipt

LEMMA MemoryStep == TypeOK /\ Memory /\ ChainOrder /\ [Next]_vars => Memory'
  <1> SUFFICES ASSUME TypeOK, Memory, ChainOrder, [Next]_vars, NEW q \in Runs PROVE Holds(q)'
    BY DEF Memory
  <1>1. Holds(q)
    BY DEF Memory
  <1>2. CASE run'[q] = run[q] /\ (lock = q => lock' = q)
    BY <1>1, <1>2, DeepStays DEF Holds
  <1>3. ASSUME NEW r \in Runs, Step(r) PROVE Holds(q)'
    BY <1>2, <1>3, Others, OwnMemory
  <1>4. CASE Environment \/ UNCHANGED vars
    <2>1. UNCHANGED <<lock, run>>
      BY <1>4
      DEF Environment, Mine, Forget, Reorganise, NewBlock, SpendNonce, vars
    <2>2. QED
      BY <1>2, <2>1
  <1>5. QED
    BY <1>3, <1>4 DEF Next

-----------------------------------------------------------------------------
(* The chain. *)

LEMMA TypeStep == TypeOK /\ Memory /\ [Next]_vars => TypeOK'
  <1>1. TypeOK /\ UNCHANGED vars => TypeOK'
    BY DEF TypeOK, vars
  <1>2. QED
    BY <1>1, StepType, EnvironmentType DEF Next

LEMMA InitChainOrder == Init => ChainOrder
  BY DEF Init, ChainOrder

LEMMA ChainOrderStep == TypeOK /\ Memory /\ ChainOrder /\ [Next]_vars => ChainOrder'
  <1> SUFFICES ASSUME TypeOK, Memory, ChainOrder, [Next]_vars PROVE ChainOrder'
    OBVIOUS
  <1>0. /\ head \in Nat /\ nonce \in Nat /\ chain \subseteq Receipt
        /\ \A s \in chain : s.height \in Nat /\ s.tx.nonce \in Nat
    BY DEF TypeOK, Receipt, Tx
  <1>1. CASE UNCHANGED chain /\ head' \in Nat /\ head' >= head
             /\ nonce' \in Nat /\ nonce' >= nonce
    BY <1>0, <1>1 DEF ChainOrder
  <1>2. ASSUME NEW r \in Runs, Step(r) PROVE ChainOrder'
    BY <1>0, <1>1, <1>2, Others
  <1>3. ASSUME NEW tx \in network, Mine(tx) PROVE ChainOrder'
    <2>1. PICK minted \in BOOLEAN, early \in BOOLEAN :
            chain' = chain \cup {[tx |-> tx, height |-> head + 1, fork |-> forks,
                                  minted |-> minted, early |-> early]}
      BY <1>3 DEF Mine
    <2>2. tx.nonce = nonce /\ nonce' = nonce + 1 /\ head' = head + 1
      BY <1>3 DEF Mine
    <2>3. QED
      BY <1>0, <2>1, <2>2 DEF ChainOrder
  <1>4. ASSUME NEW s \in chain, Reorganise(s) PROVE ChainOrder'
    <2>1. /\ chain' = chain \ {s} /\ nonce' = s.tx.nonce /\ head' = head + 1
          /\ \A other \in chain : other.height <= s.height
      BY <1>4 DEF Reorganise
    <2>2. \A other \in chain' : other.height < s.height
      BY <1>0, <2>1 DEF ChainOrder
    <2>3. QED
      BY <1>0, <2>1, <2>2 DEF ChainOrder
  <1>5. CASE NewBlock \/ SpendNonce \/ UNCHANGED vars
    BY <1>0, <1>1, <1>5 DEF NewBlock, SpendNonce, vars
  <1>6. ASSUME NEW tx \in network, Forget(tx) PROVE ChainOrder'
    BY <1>0, <1>1, <1>6 DEF Forget
  <1>7. QED
    BY <1>2, <1>3, <1>4, <1>5, <1>6 DEF Next, Environment

\* A transaction without effect stays without effect.
LEMMA DeadStays ==
  ASSUME TypeOK, Memory, [Next]_vars
  PROVE  \A tx : Dead(tx) => Dead(tx)'
  BY DeepStays DEF Dead, TypeOK

\* No block and no fork brings a transaction of the run back to life.
LEMMA EnvironmentLive ==
  ASSUME TypeOK, Memory, ChainOrder, Environment, NEW r \in Runs
  PROVE  Live(r)' \subseteq Live(r)
  <1>0. /\ \A tx : Dead(tx) => Dead(tx)'
        /\ \A s \in chain : DeepEnough(s) => DeepEnough(s)'
    BY DeadStays, DeepStays DEF Next, TypeOK
  <1>1. CASE network' \subseteq network /\ chain' = chain
    BY <1>0, <1>1 DEF Live
  <1>2. ASSUME NEW tx \in network, Mine(tx) PROVE Live(r)' \subseteq Live(r)
    <2>1. ~Dead(tx)
      BY <1>2 DEF Mine, Dead, ChainOrder, TypeOK, Receipt, Tx
    <2>2. /\ network' \subseteq network
          /\ \A s \in chain' : s \in chain \/ s.tx = tx
      BY <1>2 DEF Mine
    <2>3. QED
      BY <1>0, <2>1, <2>2 DEF Live
  <1>3. ASSUME NEW s \in chain, Reorganise(s) PROVE Live(r)' \subseteq Live(r)
    <2>1. /\ ~DeepEnough(s) /\ chain' \subseteq chain
          /\ network' \subseteq network \cup {s.tx}
      BY <1>3 DEF Reorganise
    <2>2. QED
      BY <1>0, <2>1 DEF Live
  <1>4. CASE NewBlock \/ SpendNonce
    BY <1>1, <1>4 DEF NewBlock, SpendNonce
  <1>5. ASSUME NEW tx \in network, Forget(tx) PROVE Live(r)' \subseteq Live(r)
    BY <1>1, <1>5 DEF Forget
  <1>6. QED
    BY <1>2, <1>3, <1>4, <1>5 DEF Environment

-----------------------------------------------------------------------------
(* What a run has live is what it watches. *)

\* A mint that is final without having minted leaves nothing of the run live.
LEMMA FinalLeavesNothing ==
  ASSUME TypeOK, ChainOrder, NEW r \in Runs, Holds(r), Live(r) \subseteq Out(r),
         run[r].pc = "settle", ~run[r].seen.minted
  PROVE  Live(r) = {}
  <1> DEFINE seen == run[r].seen
  <1>1. /\ seen \in chain /\ DeepEnough(seen) /\ seen.tx \in run[r].candidates
        /\ Out(r) = run[r].candidates
    BY DEF Holds, Out
  <1>2. \A tx \in Live(r) : tx.nonce = seen.tx.nonce
    BY <1>1 DEF Holds
  <1>3. /\ \A s \in chain : s.height \in Nat /\ s.tx.nonce \in Nat
        /\ \A tx \in network : tx.nonce \in Nat
    BY DEF TypeOK, Receipt, Tx
  <1>4. ASSUME NEW tx \in network, tx.run = r, ~Dead(tx) PROVE FALSE
    <2>1. tx \in Live(r)
      BY <1>4 DEF Live
    <2>2. QED
      BY <1>1, <1>2, <1>3, <1>4, <2>1 DEF Dead
  <1>5. ASSUME NEW s \in chain, s.tx.run = r, ~DeepEnough(s) \/ s.minted PROVE FALSE
    <2>1. s.tx \in Live(r)
      BY <1>5 DEF Live
    <2>2. s.height = seen.height
      BY <1>1, <1>2, <1>3, <2>1 DEF ChainOrder
    <2>3. s = seen
      BY <1>1, <2>2 DEF ChainOrder
    <2>4. QED
      BY <1>1, <1>5, <2>3
  <1>6. QED
    BY <1>4, <1>5 DEF Live

\* What is live does not change with the memory of a run.
LEMMA LiveOfStep ==
  ASSUME TypeOK, Memory, NEW r \in Runs, Step(r), NEW q \in Runs
  PROVE  /\ ~Land(r) => Live(q)' = Live(q)
         /\ Land(r) => Live(q)' \subseteq Live(q) \cup IF q = r THEN {Sending(r)} ELSE {}
  <1>1. UNCHANGED <<chain, head, forks, nonce>> /\ (network' = network \/ Land(r))
    BY Others
  <1>2. \A s : DeepEnough(s)' = DeepEnough(s)
    BY <1>1 DEF DeepEnough
  <1>3. \A tx : Dead(tx)' = Dead(tx)
    BY <1>1, <1>2 DEF Dead
  <1>4. ASSUME ~Land(r) PROVE Live(q)' = Live(q)
    BY <1>1, <1>2, <1>3, <1>4 DEF Live
  <1>5. ASSUME Land(r)
        PROVE  Live(q)' \subseteq Live(q) \cup IF q = r THEN {Sending(r)} ELSE {}
    <2>1. network' = network \cup {Sending(r)} /\ Sending(r).run = r
      BY <1>5 DEF Land, Sending, Memory, Holds
    <2>2. QED
      BY <1>1, <1>2, <1>3, <2>1 DEF Live
  <1>6. QED
    BY <1>4, <1>5

\* What a run has out stays watched, until the run leaves it behind.
LEMMA OutOfStep ==
  ASSUME TypeOK, Memory, NEW r \in Runs, Step(r)
  PROVE  \/ Out(r) \subseteq Out(r)' /\ (Land(r) => Sending(r) \in Out(r)')
         \/ run'[r].pc \in {"confirmed", "failed", "stopped"}
         \/ Retry(r) \/ Revert(r)
  <1>0. Holds(r) /\ run[r] \in Run /\ run \in [Runs -> Run]
    BY DEF Memory, TypeOK
  <1> USE DEF Out, Sending
  <1>1. CASE Fail(r) \/ SubmitFails(r) \/ Confirm(r) \/ Stop(r)
    BY <1>0, <1>1 DEF Fail, SubmitFails, Confirm, Stop, Leave, Start
  <1>2. CASE NotReady(r)
    <2>1. Out(r) = {} /\ ~Land(r)
      BY <1>0, <1>2 DEF NotReady, Holds, Watching, Land
    <2>2. QED
      BY <2>1
  <1>3. CASE Acquire(r) \/ Sign(r) \/ FindNone(r) \/ NotYet(r) \/ AwaitConfirmations(r)
             \/ Resume(r)
    BY <1>0, <1>3
    DEF Acquire, Sign, FindNone, NotYet, AwaitConfirmations, Resume, Goto, Run, Holds, Land
  <1>4. CASE Prepare(r) \/ FindReceipt(r) \/ Revalidate(r) \/ SignReplacement(r)
    <2>1. ~run[r].landed /\ ~Land(r)
      BY <1>0, <1>4 DEF Prepare, FindReceipt, Revalidate, SignReplacement, Holds, Land
    <2>2. run'[r].candidates = run[r].candidates
      <3>1. CASE Prepare(r)
        BY <1>0, <3>1 DEF Prepare, Run
      <3>2. CASE FindReceipt(r) \/ Revalidate(r)
        <4>1. PICK s, pc : run' = [run EXCEPT ![r].seen = s, ![r].pc = pc]
          BY <3>2, ConstantsAssumption DEF FindReceipt, Revalidate
        <4>2. QED
          BY <1>0, <4>1 DEF Run
      <3>3. CASE SignReplacement(r)
        BY <1>0, <3>3 DEF SignReplacement, Run
      <3>4. QED
        BY <1>4, <3>1, <3>2, <3>3
    <2>3. QED
      BY <2>1, <2>2
  <1>5. CASE Land(r)
    BY <1>0, <1>5 DEF Land, Run, Holds, Watching
  <1>6. CASE Submit(r)
    BY <1>0, <1>6 DEF Submit, Run, Holds, Watching, Land
  <1>7. CASE GiveUpReplacing(r)
    BY <1>0, <1>7 DEF GiveUpReplacing, Run, Land
  <1>8. CASE Replace(r) \/ ReplacementUnknown(r)
    BY <1>0, <1>8 DEF Replace, ReplacementUnknown, Replaced, Run, Land
  <1>9. CASE Retry(r) \/ Revert(r)
    BY <1>9
  <1>10. QED
    BY <1>1, <1>2, <1>3, <1>4, <1>5, <1>6, <1>7, <1>8, <1>9 DEF Step

\* A run that has ended takes no step.
LEMMA OverIsOver ==
  ASSUME NEW r \in Runs, Step(r)
  PROVE  run[r].pc \notin Ended
  <1> USE DEF Ended
  <1>1. CASE NotReady(r) \/ Fail(r) \/ SubmitFails(r) \/ Confirm(r) \/ Retry(r) \/ Revert(r)
             \/ Stop(r)
    BY <1>1 DEF NotReady, Fail, SubmitFails, Confirm, Retry, Revert, Stop
  <1>2. CASE Acquire(r) \/ Sign(r) \/ FindNone(r) \/ NotYet(r) \/ AwaitConfirmations(r)
             \/ Resume(r)
    BY <1>2 DEF Acquire, Sign, FindNone, NotYet, AwaitConfirmations, Resume, Goto
  <1>3. CASE Prepare(r) \/ Land(r) \/ Submit(r) \/ FindReceipt(r) \/ Revalidate(r)
    BY <1>3 DEF Prepare, Land, Submit, FindReceipt, Revalidate
  <1>4. CASE SignReplacement(r) \/ GiveUpReplacing(r) \/ Replace(r) \/ ReplacementUnknown(r)
    BY <1>4 DEF SignReplacement, GiveUpReplacing, Replace, ReplacementUnknown
  <1>5. QED
    BY <1>1, <1>2, <1>3, <1>4 DEF Step

LEMMA InitTracking == Init => Tracking
  BY DEF Init, Tracking, Live, OneNonce

\* Every step keeps what is live watched, or of one nonce when the run has ended.
LEMMA TrackingStep ==
  TypeOK /\ Memory /\ ChainOrder /\ Tracking /\ [Next]_vars => Tracking'
  <1> SUFFICES ASSUME TypeOK, Memory, ChainOrder, Tracking, [Next]_vars, NEW q \in Runs
               PROVE  /\ \/ run'[q].pc \in {"confirmed", "failed", "stopped"}
                         \/ Live(q)' \subseteq Out(q)'
                      /\ OneNonce(Live(q)')
    BY DEF Tracking, OneNonce
  <1>1. /\ \/ run[q].pc \in {"confirmed", "failed", "stopped"}
           \/ Live(q) \subseteq Out(q)
        /\ OneNonce(Live(q))
    BY DEF Tracking
  <1>2. CASE run'[q] = run[q] /\ Live(q)' \subseteq Live(q)
    <2>1. Out(q)' = Out(q)
      BY <1>2 DEF Out, Sending
    <2>2. QED
      BY <1>1, <1>2, <2>1 DEF OneNonce
  <1>3. ASSUME NEW r \in Runs, Step(r), q # r
        PROVE  run'[q] = run[q] /\ Live(q)' \subseteq Live(q)
    BY <1>3, Others, LiveOfStep
  <1>4. CASE Step(q)
    <2>0. Holds(q) /\ Holds(q)'
      BY <1>4, OwnMemory DEF Memory
    <2>1. CASE Land(q)
      <3>1. /\ run[q].pc \notin {"confirmed", "failed", "stopped"}
            /\ run'[q].pc = run[q].pc
        BY <2>1 DEF Land, TypeOK, Run
      <3>2. Live(q)' \subseteq Out(q)'
        BY <1>1, <1>4, <2>1, <3>1, LiveOfStep, OutOfStep DEF Land, Retry, Revert
      <3>3. OneNonce(Out(q)')
        BY <2>0 DEF Holds, OneNonce, Out, Sending, Watching
      <3>4. QED
        BY <3>2, <3>3 DEF OneNonce
    <2>2. CASE ~Land(q) /\ (Retry(q) \/ Revert(q))
      <3>1. Live(q) = {}
        BY <1>1, <2>0, <2>2, FinalLeavesNothing DEF Retry, Revert
      <3>2. QED
        BY <1>4, <2>2, <3>1, LiveOfStep DEF OneNonce
    <2>3. CASE ~Land(q) /\ ~Retry(q) /\ ~Revert(q)
      <3>1. Live(q)' = Live(q)
        BY <1>4, <2>3, LiveOfStep
      <3>2. \/ run'[q].pc \in {"confirmed", "failed", "stopped"}
            \/ Out(q) \subseteq Out(q)'
        BY <1>4, <2>3, OutOfStep
      <3>3. run[q].pc \notin {"confirmed", "failed", "stopped"}
        BY <1>4, OverIsOver DEF Ended
      <3>4. QED
        BY <1>1, <3>1, <3>2, <3>3
    <2>4. QED
      BY <2>1, <2>2, <2>3
  <1>5. CASE Environment
    BY <1>2, <1>5, EnvironmentLive
    DEF Environment, Mine, Forget, Reorganise, NewBlock, SpendNonce
  <1>6. CASE UNCHANGED vars
    BY <1>2, <1>6 DEF vars, Live, Dead, DeepEnough
  <1>7. QED
    BY <1>2, <1>3, <1>4, <1>5, <1>6 DEF Next

-----------------------------------------------------------------------------
(* Confirmed mints. *)

\* Only a mint that is found minted is reported confirmed.
LEMMA ConfirmsOnlyMints ==
  ASSUME TypeOK, NEW r \in Runs, Step(r), run'[r].pc = "confirmed"
  PROVE  run[r].pc = "confirmed" \/ Confirm(r)
  <1>0. run[r] \in Run /\ run \in [Runs -> Run]
    BY DEF TypeOK
  <1>1. CASE NotReady(r) \/ Fail(r) \/ SubmitFails(r) \/ Retry(r) \/ Revert(r) \/ Stop(r)
    BY <1>0, <1>1 DEF NotReady, Fail, SubmitFails, Retry, Revert, Stop, Leave, Start
  <1>2. CASE Acquire(r) \/ Sign(r) \/ FindNone(r) \/ NotYet(r) \/ AwaitConfirmations(r)
             \/ Resume(r)
    BY <1>0, <1>2
    DEF Acquire, Sign, FindNone, NotYet, AwaitConfirmations, Resume, Goto, Run
  <1>3. CASE Submit(r) \/ SignReplacement(r) \/ GiveUpReplacing(r)
    BY <1>0, <1>3 DEF Submit, SignReplacement, GiveUpReplacing, Run
  <1>4. CASE Prepare(r) \/ FindReceipt(r) \/ Revalidate(r)
    <2>1. CASE Prepare(r)
      BY <1>0, <2>1 DEF Prepare, Run
    <2>2. CASE FindReceipt(r)
      <3>1. PICK seen :
              run' = [run EXCEPT ![r].seen = seen,
                                 ![r].pc = IF Confirmations > 1 THEN "confirm" ELSE "settle"]
        BY <2>2 DEF FindReceipt
      <3>2. QED
        BY <1>0, <3>1 DEF Run
    <2>3. CASE Revalidate(r)
      BY <1>0, <2>3 DEF Revalidate, Run
    <2>4. QED
      BY <1>4, <2>1, <2>2, <2>3
  <1>5. CASE Land(r)
    BY <1>0, <1>5 DEF Land, Run
  <1>6. CASE Replace(r) \/ ReplacementUnknown(r)
    BY <1>0, <1>6 DEF Replace, ReplacementUnknown, Replaced, Run
  <1>7. QED
    BY <1>1, <1>2, <1>3, <1>4, <1>5, <1>6 DEF Step

LEMMA MintedStep == TypeOK /\ Memory /\ Minted /\ [Next]_vars => Minted'
  <1> SUFFICES ASSUME TypeOK, Memory, Minted, [Next]_vars,
                      NEW q \in Runs, run'[q].pc = "confirmed"
               PROVE  \E s \in chain' : s.tx.run = q /\ s.minted /\ DeepEnough(s)'
    BY DEF Minted
  <1>1. CASE run[q].pc = "confirmed"
    BY <1>1, DeepStays DEF Minted, TypeOK
  <1>2. CASE Confirm(q)
    <2>1. /\ run[q].seen \in chain /\ run[q].seen.tx.run = q /\ run[q].seen.minted
          /\ DeepEnough(run[q].seen)
      BY <1>2 DEF Confirm, Memory, Holds
    <2>2. QED
      BY <2>1, DeepStays DEF TypeOK
  <1>3. CASE run'[q] = run[q]
    BY <1>1, <1>3
  <1>4. ASSUME NEW r \in Runs, Step(r), q # r PROVE run'[q] = run[q]
    BY <1>4, Others
  <1>5. CASE Step(q)
    BY <1>1, <1>2, <1>5, ConfirmsOnlyMints
  <1>6. CASE Environment \/ UNCHANGED vars
    BY <1>3, <1>6
    DEF Environment, Mine, Forget, Reorganise, NewBlock, SpendNonce, vars
  <1>7. QED
    BY <1>3, <1>4, <1>5, <1>6 DEF Next

-----------------------------------------------------------------------------
(* The theorems. *)

LEMMA Inductive == Spec => []IInv
  <1>1. Init => IInv
    <2>1. Init => Minted
      BY DEF Init, Minted, Start
    <2>2. QED
      BY <2>1, InitType, InitMemory, InitChainOrder, InitTracking DEF IInv
  <1>2. IInv /\ [Next]_vars => IInv'
    BY TypeStep, MemoryStep, ChainOrderStep, TrackingStep, MintedStep DEF IInv
  <1>3. QED
    BY <1>1, <1>2, PTL DEF Spec

\* Every variable has its type, and a run never replaces its mint more often
\* than it is configured to.
THEOREM TypeCorrect == Spec => []TypeOK
  <1>1. IInv => TypeOK
    BY DEF IInv
  <1>2. QED
    BY <1>1, Inductive, PTL

\* A run that monitors its mint looks up every transaction that it has signed
\* and that may be mined, whatever acknowledgements were lost.
THEOREM WatchIsComplete == Spec => []SignedIsWatched
  <1>1. IInv => SignedIsWatched
    <2> SUFFICES ASSUME IInv, NEW r \in Runs, run[r].pc \in Watching
                 PROVE  /\ \A tx \in network : tx.run = r => tx \in InFlight(r) \/ Dead(tx)
                        /\ \A s \in chain :
                             s.tx.run = r => s.tx \in InFlight(r) \/ DeepEnough(s)
      BY DEF SignedIsWatched
    <2>1. Live(r) \subseteq Out(r)
      BY DEF IInv, Tracking, Watching
    <2>2. Out(r) \subseteq InFlight(r)
      BY DEF IInv, Memory, Holds, Out, InFlight, Sending, Watching
    <2>3. QED
      BY <2>1, <2>2 DEF Live
  <1>2. QED
    BY <1>1, Inductive, PTL

\* One run mints at most once, through replacements, retries and forks.
THEOREM MintsOnce == Spec => []AtMostOneMint
  <1>1. IInv => AtMostOneMint
    <2> SUFFICES ASSUME IInv, NEW s \in chain, NEW t \in chain,
                        s.minted, t.minted, s.tx.run = t.tx.run
                 PROVE  s = t
      BY DEF AtMostOneMint
    <2>1. s.tx.run \in Runs /\ s.height \in Nat /\ t.height \in Nat
          /\ s.tx.nonce \in Nat /\ t.tx.nonce \in Nat
      BY DEF IInv, TypeOK, Receipt, Tx
    <2>2. s.tx \in Live(s.tx.run) /\ t.tx \in Live(s.tx.run)
      BY DEF Live
    <2>3. s.tx.nonce = t.tx.nonce
      BY <2>1, <2>2 DEF IInv, Tracking, OneNonce
    <2>4. QED
      BY <2>1, <2>3 DEF IInv, ChainOrder
  <1>2. QED
    BY <1>1, Inductive, PTL

\* A confirmed mint stays in the chain, and after a reverted one nothing that the
\* run has signed can mint.
THEOREM ReportsStayTrue == Spec => []ReportIsFinal
  <1>1. IInv => ReportIsFinal
    <2> SUFFICES ASSUME IInv, NEW r \in Runs
                 PROVE  /\ run[r].pc = "confirmed" =>
                             \E s \in chain : s.tx.run = r /\ s.minted /\ DeepEnough(s)
                        /\ run[r].pc = "reverted" =>
                             /\ \A s \in chain : s.tx.run = r => ~s.minted
                             /\ \A tx \in network : tx.run = r => Dead(tx)
      BY DEF ReportIsFinal
    <2>1. CASE run[r].pc = "reverted"
      <3>1. Out(r) = {}
        BY <2>1 DEF IInv, Memory, Holds, Out, Watching
      <3>2. Live(r) = {}
        BY <2>1, <3>1 DEF IInv, Tracking
      <3>3. QED
        BY <2>1, <3>2 DEF Live
    <2>2. CASE run[r].pc # "reverted"
      BY <2>2 DEF IInv, Minted
    <2>3. QED
      BY <2>1, <2>2
  <1>2. QED
    BY <1>1, Inductive, PTL

\* A run whose mint may be mined has the wallet lock, unless it has ended.
THEOREM LockCoversMint == Spec => []LiveMintHoldsLock
  <1>1. IInv => LiveMintHoldsLock
    <2> SUFFICES ASSUME IInv, NEW tx \in network, run[tx.run].pc \notin Ended, ~Dead(tx)
                 PROVE  lock = tx.run
      BY DEF LiveMintHoldsLock
    <2>1. tx.run \in Runs
      BY DEF IInv, TypeOK, Tx
    <2>2. tx \in Out(tx.run)
      BY <2>1 DEF IInv, Tracking, Live, Ended
    <2>3. QED
      BY <2>1, <2>2 DEF IInv, Memory, Holds, Out, Watching, Ended
  <1>2. QED
    BY <1>1, Inductive, PTL

-----------------------------------------------------------------------------
(* Mint implements MintOutcome. *)

\* What the run of a step leaves alone, in the terms of MintOutcome.
LEMMA StepFrame ==
  ASSUME IInv, NEW r \in Runs, Step(r)
  PROVE  /\ Undertakings' = [Undertakings EXCEPT ![r] = MintOf(r)']
         /\ Undertakings[r] = MintOf(r)
         /\ FinalOutcomes' = FinalOutcomes
         /\ ~Land(r) => CanTakeEffect' = CanTakeEffect
         /\ ~Land(r) /\ MintOf(r)' = MintOf(r) => UNCHANGED Outcome!outcome
         /\ run[r] \in Run /\ run \in [Runs -> Run] /\ Holds(r)
  <1>1. /\ \A q \in Runs \ {r} : run'[q] = run[q]
        /\ UNCHANGED <<chain, head, forks, nonce>>
        /\ network' = network \/ Land(r)
    BY Others DEF IInv
  <1>2. \A q \in Runs \ {r} : MintOf(q)' = MintOf(q)
    BY <1>1 DEF MintOf, SendingOf, AttemptsLeft, StateOf
  <1>3. \A s : DeepEnough(s)' = DeepEnough(s)
    BY <1>1 DEF DeepEnough
  <1>4. \A tx : Dead(tx)' = Dead(tx)
    BY <1>1, <1>3 DEF Dead
  <1>5. /\ Undertakings' = [Undertakings EXCEPT ![r] = MintOf(r)']
        /\ FinalOutcomes' = FinalOutcomes
        /\ ~Land(r) => CanTakeEffect' = CanTakeEffect
    BY <1>1, <1>2, <1>3, <1>4 DEF Undertakings, FinalOutcomes, CanTakeEffect
  <1>6. MintOf(r)' = MintOf(r) => Undertakings' = Undertakings
    BY <1>2 DEF Undertakings
  <1>7. QED
    BY <1>5, <1>6 DEF IInv, TypeOK, Memory, Undertakings, Outcome!outcome

\* Nothing has minted and nothing can, if nothing is live.
LEMMA NotLiveNotMinted ==
  ASSUME NEW r \in Runs, Live(r) = {}
  PROVE  Outcome!NothingMinted(r)
  <1>1. ASSUME NEW tx \in CanTakeEffect, tx.run = r PROVE FALSE
    <2>1. tx \in Live(r)
      BY <1>1 DEF CanTakeEffect, Live
    <2>2. QED
      BY <2>1
  <1>2. ASSUME NEW end \in FinalOutcomes, end.tx.run = r, end.minted PROVE FALSE
    <2>1. PICK s \in chain :
            end = [tx |-> s.tx, minted |-> s.minted, early |-> s.early]
      BY <1>2 DEF FinalOutcomes
    <2>2. s.tx \in Live(r)
      BY <1>2, <2>1 DEF Live
    <2>3. QED
      BY <2>2
  <1>3. QED
    BY <1>1, <1>2 DEF Outcome!NothingMinted

\* A run that settles has the final outcome of its mint before it.
LEMMA SettledIsFinal ==
  ASSUME IInv, NEW r \in Runs, run[r].pc = "settle"
  PROVE  \E end \in FinalOutcomes :
           /\ end.tx.run = r /\ end.tx.nonce = run[r].request.nonce
           /\ end.minted = run[r].seen.minted /\ end.early = run[r].seen.early
  <1> DEFINE seen == run[r].seen
  <1>1. /\ seen \in chain /\ DeepEnough(seen)
        /\ seen.tx.run = r /\ seen.tx.nonce = run[r].request.nonce
    BY DEF IInv, Memory, Holds
  <1>2. [tx |-> seen.tx, minted |-> seen.minted, early |-> seen.early] \in FinalOutcomes
    BY <1>1 DEF FinalOutcomes
  <1>3. QED
    BY <1>1, <1>2

LEMMA OutcomeInit == Init => Outcome!Init
  <1> SUFFICES ASSUME Init PROVE Outcome!Init
    OBVIOUS
  <1>1. Undertakings = [r \in Runs |-> Outcome!At("idle")]
    BY DEF Init, Start, Undertakings, MintOf, StateOf, SendingOf, Outcome!At
  <1>2. CanTakeEffect = {} /\ FinalOutcomes = {}
    BY DEF Init, CanTakeEffect, FinalOutcomes
  <1>3. QED
    BY <1>1, <1>2 DEF Outcome!Init

\* Waiting, looking for receipts and reading them again is no step of MintOutcome.
LEMMA QuietSteps ==
  ASSUME IInv, NEW r \in Runs,
         \/ Acquire(r) \/ Prepare(r) \/ NotReady(r)
         \/ FindReceipt(r) \/ FindNone(r) \/ NotYet(r)
         \/ AwaitConfirmations(r) \/ Revalidate(r) \/ Resume(r)
  PROVE  UNCHANGED Outcome!outcome
  <1>1. Step(r)
    BY DEF Step
  <1>2. run[r] \in Run /\ run \in [Runs -> Run]
    BY <1>1, StepFrame
  <1>3. ~Land(r)
    BY DEF Acquire, Prepare, NotReady, FindReceipt, FindNone, NotYet,
       AwaitConfirmations, Revalidate, Resume, Goto, Land
  <1> USE DEF MintOf, StateOf, SendingOf, AttemptsLeft, Ended
  <1>4. CASE Acquire(r) \/ FindNone(r) \/ NotYet(r) \/ AwaitConfirmations(r) \/ Resume(r)
    <2>1. MintOf(r)' = MintOf(r)
      BY <1>2, <1>4 DEF Acquire, FindNone, NotYet, AwaitConfirmations, Resume, Goto, Run
    <2>2. QED
      BY <1>1, <1>3, <2>1, StepFrame
  <1>5. CASE Prepare(r) \/ NotReady(r)
    <2>1. run'[r].pc \in {"waiting", "ready"} /\ run[r].pc = "locked"
      <3>1. CASE Prepare(r)
        BY <1>2, <3>1 DEF Prepare, Run
      <3>2. CASE NotReady(r)
        BY <1>2, <3>2 DEF NotReady, Leave, Start
      <3>3. QED
        BY <1>5, <3>1, <3>2
    <2>2. MintOf(r)' = MintOf(r)
      BY <2>1
    <2>3. QED
      BY <1>1, <1>3, <2>2, StepFrame
  <1>6. CASE FindReceipt(r) \/ Revalidate(r)
    <2>1. /\ run[r].pc \in {"watch", "recheck"}
          /\ run'[r].pc \in {"confirm", "settle"}
          /\ run'[r].request = run[r].request
          /\ run'[r].replacements = run[r].replacements
      <3>1. CASE FindReceipt(r)
        <4>1. PICK seen :
                run' = [run EXCEPT ![r].seen = seen,
                                   ![r].pc = IF Confirmations > 1 THEN "confirm" ELSE "settle"]
          BY <3>1 DEF FindReceipt
        <4>2. QED
          BY <1>2, <3>1, <4>1 DEF FindReceipt, Run
      <3>2. CASE Revalidate(r)
        <4>1. PICK seen : run' = [run EXCEPT ![r].seen = seen, ![r].pc = "settle"]
          BY <3>2 DEF Revalidate
        <4>2. QED
          BY <1>2, <3>2, <4>1 DEF Revalidate, Run
      <3>3. QED
        BY <1>6, <3>1, <3>2
    <2>2. MintOf(r)' = MintOf(r)
      BY <2>1
    <2>3. QED
      BY <1>1, <1>3, <2>2, StepFrame
  <1>7. QED
    BY <1>4, <1>5, <1>6

\* A signature begins a mint when no other is under way and nothing of the run's is
\* left of an earlier one.
LEMMA SignBegins ==
  ASSUME IInv, NEW r \in Runs, Sign(r)
  PROVE  Outcome!Begin(r)
  <1>1. Step(r) /\ ~Land(r) /\ run[r].pc = "ready" /\ run'[r].pc = "send"
    BY DEF Step, Sign, Goto, Land, IInv, TypeOK
  <1>2. /\ Undertakings' = [Undertakings EXCEPT ![r] = MintOf(r)']
        /\ FinalOutcomes' = FinalOutcomes /\ CanTakeEffect' = CanTakeEffect
        /\ run[r] \in Run /\ run \in [Runs -> Run] /\ Holds(r)
    BY <1>1, StepFrame
  <1>3. run'[r].request = run[r].request /\ run'[r].replacements = run[r].replacements
    BY <1>2 DEF Sign, Goto, Run
  <1>4. run[r].request \in Tx /\ run[r].request.run = r
    BY <1>1, <1>2 DEF Holds
  <1>5. \A q \in Runs : ~Outcome!Ongoing(q)
    <2>1. lock = r
      BY <1>1, <1>2 DEF Holds, Ended
    <2>2. ASSUME NEW q \in Runs, Outcome!Ongoing(q) PROVE FALSE
      <3>1. StateOf(run[q].pc) = "ongoing"
        BY <2>2 DEF Outcome!Ongoing, Undertakings, MintOf
      <3>2. run[q].pc \notin {"waiting", "locked", "ready"} \cup Ended
        BY <3>1 DEF StateOf, Ended
      <3>3. Holds(q)
        BY DEF IInv, Memory
      <3>4. lock = q
        BY <3>2, <3>3 DEF Holds
      <3>5. QED
        BY <1>1, <2>1, <3>2, <3>4
    <2>3. QED
      BY <2>2
  <1>6. Outcome!NothingMinted(r)
    <2>1. Out(r) = {}
      BY <1>1, <1>2 DEF Holds, Out, Watching
    <2>2. Live(r) = {}
      BY <1>1, <2>1 DEF IInv, Tracking
    <2>3. QED
      BY <2>2, NotLiveNotMinted
  <1>7. run[r].replacements = 0
    BY <1>1, <1>2 DEF Holds, Watching
  <1>8. MintOf(r)' = Outcome!Trying(run[r].request, run[r].request, (MaxReplacements + 1) - 1)
    BY <1>1, <1>3, <1>7, ConstantsAssumption
    DEF MintOf, StateOf, SendingOf, AttemptsLeft, Ended, Outcome!Trying
  <1>9. Undertakings[r].state = "idle"
    BY <1>1 DEF Undertakings, MintOf, StateOf
  <1>10. Undertakings'[r].sending = run[r].request
    BY <1>2, <1>8 DEF Undertakings, Outcome!Trying
  <1>11. run[r].request \in Outcome!Tx
    BY <1>4 DEF Tx, Outcome!Tx
  <1>12. Undertakings' =
           [Undertakings EXCEPT ![r] = Outcome!Trying(Undertakings'[r].sending,
                                                      Undertakings'[r].sending,
                                                      (MaxReplacements + 1) - 1)]
    BY <1>2, <1>8, <1>10
  <1>13. UNCHANGED <<CanTakeEffect, FinalOutcomes>>
    BY <1>2
  <1>14. QED
    BY <1>4, <1>5, <1>6, <1>9, <1>10, <1>11, <1>12, <1>13 DEF Outcome!Begin

\* What an endpoint takes was not too late for the chain.
LEMMA LandArrives ==
  ASSUME IInv, NEW r \in Runs, Land(r)
  PROVE  Outcome!Arrive(r)
  <1> DEFINE tx == Sending(r)
  <1>1. Step(r) /\ run[r].pc \in {"send", "resend"} /\ tx.nonce >= nonce
        /\ network' = network \cup {tx} /\ UNCHANGED <<chain, head>>
        /\ run' = [run EXCEPT ![r].landed = TRUE]
    BY DEF Land, Step, Sending
  <1>2. /\ Undertakings' = [Undertakings EXCEPT ![r] = MintOf(r)']
        /\ Undertakings[r] = MintOf(r) /\ FinalOutcomes' = FinalOutcomes
        /\ run[r] \in Run /\ run \in [Runs -> Run] /\ Holds(r)
    BY <1>1, StepFrame
  <1>3. tx \in Tx /\ tx # None
    BY <1>1, <1>2, NoneAssumption DEF Holds, Sending
  <1>4. MintOf(r)' = MintOf(r) /\ MintOf(r).state = "ongoing" /\ MintOf(r).sending = tx
    BY <1>1, <1>2 DEF Run, MintOf, StateOf, SendingOf, AttemptsLeft, Ended, Sending
  <1>5. Undertakings' = Undertakings
    BY <1>2, <1>4 DEF Undertakings
  <1>6. \A s \in chain : s.tx.nonce < tx.nonce
    BY <1>1, <1>3 DEF IInv, TypeOK, ChainOrder, Receipt, Tx
  <1>7. ~Dead(tx)
    BY <1>3, <1>6 DEF Dead, IInv, TypeOK, Receipt, Tx
  <1>8. CanTakeEffect' = CanTakeEffect \cup {tx}
    <2>1. \A s : DeepEnough(s)' = DeepEnough(s)
      BY <1>1 DEF DeepEnough
    <2>2. \A t : Dead(t)' = Dead(t)
      BY <1>1, <2>1 DEF Dead
    <2>3. QED
      BY <1>1, <1>7, <2>1, <2>2 DEF CanTakeEffect
  <1>9. \A end \in FinalOutcomes : end.tx.nonce < tx.nonce
    BY <1>6 DEF FinalOutcomes
  <1>10. QED
    BY <1>2, <1>3, <1>4, <1>5, <1>8, <1>9 DEF Outcome!Arrive, Outcome!Ongoing

\* Whatever is known of what has been sent, the replacements that remain are no more
\* than before.
LEMMA SentSteps ==
  ASSUME IInv, NEW r \in Runs,
         \/ Submit(r) \/ Replace(r) \/ ReplacementUnknown(r)
         \/ GiveUpReplacing(r) /\ run[r].pc = "resend"
  PROVE  Outcome!Sent(r)
  <1>0. run[r].pc \in {"send", "resend"} /\ run'[r].pc = "watch"
    <2>0. run[r] \in Run /\ run \in [Runs -> Run]
      BY DEF IInv, TypeOK
    <2>1. CASE Submit(r)
      BY <2>0, <2>1 DEF Submit, Run
    <2>2. CASE Replace(r)
      BY <2>0, <2>2 DEF Replace, Replaced, Run
    <2>3. CASE ReplacementUnknown(r)
      BY <2>0, <2>3 DEF ReplacementUnknown, Replaced, Run
    <2>4. CASE GiveUpReplacing(r) /\ run[r].pc = "resend"
      BY <2>0, <2>4 DEF GiveUpReplacing, Run
    <2>5. QED
      BY <2>1, <2>2, <2>3, <2>4
  <1>1. Step(r) /\ ~Land(r)
    BY <1>0 DEF Step, Land, IInv, TypeOK, Run
  <1>2. /\ Undertakings' = [Undertakings EXCEPT ![r] = MintOf(r)']
        /\ Undertakings[r] = MintOf(r) /\ DOMAIN Undertakings = Runs
        /\ FinalOutcomes' = FinalOutcomes /\ CanTakeEffect' = CanTakeEffect
        /\ run[r] \in Run /\ run \in [Runs -> Run] /\ Holds(r)
        /\ run[r].replacements <= MaxReplacements
    BY <1>1, StepFrame DEF Undertakings, IInv, TypeOK
  <1>3. /\ run'[r].request \in {run[r].request, Sending(r)}
        /\ run'[r].replacements \in Nat /\ run'[r].replacements <= MaxReplacements
        /\ run'[r].replacements >= run[r].replacements + IF run[r].pc = "resend" THEN 1 ELSE 0
    <2>1. CASE Submit(r)
      BY <1>2, <2>1 DEF Submit, Run
    <2>2. CASE Replace(r)
      BY <1>2, <2>2, ConstantsAssumption DEF Replace, Replaced, Run, Holds, Sending
    <2>5. CASE ReplacementUnknown(r)
      BY <1>2, <2>5, ConstantsAssumption DEF ReplacementUnknown, Replaced, Run, Holds, Sending
    <2>3. CASE GiveUpReplacing(r) /\ run[r].pc = "resend"
      BY <1>2, <2>3, ConstantsAssumption DEF GiveUpReplacing, Run, Holds
    <2>4. QED
      BY <2>1, <2>2, <2>3, <2>5
  <1> DEFINE left == AttemptsLeft(r)
             left2 == MaxReplacements - run'[r].replacements
  <1>4. left2 \in 0..left
    BY <1>0, <1>2, <1>3, ConstantsAssumption DEF AttemptsLeft, Run
  <1>5. MintOf(r) = Outcome!Trying(run[r].request, Sending(r), left)
    BY <1>0 DEF MintOf, StateOf, SendingOf, Ended, Sending, Outcome!Trying
  <1>6. MintOf(r)' = Outcome!Trying(run'[r].request, None, left2)
    BY <1>0, <1>2, <1>3, ConstantsAssumption
    DEF MintOf, StateOf, SendingOf, AttemptsLeft, Ended, Run, Outcome!Trying
  <1>7. Sending(r) # None
    BY <1>0, <1>2, NoneAssumption DEF Holds, Sending
  <1> HIDE DEF left, left2
  <1>8. /\ Undertakings'[r] = MintOf(r)'
        /\ Undertakings'[r].attempt = run'[r].request /\ Undertakings'[r].left = left2
        /\ Undertakings[r].attempt = run[r].request /\ Undertakings[r].left = left
        /\ Undertakings[r].sending = Sending(r) /\ Undertakings[r].state = "ongoing"
    BY <1>2, <1>5, <1>6 DEF Outcome!Trying
  <1>9. Undertakings' =
          [Undertakings EXCEPT ![r] = Outcome!Trying(Undertakings'[r].attempt, None,
                                                     Undertakings'[r].left)]
    BY <1>2, <1>6, <1>8
  <1>10. QED
    BY <1>2, <1>3, <1>4, <1>7, <1>8, <1>9 DEF Outcome!Sent, Outcome!Ongoing

\* No replacement is made any more.
LEMMA BumpGivesUp ==
  ASSUME IInv, NEW r \in Runs, GiveUpReplacing(r), run[r].pc = "bump"
  PROVE  Outcome!GiveUp(r)
  <1>1. Step(r) /\ ~Land(r)
    BY DEF Step, Land
  <1>2. /\ Undertakings' = [Undertakings EXCEPT ![r] = MintOf(r)']
        /\ Undertakings[r] = MintOf(r)
        /\ FinalOutcomes' = FinalOutcomes /\ CanTakeEffect' = CanTakeEffect
        /\ run[r] \in Run /\ run \in [Runs -> Run]
    BY <1>1, StepFrame
  <1>3. /\ run'[r].pc = "watch" /\ run'[r].request = run[r].request
        /\ run'[r].replacements = MaxReplacements
    BY <1>2 DEF GiveUpReplacing, Run
  <1>4. /\ Undertakings[r].state = "ongoing" /\ Undertakings[r].attempt = run[r].request
        /\ Undertakings[r].sending = None
    BY <1>2 DEF MintOf, StateOf, SendingOf, Ended
  <1>5. MintOf(r)' = Outcome!Trying(run[r].request, None, 0)
    BY <1>3, ConstantsAssumption
    DEF MintOf, StateOf, SendingOf, AttemptsLeft, Ended, Outcome!Trying
  <1>6. QED
    BY <1>2, <1>4, <1>5 DEF Outcome!GiveUp, Outcome!Ongoing

\* A replacement has the nonce of the mint and a higher fee, and the allowance is not
\* used up.
LEMMA ReplacementRaises ==
  ASSUME IInv, NEW r \in Runs, SignReplacement(r)
  PROVE  Outcome!Raise(r)
  <1>1. Step(r) /\ ~Land(r) /\ run[r].pc = "bump"
    BY DEF Step, Land, SignReplacement
  <1>2. /\ Undertakings' = [Undertakings EXCEPT ![r] = MintOf(r)']
        /\ Undertakings[r] = MintOf(r)
        /\ FinalOutcomes' = FinalOutcomes /\ CanTakeEffect' = CanTakeEffect
        /\ run[r] \in Run /\ run \in [Runs -> Run] /\ Holds(r)
    BY <1>1, StepFrame
  <1> DEFINE tx == [run[r].request EXCEPT !.fee = @ + 1]
  <1>3. /\ tx \in Tx /\ tx.run = r /\ tx.nonce = run[r].request.nonce
        /\ tx.fee > run[r].request.fee
    BY <1>1, <1>2 DEF Holds, Watching, Tx
  <1>4. /\ run'[r].pc = "resend" /\ run'[r].request = run[r].request
        /\ run'[r].replacement = tx /\ run'[r].replacements = run[r].replacements
    BY <1>2 DEF SignReplacement, Run
  <1>5. run[r].replacements < MaxReplacements /\ run[r].replacements \in Nat
    BY <1>1, <1>2 DEF Holds, Run
  <1> DEFINE left == MaxReplacements - run[r].replacements
  <1>6. /\ Undertakings[r].state = "ongoing" /\ Undertakings[r].attempt = run[r].request
        /\ Undertakings[r].sending = None /\ Undertakings[r].left = left
    BY <1>1, <1>2, <1>5, ConstantsAssumption
    DEF MintOf, StateOf, SendingOf, AttemptsLeft, Ended
  <1>7. MintOf(r)' = Outcome!Trying(run[r].request, tx, left - 1)
    BY <1>4 DEF MintOf, StateOf, SendingOf, AttemptsLeft, Ended, Outcome!Trying
  <1>8. left > 0
    BY <1>5, ConstantsAssumption
  <1>9. tx \in Outcome!Tx
    BY <1>3 DEF Tx, Outcome!Tx
  <1> HIDE DEF tx, left
  <1>10. Undertakings'[r].sending = tx
    BY <1>2, <1>7 DEF Undertakings, Outcome!Trying
  <1>11. Undertakings' =
           [Undertakings EXCEPT ![r] = Outcome!Trying(Undertakings[r].attempt,
                                                      Undertakings'[r].sending,
                                                      Undertakings[r].left - 1)]
    BY <1>2, <1>6, <1>7, <1>10
  <1>12. QED
    BY <1>2, <1>3, <1>6, <1>8, <1>9, <1>10, <1>11 DEF Outcome!Raise, Outcome!Ongoing

\* A run that is over, or begins again, keeps nothing of its mint in memory.
LEMMA LeaveEnds ==
  ASSUME IInv, NEW r \in Runs, Step(r), NEW to \in {"waiting"} \cup Ended, Leave(r, to)
  PROVE  /\ Undertakings' = [Undertakings EXCEPT ![r] = Outcome!At(StateOf(to))]
         /\ UNCHANGED <<CanTakeEffect, FinalOutcomes>>
  <1>1. run'[r] = [Start EXCEPT !.pc = to]
    BY StepFrame DEF Leave
  <1>2. ~Land(r)
    BY <1>1, StepFrame DEF Land, Start, Run
  <1>3. MintOf(r)' = Outcome!At(StateOf(to))
    BY <1>1 DEF Start, MintOf, StateOf, SendingOf, Ended, Outcome!At
  <1>4. QED
    BY <1>2, <1>3, StepFrame

\* A run reports and repeats what is final, and nothing of a revert is left.
LEMMA SettledEnds ==
  ASSUME IInv, NEW r \in Runs
  PROVE  /\ Confirm(r) => Outcome!Confirm(r)
         /\ Retry(r) => Outcome!Retry(r)
         /\ Revert(r) => Outcome!Revert(r)
  <1> SUFFICES ASSUME Confirm(r) \/ Retry(r) \/ Revert(r)
               PROVE  /\ Confirm(r) => Outcome!Confirm(r)
                      /\ Retry(r) => Outcome!Retry(r)
                      /\ Revert(r) => Outcome!Revert(r)
    OBVIOUS
  <1>1. run[r].pc = "settle" /\ Step(r)
    BY DEF Confirm, Retry, Revert, Step
  <1>2. /\ Undertakings[r].state = "ongoing" /\ Undertakings[r].attempt = run[r].request
        /\ Outcome!Ongoing(r)
    BY <1>1 DEF Undertakings, MintOf, StateOf, Ended, Outcome!Ongoing
  <1>3. PICK end \in FinalOutcomes :
          /\ end.tx.run = r /\ end.tx.nonce = run[r].request.nonce
          /\ end.minted = run[r].seen.minted /\ end.early = run[r].seen.early
    BY <1>1, SettledIsFinal
  <1>4. ~run[r].seen.minted => Outcome!NothingMinted(r) /\ Outcome!FinallyReverted(r, end)
    <2> SUFFICES ASSUME ~run[r].seen.minted
                 PROVE  Outcome!NothingMinted(r) /\ Outcome!FinallyReverted(r, end)
      OBVIOUS
    <2>1. Live(r) = {}
      BY <1>1, FinalLeavesNothing DEF IInv, Memory, Tracking
    <2>2. QED
      BY <1>2, <1>3, <2>1, NotLiveNotMinted DEF Outcome!FinallyReverted
  <1>5. CASE Confirm(r)
    <2>1. /\ Undertakings' = [Undertakings EXCEPT ![r] = Outcome!At("confirmed")]
          /\ UNCHANGED <<CanTakeEffect, FinalOutcomes>>
      BY <1>1, <1>5, LeaveEnds DEF Confirm, Ended, StateOf
    <2>2. Outcome!Confirm(r)
      BY <1>2, <1>3, <1>5, <2>1 DEF Outcome!Confirm, Confirm
    <2>3. ~Retry(r) /\ ~Revert(r)
      BY <1>5 DEF Confirm, Retry, Revert
    <2>4. QED
      BY <2>2, <2>3
  <1>6. CASE Retry(r)
    <2>1. /\ Undertakings' = [Undertakings EXCEPT ![r] = Outcome!At("idle")]
          /\ UNCHANGED <<CanTakeEffect, FinalOutcomes>>
      BY <1>1, <1>6, LeaveEnds DEF Retry, Ended, StateOf
    <2>2. Outcome!Retry(r)
      BY <1>2, <1>3, <1>4, <1>6, <2>1 DEF Outcome!Retry, Retry
    <2>3. ~Confirm(r) /\ run'[r].pc = "waiting"
      BY <1>1, <1>6, StepFrame DEF Confirm, Retry, Leave, Start
    <2>4. ~Revert(r)
      BY <1>1, <2>3, StepFrame DEF Revert, Leave, Start
    <2>5. QED
      BY <2>2, <2>3, <2>4
  <1>7. CASE Revert(r)
    <2>1. /\ Undertakings' = [Undertakings EXCEPT ![r] = Outcome!At("reverted")]
          /\ UNCHANGED <<CanTakeEffect, FinalOutcomes>>
      BY <1>1, <1>7, LeaveEnds DEF Revert, Ended, StateOf
    <2>2. Outcome!Revert(r)
      BY <1>2, <1>3, <1>4, <1>7, <2>1 DEF Outcome!Revert, Revert
    <2>3. ~Confirm(r) /\ run'[r].pc = "reverted"
      BY <1>1, <1>7, StepFrame DEF Confirm, Revert, Leave, Start
    <2>4. ~Retry(r)
      BY <1>1, <2>3, StepFrame DEF Retry, Leave, Start
    <2>5. QED
      BY <2>2, <2>3, <2>4
  <1>8. QED
    BY <1>5, <1>6, <1>7

\* Before the mint and with its first attempt a run may fail, and at any time stop.
LEMMA FailAndStop ==
  ASSUME IInv, NEW r \in Runs
  PROVE  /\ Fail(r) \/ SubmitFails(r) => Outcome!Fail(r)
         /\ Stop(r) => Outcome!Stop(r)
  <1>1. ASSUME Fail(r) \/ SubmitFails(r) PROVE Outcome!Fail(r)
    <2>1. /\ Undertakings' = [Undertakings EXCEPT ![r] = Outcome!At("failed")]
          /\ UNCHANGED <<CanTakeEffect, FinalOutcomes>>
      BY <1>1, LeaveEnds DEF Fail, SubmitFails, Step, Ended, StateOf
    <2>2. run[r].pc \in {"locked", "ready", "send"}
      BY <1>1 DEF Fail, SubmitFails
    <2>3. \/ Undertakings[r].state = "idle"
          \/ Outcome!Ongoing(r) /\ Undertakings[r].sending = Undertakings[r].attempt
      BY <2>2 DEF Undertakings, MintOf, StateOf, SendingOf, Ended, Outcome!Ongoing
    <2>4. QED
      BY <2>1, <2>3 DEF Outcome!Fail
  <1>2. ASSUME Stop(r) PROVE Outcome!Stop(r)
    <2>1. /\ Undertakings' = [Undertakings EXCEPT ![r] = Outcome!At("stopped")]
          /\ UNCHANGED <<CanTakeEffect, FinalOutcomes>>
      BY <1>2, LeaveEnds DEF Stop, Step, Ended, StateOf
    <2>2. Undertakings[r].state \in {"idle", "ongoing"}
      BY <1>2 DEF Stop, Undertakings, MintOf, StateOf
    <2>3. QED
      BY <2>1, <2>2 DEF Outcome!Stop
  <1>3. QED
    BY <1>1, <1>2

\* Blocks and forks bring nothing back that could not take effect before.
LEMMA NothingComesBack ==
  ASSUME IInv, Environment
  PROVE  /\ CanTakeEffect' \subseteq CanTakeEffect
         /\ \A s \in chain' : s \in chain \/ s.tx \in CanTakeEffect
  <1>0. /\ \A tx : Dead(tx) => Dead(tx)'
        /\ \A s \in chain : DeepEnough(s) => DeepEnough(s)'
    BY DeadStays, DeepStays DEF Next, IInv, TypeOK
  <1>1. CASE network' \subseteq network /\ chain' = chain
    BY <1>0, <1>1 DEF CanTakeEffect
  <1>2. ASSUME NEW tx \in network, Mine(tx)
        PROVE  /\ CanTakeEffect' \subseteq CanTakeEffect
               /\ \A s \in chain' : s \in chain \/ s.tx \in CanTakeEffect
    <2>1. ~Dead(tx)
      BY <1>2 DEF Mine, Dead, IInv, ChainOrder, TypeOK, Receipt, Tx
    <2>2. /\ network' \subseteq network
          /\ \A s \in chain' : s \in chain \/ s.tx = tx
      BY <1>2 DEF Mine
    <2>3. QED
      BY <1>0, <2>1, <2>2 DEF CanTakeEffect
  <1>3. ASSUME NEW s \in chain, Reorganise(s)
        PROVE  CanTakeEffect' \subseteq CanTakeEffect /\ chain' \subseteq chain
    <2>1. /\ ~DeepEnough(s) /\ chain' \subseteq chain
          /\ network' \subseteq network \cup {s.tx}
      BY <1>3 DEF Reorganise
    <2>2. QED
      BY <1>0, <2>1 DEF CanTakeEffect
  <1>4. CASE NewBlock \/ SpendNonce
    BY <1>1, <1>4 DEF NewBlock, SpendNonce
  <1>5. ASSUME NEW tx \in network, Forget(tx)
        PROVE  network' \subseteq network /\ chain' = chain
    BY <1>5 DEF Forget
  <1>6. QED
    BY <1>1, <1>2, <1>3, <1>4, <1>5 DEF Environment

\* A block lets at most one receipt become final, the one that has just as many blocks
\* on it as the bot waits for.
LEMMA OneBecomesFinal ==
  ASSUME IInv, IInv', Environment,
         NEW s \in chain', DeepEnough(s)', ~(s \in chain /\ DeepEnough(s)),
         NEW t \in chain', DeepEnough(t)', ~(t \in chain /\ DeepEnough(t))
  PROVE  s = t
  <1>1. /\ head \in Nat /\ head' \in {head, head + 1}
        /\ \A u \in chain' : u \in chain \/ u.height = head + 1
    BY DEF Environment, Mine, Forget, Reorganise, NewBlock, SpendNonce, IInv, TypeOK
  <1>2. \A u \in chain' : u.height \in Nat
    BY DEF IInv, TypeOK, Receipt
  <1>3. ASSUME NEW u \in chain', DeepEnough(u)', ~(u \in chain /\ DeepEnough(u))
        PROVE  u.height = (head + 2) - Confirmations
    <2>1. head' >= u.height + (Confirmations - 1)
      BY <1>3 DEF DeepEnough
    <2>2. CASE u \in chain
      <3>1. ~(head >= u.height + (Confirmations - 1))
        BY <1>3, <2>2 DEF DeepEnough
      <3>2. QED
        BY <1>1, <1>2, <2>1, <3>1, ConstantsAssumption
    <2>3. CASE u.height = head + 1
      BY <1>1, <1>2, <2>1, <2>3, ConstantsAssumption
    <2>4. QED
      BY <1>1, <2>2, <2>3
  <1>4. s.height = t.height
    BY <1>3
  <1>5. QED
    BY <1>4 DEF IInv, ChainOrder

\* What blocks and forks do is to let a transaction become final or to lose some.
LEMMA EnvironmentSettles ==
  ASSUME IInv, IInv', Environment
  PROVE  Outcome!Settle \/ Outcome!Vanish
  <1> DEFINE End(s) == [tx |-> s.tx, minted |-> s.minted, early |-> s.early]
             New(s) == DeepEnough(s)' /\ ~(s \in chain /\ DeepEnough(s))
  <1>1. Undertakings' = Undertakings
    BY DEF Environment, Mine, Forget, Reorganise, NewBlock, SpendNonce,
       Undertakings, MintOf, SendingOf, AttemptsLeft
  <1>2. \A s \in chain : DeepEnough(s) => s \in chain' /\ DeepEnough(s)'
    BY DeepStays DEF Next, IInv, TypeOK
  <1>3. /\ FinalOutcomes = {End(s) : s \in {t \in chain : DeepEnough(t)}}
        /\ FinalOutcomes' = {End(s) : s \in {t \in chain' : DeepEnough(t)'}}
    BY DEF FinalOutcomes
  <1>4. CASE \A s \in chain' : ~New(s)
    <2>1. FinalOutcomes' = FinalOutcomes
      BY <1>2, <1>3, <1>4
    <2>2. QED
      BY <1>1, <2>1, NothingComesBack DEF Outcome!Vanish
  <1>5. ASSUME NEW s \in chain', New(s) PROVE Outcome!Settle
    <2>1. \A t \in chain' : New(t) => t = s
      BY <1>5, OneBecomesFinal
    <2>2. FinalOutcomes' = FinalOutcomes \cup {End(s)}
      BY <1>2, <1>3, <1>5, <2>1
    <2>3. s.tx \in CanTakeEffect
      BY <1>5, NothingComesBack DEF CanTakeEffect
    <2>4. s \in Receipt /\ s.tx \in Tx /\ s.minted \in BOOLEAN /\ s.early \in BOOLEAN
      BY DEF IInv, TypeOK, Receipt
    <2>5. ASSUME NEW tx \in CanTakeEffect' PROVE tx.nonce > s.tx.nonce
      <3>1. CASE tx \in network' /\ ~Dead(tx)'
        BY <1>5, <2>4, <3>1 DEF Dead, IInv, TypeOK, Tx
      <3>2. ASSUME NEW t \in chain', ~DeepEnough(t)', tx = t.tx
            PROVE  tx.nonce > s.tx.nonce
        <4>1. t \in Receipt /\ t.height \in Nat /\ s.height \in Nat /\ head' \in Nat
          BY <2>4 DEF IInv, TypeOK, Receipt
        <4>2. head' >= s.height + (Confirmations - 1)
              /\ ~(head' >= t.height + (Confirmations - 1))
          BY <1>5, <3>2 DEF DeepEnough
        <4>3. s.height < t.height
          BY <4>1, <4>2, ConstantsAssumption
        <4>4. s.tx.nonce < t.tx.nonce
          BY <4>3 DEF IInv, ChainOrder
        <4>5. QED
          BY <2>4, <3>2, <4>1, <4>4 DEF Receipt, Tx
      <3>3. QED
        BY <2>5, <3>1, <3>2 DEF CanTakeEffect
    <2>6. CanTakeEffect' \subseteq {other \in CanTakeEffect : other.nonce > s.tx.nonce}
      BY <2>5, NothingComesBack
    <2>7. QED
      BY <1>1, <2>2, <2>3, <2>4, <2>6 DEF Outcome!Settle
  <1>6. QED
    BY <1>4, <1>5

LEMMA OutcomeStep ==
  IInv /\ IInv' /\ [Next]_vars => [Outcome!Next]_(Outcome!outcome)
  <1> SUFFICES ASSUME IInv, IInv', [Next]_vars
               PROVE  [Outcome!Next]_(Outcome!outcome)
    OBVIOUS
  <1>1. ASSUME NEW r \in Runs, Step(r)
        PROVE  [Outcome!Next]_(Outcome!outcome)
    <2>1. CASE \/ Acquire(r) \/ Prepare(r) \/ NotReady(r)
               \/ FindReceipt(r) \/ FindNone(r) \/ NotYet(r)
               \/ AwaitConfirmations(r) \/ Revalidate(r) \/ Resume(r)
      BY <2>1, QuietSteps
    <2>2. CASE Sign(r)
      BY <2>2, SignBegins DEF Outcome!Next
    <2>3. CASE Land(r)
      BY <2>3, LandArrives DEF Outcome!Next
    <2>4. CASE GiveUpReplacing(r)
      <3>1. run[r].pc \in {"bump", "resend"}
        BY <2>4 DEF GiveUpReplacing
      <3>2. Outcome!Sent(r) \/ Outcome!GiveUp(r)
        BY <2>4, <3>1, SentSteps, BumpGivesUp
      <3>3. QED
        BY <3>2 DEF Outcome!Next
    <2>5. CASE Submit(r) \/ Replace(r) \/ ReplacementUnknown(r)
      <3>1. Outcome!Sent(r)
        BY <2>5, SentSteps
      <3>2. QED
        BY <3>1 DEF Outcome!Next
    <2>6. CASE SignReplacement(r)
      BY <2>6, ReplacementRaises DEF Outcome!Next
    <2>7. CASE Confirm(r) \/ Retry(r) \/ Revert(r)
      BY <2>7, SettledEnds DEF Outcome!Next
    <2>8. CASE Fail(r) \/ SubmitFails(r) \/ Stop(r)
      BY <2>8, FailAndStop DEF Outcome!Next
    <2>9. QED
      BY <1>1, <2>1, <2>2, <2>3, <2>4, <2>5, <2>6, <2>7, <2>8 DEF Step
  <1>2. CASE Environment
    BY <1>2, EnvironmentSettles DEF Outcome!Next
  <1>3. CASE UNCHANGED vars
    <2>1. Undertakings' = Undertakings
      BY <1>3 DEF vars, Undertakings, MintOf, SendingOf, AttemptsLeft
    <2>2. CanTakeEffect' = CanTakeEffect /\ FinalOutcomes' = FinalOutcomes
      BY <1>3 DEF vars, CanTakeEffect, FinalOutcomes, DeepEnough, Dead
    <2>3. QED
      BY <2>1, <2>2 DEF Outcome!outcome
  <1>4. QED
    BY <1>1, <1>2, <1>3 DEF Next

\* The runs keep what MintOutcome promises: one mint under way, a bounded number of
\* attempts with one nonce and rising fees, another mint only after a final revert,
\* and reports of what is final.
THEOREM ImplementsOutcome == Spec => KeepsOutcome
  <1>1. Init => Outcome!Init
    BY OutcomeInit
  <1>2. IInv /\ IInv' /\ [Next]_vars => [Outcome!Next]_(Outcome!outcome)
    BY OutcomeStep
  <1>3. QED
    BY <1>1, <1>2, Inductive, PTL DEF Spec, KeepsOutcome, Outcome!Spec

-----------------------------------------------------------------------------
(* The nonce of a mint that has waited for an OpenSea stage: what an armed *)
(* refresh or the refresh before the signature has read never decides.     *)

\* What is read behind the wallet lock stays the wallet's next nonce while the mint
\* is prepared, and nothing is left of it when the lock is taken again.
ReadIsNext ==
  /\ step \in {"wait", "lock"} => read = None
  /\ step = "prepare" => read \in {None, taken}

NonceInv == ReadIsNext /\ SignsNextNonce

LEMMA InitNonce == Monitor!Init => NonceInv
  BY DEF Monitor!Init, NonceInv, ReadIsNext, SignsNextNonce, Monitor!SignsNextNonce

LEMMA NextNonce == NonceInv /\ [Monitor!Next]_(Monitor!vars) => NonceInv'
<1> SUFFICES ASSUME NonceInv, [Monitor!Next]_(Monitor!vars)
             PROVE  NonceInv'
  OBVIOUS
<1> USE DEF NonceInv, ReadIsNext, SignsNextNonce, Monitor!SignsNextNonce
<1>1. CASE Monitor!Header
  BY <1>1 DEF Monitor!Header, Monitor!request
<1>2. CASE Monitor!FinishRefresh
  BY <1>2 DEF Monitor!FinishRefresh, Monitor!request
<1>3. CASE Monitor!PollSchedule
  BY <1>3 DEF Monitor!PollSchedule, Monitor!request, Monitor!fields
<1>4. CASE Monitor!Acquire
  BY <1>4 DEF Monitor!Acquire, Monitor!request, Monitor!fields
<1>5. CASE Monitor!ReadNonce
  BY <1>5 DEF Monitor!ReadNonce, Monitor!fields
<1>6. CASE Monitor!CheckFields
  BY <1>6 DEF Monitor!CheckFields
<1>7. CASE Monitor!Build
  BY <1>7 DEF Monitor!Build, Monitor!fields
<1>8. CASE Monitor!Ready
  BY <1>8 DEF Monitor!Ready, Monitor!request
<1>9. CASE Monitor!NotReady \/ Monitor!Reload \/ Monitor!Advance \/ Monitor!Defer
  BY <1>9 DEF Monitor!NotReady, Monitor!Reload, Monitor!Advance, Monitor!Defer, Monitor!Wait
<1>10. CASE Monitor!Fail \/ Monitor!GiveUp
  BY <1>10 DEF Monitor!Fail, Monitor!GiveUp
<1>11. CASE Monitor!Republish
  BY <1>11 DEF Monitor!Republish, Monitor!request, Monitor!fields
<1>12. CASE Monitor!OtherSends
  BY <1>12 DEF Monitor!OtherSends, Monitor!request, Monitor!fields
<1>13. CASE UNCHANGED Monitor!vars
  BY <1>13 DEF Monitor!vars, Monitor!request, Monitor!fields
<1> QED
  BY <1>1, <1>2, <1>3, <1>4, <1>5, <1>6, <1>7, <1>8, <1>9, <1>10, <1>11, <1>12, <1>13
  DEF Monitor!Next

\* The mint is signed with the nonce that is next for the wallet, whatever a refresh
\* has read before and other local processes have sent.
THEOREM NextNonceIsSigned == Monitor!Spec => []SignsNextNonce
<1>1. NonceInv => SignsNextNonce
  BY DEF NonceInv
<1> QED
  BY <1>1, InitNonce, NextNonce, PTL DEF Monitor!Spec

-----------------------------------------------------------------------------
(* The stages of a drop: with schedules that are Monitor!Orderly none is slept *)
(* through.                                                                    *)

\* Where the monitor is, and what it knows about it.
PlaceInv ==
  /\ now \in 0..MaxTime
  /\ published \in Schedules
  /\ news => watch \in Schedules
  /\ auto =>
       /\ stages \in Monitor!Held(Schedules, now)
       /\ index \in DOMAIN stages
       /\ due \in Nat
       /\ due = stages[index].start \/ stages[index].start <= now
       /\ Monitor!NoneMissed(stages, index, now)
       /\ step \in {"lock", "prepare", "rejected"} => due <= now

\* A refusal belongs to a stage that is open, give or take the clock.
RefusalInv ==
  step = "rejected" /\ answer = "refused" =>
    \E list \in Schedules : \E t \in (now - Lag)..(now + Lag) : Monitor!Refuses(list, t)

Timely ==
  auto => \A i \in DOMAIN stages : Monitor!MayMint(stages[i], now) =>
            due <= stages[i].start \/ due <= now + SearchDelay

StageInv == PlaceInv /\ RefusalInv /\ Timely

LEMMA HeldGrows ==
  ASSUME NEW time \in Nat, NEW later \in Nat, time <= later
  PROVE  Monitor!Held(Schedules, time) \subseteq Monitor!Held(Schedules, later)
  <1>1. 0..time \subseteq 0..later
    OBVIOUS
  <1>2. QED
    BY <1>1 DEF Monitor!Held

LEMMA HeldIsSorted ==
  ASSUME Monitor!Orderly(Schedules), NEW time \in 0..MaxTime,
         NEW list \in Monitor!Held(Schedules, time)
  PROVE  Monitor!Sorted(list)
  <1>1. list \in Monitor!Held(Schedules, MaxTime)
    BY DelaysAssumption, HeldGrows
  <1>2. QED
    BY <1>1 DEF Monitor!Orderly

LEMMA SortedList ==
  ASSUME NEW list, Monitor!Sorted(list)
  PROVE  /\ DOMAIN list = 1..Len(list) /\ Len(list) \in Nat
         /\ \A i \in DOMAIN list : list[i].start \in Nat /\ list[i].end \in Nat
         /\ \A i, j \in DOMAIN list : i <= j => list[i].start <= list[j].start
  <1>1. list \in Seq(Monitor!Stages)
    BY DEF Monitor!Sorted
  <1>2. \A i \in DOMAIN list : list[i] \in Monitor!Stages
    BY <1>1
  <1>3. QED
    BY <1>1, <1>2 DEF Monitor!Sorted, Monitor!Stages

\* What cannot be missed any more cannot be missed later.
LEMMA NoneMissedLater ==
  ASSUME NEW list, Monitor!Sorted(list), NEW i \in DOMAIN list,
         NEW time \in Nat, NEW later \in Nat, time <= later,
         Monitor!NoneMissed(list, i, time)
  PROVE  Monitor!NoneMissed(list, i, later)
  <1> SUFFICES ASSUME NEW k \in 1..(i - 1), Monitor!MayMint(list[k], later)
               PROVE  list[i].start <= later
    BY DEF Monitor!NoneMissed
  <1>1. /\ k \in DOMAIN list
        /\ list[k].end \in Nat /\ list[i].start \in Nat
    BY SortedList
  <1>2. Monitor!MayMint(list[k], time)
    BY <1>1 DEF Monitor!MayMint
  <1>3. QED
    BY <1>1, <1>2 DEF Monitor!NoneMissed

\* A request that is due when the selected stage starts misses none.
LEMMA StartMissesNone ==
  ASSUME NEW list, Monitor!Sorted(list), NEW i \in DOMAIN list, NEW time \in Nat,
         Monitor!NoneMissed(list, i, time),
         NEW k \in DOMAIN list, Monitor!MayMint(list[k], time)
  PROVE  list[i].start <= list[k].start \/ list[i].start <= time + SearchDelay
  <1>1. DOMAIN list = 1..Len(list) /\ Len(list) \in Nat /\ list[i].start \in Nat
    BY SortedList
  <1>2. CASE i <= k
    BY <1>2, SortedList
  <1>3. CASE k < i
    <2>1. list[i].start <= time
      BY <1>1, <1>3 DEF Monitor!NoneMissed
    <2>2. QED
      BY <1>1, <2>1, DelaysAssumption
  <1>4. QED
    BY <1>1, <1>2, <1>3

\* A new schedule misses none.
LEMMA SelectMissesNone ==
  ASSUME Monitor!Orderly(Schedules), NEW time \in 0..MaxTime,
         stages \in Monitor!Held(Schedules, time), index \in DOMAIN stages,
         Monitor!NoneMissed(stages, index, time),
         NEW list \in Schedules, Monitor!Unexpired(list, time) # <<>>,
         Monitor!Select(Monitor!Unexpired(list, time))
  PROVE  /\ stages' \in Monitor!Held(Schedules, time)
         /\ index' \in DOMAIN stages'
         /\ due' = stages'[index'].start
         /\ due' \in Nat
         /\ Monitor!NoneMissed(stages', index', time)
         /\ \A k \in DOMAIN stages' : Monitor!MayMint(stages'[k], time) =>
              due' <= stages'[k].start \/ due' <= time + SearchDelay
  <1> DEFINE updated == Monitor!Unexpired(list, time)
             j == Monitor!RefreshedIndex(stages, index, updated)
  <1>1. stages' = updated /\ index' = j /\ due' = updated[j].start
    BY DEF Monitor!Select
  <1>2. j \in DOMAIN updated /\ Monitor!NoneMissed(updated, j, time)
    BY DEF Monitor!Orderly, Monitor!ChangesKeepPlace
  <1>3. time \in Nat /\ updated \in Monitor!Held(Schedules, time)
    BY DelaysAssumption DEF Monitor!Held
  <1>4. Monitor!Sorted(updated)
    BY <1>3, HeldIsSorted
  <1> HIDE DEF updated, j
  <1>5. updated[j].start \in Nat
    BY <1>2, <1>4, SortedList
  <1>6. \A k \in DOMAIN updated : Monitor!MayMint(updated[k], time) =>
          updated[j].start <= updated[k].start \/ updated[j].start <= time + SearchDelay
    BY <1>2, <1>3, <1>4, StartMissesNone
  <1>7. QED
    BY <1>1, <1>2, <1>3, <1>5, <1>6

LEMMA StageInit ==
  ASSUME Monitor!Orderly(Schedules), Monitor!Init
  PROVE  StageInv
  <1>1. /\ now = 0 /\ published \in Schedules /\ news = FALSE /\ index = 1
        /\ step = "wait" /\ due = stages[1].start /\ stages # <<>>
        /\ auto => stages = Monitor!Unexpired(published, 0)
    BY DEF Monitor!Init
  <1>2. 0 \in 0..MaxTime
    BY DelaysAssumption
  <1>3. ASSUME auto
        PROVE  /\ stages \in Monitor!Held(Schedules, 0)
               /\ Monitor!Sorted(stages) /\ 1 \in DOMAIN stages
               /\ stages[1].start \in Nat
               /\ Monitor!NoneMissed(stages, 1, 0)
    <2>1. stages \in Monitor!Held(Schedules, 0)
      BY <1>1, <1>3 DEF Monitor!Held
    <2>2. Monitor!Sorted(stages)
      BY <1>2, <2>1, HeldIsSorted
    <2>3. 1 \in DOMAIN stages /\ stages[1].start \in Nat
      BY <1>1, <2>2, SortedList
    <2>4. QED
      BY <2>1, <2>2, <2>3 DEF Monitor!NoneMissed
  <1>4. Timely
    BY <1>1, <1>2, <1>3, StartMissesNone DEF Timely
  <1>5. QED
    BY <1>1, <1>2, <1>3, <1>4 DEF StageInv, PlaceInv, RefusalInv

\* A step that leaves the selection, the schedules and the clock alone.
LEMMA SameSelection ==
  ASSUME StageInv, UNCHANGED <<now, auto, stages, index, due>>,
         published' \in Schedules, news' => watch' \in Schedules,
         step' \in {"lock", "prepare", "rejected"} => step \in {"lock", "prepare", "rejected"}
  PROVE  PlaceInv' /\ Timely'
  BY DEF StageInv, PlaceInv, Timely

\* A block, with the newest schedule if there is news.
LEMMA HeaderMissesNone ==
  ASSUME Monitor!Orderly(Schedules), StageInv, Monitor!Header
  PROVE  StageInv'
  <1>1. /\ now \in 0..MaxTime /\ now' = now + 1 /\ now < MaxTime /\ ~news'
        /\ published' = published /\ published \in Schedules /\ auto' = auto
        /\ step' = IF now' >= due' THEN "lock" ELSE "wait"
    BY DEF Monitor!Header, StageInv, PlaceInv, Monitor!opensea, Monitor!mode
  <1>2. now \in Nat /\ now' \in 0..MaxTime /\ now' \in Nat
    BY <1>1, DelaysAssumption
  <1>3. RefusalInv'
    BY <1>1 DEF RefusalInv
  <1>4. ASSUME auto
        PROVE  /\ stages' \in Monitor!Held(Schedules, now')
               /\ index' \in DOMAIN stages'
               /\ due' \in Nat
               /\ due' = stages'[index'].start \/ stages'[index'].start <= now'
               /\ Monitor!NoneMissed(stages', index', now')
               /\ \A k \in DOMAIN stages' : Monitor!MayMint(stages'[k], now') =>
                    due' <= stages'[k].start \/ due' <= now' + SearchDelay
    <2>1. /\ stages \in Monitor!Held(Schedules, now) /\ index \in DOMAIN stages /\ due \in Nat
          /\ due = stages[index].start \/ stages[index].start <= now
          /\ Monitor!NoneMissed(stages, index, now)
      BY <1>4 DEF StageInv, PlaceInv
    <2>2. Monitor!Sorted(stages)
      BY <1>1, <2>1, HeldIsSorted
    <2>3. stages \in Monitor!Held(Schedules, now')
      BY <1>1, <1>2, <2>1, HeldGrows
    <2>4. Monitor!NoneMissed(stages, index, now')
      BY <1>1, <1>2, <2>1, <2>2, NoneMissedLater
    <2>5. CASE news /\ Monitor!Unexpired(watch, now') # <<>>
      <3>1. Monitor!Select(Monitor!Unexpired(watch, now')) /\ watch \in Schedules
        BY <2>5 DEF Monitor!Header, StageInv, PlaceInv
      <3>2. QED
        BY <1>2, <2>1, <2>3, <2>4, <2>5, <3>1, SelectMissesNone
    <2>6. CASE ~news \/ Monitor!Unexpired(watch, now') = <<>>
      <3>1. UNCHANGED <<stages, index, due>>
        BY <2>6 DEF Monitor!Header, Monitor!selection
      <3>2. stages[index].start \in Nat
        BY <2>1, <2>2, SortedList
      <3>3. ASSUME NEW k \in DOMAIN stages, Monitor!MayMint(stages[k], now')
            PROVE  due <= stages[k].start \/ due <= now' + SearchDelay
        <4>1. stages[k].end \in Nat
          BY <2>2, SortedList
        <4>2. Monitor!MayMint(stages[k], now)
          BY <1>1, <1>2, <3>3, <4>1 DEF Monitor!MayMint
        <4>3. due <= stages[k].start \/ due <= now + SearchDelay
          BY <1>4, <4>2 DEF StageInv, Timely
        <4>4. QED
          BY <1>1, <1>2, <2>1, <4>3, DelaysAssumption
      <3>4. QED
        BY <1>1, <1>2, <2>1, <2>3, <2>4, <3>1, <3>2, <3>3
    <2>7. QED
      BY <2>5, <2>6
  <1>5. PlaceInv'
    BY <1>1, <1>2, <1>4 DEF PlaceInv
  <1>6. Timely'
    BY <1>1, <1>4 DEF Timely
  <1>7. QED
    BY <1>3, <1>5, <1>6 DEF StageInv

\* The schedule is loaded again after a rejection.
LEMMA ReloadMissesNone ==
  ASSUME Monitor!Orderly(Schedules), StageInv, Monitor!Reload
  PROVE  StageInv'
  <1>1. /\ Monitor!Unexpired(published, now) # <<>>
        /\ Monitor!Select(Monitor!Unexpired(published, now))
        /\ auto /\ step' = "wait"
        /\ UNCHANGED <<now, auto, published, watch, news>>
    BY DEF Monitor!Reload, Monitor!Wait, Monitor!opensea, Monitor!mode, Monitor!channel
  <1>2. /\ now \in 0..MaxTime /\ published \in Schedules
        /\ stages \in Monitor!Held(Schedules, now) /\ index \in DOMAIN stages
        /\ Monitor!NoneMissed(stages, index, now)
    BY <1>1 DEF StageInv, PlaceInv
  <1>3. /\ stages' \in Monitor!Held(Schedules, now)
        /\ index' \in DOMAIN stages'
        /\ due' = stages'[index'].start
        /\ due' \in Nat
        /\ Monitor!NoneMissed(stages', index', now)
        /\ \A k \in DOMAIN stages' : Monitor!MayMint(stages'[k], now) =>
             due' <= stages'[k].start \/ due' <= now + SearchDelay
    BY <1>1, <1>2, SelectMissesNone
  <1>4. PlaceInv'
    BY <1>1, <1>2, <1>3 DEF StageInv, PlaceInv
  <1>5. Timely' /\ RefusalInv'
    BY <1>1, <1>3 DEF Timely, RefusalInv
  <1>6. QED
    BY <1>4, <1>5 DEF StageInv

\* A refusal shows that no stage so far is one in which the wallet may still mint, and
\* an ambiguous rejection advances to what has started.
LEMMA AdvanceMissesNone ==
  ASSUME Monitor!Orderly(Schedules), StageInv, Monitor!Advance
  PROVE  StageInv'
  <1>1. /\ step = "rejected" /\ step' = "wait" /\ index' = index + 1
        /\ due' = stages[index + 1].start
        /\ UNCHANGED <<now, auto, published, watch, news, stages>>
        /\ index < Len(stages)
        /\ answer = "refused" \/ stages[index + 1].start <= now
    BY DEF Monitor!Advance, Monitor!Wait, Monitor!opensea, Monitor!mode, Monitor!channel,
       Monitor!HasNext, Monitor!NextHasStarted
  <1> DEFINE j == index + 1
  <1>2. RefusalInv'
    BY <1>1 DEF RefusalInv
  <1>3. ASSUME auto
        PROVE  /\ j \in DOMAIN stages /\ stages[j].start \in Nat
               /\ Monitor!NoneMissed(stages, j, now)
               /\ \A k \in DOMAIN stages : Monitor!MayMint(stages[k], now) =>
                    stages[j].start <= stages[k].start \/ stages[j].start <= now + SearchDelay
    <2>1. /\ now \in 0..MaxTime /\ now \in Nat
          /\ stages \in Monitor!Held(Schedules, now) /\ index \in DOMAIN stages /\ due \in Nat
          /\ due = stages[index].start \/ stages[index].start <= now
          /\ due <= now
      BY <1>1, <1>3, DelaysAssumption DEF StageInv, PlaceInv
    <2>2. Monitor!Sorted(stages)
      BY <2>1, HeldIsSorted
    <2>3. /\ j \in DOMAIN stages /\ stages[j].start \in Nat
          /\ DOMAIN stages = 1..Len(stages) /\ Len(stages) \in Nat
      BY <1>1, <2>1, <2>2, SortedList
    <2>4. stages[index].start <= now
      BY <2>1
    <2>5. ASSUME NEW k \in 1..(j - 1), Monitor!MayMint(stages[k], now)
          PROVE  stages[j].start <= now
      <3>1. k \in DOMAIN stages /\ k <= index
        BY <2>1, <2>3
      <3>2. stages[k].start <= now
        <4>1. stages[k].start \in Nat /\ stages[index].start \in Nat
          BY <2>1, <2>2, <3>1, SortedList
        <4>2. stages[k].start <= stages[index].start
          BY <2>1, <2>2, <3>1, SortedList
        <4>3. QED
          BY <2>1, <2>4, <4>1, <4>2
      <3>3. answer # "refused"
        <4>1. SUFFICES ASSUME answer = "refused" PROVE FALSE
          OBVIOUS
        <4>2. PICK list \in Schedules, t \in (now - Lag)..(now + Lag) :
                Monitor!Refuses(list, t)
          BY <1>1, <4>1 DEF StageInv, RefusalInv
        <4>3. QED
          BY <2>1, <2>5, <3>1, <3>2, <4>2 DEF Monitor!Orderly, Monitor!RefusalsAreApart
      <3>4. QED
        BY <1>1, <3>3
    <2>6. Monitor!NoneMissed(stages, j, now)
      BY <2>5 DEF Monitor!NoneMissed
    <2>7. QED
      BY <2>1, <2>2, <2>3, <2>6, StartMissesNone
  <1>4. PlaceInv'
    BY <1>1, <1>3 DEF StageInv, PlaceInv
  <1>5. Timely'
    BY <1>1, <1>3 DEF Timely
  <1>6. QED
    BY <1>2, <1>4, <1>5 DEF StageInv

\* A request is deferred only from a stage that has started, and by no more than the
\* delay of a search.
LEMMA DeferMissesNone ==
  ASSUME Monitor!Orderly(Schedules), StageInv, Monitor!Defer
  PROVE  StageInv'
  <1>1. /\ step = "rejected" /\ step' = "wait" /\ auto
        /\ UNCHANGED <<now, auto, published, watch, news, stages, index>>
        /\ due' \in {now + SearchDelay, now + RetryDelay, 0}
    BY DEF Monitor!Defer, Monitor!Wait, Monitor!opensea, Monitor!mode, Monitor!channel,
       Monitor!RetryAt
  <1>2. /\ now \in Nat /\ due <= now
        /\ due = stages[index].start \/ stages[index].start <= now
    BY <1>1, DelaysAssumption DEF StageInv, PlaceInv
  <1>3. stages[index].start <= now
    BY <1>2
  <1>4. due' \in Nat /\ due' <= now + SearchDelay
    BY <1>1, <1>2, DelaysAssumption
  <1>5. PlaceInv'
    BY <1>1, <1>3, <1>4 DEF StageInv, PlaceInv
  <1>6. Timely' /\ RefusalInv'
    BY <1>1, <1>4 DEF Timely, RefusalInv
  <1>7. QED
    BY <1>5, <1>6 DEF StageInv

LEMMA StageStep ==
  ASSUME Monitor!Orderly(Schedules), StageInv, [Monitor!Next]_(Monitor!vars)
  PROVE  StageInv'
  <1> USE DEF Monitor!opensea, Monitor!mode, Monitor!channel, Monitor!selection,
              Monitor!request
  <1>0. published \in Schedules /\ (news => watch \in Schedules)
    BY DEF StageInv, PlaceInv
  <1>1. CASE Monitor!Header
    BY <1>1, HeaderMissesNone
  <1>2. CASE Monitor!Reload
    BY <1>2, ReloadMissesNone
  <1>3. CASE Monitor!Advance
    BY <1>3, AdvanceMissesNone
  <1>4. CASE Monitor!Defer
    BY <1>4, DeferMissesNone
  <1>5. CASE Monitor!Build
    <2>1. /\ UNCHANGED <<now, auto, stages, index, due, published, watch, news>>
          /\ step = "prepare" /\ step' \in {"prepare", "rejected"}
      BY <1>5 DEF Monitor!Build
    <2>2. PlaceInv' /\ Timely'
      BY <1>0, <2>1, SameSelection
    <2>3. RefusalInv'
      BY <1>0, <1>5, <2>1 DEF Monitor!Build, Monitor!Answers, RefusalInv
    <2>4. QED
      BY <2>2, <2>3 DEF StageInv
  <1>6. CASE Monitor!PollSchedule \/ Monitor!Republish
    <2>1. /\ UNCHANGED <<now, auto, stages, index, due, step, answer>>
          /\ published' \in Schedules /\ (news' => watch' \in Schedules)
      BY <1>0, <1>6 DEF Monitor!PollSchedule, Monitor!Republish
    <2>2. QED
      BY <2>1, SameSelection DEF StageInv, RefusalInv
  <1>7. CASE Monitor!Acquire \/ Monitor!Ready \/ Monitor!NotReady \/ Monitor!Fail
             \/ Monitor!GiveUp
    <2>1. /\ UNCHANGED <<now, auto, stages, index, due, published, watch, news>>
          /\ step' \in {"prepare", "sign", "wait", "failed"}
          /\ step' = "prepare" => step = "lock"
      BY <1>7 DEF Monitor!Acquire, Monitor!Ready, Monitor!NotReady, Monitor!Fail,
                  Monitor!GiveUp, Monitor!Wait
    <2>2. QED
      BY <1>0, <2>1, SameSelection DEF StageInv, RefusalInv
  <1>8. CASE Monitor!FinishRefresh \/ Monitor!ReadNonce \/ Monitor!CheckFields
             \/ Monitor!OtherSends \/ UNCHANGED Monitor!vars
    <2>1. UNCHANGED <<now, auto, stages, index, due, published, watch, news, step, answer>>
      BY <1>8 DEF Monitor!FinishRefresh, Monitor!ReadNonce, Monitor!CheckFields,
                  Monitor!OtherSends, Monitor!vars
    <2>2. QED
      BY <1>0, <2>1, SameSelection DEF StageInv, RefusalInv
  <1>9. QED
    BY <1>1, <1>2, <1>3, <1>4, <1>5, <1>6, <1>7, <1>8 DEF Monitor!Next

\* With schedules that are orderly, whose refusals lie apart from the stages for the
\* wallet by the clock's error and whose changes put nothing ahead of the selected
\* stage that can still be missed, the automatic monitor sleeps through no stage.
THEOREM NoStageIsSlept ==
  ASSUME Monitor!Orderly(Schedules)
  PROVE  Monitor!Spec => []NoStageSlept
  <1>1. Monitor!Init => StageInv
    BY StageInit
  <1>2. StageInv /\ [Monitor!Next]_(Monitor!vars) => StageInv'
    BY StageStep
  <1>3. StageInv => NoStageSlept
    BY DEF StageInv, Timely, NoStageSlept, Monitor!NoStageSlept, Monitor!Listed, Monitor!Range
  <1>4. QED
    BY <1>1, <1>2, <1>3, PTL DEF Monitor!Spec

-----------------------------------------------------------------------------
(* The composition. *)

\* A bot of the run that the model checker explores waits as StageSchedule does and
\* mints as Mint does, so that all of this holds of it.
THEOREM BotsWaitAndMint == SpecMC => Monitor!Spec /\ Spec
<1>1. InitMC => Monitor!Init /\ Init
  BY DEF InitMC
<1>2. [NextMC]_<<phase, vars, waiting>> => [Monitor!Next]_(Monitor!vars) /\ [Next]_vars
  <2>1. waiting' = waiting => Monitor!vars' = Monitor!vars
    BY DEF waiting, Monitor!vars, Monitor!opensea, Monitor!mode, Monitor!channel,
       Monitor!selection, Monitor!fields, Monitor!request
  <2> QED
    BY <2>1 DEF NextMC
<1> QED
  BY <1>1, <1>2, PTL DEF SpecMC, Monitor!Spec, Spec
=============================================================================
