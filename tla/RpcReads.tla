------------------------------ MODULE RpcReads ------------------------------
(***************************************************************************)
(* The reads of RpcClients (src/src/rpc.rs).  A read asks every healthy    *)
(* provider at once.  `read_all` waits until each has answered, failed or  *)
(* run into the request timeout; `read_critical` waits for the first good  *)
(* answer and then keeps only a short settle window open.  What the        *)
(* answers come to depends on the read: the largest, the smallest, the     *)
(* union, or the one all agree on.  Providers lag behind each other and    *)
(* follow a reorganisation at different times, so they may answer from     *)
(* different chains.                                                       *)
(***************************************************************************)
EXTENDS Integers, FiniteSets, FiniteSetsExt

CONSTANTS
  Providers,   \* the providers that passed the startup health check
  Timeout,     \* request_timeout, in ticks
  Window,      \* CRITICAL_READ_SETTLE_WINDOW
  GasWindow,   \* GAS_ESTIMATE_SETTLE_WINDOW
  Kinds,       \* the reads that are made
  MaxHeight,   \* bound on the blocks of the chain
  MaxFork      \* bound on its reorganisations

VARIABLES
  best,     \* the chain of the network: its fork and height
  view,     \* per provider: the chain that it follows
  start,    \* what the views were when the read began
  kind,     \* the read that is running or, if idle, the last one
  about,    \* the fork whose block or code it expects, or Nothing
  reply,    \* per provider: the chain it answered from
  waited,   \* time since the read began
  first,    \* time of its first good answer
  result    \* what the read returned

vars == <<best, view, start, kind, about, reply, waited, first, result>>
chain == <<best, view>>

Nothing == -1
Failed == [fork |-> Nothing, height |-> 0]
Awaited == [fork |-> Nothing, height |-> 1]

Forks == 0 .. MaxFork
Chains == [fork : Forks, height : 0 .. MaxHeight]

WholeReads == {"receipt", "logs", "code", "ink"}
Largest == {"nonce", "gas"}
Pinned == {"call_at", "code", "ink"}
AllKinds == WholeReads \cup Largest \cup {"balance", "timestamp", "call", "call_at"}

Reading == [outcome |-> "reading", value |-> Nothing]
Error == [outcome |-> "error", value |-> Nothing]
Value(value) == [outcome |-> "value", value |-> value]

-----------------------------------------------------------------------------
(* What a chain has to say.  The first block of a fork includes the        *)
(* transaction, deploys the contract and opens the sale; each block has    *)
(* one transaction of the wallet, which pays for it, and one log.          *)

HasBlock(c) == c.height > 0

Logs(c) == {<<c.fork, height>> : height \in 1 .. c.height}

\* A provider cannot answer about a block that it does not know.
Knows(c) == kind = "call_at" => HasBlock(c) /\ c.fork = about

Answer(c) ==
  CASE kind \in Largest -> c.height
    [] kind = "balance" -> MaxHeight - c.height
    [] kind = "timestamp" -> IF HasBlock(c) THEN c.height ELSE Nothing
    [] kind = "call" -> IF HasBlock(c) THEN 1 ELSE 0
    [] kind = "logs" -> Logs(c)
    [] OTHER -> IF HasBlock(c) THEN c.fork ELSE Nothing

-----------------------------------------------------------------------------
(* What the answers come to. *)

Replied == {p \in Providers : reply[p] \notin {Failed, Awaited}}
Pending == {p \in Providers : reply[p] = Awaited}
Answers == {Answer(reply[p]) : p \in Replied}

\* call_at: no two answers may differ.
Agreed(answers) ==
  IF Cardinality(answers) = 1 THEN Value(CHOOSE a \in answers : TRUE) ELSE Error

\* Mutant: a provider that does not have the receipt speaks for all.
ReceiptOrNone(answers) ==
  IF Nothing \in answers THEN Value(Nothing) ELSE Agreed(answers)

\* transaction_receipt: providers without the receipt are passed over.
Receipt(answers) ==
  IF answers = {Nothing} THEN Value(Nothing) ELSE Agreed(answers \ {Nothing})

\* latest_timestamp: providers without a block are passed over.
Timestamp(answers) ==
  IF answers = {Nothing} THEN Error ELSE Value(Min(answers \ {Nothing}))

\* Mutant: providers that have no code yet are passed over.
CodeOfSome(answers) ==
  IF about \in answers \cup {Nothing} THEN Agreed(answers \ {Nothing}) ELSE Error

\* validate_contract_address: every provider has the same code, the pinned one
\* if there is one.
Code(answers) ==
  IF Nothing \notin answers /\ about \in answers \cup {Nothing}
  THEN Agreed(answers) ELSE Error

\* ink_receipt_extra_fee: every provider has the receipt of the block.
BlockReceipt(answers) == IF answers = {about} THEN Value(about) ELSE Error

\* Mutant: the nonce is the smallest that is reported.
AggregateLeast(answers) ==
  CASE kind \in Largest \cup {"balance"} -> Value(Min(answers))
    [] kind = "timestamp" -> Timestamp(answers)
    [] kind = "receipt" -> Receipt(answers)
    [] kind = "logs" -> Value(UNION answers)
    [] kind = "code" -> Code(answers)
    [] kind = "ink" -> BlockReceipt(answers)
    [] OTHER -> Agreed(answers)

Aggregate(answers) ==
  CASE kind \in Largest -> Value(Max(answers))
    [] kind = "balance" -> Value(Min(answers))
    [] kind = "timestamp" -> Timestamp(answers)
    [] kind = "receipt" -> Receipt(answers)
    [] kind = "logs" -> Value(UNION answers)
    [] kind = "code" -> Code(answers)
    [] kind = "ink" -> BlockReceipt(answers)
    [] OTHER -> Agreed(answers)

-----------------------------------------------------------------------------
(* The read. *)

Init ==
  /\ best \in [fork : {0}, height : 0 .. MaxHeight]
  /\ view \in [Providers -> {c \in Chains : c.fork = 0 /\ c.height <= best.height}]
  /\ start = view
  /\ kind = "nonce"
  /\ about = Nothing
  /\ reply = [p \in Providers |-> Failed]
  /\ waited = 0
  /\ first = Nothing
  /\ result = Error

Running == result = Reading

Read(operation) ==
  /\ ~Running
  /\ kind' = operation
  /\ about' \in (IF operation \in Pinned THEN 0 .. best.fork ELSE {})
                 \cup (IF operation \in {"ink", "call_at"} THEN {} ELSE {Nothing})
  /\ start' = view
  /\ reply' = [p \in Providers |-> Awaited]
  /\ waited' = 0
  /\ first' = Nothing
  /\ result' = Reading
  /\ UNCHANGED chain

SettleWindow ==
  IF kind \in WholeReads THEN Timeout
  ELSE IF kind = "gas" THEN GasWindow ELSE Window

Settled == first # Nothing /\ waited >= first + SettleWindow

Respond(p) ==
  /\ Running
  /\ reply[p] = Awaited
  /\ Knows(view[p])
  /\ reply' = [reply EXCEPT ![p] = view[p]]
  /\ first' = IF first = Nothing THEN waited ELSE first
  /\ UNCHANGED <<chain, start, kind, about, waited, result>>

\* An error response, or a broken connection.
Refuse(p) ==
  /\ Running
  /\ reply[p] = Awaited
  /\ reply' = [reply EXCEPT ![p] = Failed]
  /\ UNCHANGED <<chain, start, kind, about, waited, first, result>>

TimeOut(p) ==
  /\ Running
  /\ reply[p] = Awaited
  /\ waited = Timeout
  /\ reply' = [reply EXCEPT ![p] = Failed]
  /\ UNCHANGED <<chain, start, kind, about, waited, first, result>>

\* Timers fire when they are due: time passes only while none is.
Tick ==
  /\ Running
  /\ waited < Timeout
  /\ Pending # {} /\ ~Settled
  /\ waited' = waited + 1
  /\ UNCHANGED <<chain, start, kind, about, reply, first, result>>

Return ==
  /\ Running
  /\ Pending = {} \/ Settled
  /\ result' = IF Replied = {} THEN Error ELSE Aggregate(Answers)
  /\ waited' = 0
  /\ first' = Nothing
  /\ UNCHANGED <<chain, start, kind, about, reply>>

-----------------------------------------------------------------------------
(* The network and the providers. *)

NewBlock ==
  /\ best.height < MaxHeight
  /\ best' = [best EXCEPT !.height = @ + 1]
  /\ UNCHANGED <<view, start, kind, about, reply, waited, first, result>>

\* The blocks that the model looks at are replaced.
Reorganise ==
  /\ best.fork < MaxFork
  /\ best' = [best EXCEPT !.fork = @ + 1]
  /\ UNCHANGED <<view, start, kind, about, reply, waited, first, result>>

Follow(p) ==
  /\ \E c \in Chains :
       /\ c.fork = best.fork /\ c.height <= best.height
       /\ view[p].fork = c.fork => view[p].height < c.height
       /\ view' = [view EXCEPT ![p] = c]
  /\ UNCHANGED <<best, start, kind, about, reply, waited, first, result>>

Next ==
  \/ \E operation \in Kinds : Read(operation)
  \/ \E p \in Providers : Respond(p) \/ Refuse(p) \/ TimeOut(p) \/ Follow(p)
  \/ Tick
  \/ Return
  \/ NewBlock
  \/ Reorganise

Spec == Init /\ [][Next]_vars

-----------------------------------------------------------------------------
(* Properties. *)

Values ==
  CASE kind = "logs" -> SUBSET (Forks \X (1 .. MaxHeight))
    [] OTHER -> 0 .. MaxHeight \cup Forks \cup {0, 1, Nothing}

TypeOK ==
  /\ best \in Chains
  /\ view \in [Providers -> Chains]
  /\ start \in [Providers -> Chains]
  /\ kind \in AllKinds
  /\ about \in Forks \cup {Nothing}
  /\ reply \in [Providers -> Chains \cup {Failed, Awaited}]
  /\ waited \in 0 .. Timeout
  /\ first \in 0 .. Timeout \cup {Nothing}
  /\ \/ result \in {Reading, Error}
     \/ result.outcome = "value" /\ result.value \in Values

Returned(operation) == kind = operation /\ result.outcome = "value"

\* The provider replied from a chain of which it had this many blocks when the
\* read began.
KnewAll(p, height) ==
  /\ p \in Replied
  /\ start[p].fork = reply[p].fork
  /\ start[p].height >= height

\* A provider that lags behind, or has not heard of the transaction, never
\* hides a receipt that another had when the read began, and a receipt is
\* reported only if no provider answered with one of another block.
ReceiptIsAgreed ==
  Returned("receipt") =>
    IF result.value = Nothing
    THEN \A p \in Providers : ~KnewAll(p, 1)
    ELSE \A p \in Replied : HasBlock(reply[p]) => reply[p].fork = result.value

\* A wallet transaction that any provider in the answer knew of is counted in the
\* nonce and paid for in the balance, and its log is in the backfill; no nonce
\* claims a transaction that no provider has.
ReadsAreOnTheSafeSide ==
  \A p \in Providers : \A h \in 1 .. MaxHeight : KnewAll(p, h) =>
    /\ Returned("nonce") =>
         result.value >= h /\ \E q \in Replied : result.value = reply[q].height
    /\ Returned("balance") => result.value <= MaxHeight - h
    /\ Returned("logs") => <<start[p].fork, h>> \in result.value

\* What something is paid or signed on is what every provider in the answer says:
\* the code, the pinned one if there is one, the receipt of a block, whether the sale is open, and what
\* a call finds in a block, which is refused only if no provider knows the block.
AnswersAreUnanimous ==
  /\ kind \in Pinned /\ result.outcome = "value" =>
       /\ about \in {result.value, Nothing}
       /\ \A p \in Replied : HasBlock(reply[p]) /\ reply[p].fork = result.value
  /\ kind = "call_at" /\ result = Error => Replied = {}
  /\ Returned("call") => \A p \in Replied : HasBlock(reply[p]) <=> result.value = 1
=============================================================================
