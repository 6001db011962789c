---------------------------- MODULE MintOutcome ----------------------------
(***************************************************************************)
(* What the runs of the bot promise the owner of the wallet, with no lock, *)
(* candidate, receipt or fork in sight: one mint is under way at a time;   *)
(* it is a bounded number of attempts with one nonce, each at a higher     *)
(* fee; a run begins another only when nothing of the last can take        *)
(* effect any more; and what it reports is what has become final.          *)
(* Mint.tla implements it.                                                 *)
(***************************************************************************)
EXTENDS Integers

CONSTANTS
  Runs,      \* runs of the bot with the wallet
  None,      \* no transaction
  Attempts   \* transactions that one mint may take

VARIABLES
  mint,   \* per run: its state, its last attempt, what it is sending, attempts left
  out,    \* transactions that can still take effect
  final   \* what has become of transactions for good

outcome == <<mint, out, final>>

Tx == [run : Runs, nonce : Nat, fee : Nat]

At(state) == [state |-> state, attempt |-> None, sending |-> None, left |-> 0]

Trying(attempt, sending, left) ==
  [state |-> "ongoing", attempt |-> attempt, sending |-> sending, left |-> left]

Init ==
  /\ mint = [r \in Runs |-> At("idle")]
  /\ out = {}
  /\ final = {}

Ongoing(r) == mint[r].state = "ongoing"

\* No transaction of the run has minted, and none can.
NothingMinted(r) ==
  /\ \A tx \in out : tx.run # r
  /\ \A end \in final : end.tx.run = r => ~end.minted

Begin(r) ==
  /\ mint[r].state = "idle"
  /\ \A other \in Runs : ~Ongoing(other)
  /\ NothingMinted(r)
  /\ LET tx == mint'[r].sending
     IN  /\ tx \in Tx
         /\ tx.run = r
         /\ mint' = [mint EXCEPT ![r] = Trying(tx, tx, Attempts - 1)]
  /\ UNCHANGED <<out, final>>

\* The attempt that is being sent gets somewhere, unless it is too late for it.
Arrive(r) ==
  /\ Ongoing(r)
  /\ mint[r].sending # None
  /\ \A end \in final : end.tx.nonce < mint[r].sending.nonce
  /\ out' = out \cup {mint[r].sending}
  /\ UNCHANGED <<mint, final>>

\* What is known of the sending may use up the attempts, and brings none back.
Sent(r) ==
  /\ Ongoing(r)
  /\ mint[r].sending # None
  /\ mint'[r].attempt \in {mint[r].attempt, mint[r].sending}
  /\ mint'[r].left \in 0..mint[r].left
  /\ mint' = [mint EXCEPT ![r] = Trying(mint'[r].attempt, None, mint'[r].left)]
  /\ UNCHANGED <<out, final>>

GiveUp(r) ==
  /\ Ongoing(r)
  /\ mint' = [mint EXCEPT ![r] = Trying(mint[r].attempt, mint[r].sending, 0)]
  /\ UNCHANGED <<out, final>>

\* Another attempt with the same nonce.
Raise(r) ==
  /\ Ongoing(r)
  /\ mint[r].sending = None
  /\ mint[r].left > 0
  /\ LET tx == mint'[r].sending
     IN  /\ tx \in Tx
         /\ tx.run = r
         /\ tx.nonce = mint[r].attempt.nonce
         /\ tx.fee > mint[r].attempt.fee
         /\ mint' = [mint EXCEPT ![r] = Trying(mint[r].attempt, tx, mint[r].left - 1)]
  /\ UNCHANGED <<out, final>>

Confirm(r) ==
  /\ Ongoing(r)
  /\ \E end \in final : end.tx.run = r /\ end.minted
  /\ mint' = [mint EXCEPT ![r] = At("confirmed")]
  /\ UNCHANGED <<out, final>>

FinallyReverted(r, end) ==
  end.tx.run = r /\ end.tx.nonce = mint[r].attempt.nonce /\ ~end.minted

\* The mint came too early, and nothing is left of it.
Retry(r) ==
  /\ Ongoing(r)
  /\ \E end \in final : FinallyReverted(r, end) /\ end.early
  /\ NothingMinted(r)
  /\ mint' = [mint EXCEPT ![r] = At("idle")]
  /\ UNCHANGED <<out, final>>

Revert(r) ==
  /\ Ongoing(r)
  /\ \E end \in final : FinallyReverted(r, end)
  /\ NothingMinted(r)
  /\ mint' = [mint EXCEPT ![r] = At("reverted")]
  /\ UNCHANGED <<out, final>>

\* Before a mint, or with its first attempt: what is left of that may take effect.
Fail(r) ==
  /\ \/ mint[r].state = "idle"
     \/ Ongoing(r) /\ mint[r].sending = mint[r].attempt
  /\ mint' = [mint EXCEPT ![r] = At("failed")]
  /\ UNCHANGED <<out, final>>

Stop(r) ==
  /\ mint[r].state \in {"idle", "ongoing"}
  /\ mint' = [mint EXCEPT ![r] = At("stopped")]
  /\ UNCHANGED <<out, final>>

\* One transaction becomes final, and what has its nonce or a lower one is over.
Settle ==
  /\ \E tx \in out, minted, early \in BOOLEAN :
       /\ final' = final \cup {[tx |-> tx, minted |-> minted, early |-> early]}
       /\ out' \subseteq {other \in out : other.nonce > tx.nonce}
  /\ UNCHANGED mint

Vanish ==
  /\ out' \subseteq out
  /\ UNCHANGED <<mint, final>>

Next ==
  \/ \E r \in Runs :
       \/ Begin(r) \/ Arrive(r) \/ Sent(r) \/ GiveUp(r) \/ Raise(r)
       \/ Confirm(r) \/ Retry(r) \/ Revert(r) \/ Fail(r) \/ Stop(r)
  \/ Settle
  \/ Vanish

Spec == Init /\ [][Next]_outcome
=============================================================================
