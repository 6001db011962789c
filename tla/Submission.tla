----------------------------- MODULE Submission -----------------------------
(***************************************************************************)
(* What one submission of signed bytes promises its caller, however many   *)
(* endpoints it goes to: "rejected" means that this submission put no copy *)
(* anywhere, and "accepted" and "unknown" mean that a copy may be out.     *)
(* The send steps of AutoBuy.tla (Land, BroadcastAccepted,                 *)
(* BroadcastUnknown and BroadcastRejected) rely on this and nothing else;  *)
(* Broadcast.tla implements it.                                            *)
(***************************************************************************)

VARIABLES
  out,      \* a copy is in some node or on its way to one
  landed,   \* a copy of the latest submission may have got there
  verdict   \* what the latest submission returned, "none" or "running"

submission == <<out, landed, verdict>>

Init ==
  /\ ~out
  /\ ~landed
  /\ verdict = "none"

Submit ==
  /\ verdict # "running"
  /\ verdict' = "running"
  /\ ~landed'
  /\ UNCHANGED out

Land ==
  /\ verdict = "running"
  /\ landed'
  /\ out => out'
  /\ UNCHANGED verdict

Accept ==
  /\ verdict = "running"
  /\ landed
  /\ verdict' = "accepted"
  /\ out => out'
  /\ UNCHANGED landed

GiveUp ==
  /\ verdict = "running"
  /\ landed
  /\ verdict' = "unknown"
  /\ UNCHANGED <<out, landed>>

Reject ==
  /\ verdict = "running"
  /\ ~landed
  /\ verdict' = "rejected"
  /\ UNCHANGED <<out, landed>>

\* Nodes forget transactions and requests die on the way.
Vanish ==
  /\ ~out'
  /\ UNCHANGED <<landed, verdict>>

Next == Submit \/ Land \/ Accept \/ GiveUp \/ Reject \/ Vanish

Spec == Init /\ [][Next]_submission
=============================================================================
