----------------------------- MODULE Broadcast -----------------------------
(***************************************************************************)
(* RpcClients::broadcast_raw (src/src/rpc.rs): the same signed bytes go to *)
(* every broadcast endpoint at once, one spawned task each, and the first  *)
(* endpoint that has them ends the call.  Only when every endpoint answers *)
(* with an error is the call a rejection; a timeout, a broken connection,  *)
(* a wrong hash or a dead task leaves the outcome unknown.  Requests that  *)
(* the call no longer waits for can still arrive.                          *)
(***************************************************************************)
EXTENDS Naturals

CONSTANTS
  Endpoints,  \* the broadcast endpoints
  MaxCalls    \* bound on submissions of the same bytes

ASSUME BroadcastAssumption == Endpoints # {} /\ MaxCalls \in Nat

VARIABLES
  holds,      \* endpoints whose node holds the transaction
  stray,      \* endpoints that a request is on its way to, unattended
  task,       \* per endpoint: its request in the present call
  ambiguous,  \* the call saw an answer that settles nothing
  verdict,    \* what the latest call returned, "none" or "running"
  calls       \* number of calls so far

vars == <<holds, stray, task, ambiguous, verdict, calls>>

Answers == {"accepted", "known", "refused", "broken"}
Tasks == {"sent", "joined"} \cup Answers
Verdicts == {"none", "running", "accepted", "unknown", "rejected"}

Init ==
  /\ holds = {}
  /\ stray = {}
  /\ task = [endpoint \in Endpoints |-> "joined"]
  /\ ambiguous = FALSE
  /\ verdict = "none"
  /\ calls = 0

Submit ==
  /\ verdict # "running"
  /\ calls < MaxCalls
  /\ task' = [endpoint \in Endpoints |-> "sent"]
  /\ ambiguous' = FALSE
  /\ verdict' = "running"
  /\ calls' = calls + 1
  /\ UNCHANGED <<holds, stray>>

-----------------------------------------------------------------------------
(* The endpoints. *)

Answer(endpoint, answer) ==
  /\ task[endpoint] = "sent"
  /\ task' = [task EXCEPT ![endpoint] = answer]
  /\ UNCHANGED <<stray, ambiguous, verdict, calls>>

\* The node takes the transaction.
Take(endpoint) ==
  /\ endpoint \notin holds
  /\ Answer(endpoint, "accepted")
  /\ holds' = holds \cup {endpoint}

\* is_known_transaction: the node has it already.
AlreadyKnown(endpoint) ==
  /\ endpoint \in holds
  /\ Answer(endpoint, "known")
  /\ UNCHANGED holds

\* An error response: the node did not take this copy, whatever it holds.
Refuse(endpoint) ==
  /\ Answer(endpoint, "refused")
  /\ UNCHANGED holds

\* Mutant: the request has no timeout, only a broken answer.
BreakAnswered(endpoint) ==
  /\ task[endpoint] \in Answers \ {"broken"}
  /\ task' = [task EXCEPT ![endpoint] = "broken"]
  /\ UNCHANGED <<holds, stray, ambiguous, verdict, calls>>

\* The request times out, or its answer is lost, malformed or for another
\* hash.  A request that was not answered is on its way.
Break(endpoint) ==
  /\ task[endpoint] \in {"sent", "accepted", "known", "refused"}
  /\ task' = [task EXCEPT ![endpoint] = "broken"]
  /\ stray' = IF task[endpoint] = "sent" THEN stray \cup {endpoint} ELSE stray
  /\ UNCHANGED <<holds, ambiguous, verdict, calls>>

StrayEnds(endpoint) ==
  /\ endpoint \in stray
  /\ stray' = stray \ {endpoint}
  /\ holds' \in {holds, holds \cup {endpoint}}
  /\ UNCHANGED <<task, ambiguous, verdict, calls>>

\* Nodes pass transactions on and forget them.
Gossip(endpoint) ==
  /\ holds # {}
  /\ holds' = holds \cup {endpoint}
  /\ UNCHANGED <<stray, task, ambiguous, verdict, calls>>

Forget(endpoint) ==
  /\ endpoint \in holds
  /\ holds' = holds \ {endpoint}
  /\ UNCHANGED <<stray, task, ambiguous, verdict, calls>>

-----------------------------------------------------------------------------
(* The loop over the tasks, in the order in which they complete. *)

IsAmbiguous(answer) == answer = "broken"

\* The call returns at the first endpoint that has the transaction; requests
\* not answered yet go on in a task of their own.
JoinSuccess(endpoint) ==
  /\ verdict = "running"
  /\ task[endpoint] \in {"accepted", "known"}
  /\ verdict' = "accepted"
  /\ stray' = stray \cup {other \in Endpoints : task[other] = "sent"}
  /\ task' = [other \in Endpoints |-> "joined"]
  /\ UNCHANGED <<holds, ambiguous, calls>>

\* Mutant: the last answer alone decides.
JoinLastFailure(endpoint) ==
  /\ verdict = "running"
  /\ task[endpoint] \in {"refused", "broken"}
  /\ task' = [task EXCEPT ![endpoint] = "joined"]
  /\ ambiguous' = IsAmbiguous(task[endpoint])
  /\ verdict' = IF \E other \in Endpoints \ {endpoint} : task[other] # "joined"
                  THEN "running"
                  ELSE IF ambiguous' THEN "unknown" ELSE "rejected"
  /\ UNCHANGED <<holds, stray, calls>>

JoinFailure(endpoint) ==
  /\ verdict = "running"
  /\ task[endpoint] \in {"refused", "broken"}
  /\ task' = [task EXCEPT ![endpoint] = "joined"]
  /\ ambiguous' = (ambiguous \/ IsAmbiguous(task[endpoint]))
  /\ verdict' = IF \E other \in Endpoints \ {endpoint} : task[other] # "joined"
                  THEN "running"
                  ELSE IF ambiguous' THEN "unknown" ELSE "rejected"
  /\ UNCHANGED <<holds, stray, calls>>

Join == \E endpoint \in Endpoints : JoinSuccess(endpoint) \/ JoinFailure(endpoint)

Next ==
  \/ Submit
  \/ \E endpoint \in Endpoints :
       \/ Take(endpoint) \/ AlreadyKnown(endpoint) \/ Refuse(endpoint) \/ Break(endpoint)
       \/ StrayEnds(endpoint) \/ Gossip(endpoint) \/ Forget(endpoint)
  \/ Join

Spec == Init /\ [][Next]_vars

\* broadcast_timeout ends every request, and the loop takes what has ended.
Fairness ==
  /\ \A endpoint \in Endpoints : WF_vars(Break(endpoint))
  /\ WF_vars(Join)

FairSpec == Spec /\ Fairness

-----------------------------------------------------------------------------
(* Properties. *)

\* Every variable has its type, and a call that has returned waits for nothing.
TypeOK ==
  /\ holds \subseteq Endpoints
  /\ stray \subseteq Endpoints
  /\ task \in [Endpoints -> Tasks]
  /\ ambiguous \in BOOLEAN
  /\ verdict \in Verdicts
  /\ calls \in Nat
  /\ verdict # "running" => \A endpoint \in Endpoints : task[endpoint] = "joined"

\* When the first submission is rejected, no node has the transaction and no
\* request can still bring it to one: what recover_pending relies on when it
\* drops the purchase and goes on to the next.
RejectedIsAbsent ==
  verdict = "rejected" /\ calls = 1 => holds = {} /\ stray = {}

\* A call returns although endpoints hang.
Returns == verdict = "running" ~> verdict # "running"

\* Some copy of the present call reached a node, or may.
Landed ==
  \/ verdict \in {"accepted", "unknown"} \/ ambiguous
  \/ \E endpoint \in Endpoints : task[endpoint] \in Answers \ {"refused"}

\* The fan-out is one submission.
Abstract == INSTANCE Submission WITH
  out <- holds # {} \/ stray # {},
  landed <- Landed,
  verdict <- verdict

IsSubmission == Abstract!Spec
=============================================================================
