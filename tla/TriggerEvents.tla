--------------------------- MODULE TriggerEvents ---------------------------
(***************************************************************************)
(* The activation event of a mint (src/src/trigger.rs and the event        *)
(* monitor of src/src/bot.rs).  Two subscriptions bring headers and logs;  *)
(* the engine keeps one pending event, waits for its confirmations, and    *)
(* looks it up again before the mint is prepared.  After a disconnect the  *)
(* missed logs are fetched from the block before the last one seen.        *)
(*                                                                         *)
(* The subscriptions are of one node.  What is looked up is the union of   *)
(* what the read providers answer (RpcClients::logs), and these may be     *)
(* behind that node: on lower blocks, or on a branch that it has left.     *)
(*                                                                         *)
(* An event is known by the number of its block and the fork that the      *)
(* block was produced in, which stands for the block's hash.  The mint     *)
(* itself is module Mint; here it ends, or is to be retried.  The monitor  *)
(* is armed at block 0; blocks at or before it hold no event.              *)
(***************************************************************************)
EXTENDS Integers, SequencesExt

CONSTANTS
  Depths,          \* the values of trigger.confirmations
  ForkDepth,       \* most blocks that a reorganisation replaces
  MaxBlocks,       \* bound on the height of the chain
  MaxForks,        \* bound on reorganisations
  MaxDisconnects,  \* bound on WebSocket disconnects
  MaxFailures,     \* bound on failed log queries
  Lagging          \* read providers may be behind the node of the subscriptions

ASSUME ConstantsAssumption ==
  /\ Depths \subseteq Nat
  /\ ForkDepth \in Nat \ {0}
  /\ MaxBlocks \in Nat \ {0}
  /\ MaxForks \in Nat
  /\ MaxDisconnects \in Nat
  /\ MaxFailures \in Nat
  /\ Lagging \in BOOLEAN

VARIABLES
  confirmations,  \* trigger.confirmations
  chain,        \* the blocks after the one in which the monitor was armed
  forks,        \* number of reorganisations so far
  stale,        \* events of abandoned branches, which a read provider may still answer
  headers,      \* block numbers on their way to the monitor
  logs,         \* logs on their way to the monitor
  connected,    \* the subscriptions are alive
  disconnects,  \* number of disconnects so far
  failures,     \* number of failed log queries so far
  pc,           \* what the monitor is doing
  pending,      \* TriggerEngine.pending_event
  lastSeen,     \* context.last_seen_block
  target,       \* the head that a backfill has read
  told,         \* history: the events the engine has been told of
  lost,         \* history: those that it was told of before the last failed query only
  short         \* history: the providers were behind when they were last read

blockchain == <<chain, forks, stale>>
stream == <<headers, logs, connected>>
engine == <<pending, lastSeen, target, told, lost, short>>
vars == <<confirmations, blockchain, stream, disconnects, failures, pc, engine>>

Block == [fork : Nat, event : BOOLEAN]
Event == [number : Nat, fork : Nat]
NoEvent == [number |-> 0, fork |-> 0]
Log == [event : Event, removed : BOOLEAN]
PCs == {"monitor", "check", "prepare", "mint",
        "reconnect", "subscribed", "query", "ended"}

Init ==
  /\ confirmations \in Depths
  /\ chain = <<>>
  /\ forks = 0
  /\ stale = {}
  /\ headers = <<>>
  /\ logs = <<>>
  /\ connected = TRUE
  /\ disconnects = 0
  /\ failures = 0
  /\ pc = "monitor"
  /\ pending = NoEvent
  /\ lastSeen = 0
  /\ target = 0
  /\ told = {}
  /\ lost = {}
  /\ short = FALSE

-----------------------------------------------------------------------------
(* The chain and its subscriptions. *)

EventsOf(blocks) ==
  {[number |-> n, fork |-> blocks[n].fork] :
     n \in {k \in DOMAIN blocks : blocks[k].event}}

OnChain(event) == event \in EventsOf(chain)

\* The logs of these events, in the order of the blocks.
LogsOf(events, removed) ==
  {list \in SeqOf([event : events, removed : {removed}], MaxBlocks) :
     /\ \A event \in events : \E i \in DOMAIN list : list[i].event = event
     /\ \A i, j \in DOMAIN list : i < j => list[i].event.number < list[j].event.number}

\* What the node sends when these blocks are its chain, from this number on.
Publish(blocks, from) ==
  IF connected
  THEN /\ headers' = headers \o [i \in 1..(Len(blocks) - from + 1) |-> from + i - 1]
       /\ \E gone \in LogsOf(EventsOf(chain) \ EventsOf(blocks), TRUE),
             come \in LogsOf(EventsOf(blocks) \ EventsOf(chain), FALSE) :
            logs' = logs \o gone \o come
  ELSE UNCHANGED <<headers, logs>>

NewBlock ==
  /\ Len(chain) < MaxBlocks
  /\ \E event \in BOOLEAN :
       /\ chain' = Append(chain, [fork |-> forks, event |-> event])
       /\ Publish(chain', Len(chain'))
  /\ UNCHANGED <<confirmations, forks, stale, connected, disconnects, failures, pc, engine>>

\* The last blocks are replaced by a longer branch, which some provider may not know yet.
Reorganise ==
  /\ forks < MaxForks
  /\ Len(chain) < MaxBlocks
  /\ \E dropped \in 1..ForkDepth :
       /\ dropped <= Len(chain)
       /\ \E events \in [1..(dropped + 1) -> BOOLEAN] :
            chain' = SubSeq(chain, 1, Len(chain) - dropped) \o
                     [i \in 1..(dropped + 1) |-> [fork |-> forks + 1, event |-> events[i]]]
       /\ Publish(chain', Len(chain) - dropped + 1)
  /\ forks' = forks + 1
  /\ stale' = IF Lagging THEN stale \cup (EventsOf(chain) \ EventsOf(chain')) ELSE {}
  /\ UNCHANGED <<confirmations, connected, disconnects, failures, pc, engine>>

\* block_number is the highest head that a provider answers; each may be behind.
Reached(head) == IF Lagging THEN 0..head ELSE {head}

\* The events in the union of what the providers answer, if all of them do.
Answers == EventsOf(chain) \cup stale

Disconnect ==
  /\ connected
  /\ disconnects < MaxDisconnects
  /\ connected' = FALSE
  /\ disconnects' = disconnects + 1
  /\ UNCHANGED <<confirmations, blockchain, headers, logs, failures, pc, engine>>

-----------------------------------------------------------------------------
(* TriggerEngine. *)

Unchecked == UNCHANGED <<confirmations, blockchain, connected, disconnects, failures>>

\* Mutant: any removed log clears the pending event.
ForgetAny(event) == NoEvent

\* Mutant: a removed log is passed over.
IgnoreRemoval(event) == pending

\* A removed log clears the event it was sent for.
Forget(event) == IF pending = event THEN NoEvent ELSE pending

\* What may be pending after these: what is, unless one is lower, and else one of the
\* lowest, whichever comes first.
Earliest(events) ==
  LET lowest == {event \in events : \A e \in events : event.number <= e.number}
  IN  IF events = {} \/ (pending # NoEvent /\ \A e \in events : pending.number <= e.number)
      THEN {pending}
      ELSE lowest

\* One confirmation is the inclusion itself.
ReadyAtOnce == confirmations <= 1

\* The number of the header that the pending event waits for.
Needed == pending.number + (IF ReadyAtOnce THEN 0 ELSE confirmations - 1)

\* Mutant: one header more than needed.
AfterConfirmed(number) == pending # NoEvent /\ number > Needed

Confirmed(number) == pending # NoEvent /\ number >= Needed

ObserveHeader ==
  /\ pc = "monitor"
  /\ headers # <<>>
  /\ headers' = Tail(headers)
  /\ lastSeen' = Head(headers)
  /\ pc' = IF Confirmed(Head(headers)) THEN "check" ELSE pc
  /\ UNCHANGED <<logs, pending, target, told, lost, short>> /\ Unchecked

ObserveLog ==
  LET event == Head(logs).event
  IN  /\ pc = "monitor"
      /\ logs # <<>>
      /\ logs' = Tail(logs)
      /\ IF Head(logs).removed
         THEN /\ pending' = Forget(event)
              /\ UNCHANGED <<pc, told, lost>>
         ELSE /\ pending' \in Earliest({event})
              /\ told' = told \cup {event}
              /\ lost' = lost \ {event}
              /\ pc' = IF ReadyAtOnce THEN "check" ELSE pc
      /\ UNCHANGED <<headers, lastSeen, target, short>> /\ Unchecked

-----------------------------------------------------------------------------
(* From a confirmed event to the mint. *)

\* event_is_canonical: some provider still has the log in its block.
CheckCanonical ==
  /\ pc = "check"
  /\ pending \in Answers
  /\ pc' = "prepare"
  /\ UNCHANGED <<stream, engine>> /\ Unchecked

Discard ==
  /\ pc = "check"
  /\ pc' = "monitor"
  /\ pending' = NoEvent
  /\ UNCHANGED <<stream, lastSeen, target, told, short>>

\* No provider that answers has it: those of an old branch may fail, or catch up.
CheckNotCanonical ==
  /\ ~OnChain(pending)
  /\ Discard
  /\ UNCHANGED lost /\ Unchecked

\* The query fails on every provider, or only those answer that have not reached the
\* block: either counts as an answer.
CheckFails ==
  /\ failures < MaxFailures
  /\ Discard
  /\ lost' = told
  /\ failures' = failures + 1
  /\ UNCHANGED <<confirmations, blockchain, connected, disconnects>>

\* ensure_transaction_ready: ready, or the contract is closed, or it fails.
Prepare ==
  /\ pc = "prepare"
  /\ pc' \in {"mint", "monitor", "ended"}
  /\ UNCHANGED <<stream, engine>> /\ Unchecked

\* execute_transaction: the run is over, or waits for the trigger again.
Mint ==
  /\ pc = "mint"
  /\ pc' \in {"monitor", "ended"}
  /\ UNCHANGED <<stream, engine>> /\ Unchecked

-----------------------------------------------------------------------------
(* Reconnection. *)

\* A stream ends once its buffer is empty; the other one's buffer is lost.
StreamEnds ==
  /\ pc = "monitor"
  /\ ~connected
  /\ headers = <<>> \/ logs = <<>>
  /\ headers' = <<>>
  /\ logs' = <<>>
  /\ pc' = "reconnect"
  /\ UNCHANGED engine /\ Unchecked

\* Both subscriptions are made before the missed logs are fetched.
Resubscribe ==
  /\ pc = "reconnect"
  /\ connected' = TRUE
  /\ pc' = "subscribed"
  /\ UNCHANGED <<confirmations, blockchain, headers, logs, disconnects, failures, engine>>

ReadHead ==
  /\ pc = "subscribed"
  /\ target' \in Reached(Len(chain))
  /\ short' = (target' < Len(chain))
  /\ pc' = "query"
  /\ UNCHANGED <<stream, pending, lastSeen, told, lost>> /\ Unchecked

\* Mutant: only what follows the last block is fetched.
MissedFromHead(events) == {event \in events : event.number \in (lastSeen + 1)..target}

\* From the block before the last one seen.
Missed(events) == {event \in events : event.number \in (lastSeen - 1)..target}

\* Those that answer are on some height, and some of them on an old branch.
Backfill ==
  LET missed == Missed(EventsOf(chain))
  IN  /\ pc = "query"
      /\ \E height \in Reached(target), old \in SUBSET Missed(stale) :
           LET found == {event \in missed : event.number <= height} \cup old
           IN  /\ pending' \in Earliest(found)
               /\ told' = told \cup found
               /\ lost' = lost \ found
               /\ short' = (short \/ ~(missed \subseteq found))
               /\ pc' = IF ReadyAtOnce /\ found # {} THEN "check" ELSE "monitor"
      /\ lastSeen' = target
      /\ UNCHANGED <<stream, target>> /\ Unchecked

\* Any error of the reconnection ends the run.
ReconnectFails ==
  /\ pc \in {"reconnect", "subscribed", "query"}
  /\ pc' = "ended"
  /\ UNCHANGED <<stream, engine>> /\ Unchecked

\* Ctrl-C and kills.
Stop ==
  /\ pc # "ended"
  /\ pc' = "ended"
  /\ UNCHANGED <<stream, engine>> /\ Unchecked

-----------------------------------------------------------------------------

Monitor ==
  \/ ObserveHeader \/ ObserveLog
  \/ CheckCanonical \/ CheckNotCanonical \/ Prepare \/ Mint
  \/ StreamEnds \/ Resubscribe \/ ReadHead \/ Backfill

Next ==
  \/ Monitor \/ CheckFails \/ ReconnectFails \/ Stop
  \/ NewBlock \/ Reorganise \/ Disconnect

Spec == Init /\ [][Next]_vars

\* Calls return, and the select loop serves both streams.
Fairness ==
  /\ SF_vars(ObserveHeader)
  /\ SF_vars(ObserveLog)
  /\ WF_vars(Monitor)

FairSpec == Spec /\ Fairness

-----------------------------------------------------------------------------
(* Properties. *)

\* Every variable has its type, what is pending is an event that was told, and only
\* a pending event leads to a check and a mint.
TypeOK ==
  /\ confirmations \in Nat
  /\ chain \in Seq(Block)
  /\ forks \in Nat
  /\ stale \subseteq Event
  /\ headers \in Seq(Nat)
  /\ logs \in Seq(Log)
  /\ connected \in BOOLEAN
  /\ disconnects \in Nat
  /\ failures \in Nat
  /\ pc \in PCs
  /\ told \subseteq Event
  /\ lost \subseteq told
  /\ short \in BOOLEAN
  /\ pending \in told \cup {NoEvent}
  /\ pc \in {"check", "prepare", "mint"} => pending # NoEvent
  /\ lastSeen \in Nat
  /\ target \in Nat

\* A mint is prepared only when the chain has the confirmations asked for on top of
\* the event's block, and the event is in it.  The one exception is an event that a
\* provider still answers from an old branch: then its removal is yet to be read, if
\* the connection did not break.
TriggersWhenConfirmed ==
  [][pc = "check" /\ pc' = "prepare" =>
       /\ Len(chain) >= pending.number + confirmations - 1
       /\ \/ OnChain(pending)
          \/ /\ pending \in stale
             /\ disconnects = 0 =>
                  \E i \in DOMAIN logs : logs[i] = [event |-> pending, removed |-> TRUE]]_vars

OnItsWay(event) == \E i \in DOMAIN logs : logs[i] = [event |-> event, removed |-> FALSE]

Kept ==
  \A event \in told \ lost :
    OnChain(event) /\ ~OnItsWay(event) => pending # NoEvent /\ pending.number <= event.number

\* An event that was told stays pending while it is canonical, unless an earlier
\* one is, whatever forks remove and bring, or, without forks, however often the
\* connection breaks: it can still trigger the mint.  A lookup that fails loses what
\* was told before it, and nothing that is told after it.
ActivationIsKept ==
  pc # "ended" /\ (disconnects = 0 \/ forks = 0) => Kept

\* The same through a fork during an outage.
BackfilledIsKept == pc # "ended" => Kept

\* After a reconnection no event falls between the backfill and the new
\* subscription, if a provider that was read had reached the node's head.
BackfillMeetsStream ==
  connected /\ ~short /\ pc \in {"monitor", "check", "prepare", "mint"} =>
    \A event \in EventsOf(chain) :
      event.number >= target - 1 => event \in told \/ OnItsWay(event)

\* A backfill fetches every event of the outage.
MissedIsBackfilled ==
  [][pc = "query" /\ pc' \in {"monitor", "check"} =>
       \A event \in EventsOf(chain) : event.number <= target => event \in told']_vars

\* Is the header of the last confirmation on its way?
Awaited(event) ==
  /\ event \in told \ lost
  /\ OnChain(event)
  /\ \E i \in DOMAIN headers : headers[i] >= event.number + confirmations - 1

Settled(event) ==
  \/ pc \in {"prepare", "ended"}
  \/ ~OnChain(event)
  \/ disconnects > 0 \/ event \in lost

\* An event that was told triggers the mint when the header of its last
\* confirmation comes, unless a fork drops it, the connection breaks or a lookup
\* fails after it was told.
ActivationTriggers ==
  \A number \in 1..MaxBlocks, fork \in 0..MaxForks :
    Awaited([number |-> number, fork |-> fork]) ~> Settled([number |-> number, fork |-> fork])
=============================================================================
