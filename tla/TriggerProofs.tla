---------------------------- MODULE TriggerProofs ----------------------------
(***************************************************************************)
(* Proofs, for every depth of confirmation and of forks and for chains,    *)
(* forks, disconnects and failures of any number, that an activation which *)
(* was told to the engine of TriggerEvents is kept while it can trigger,   *)
(* that the mint is prepared for a confirmed event only, one that is in    *)
(* the chain or is still to be removed, and that no event falls between a  *)
(* backfill and the new subscription.                                      *)
(***************************************************************************)
EXTENDS TriggerEvents, SequenceTheorems, TLAPS

Known == told \cup {logs[i].event : i \in DOMAIN logs} \cup stale

\* Nothing that was seen lies above the head.
Heights ==
  /\ \A i \in DOMAIN chain : chain[i].fork <= forks
  /\ \A i \in DOMAIN headers : headers[i] <= Len(chain)
  /\ lastSeen <= Len(chain)
  /\ target <= Len(chain)
  /\ pc = "query" /\ ~short => lastSeen <= target

\* A block that the chain has still to produce is not known of.
Produced == \A event \in Known : event.number \in 1..Len(chain) /\ event.fork <= forks

Connection ==
  /\ connected \/ disconnects > 0
  /\ pc \in {"reconnect", "subscribed", "query"} => disconnects > 0

\* A check finds the confirmations that it was started for.
Deep == pc = "check" => ReadyAtOnce \/ Needed <= Len(chain)

\* What the head that a backfill has read does not cover is on its way.
Covered ==
  pc = "query" /\ connected /\ ~short =>
    \A event \in EventsOf(chain) : event.number > target => OnItsWay(event)

RemovedIsGone == \A i \in DOMAIN logs : logs[i].removed => ~OnChain(logs[i].event)

\* The removal of the event is behind position i of the logs, and what has come into
\* the chain in its place or above is behind the removal.
Withdrawn(event, i) ==
  /\ \A e \in told : OnChain(e) => e.number < event.number
  /\ \E k \in DOMAIN logs :
       /\ k > i
       /\ logs[k] = [event |-> event, removed |-> TRUE]
       /\ \A j \in DOMAIN logs :
            ~logs[j].removed /\ OnChain(logs[j].event) /\ logs[j].event.number >= event.number
              => j > k

Ordered ==
  disconnects = 0 =>
    /\ pending # NoEvent /\ ~OnChain(pending) => Withdrawn(pending, 0)
    /\ \A i \in DOMAIN logs :
         ~logs[i].removed /\ ~OnChain(logs[i].event) => Withdrawn(logs[i].event, i)

Unforked ==
  forks = 0 =>
    /\ stale = {}
    /\ told \subseteq EventsOf(chain)
    /\ \A i \in DOMAIN logs : ~logs[i].removed /\ OnChain(logs[i].event)
    \* Even what comes a second time, after a backfill, is covered by what is pending.
    /\ pc # "ended" => \A e \in told \ lost : pending # NoEvent /\ pending.number <= e.number

IInv ==
  /\ TypeOK
  /\ Heights
  /\ Produced
  /\ Connection
  /\ Deep
  /\ Covered
  /\ RemovedIsGone
  /\ Ordered
  /\ Unforked
  /\ ActivationIsKept
  /\ BackfillMeetsStream

-----------------------------------------------------------------------------
(* What the engine keeps of several events. *)

\* What may be pending is the earliest of what is known, and there is one if there can be.
LEMMA EarliestIsLowest ==
  ASSUME TypeOK, NEW events \in SUBSET Event, NoEvent \notin events,
         NEW next \in Earliest(events)
  PROVE  /\ next \in events \cup {pending}
         /\ pending # NoEvent \/ events # {} => next # NoEvent
         /\ pending # NoEvent => next.number <= pending.number
         /\ \A e \in events : next.number <= e.number
<1>1. pending \in Event /\ NoEvent \in Event
  BY DEF TypeOK, NoEvent, Event
<1>2. CASE events = {} \/ (pending # NoEvent /\ \A e \in events : pending.number <= e.number)
  <2>1. next = pending
    BY <1>2 DEF Earliest
  <2> QED
    BY <1>1, <1>2, <2>1 DEF Event
<1>3. CASE ~(events = {} \/ (pending # NoEvent /\ \A e \in events : pending.number <= e.number))
  <2>1. next \in events /\ \A e \in events : next.number <= e.number
    BY <1>3 DEF Earliest
  <2>2. ASSUME pending # NoEvent PROVE next.number <= pending.number
    <3>1. PICK e \in events : ~(pending.number <= e.number)
      BY <1>3, <2>2
    <3>2. next.number <= e.number
      BY <2>1
    <3> QED
      BY <1>1, <2>1, <3>1, <3>2 DEF Event
  <2> QED
    BY <2>1, <2>2
<1> QED
  BY <1>2, <1>3

-----------------------------------------------------------------------------
(* The events of a chain. *)

LEMMA EventsAre ==
  ASSUME NEW blocks \in Seq(Block), NEW e
  PROVE  e \in EventsOf(blocks) <=>
           \E n \in 1..Len(blocks) :
             blocks[n].event /\ e = [number |-> n, fork |-> blocks[n].fork]
  BY DEF EventsOf

LEMMA EventsAreEvents ==
  ASSUME NEW blocks \in Seq(Block)
  PROVE  /\ EventsOf(blocks) \in SUBSET Event
         /\ NoEvent \notin EventsOf(blocks)
         /\ \A e \in EventsOf(blocks) :
              e.number \in 1..Len(blocks) /\ e.fork = blocks[e.number].fork
<1>1. ASSUME NEW e \in EventsOf(blocks)
      PROVE  /\ e \in Event /\ e.number \in 1..Len(blocks)
             /\ e.fork = blocks[e.number].fork
             /\ e = [number |-> e.number, fork |-> blocks[e.number].fork]
             /\ e # NoEvent
  <2>1. PICK n \in 1..Len(blocks) : e = [number |-> n, fork |-> blocks[n].fork]
    BY EventsAre
  <2>2. blocks[n] \in Block /\ n > 0
    BY ElementOfSeq
  <2> QED
    BY <2>1, <2>2 DEF Block, Event, NoEvent
<1> QED
  BY <1>1

-----------------------------------------------------------------------------
(* What the chain does to the streams. *)

LEMMA LogsAre ==
  ASSUME NEW events \in SUBSET Event, NEW removed \in BOOLEAN,
         NEW list \in LogsOf(events, removed)
  PROVE  /\ list \in Seq(Log)
         /\ \A i \in 1..Len(list) : list[i].event \in events /\ list[i].removed = removed
         /\ \A e \in events : \E i \in 1..Len(list) : list[i] = [event |-> e, removed |-> removed]
<1> DEFINE some == [event : events, removed : {removed}]
<1>1. list \in UNION {[1..n -> some] : n \in 0..MaxBlocks}
  BY DEF LogsOf, SeqOf
<1>2. list \in Seq(some) /\ some \subseteq Log
  <2>1. some \subseteq Log
    BY DEF Log
  <2> HIDE DEF some
  <2>2. PICK n \in Nat : list \in [1..n -> some]
    BY <1>1, ConstantsAssumption
  <2> QED
    BY <2>1, <2>2, SeqDef
<1>3. list \in Seq(Log) /\ DOMAIN list = 1..Len(list)
  BY <1>2, SeqMonotonic, LenProperties
<1>4. \A i \in 1..Len(list) : list[i] \in some
  BY <1>2, ElementOfSeq
<1>5. ASSUME NEW e \in events
      PROVE  \E i \in 1..Len(list) : list[i] = [event |-> e, removed |-> removed]
  <2>1. PICK i \in 1..Len(list) : list[i].event = e
    BY <1>3 DEF LogsOf
  <2> QED
    BY <1>4, <2>1
<1> QED
  BY <1>3, <1>4, <1>5

\* Removals of the events in gone, and behind them those in come, are sent.
Sends(gone, come) ==
  /\ logs' \in Seq(Log)
  /\ Len(logs') >= Len(logs)
  /\ \A i \in 1..Len(logs) : logs'[i] = logs[i]
  /\ \E n \in Len(logs)..Len(logs') :
       /\ \A i \in (Len(logs) + 1)..n : logs'[i].removed /\ logs'[i].event \in gone
       /\ \A i \in (n + 1)..Len(logs') : ~logs'[i].removed /\ logs'[i].event \in come
       /\ connected =>
            /\ \A e \in gone : \E i \in (Len(logs) + 1)..n :
                 logs'[i] = [event |-> e, removed |-> TRUE]
            /\ \A e \in come : \E i \in (n + 1)..Len(logs') :
                 logs'[i] = [event |-> e, removed |-> FALSE]

LEMMA LogsAreSent ==
  ASSUME TypeOK, NEW blocks \in Seq(Block), NEW from, Publish(blocks, from)
  PROVE  Sends(EventsOf(chain) \ EventsOf(blocks), EventsOf(blocks) \ EventsOf(chain))
<1> DEFINE out == EventsOf(chain) \ EventsOf(blocks)
           in == EventsOf(blocks) \ EventsOf(chain)
<1>1. out \in SUBSET Event /\ in \in SUBSET Event
  BY EventsAreEvents DEF TypeOK
<1>2. logs \in Seq(Log) /\ Len(logs) \in Nat
  BY LenProperties DEF TypeOK
<1> HIDE DEF out, in
<1>3. CASE connected
  <2>1. PICK gone \in LogsOf(out, TRUE), come \in LogsOf(in, FALSE) :
          logs' = logs \o gone \o come
    BY <1>3 DEF Publish, out, in
  <2>2. /\ gone \in Seq(Log)
        /\ \A i \in 1..Len(gone) : gone[i].event \in out /\ gone[i].removed = TRUE
        /\ \A e \in out : \E i \in 1..Len(gone) : gone[i] = [event |-> e, removed |-> TRUE]
    BY <1>1, LogsAre
  <2>3. /\ come \in Seq(Log)
        /\ \A i \in 1..Len(come) : come[i].event \in in /\ come[i].removed = FALSE
        /\ \A e \in in : \E i \in 1..Len(come) : come[i] = [event |-> e, removed |-> FALSE]
    BY <1>1, LogsAre
  <2> DEFINE n == Len(logs) + Len(gone)
  <2>4. /\ logs \o gone \in Seq(Log)
        /\ Len(logs \o gone) = n
        /\ \A i \in 1..n : (logs \o gone)[i] = IF i <= Len(logs) THEN logs[i]
                                                ELSE gone[i - Len(logs)]
    BY <1>2, <2>2, ConcatProperties
  <2>5. /\ logs' \in Seq(Log)
        /\ Len(logs') = n + Len(come)
        /\ \A i \in 1..(n + Len(come)) : logs'[i] = IF i <= n THEN (logs \o gone)[i]
                                                  ELSE come[i - n]
    BY <2>1, <2>3, <2>4, ConcatProperties
  <2>6. Len(gone) \in Nat /\ Len(come) \in Nat
    BY <2>2, <2>3, LenProperties
  <2>7. /\ \A i \in 1..Len(logs) : logs'[i] = logs[i]
        /\ \A i \in 1..Len(gone) : logs'[Len(logs) + i] = gone[i]
        /\ \A i \in 1..Len(come) : logs'[n + i] = come[i]
    BY <1>2, <2>4, <2>5, <2>6
  <2>8. \A i \in (Len(logs) + 1)..n : logs'[i].removed /\ logs'[i].event \in out
    <3>1. \A i \in (Len(logs) + 1)..n :
            i - Len(logs) \in 1..Len(gone) /\ logs'[i] = gone[i - Len(logs)]
      BY <1>2, <2>6, <2>7
    <3> QED
      BY <2>2, <3>1
  <2>9. \A i \in (n + 1)..Len(logs') : ~logs'[i].removed /\ logs'[i].event \in in
    <3>1. \A i \in (n + 1)..Len(logs') : i - n \in 1..Len(come) /\ logs'[i] = come[i - n]
      BY <1>2, <2>5, <2>6, <2>7
    <3> QED
      BY <2>3, <3>1
  <2>10. \A e \in out : \E i \in (Len(logs) + 1)..n :
           logs'[i] = [event |-> e, removed |-> TRUE]
    <3>1. \A i \in 1..Len(gone) : Len(logs) + i \in (Len(logs) + 1)..n
      BY <1>2, <2>6
    <3> QED
      BY <2>2, <2>7, <3>1
  <2>11. \A e \in in : \E i \in (n + 1)..Len(logs') :
           logs'[i] = [event |-> e, removed |-> FALSE]
    <3>1. \A i \in 1..Len(come) : n + i \in (n + 1)..Len(logs')
      BY <1>2, <2>5, <2>6
    <3> QED
      BY <2>3, <2>7, <3>1
  <2>12. n \in Len(logs)..Len(logs') /\ Len(logs') >= Len(logs)
    BY <1>2, <2>5, <2>6
  <2> HIDE DEF n
  <2> QED
    BY <2>5, <2>7, <2>8, <2>9, <2>10, <2>11, <2>12 DEF Sends, out, in
<1>4. CASE ~connected
  <2>1. logs' = logs
    BY <1>4 DEF Publish
  <2>2. Len(logs) \in Len(logs)..Len(logs') /\ (Len(logs) + 1)..Len(logs) = {}
    BY <1>2, <2>1
  <2> QED
    BY <1>2, <1>4, <2>1, <2>2 DEF Sends
<1> QED
  BY <1>3, <1>4

LEMMA HeadersAreSent ==
  ASSUME TypeOK, Heights, NEW blocks \in Seq(Block), NEW from \in 1..Len(blocks),
         Len(chain) <= Len(blocks), Publish(blocks, from)
  PROVE  /\ headers' \in Seq(Nat)
         /\ \A i \in DOMAIN headers' : headers'[i] <= Len(blocks)
<1> DEFINE new == [i \in 1..(Len(blocks) - from + 1) |-> from + i - 1]
<1>1. /\ headers \in Seq(Nat) /\ DOMAIN headers = 1..Len(headers) /\ Len(headers) \in Nat
      /\ Len(blocks) \in Nat /\ Len(chain) \in Nat
  BY LenProperties DEF TypeOK
<1>2. \A i \in 1..Len(headers) : headers[i] \in Nat /\ headers[i] <= Len(blocks)
  <2>1. \A i \in 1..Len(headers) : headers[i] \in Nat
    BY <1>1, ElementOfSeq
  <2>2. \A i \in 1..Len(headers) : headers[i] <= Len(chain)
    BY <1>1 DEF Heights
  <2> QED
    BY <1>1, <2>1, <2>2
<1>3. CASE connected
  <2>1. headers' = headers \o new
    BY <1>3 DEF Publish
  <2>2. \A i \in 1..(Len(blocks) - from + 1) : new[i] \in Nat /\ new[i] <= Len(blocks)
    BY <1>1
  <2>3. new \in Seq(Nat) /\ Len(new) = Len(blocks) - from + 1
    <3>1. new \in [1..(Len(blocks) - from + 1) -> Nat] /\ Len(blocks) - from + 1 \in Nat
      BY <1>1, <2>2
    <3>2. new \in Seq(Nat)
      BY <3>1, SeqDef
    <3>3. DOMAIN new = 1..Len(new) /\ Len(new) \in Nat
      BY <3>2, LenProperties
    <3> QED
      BY <3>1, <3>2, <3>3
  <2> HIDE DEF new
  <2>4. /\ headers' \in Seq(Nat)
        /\ Len(headers') = Len(headers) + Len(new)
        /\ \A i \in 1..(Len(headers) + Len(new)) :
             headers'[i] = IF i <= Len(headers) THEN headers[i] ELSE new[i - Len(headers)]
    BY <1>1, <2>1, <2>3, ConcatProperties
  <2>5. \A i \in 1..(Len(headers) + Len(new)) : i <= Len(headers) \/ i - Len(headers) \in 1..Len(new)
    BY <1>1, <2>3
  <2>6. DOMAIN headers' = 1..Len(headers')
    BY <2>4, LenProperties
  <2>7. \A i \in 1..Len(new) : new[i] <= Len(blocks)
    BY <2>2, <2>3
  <2>8. ASSUME NEW i \in 1..Len(headers') PROVE headers'[i] <= Len(blocks)
    <3>1. i \in 1..(Len(headers) + Len(new))
      BY <2>4
    <3>2. CASE i <= Len(headers)
      <4>1. i \in 1..Len(headers) /\ headers'[i] = headers[i]
        BY <1>1, <2>4, <3>1, <3>2
      <4> QED
        BY <1>2, <4>1
    <3>3. CASE ~(i <= Len(headers))
      <4>1. i - Len(headers) \in 1..Len(new)
        BY <2>5, <3>1, <3>3
      <4>2. headers'[i] = new[i - Len(headers)]
        BY <2>4, <3>1, <3>3
      <4> QED
        BY <2>7, <4>1, <4>2
    <3> QED
      BY <3>2, <3>3
  <2> QED
    BY <2>4, <2>6, <2>8
<1>4. CASE ~connected
  BY <1>1, <1>2, <1>4 DEF Publish
<1> QED
  BY <1>3, <1>4

-----------------------------------------------------------------------------
(* A longer chain, of the same branch or another. *)

Grows ==
  /\ chain' \in Seq(Block)
  /\ Len(chain') = Len(chain) + 1
  /\ forks' \in Nat /\ forks <= forks'
  /\ \A i \in 1..Len(chain') : chain'[i].fork <= forks'
  \* Nothing that is known comes back, or has still to be produced.
  /\ \A e \in Known : e \in EventsOf(chain') => e \in EventsOf(chain)
  /\ \A e \in Known : e.number \in 1..Len(chain') /\ e.fork <= forks'
  \* What a provider may still answer was in the chain.
  /\ stale' \subseteq stale \cup EventsOf(chain)
  \* The blocks that are dropped are the last.
  /\ \A e \in EventsOf(chain) \ EventsOf(chain'), f \in EventsOf(chain) \cap EventsOf(chain') :
       f.number < e.number
  /\ forks' = 0 => forks = 0 /\ stale' = stale /\ EventsOf(chain) \subseteq EventsOf(chain')

\* Whatever else the chain does is to the streams.
Streams ==
  /\ headers' \in Seq(Nat)
  /\ \A i \in DOMAIN headers' : headers'[i] <= Len(chain')
  /\ Sends(EventsOf(chain) \ EventsOf(chain'), EventsOf(chain') \ EventsOf(chain))
  /\ UNCHANGED <<confirmations, connected, disconnects, failures, pc, engine>>

LEMMA KnownAreEvents == TypeOK => Known \in SUBSET Event
<1> SUFFICES ASSUME TypeOK PROVE Known \in SUBSET Event
  OBVIOUS
<1>1. \A i \in DOMAIN logs : logs[i] \in Log
  BY LenProperties, ElementOfSeq DEF TypeOK
<1> QED
  BY <1>1 DEF Known, TypeOK, Log

LEMMA NewBlockGrows ==
  ASSUME IInv, NewBlock
  PROVE  Grows /\ Streams
<1>1. TypeOK /\ Heights /\ Produced
  BY DEF IInv
<1>2. PICK event \in BOOLEAN :
        /\ chain' = Append(chain, [fork |-> forks, event |-> event])
        /\ Publish(chain', Len(chain'))
  BY DEF NewBlock
<1>3. chain \in Seq(Block) /\ Len(chain) \in Nat /\ forks \in Nat
  BY <1>1, LenProperties DEF TypeOK
<1> DEFINE block == [fork |-> forks, event |-> event]
<1>4. /\ chain' \in Seq(Block)
      /\ Len(chain') = Len(chain) + 1
      /\ \A i \in 1..Len(chain) : chain'[i] = chain[i]
      /\ chain'[Len(chain) + 1] = block
  <2>1. block \in Block
    BY <1>3 DEF Block
  <2> QED
    BY <1>2, <1>3, <2>1, AppendProperties
<1>5. \A i \in 1..Len(chain') : chain'[i].fork <= forks'
  <2>1. DOMAIN chain = 1..Len(chain)
    BY <1>3, LenProperties
  <2>2. \A i \in 1..Len(chain') : i \in 1..Len(chain) \/ i = Len(chain) + 1
    BY <1>3, <1>4
  <2> QED
    BY <1>1, <1>3, <1>4, <2>1, <2>2 DEF Heights, NewBlock
<1>6. EventsOf(chain) \subseteq EventsOf(chain')
  <2>1. \A n \in 1..Len(chain) : n \in 1..Len(chain')
    BY <1>3, <1>4
  <2> QED
    BY <1>3, <1>4, <2>1, EventsAre
<1>7. ASSUME NEW e \in EventsOf(chain'), e \notin EventsOf(chain)
      PROVE  e.number = Len(chain) + 1 /\ e.fork = forks
  <2>1. PICK n \in 1..Len(chain') :
          chain'[n].event /\ e = [number |-> n, fork |-> chain'[n].fork]
    BY <1>4, EventsAre
  <2>2. n \notin 1..Len(chain)
    BY <1>3, <1>4, <1>7, <2>1, EventsAre
  <2>3. n = Len(chain) + 1
    BY <1>3, <1>4, <2>2
  <2> QED
    BY <1>4, <2>1, <2>3
<1>8. forks' = forks /\ stale' = stale
  BY DEF NewBlock
<1>9. \A e \in Known : e.number \in 1..Len(chain) /\ e.fork <= forks
  BY <1>1 DEF Produced
<1>10. \A e \in Known : e \in EventsOf(chain') => e \in EventsOf(chain)
  BY <1>3, <1>7, <1>9
<1>11. Grows
  <2>1. \A e \in Known : e.number \in 1..Len(chain')
    BY <1>3, <1>4, <1>9
  <2> QED
    BY <1>3, <1>4, <1>5, <1>6, <1>8, <1>9, <1>10, <2>1 DEF Grows
<1>12. Streams
  <2>1. Len(chain') \in 1..Len(chain') /\ Len(chain) <= Len(chain')
    BY <1>3, <1>4
  <2>2. headers' \in Seq(Nat) /\ \A i \in DOMAIN headers' : headers'[i] <= Len(chain')
    BY <1>1, <1>2, <1>4, <2>1, HeadersAreSent
  <2>3. Sends(EventsOf(chain) \ EventsOf(chain'), EventsOf(chain') \ EventsOf(chain))
    BY <1>1, <1>2, <1>4, LogsAreSent
  <2> QED
    BY <2>2, <2>3 DEF Streams, NewBlock
<1> QED
  BY <1>11, <1>12

LEMMA ReorganiseGrows ==
  ASSUME IInv, Reorganise
  PROVE  Grows /\ Streams
<1>1. TypeOK /\ Heights /\ Produced
  BY DEF IInv
<1>2. chain \in Seq(Block) /\ Len(chain) \in Nat /\ forks \in Nat /\ DOMAIN chain = 1..Len(chain)
  BY <1>1, LenProperties DEF TypeOK
<1>0. PICK dropped \in 1..ForkDepth :
        /\ dropped <= Len(chain)
        /\ \E events \in [1..(dropped + 1) -> BOOLEAN] :
             chain' = SubSeq(chain, 1, Len(chain) - dropped) \o
                      [i \in 1..(dropped + 1) |-> [fork |-> forks + 1, event |-> events[i]]]
        /\ Publish(chain', Len(chain) - dropped + 1)
  BY DEF Reorganise
<1>3. PICK events \in [1..(dropped + 1) -> BOOLEAN] :
        /\ dropped <= Len(chain)
        /\ chain' = SubSeq(chain, 1, Len(chain) - dropped) \o
                    [i \in 1..(dropped + 1) |-> [fork |-> forks + 1, event |-> events[i]]]
        /\ Publish(chain', Len(chain) - dropped + 1)
  BY <1>0
<1>4. dropped \in Nat
  BY ConstantsAssumption
<1> DEFINE kept == Len(chain) - dropped
           branch == [i \in 1..(dropped + 1) |-> [fork |-> forks + 1, event |-> events[i]]]
<1>5. kept \in Nat /\ kept + dropped = Len(chain)
  BY <1>2, <1>3, <1>4
<1>6. /\ SubSeq(chain, 1, kept) \in Seq(Block)
      /\ Len(SubSeq(chain, 1, kept)) = kept
      /\ \A i \in 1..kept : SubSeq(chain, 1, kept)[i] = chain[i]
  <2>1. \A i \in 1..kept : chain[i] \in Block
    BY <1>2, <1>4, <1>5, ElementOfSeq
  <2> HIDE DEF kept
  <2>2. /\ SubSeq(chain, 1, kept) \in Seq(Block)
        /\ Len(SubSeq(chain, 1, kept)) = IF 1 <= kept THEN kept - 1 + 1 ELSE 0
        /\ \A i \in 1..(kept - 1 + 1) : SubSeq(chain, 1, kept)[i] = chain[1 + i - 1]
    BY <1>5, <2>1, SubSeqProperties
  <2> QED
    BY <1>5, <2>2
<1>7. branch \in Seq(Block) /\ Len(branch) = dropped + 1
  <2>1. branch \in [1..(dropped + 1) -> Block] /\ dropped + 1 \in Nat
    BY <1>2, <1>3, <1>4 DEF Block
  <2>2. branch \in Seq(Block)
    BY <2>1, SeqDef
  <2>3. DOMAIN branch = 1..Len(branch) /\ Len(branch) \in Nat
    BY <2>2, LenProperties
  <2> QED
    BY <2>1, <2>2, <2>3
<1>8. \A i \in 1..(dropped + 1) : branch[i].fork = forks + 1
  OBVIOUS
<1>9. chain' = SubSeq(chain, 1, kept) \o branch
  BY <1>3
<1>10. /\ forks' = forks + 1
       /\ stale' \subseteq stale \cup EventsOf(chain)
  BY DEF Reorganise
<1> HIDE DEF branch
<1>11. /\ chain' \in Seq(Block)
       /\ Len(chain') = Len(chain) + 1
       /\ \A i \in 1..kept : chain'[i] = chain[i]
       /\ \A i \in (kept + 1)..Len(chain') : chain'[i].fork = forks + 1
  <2>1. /\ chain' \in Seq(Block)
        /\ Len(chain') = kept + Len(branch)
        /\ \A i \in 1..(kept + Len(branch)) :
             chain'[i] = IF i <= kept THEN SubSeq(chain, 1, kept)[i] ELSE branch[i - kept]
    BY <1>6, <1>7, <1>9, ConcatProperties
  <2>2. Len(chain') = Len(chain) + 1
    BY <1>2, <1>4, <1>5, <1>7, <2>1
  <2> HIDE DEF kept
  <2>3. ASSUME NEW i \in 1..kept PROVE chain'[i] = chain[i]
    <3>1. i \in 1..(kept + Len(branch)) /\ i <= kept
      BY <1>4, <1>5, <1>7
    <3>2. chain'[i] = SubSeq(chain, 1, kept)[i]
      BY <2>1, <3>1
    <3> QED
      BY <1>6, <3>2
  <2>4. ASSUME NEW i \in (kept + 1)..Len(chain')
        PROVE  chain'[i] = branch[i - kept] /\ i - kept \in 1..(dropped + 1)
    <3>1. i \in 1..(kept + Len(branch)) /\ ~(i <= kept) /\ i - kept \in 1..(dropped + 1)
      BY <1>4, <1>5, <1>7, <2>1
    <3> QED
      BY <2>1, <3>1
  <2> QED
    BY <1>8, <2>1, <2>2, <2>3, <2>4
<1> HIDE DEF kept
<1>12. \A e \in EventsOf(chain) : e.fork <= forks /\ e.number \in 1..Len(chain)
  BY <1>1, <1>2, EventsAreEvents DEF Heights
<1>13. ASSUME NEW e \in EventsOf(chain), e.number <= kept
       PROVE  e \in EventsOf(chain')
  <2>1. PICK n \in 1..Len(chain) : chain[n].event /\ e = [number |-> n, fork |-> chain[n].fork]
    BY <1>2, EventsAre
  <2>2. n \in 1..kept /\ n \in 1..Len(chain')
    BY <1>2, <1>5, <1>11, <1>13, <2>1
  <2> QED
    BY <1>11, <2>1, <2>2, EventsAre
<1>14. ASSUME NEW e \in EventsOf(chain')
       PROVE  e.fork = forks + 1 \/ (e \in EventsOf(chain) /\ e.number <= kept)
  <2>1. PICK n \in 1..Len(chain') :
          chain'[n].event /\ e = [number |-> n, fork |-> chain'[n].fork]
    BY <1>11, EventsAre
  <2>2. CASE n <= kept
    <3>1. n \in 1..kept /\ n \in 1..Len(chain)
      BY <1>2, <1>4, <1>5, <2>2
    <3> QED
      BY <1>2, <1>11, <2>1, <2>2, <3>1, EventsAre
  <2>3. CASE n > kept
    <3>1. n \in (kept + 1)..Len(chain')
      BY <1>5, <2>3
    <3> QED
      BY <1>11, <2>1, <3>1
  <2> QED
    BY <1>5, <2>2, <2>3
<1>15. \A e \in Known : e.fork \in Nat /\ e.fork <= forks
  BY <1>1, KnownAreEvents DEF Produced, Event
<1>16. EventsOf(chain) \subseteq Event
  BY <1>2, EventsAreEvents
<1>17. Grows
  <2>1. \A i \in 1..Len(chain') : chain'[i].fork <= forks'
    <3>1. \A i \in 1..Len(chain') : i \in 1..kept \/ i \in (kept + 1)..Len(chain')
      BY <1>5
    <3>2. \A i \in 1..kept : chain[i].fork \in Nat /\ chain[i].fork <= forks
      <4>1. \A i \in 1..kept : i \in 1..Len(chain)
        BY <1>2, <1>4, <1>5
      <4>2. \A i \in 1..Len(chain) : chain[i] \in Block
        BY <1>2, ElementOfSeq
      <4> QED
        BY <1>1, <1>2, <4>1, <4>2 DEF Heights, Block
    <3> QED
      BY <1>2, <1>10, <1>11, <3>1, <3>2
  <2>2. \A e \in Known : e \in EventsOf(chain') => e \in EventsOf(chain)
    BY <1>2, <1>14, <1>15
  <2>3. \A e \in Known : e.number \in 1..Len(chain') /\ e.fork <= forks'
    BY <1>1, <1>2, <1>10, <1>11, <1>15 DEF Produced
  <2>4. \A e \in EventsOf(chain) \ EventsOf(chain'), f \in EventsOf(chain) \cap EventsOf(chain') :
          f.number < e.number
    <3>1. ASSUME NEW e \in EventsOf(chain), e \notin EventsOf(chain')
          PROVE  e.number > kept /\ e.number \in Nat
      BY <1>5, <1>12, <1>13, <3>1
    <3>2. ASSUME NEW f \in EventsOf(chain), f \in EventsOf(chain')
          PROVE  f.number <= kept /\ f.number \in Nat
      <4>1. f.fork # forks + 1
        BY <1>2, <1>12, <1>16 DEF Event
      <4> QED
        BY <1>12, <1>14, <3>2, <4>1
    <3> QED
      BY <1>5, <3>1, <3>2
  <2>5. forks' \in Nat /\ forks <= forks' /\ forks' # 0
    BY <1>2, <1>10
  <2> QED
    BY <1>10, <1>11, <2>1, <2>2, <2>3, <2>4, <2>5 DEF Grows
<1>18. Streams
  <2>1. Len(chain) - dropped + 1 \in 1..Len(chain') /\ Len(chain) <= Len(chain')
    BY <1>2, <1>3, <1>4, <1>11
  <2>2. headers' \in Seq(Nat) /\ \A i \in DOMAIN headers' : headers'[i] <= Len(chain')
    BY <1>1, <1>3, <1>11, <2>1, HeadersAreSent
  <2>3. Sends(EventsOf(chain) \ EventsOf(chain'), EventsOf(chain') \ EventsOf(chain))
    BY <1>1, <1>3, <1>11, LogsAreSent
  <2> QED
    BY <2>2, <2>3 DEF Streams, Reorganise
<1> QED
  BY <1>17, <1>18

\* What lies on its way stays there, and only what has left the chain or has come
\* into it is added.
LEMMA Positions ==
  ASSUME TypeOK, Grows, Streams
  PROVE  /\ DOMAIN logs = 1..Len(logs) /\ DOMAIN logs' = 1..Len(logs')
         /\ Len(logs) \in Nat /\ Len(logs') \in Nat
         /\ \A i \in DOMAIN logs : i \in DOMAIN logs' /\ logs'[i] = logs[i]
         /\ \A i \in DOMAIN logs' :
              \/ i \in DOMAIN logs
              \/ /\ logs'[i].removed
                 /\ logs'[i].event \in EventsOf(chain) \ EventsOf(chain')
              \/ /\ ~logs'[i].removed
                 /\ logs'[i].event \in EventsOf(chain') \ EventsOf(chain)
         /\ \A e \in Known' :
              e \in Known \/ e \in EventsOf(chain) \/ e \in EventsOf(chain')
<1>1. /\ DOMAIN logs = 1..Len(logs) /\ DOMAIN logs' = 1..Len(logs')
      /\ Len(logs) \in Nat /\ Len(logs') \in Nat
  BY LenProperties DEF TypeOK, Streams, Sends
<1>2. \A i \in DOMAIN logs : i \in DOMAIN logs' /\ logs'[i] = logs[i]
  BY <1>1 DEF Streams, Sends
<1>3. ASSUME NEW i \in DOMAIN logs', i \notin DOMAIN logs
      PROVE  \/ /\ logs'[i].removed
                /\ logs'[i].event \in EventsOf(chain) \ EventsOf(chain')
             \/ /\ ~logs'[i].removed
                /\ logs'[i].event \in EventsOf(chain') \ EventsOf(chain)
  <2>1. PICK n \in Len(logs)..Len(logs') :
          /\ \A j \in (Len(logs) + 1)..n :
               logs'[j].removed /\ logs'[j].event \in EventsOf(chain) \ EventsOf(chain')
          /\ \A j \in (n + 1)..Len(logs') :
               ~logs'[j].removed /\ logs'[j].event \in EventsOf(chain') \ EventsOf(chain)
    BY DEF Streams, Sends
  <2>2. i \in (Len(logs) + 1)..n \/ i \in (n + 1)..Len(logs')
    BY <1>1, <1>3
  <2> QED
    BY <2>1, <2>2
<1>4. ASSUME NEW e \in Known'
      PROVE  e \in Known \/ e \in EventsOf(chain) \/ e \in EventsOf(chain')
  <2>1. CASE e \in told' \/ e \in stale'
    BY <2>1 DEF Grows, Streams, engine, Known
  <2>2. CASE e \notin told' /\ e \notin stale'
    <3>1. PICK i \in DOMAIN logs' : e = logs'[i].event
      BY <2>2 DEF Known
    <3> QED
      BY <1>2, <1>3, <3>1 DEF Known
  <2> QED
    BY <2>1, <2>2
<1> QED
  BY <1>1, <1>2, <1>3, <1>4

LEMMA OnItsWayStays ==
  ASSUME TypeOK, Grows, Streams, NEW e
  PROVE  OnItsWay(e) => OnItsWay(e)'
  BY Positions DEF OnItsWay

LEMMA NewIsOnItsWay ==
  ASSUME TypeOK, Grows, Streams, connected, NEW e \in EventsOf(chain') \ EventsOf(chain)
  PROVE  OnItsWay(e)'
<1>1. PICK n \in Len(logs)..Len(logs') : \E i \in (n + 1)..Len(logs') :
        logs'[i] = [event |-> e, removed |-> FALSE]
  BY DEF Streams, Sends
<1>2. PICK i \in (n + 1)..Len(logs') : logs'[i] = [event |-> e, removed |-> FALSE]
  BY <1>1
<1>3. i \in DOMAIN logs'
  BY <1>2, Positions
<1> QED
  BY <1>2, <1>3 DEF OnItsWay

LEMMA GrowthKeepsTypes ==
  ASSUME IInv, Grows, Streams
  PROVE  TypeOK' /\ Heights' /\ Produced' /\ Connection' /\ Deep'
<1>1. TypeOK /\ Heights /\ Produced /\ Connection /\ Deep
  BY DEF IInv
<1>2. /\ Len(chain) \in Nat /\ Len(chain') = Len(chain) + 1
      /\ DOMAIN chain = 1..Len(chain) /\ DOMAIN chain' = 1..Len(chain')
  BY <1>1, LenProperties DEF Grows, TypeOK
<1>3. TypeOK'
  <2>1. stale' \subseteq Event
    BY <1>1, EventsAreEvents DEF TypeOK, Grows
  <2> QED
    BY <1>1, <2>1 DEF TypeOK, Grows, Streams, Sends, engine
<1>4. Heights'
  <2>1. lastSeen \in Nat /\ target \in Nat /\ lastSeen <= Len(chain) /\ target <= Len(chain)
        /\ (pc = "query" /\ ~short => lastSeen <= target)
    BY <1>1 DEF TypeOK, Heights
  <2>2. lastSeen' = lastSeen /\ target' = target /\ pc' = pc /\ short' = short
    BY DEF Streams, engine
  <2>3. /\ lastSeen' <= Len(chain') /\ target' <= Len(chain')
        /\ pc' = "query" /\ ~short' => lastSeen' <= target'
    BY <1>2, <2>1, <2>2
  <2> QED
    BY <1>2, <2>3 DEF Heights, Grows, Streams
<1>5. Produced'
  <2> SUFFICES ASSUME NEW e \in Known'
               PROVE  e.number \in 1..Len(chain') /\ e.fork <= forks'
    BY DEF Produced
  <2>1. CASE e \in Known
    BY <2>1 DEF Grows
  <2>2. CASE e \in EventsOf(chain)
    <3>1. e \in Event /\ e.number \in 1..Len(chain) /\ e.fork = chain[e.number].fork
      BY <1>1, <2>2, EventsAreEvents DEF TypeOK
    <3>2. e.fork <= forks /\ forks \in Nat /\ e.fork \in Nat /\ forks' \in Nat /\ forks <= forks'
      BY <1>1, <1>2, <3>1 DEF Heights, TypeOK, Grows, Event
    <3> QED
      BY <1>2, <3>1, <3>2
  <2>3. CASE e \in EventsOf(chain')
    <3>1. e.number \in 1..Len(chain') /\ e.fork = chain'[e.number].fork
      BY <2>3, EventsAreEvents DEF Grows
    <3> QED
      BY <1>2, <3>1 DEF Grows
  <2> QED
    BY <1>1, <2>1, <2>2, <2>3, Positions
<1>6. Connection'
  BY <1>1 DEF Connection, Streams
<1>7. Deep'
  <2>1. pc' = pc /\ ReadyAtOnce' = ReadyAtOnce /\ Needed' = Needed
    BY DEF Streams, engine, ReadyAtOnce, Needed
  <2>2. Needed \in Int
    <3>1. pending.number \in Nat /\ confirmations \in Nat
      BY <1>1 DEF TypeOK, Event, NoEvent
    <3> QED
      BY <3>1 DEF Needed
  <2> QED
    BY <1>1, <1>2, <2>1, <2>2 DEF Deep
<1> QED
  BY <1>3, <1>4, <1>5, <1>6, <1>7

LEMMA GrowthKeepsStreams ==
  ASSUME IInv, Grows, Streams
  PROVE  Covered' /\ RemovedIsGone' /\ Unforked' /\ BackfillMeetsStream'
<1>1. TypeOK /\ Covered /\ RemovedIsGone /\ Unforked /\ BackfillMeetsStream
  BY DEF IInv
<1>2. /\ pc' = pc /\ connected' = connected /\ told' = told /\ lost' = lost
      /\ target' = target /\ short' = short
  BY DEF Streams, engine
<1>3. Covered'
  <2> SUFFICES ASSUME pc' = "query", connected', ~short', NEW e \in EventsOf(chain'), e.number > target'
               PROVE  OnItsWay(e)'
    BY DEF Covered
  <2> QED
    BY <1>1, <1>2, OnItsWayStays, NewIsOnItsWay DEF Covered
<1>4. RemovedIsGone'
  <2> SUFFICES ASSUME NEW i \in DOMAIN logs', logs'[i].removed
               PROVE  logs'[i].event \notin EventsOf(chain')
    BY DEF RemovedIsGone, OnChain
  <2>1. CASE i \in DOMAIN logs
    <3>1. logs'[i] = logs[i]
      BY <1>1, <2>1, Positions
    <3> QED
      BY <1>1, <2>1, <3>1 DEF RemovedIsGone, OnChain, Grows, Known
  <2> QED
    BY <1>1, <2>1, Positions
<1>5. Unforked'
  <2> SUFFICES ASSUME forks' = 0
               PROVE  /\ stale' = {}
                      /\ told' \subseteq EventsOf(chain')
                      /\ \A i \in DOMAIN logs' :
                           ~logs'[i].removed /\ logs'[i].event \in EventsOf(chain')
                      /\ pc' # "ended" =>
                           \A e \in told' \ lost' :
                             pending' # NoEvent /\ pending'.number <= e.number
    BY DEF Unforked, OnChain
  <2>1. forks = 0 /\ stale' = stale /\ EventsOf(chain) \subseteq EventsOf(chain')
    BY DEF Grows
  <2>2. told' \subseteq EventsOf(chain')
    BY <1>1, <1>2, <2>1 DEF Unforked
  <2>3. ASSUME NEW i \in DOMAIN logs'
        PROVE  ~logs'[i].removed /\ logs'[i].event \in EventsOf(chain')
    <3>1. CASE i \in DOMAIN logs
      <4>1. logs'[i] = logs[i]
        BY <1>1, <3>1, Positions
      <4> QED
        BY <1>1, <2>1, <3>1, <4>1 DEF Unforked, OnChain
    <3> QED
      BY <1>1, <2>1, <3>1, Positions
  <2>4. pending' = pending
    BY DEF Streams, engine
  <2> QED
    BY <1>1, <1>2, <2>1, <2>2, <2>3, <2>4 DEF Unforked
<1>6. BackfillMeetsStream'
  <2> SUFFICES ASSUME connected', ~short', pc' \in {"monitor", "check", "prepare", "mint"},
                      NEW e \in EventsOf(chain'), e.number >= target' - 1
               PROVE  e \in told' \/ OnItsWay(e)'
    BY DEF BackfillMeetsStream
  <2>1. CASE e \in EventsOf(chain)
    <3>1. e \in told \/ OnItsWay(e)
      BY <1>1, <1>2, <2>1 DEF BackfillMeetsStream
    <3> QED
      BY <1>1, <1>2, <3>1, OnItsWayStays
  <2>2. CASE e \notin EventsOf(chain)
    BY <1>1, <1>2, <2>2, NewIsOnItsWay
  <2> QED
    BY <2>1, <2>2
<1> QED
  BY <1>3, <1>4, <1>5, <1>6

\* A removal that is on its way still comes before all that replaces the event.
LEMMA WithdrawnStays ==
  ASSUME IInv, Grows, Streams, disconnects = 0, NEW e \in Known, NEW i \in Nat,
         e \notin EventsOf(chain), Withdrawn(e, i)
  PROVE  Withdrawn(e, i)'
<1>1. TypeOK
  BY DEF IInv
<1>2. PICK k \in DOMAIN logs :
        /\ k > i
        /\ logs[k] = [event |-> e, removed |-> TRUE]
        /\ \A j \in DOMAIN logs :
             ~logs[j].removed /\ OnChain(logs[j].event) /\ logs[j].event.number >= e.number
               => j > k
  BY DEF Withdrawn
<1>3. \A f \in told' : OnChain(f)' => f.number < e.number
  <2>1. told' = told /\ told \subseteq Known
    BY DEF Streams, engine, Known
  <2> QED
    BY <2>1 DEF Withdrawn, OnChain, Grows
<1>4. k \in DOMAIN logs' /\ logs'[k] = logs[k]
  BY <1>1, Positions
<1>5. ASSUME NEW j \in DOMAIN logs', ~logs'[j].removed, logs'[j].event \in EventsOf(chain'),
             logs'[j].event.number >= e.number
      PROVE  j > k
  <2>1. CASE j \in DOMAIN logs
    <3>1. logs'[j] = logs[j] /\ logs[j].event \in Known
      BY <1>1, <2>1, Positions DEF Known
    <3>2. OnChain(logs[j].event)
      BY <1>5, <3>1 DEF OnChain, Grows
    <3> QED
      BY <1>2, <1>5, <2>1, <3>1, <3>2
  <2>2. CASE j \notin DOMAIN logs
    BY <1>1, <2>2, Positions
  <2> QED
    BY <2>1, <2>2
<1>7. /\ k \in DOMAIN logs' /\ k > i /\ logs'[k] = [event |-> e, removed |-> TRUE]
      /\ \A j \in DOMAIN logs' :
           ~logs'[j].removed /\ OnChain(logs[j].event)' /\ logs'[j].event.number >= e.number
             => j > k
  BY <1>2, <1>4, <1>5 DEF OnChain
<1> QED
  BY <1>3, <1>7 DEF Withdrawn

\* An event that a fork drops is withdrawn behind everything that was sent before.
LEMMA DroppedIsWithdrawn ==
  ASSUME IInv, Grows, Streams, connected, NEW e \in EventsOf(chain), e \notin EventsOf(chain'),
         NEW i \in 0..Len(logs)
  PROVE  Withdrawn(e, i)'
<1>1. TypeOK /\ told' = told /\ told \subseteq Known
  BY DEF IInv, Streams, engine, Known
<1>0. PICK n \in Len(logs)..Len(logs') :
        /\ \E k \in (Len(logs) + 1)..n : logs'[k] = [event |-> e, removed |-> TRUE]
        /\ \A j \in (Len(logs) + 1)..n : logs'[j].removed
  BY DEF Streams, Sends
<1>2. PICK k \in (Len(logs) + 1)..n : logs'[k] = [event |-> e, removed |-> TRUE]
  BY <1>0
<1>3. k \in DOMAIN logs' /\ k > i
  BY <1>1, <1>2, Positions
<1>4. e \in Event /\ \A f \in EventsOf(chain) : f \in Event
  BY <1>1, EventsAreEvents DEF TypeOK
<1>5. \A f \in told' : OnChain(f)' => f.number < e.number
  BY <1>1 DEF OnChain, Grows
<1>6. ASSUME NEW j \in DOMAIN logs', ~logs'[j].removed, logs'[j].event \in EventsOf(chain'),
             logs'[j].event.number >= e.number
      PROVE  j > k
  <2>1. j \notin DOMAIN logs
    <3> SUFFICES ASSUME j \in DOMAIN logs PROVE FALSE
      OBVIOUS
    <3>1. logs'[j] = logs[j] /\ logs[j].event \in Known
      BY <1>1, Positions DEF Known
    <3>2. logs'[j].event \in EventsOf(chain) /\ logs'[j].event \in EventsOf(chain')
      BY <1>6, <3>1 DEF OnChain, Grows
    <3>3. logs'[j].event.number < e.number
      BY <3>2 DEF Grows
    <3> QED
      BY <1>4, <1>6, <3>2, <3>3 DEF Event
  <2>2. j \notin (Len(logs) + 1)..n
    BY <1>0, <1>6
  <2> QED
    BY <1>1, <1>2, <2>1, <2>2, Positions
<1>7. /\ k \in DOMAIN logs' /\ k > i /\ logs'[k] = [event |-> e, removed |-> TRUE]
      /\ \A j \in DOMAIN logs' :
           ~logs'[j].removed /\ OnChain(logs[j].event)' /\ logs'[j].event.number >= e.number
             => j > k
  BY <1>2, <1>3, <1>6 DEF OnChain
<1> QED
  BY <1>5, <1>7 DEF Withdrawn

LEMMA GrowthKeepsOrder ==
  ASSUME IInv, Grows, Streams
  PROVE  Ordered' /\ ActivationIsKept'
<1>1. TypeOK /\ Ordered /\ Connection /\ ActivationIsKept
  BY DEF IInv
<1>2. /\ disconnects' = disconnects /\ pending' = pending /\ told' = told
      /\ pc' = pc /\ lost' = lost
  BY DEF Streams, engine
<1>3. Ordered'
  <2> SUFFICES ASSUME disconnects' = 0
               PROVE  /\ pending' # NoEvent /\ pending' \notin EventsOf(chain') => Withdrawn(pending, 0)'
                      /\ \A i \in DOMAIN logs' :
                           ~logs'[i].removed /\ logs'[i].event \notin EventsOf(chain')
                             => Withdrawn(logs[i].event, i)'
    BY <1>2 DEF Ordered, OnChain
  <2>1. connected /\ disconnects = 0 /\ 0 \in 0..Len(logs)
    BY <1>1, <1>2, Positions DEF Connection
  <2>2. ASSUME pending # NoEvent, pending \notin EventsOf(chain')
        PROVE  Withdrawn(pending, 0)'
    <3>1. pending \in Known
      BY <1>1, <2>2 DEF TypeOK, Known
    <3>2. PICK p : p = pending
      OBVIOUS
    <3>3. Withdrawn(p, 0)'
      BY <1>1, <2>1, <2>2, <3>1, <3>2, WithdrawnStays, DroppedIsWithdrawn DEF Ordered, OnChain
    <3> QED
      BY <1>2, <3>2, <3>3
  <2>3. ASSUME NEW i \in DOMAIN logs', ~logs'[i].removed, logs'[i].event \notin EventsOf(chain')
        PROVE  Withdrawn(logs[i].event, i)'
    <3>1. i \in DOMAIN logs
      BY <1>1, <2>3, Positions
    <3>2. PICK e : e = logs[i].event
      OBVIOUS
    <3>3. logs'[i] = logs[i] /\ e \in Known /\ i \in Nat /\ i \in 0..Len(logs)
      BY <1>1, <3>1, <3>2, Positions DEF Known
    <3>4. Withdrawn(e, i)'
      BY <1>1, <2>1, <2>3, <3>1, <3>2, <3>3, WithdrawnStays, DroppedIsWithdrawn DEF Ordered, OnChain
    <3> QED
      BY <3>2, <3>3, <3>4
  <2> QED
    BY <1>2, <2>2, <2>3
<1>4. ActivationIsKept'
  <2> SUFFICES ASSUME pc' # "ended", disconnects' = 0 \/ forks' = 0,
                      NEW e \in told' \ lost', OnChain(e)', ~OnItsWay(e)'
               PROVE  pending' # NoEvent /\ pending'.number <= e.number
    BY DEF ActivationIsKept, Kept
  <2>1. disconnects = 0 \/ forks = 0
    BY <1>2 DEF Grows
  <2>2. e \in told \ lost /\ OnChain(e) /\ ~OnItsWay(e)
    BY <1>1, <1>2, OnItsWayStays DEF OnChain, Grows, Known
  <2> QED
    BY <1>1, <1>2, <2>1, <2>2 DEF ActivationIsKept, Kept
<1> QED
  BY <1>3, <1>4

LEMMA GrowthKeeps ==
  ASSUME IInv, Grows, Streams
  PROVE  IInv'
  BY GrowthKeepsTypes, GrowthKeepsStreams, GrowthKeepsOrder DEF IInv

-----------------------------------------------------------------------------
(* Steps of the monitor. *)

\* Without forks the engine's promise follows from the stronger one.
LEMMA UnforkedIsKept == forks = 0 /\ Unforked => ActivationIsKept
  BY DEF Unforked, ActivationIsKept, Kept

\* What stays true while the chain, the logs and the events that were told do.
LEMMA StillKnown ==
  ASSUME IInv, UNCHANGED <<chain, forks, stale, logs, told>>
  PROVE  /\ Known' = Known /\ Produced' /\ RemovedIsGone'
         /\ \A e : OnChain(e)' <=> OnChain(e)
         /\ \A e : OnItsWay(e)' <=> OnItsWay(e)
         /\ \A e, i : Withdrawn(e, i) => Withdrawn(e, i)'
  BY DEF IInv, Known, Produced, RemovedIsGone, OnChain, OnItsWay, Withdrawn

LEMMA SwitchKeeps ==
  ASSUME IInv, UNCHANGED <<confirmations, blockchain, stream, disconnects, failures, engine>>,
         pc' \in {"monitor", "prepare", "mint", "ended"},
         pc' # "ended" => pc \in {"check", "prepare", "mint"}
  PROVE  IInv'
<1>1. /\ TypeOK /\ Heights /\ Connection /\ Ordered /\ Unforked
      /\ ActivationIsKept /\ BackfillMeetsStream
  BY DEF IInv
<1> USE DEF blockchain, stream, engine
<1>2. TypeOK'
  BY <1>1 DEF TypeOK, PCs
<1>3. Heights' /\ Connection' /\ Deep' /\ Covered'
  BY <1>1 DEF Heights, Connection, Deep, Covered
<1>4. Produced' /\ RemovedIsGone'
  BY StillKnown
<1>5. Ordered'
  BY <1>1 DEF Ordered, OnChain, Withdrawn
<1>6. Unforked'
  BY <1>1 DEF Unforked, OnChain
<1>7. ActivationIsKept'
  BY <1>1 DEF ActivationIsKept, Kept, OnChain, OnItsWay
<1>8. BackfillMeetsStream'
  BY <1>1 DEF BackfillMeetsStream, OnItsWay
<1> QED
  BY <1>2, <1>3, <1>4, <1>5, <1>6, <1>7, <1>8 DEF IInv

LEMMA StutterKeeps ==
  ASSUME IInv, UNCHANGED vars
  PROVE  IInv'
<1> USE DEF vars, blockchain, stream, engine
<1>1. TypeOK' /\ Heights' /\ Connection'
  BY DEF IInv, TypeOK, Heights, Connection
<1>2. Deep' /\ Covered'
  BY DEF IInv, Deep, Covered, ReadyAtOnce, Needed, OnItsWay
<1>3. Produced' /\ RemovedIsGone'
  BY StillKnown
<1>4. Ordered'
  BY DEF IInv, Ordered, OnChain, Withdrawn
<1>5. Unforked'
  BY DEF IInv, Unforked, OnChain
<1>6. ActivationIsKept'
  BY DEF IInv, ActivationIsKept, Kept, OnChain, OnItsWay
<1>7. BackfillMeetsStream'
  BY DEF IInv, BackfillMeetsStream, OnItsWay
<1> QED
  BY <1>1, <1>2, <1>3, <1>4, <1>5, <1>6, <1>7 DEF IInv

LEMMA HeaderKeeps ==
  ASSUME IInv, ObserveHeader
  PROVE  IInv'
<1> USE DEF ObserveHeader, Unchecked, blockchain
<1>1. /\ TypeOK /\ Heights /\ Connection /\ Ordered /\ Unforked
      /\ ActivationIsKept /\ BackfillMeetsStream
  BY DEF IInv
<1>2. headers \in Seq(Nat) /\ headers # <<>> /\ DOMAIN headers = 1..Len(headers)
      /\ Len(headers) \in Nat
  BY <1>1, LenProperties DEF TypeOK
<1>3. /\ Tail(headers) \in Seq(Nat)
      /\ Len(Tail(headers)) = Len(headers) - 1
      /\ \A i \in 1..Len(Tail(headers)) : Tail(headers)[i] = headers[i + 1]
      /\ Head(headers) \in Nat
  BY <1>2, HeadTailProperties
<1>4. Head(headers) = headers[1] /\ 1 \in DOMAIN headers
  BY <1>2
<1>5. Head(headers) <= Len(chain)
  BY <1>1, <1>4 DEF Heights
<1>6. pc' \in {"monitor", "check"} /\ (pc' = "check" => Confirmed(Head(headers)))
  OBVIOUS
<1>7. TypeOK'
  BY <1>1, <1>3, <1>6 DEF TypeOK, PCs, Confirmed
<1>8. Heights'
  <2>1. \A i \in DOMAIN headers' : headers'[i] <= Len(chain)
    <3>1. DOMAIN headers' = 1..Len(headers')
      BY <1>3, LenProperties
    <3>2. \A i \in 1..Len(headers') : i + 1 \in DOMAIN headers
      BY <1>2, <1>3
    <3> QED
      BY <1>1, <1>3, <3>1, <3>2 DEF Heights
  <2> QED
    BY <1>1, <1>5, <1>6, <2>1 DEF Heights
<1>9. Connection' /\ Covered'
  BY <1>1, <1>6 DEF Connection, Covered
<1>10. Deep'
  <2> SUFFICES ASSUME pc' = "check" PROVE Needed <= Len(chain)
    BY DEF Deep, Needed, ReadyAtOnce
  <2>1. Head(headers) >= Needed
    BY <1>6 DEF Confirmed
  <2>2. Needed \in Int
    <3>1. pending.number \in Nat /\ confirmations \in Nat
      BY <1>1 DEF TypeOK, Event, NoEvent
    <3> QED
      BY <3>1 DEF Needed
  <2>3. Len(chain) \in Nat
    BY <1>1, LenProperties DEF TypeOK
  <2> QED
    BY <1>3, <1>5, <2>1, <2>2, <2>3
<1>11. Produced' /\ RemovedIsGone'
  BY StillKnown
<1>12. Ordered'
  BY <1>1 DEF Ordered, OnChain, Withdrawn
<1>13. Unforked'
  BY <1>1 DEF Unforked, OnChain
<1>14. ActivationIsKept'
  BY <1>1 DEF ActivationIsKept, Kept, OnChain, OnItsWay
<1>15. BackfillMeetsStream'
  BY <1>1, <1>6 DEF BackfillMeetsStream, OnItsWay
<1> QED
  BY <1>7, <1>8, <1>9, <1>10, <1>11, <1>12, <1>13, <1>14, <1>15 DEF IInv

\* Nothing depends on a pending event that is not in the chain.
LEMMA PendingIsNeeded ==
  ASSUME IInv, pc = "check", disconnects = 0 \/ forks = 0, ~OnChain(pending),
         NEW e \in told \ lost, OnChain(e)
  PROVE  OnItsWay(e)
<1> SUFFICES ASSUME ~OnItsWay(e) PROVE FALSE
  OBVIOUS
<1>1. pending # NoEvent /\ pending \in told /\ pending \in Event /\ e \in Event
  BY DEF IInv, TypeOK
<1>2. pending.number <= e.number
  BY DEF IInv, ActivationIsKept, Kept
<1>3. forks # 0
  BY <1>1 DEF IInv, Unforked, OnChain
<1>4. e.number < pending.number
  BY <1>1, <1>3 DEF IInv, Ordered, Withdrawn
<1> QED
  BY <1>1, <1>2, <1>4 DEF Event

LEMMA DiscardKeeps ==
  ASSUME IInv, Discard,
         CheckNotCanonical \/ CheckFails
  PROVE  IInv'
<1> USE DEF Discard, Unchecked, blockchain, stream
<1>1. /\ TypeOK /\ Heights /\ Connection /\ Ordered /\ Unforked
      /\ ActivationIsKept /\ BackfillMeetsStream
  BY DEF IInv
<1>2. UNCHANGED <<confirmations, chain, forks, stale, headers, logs, connected, disconnects,
                  lastSeen, target, told, short>>
  BY DEF CheckNotCanonical, CheckFails
<1>3. failures' \in Nat /\ ((~OnChain(pending) /\ lost' = lost) \/ lost' = told)
  BY <1>1 DEF CheckNotCanonical, CheckFails, TypeOK
<1>4. TypeOK'
  BY <1>1, <1>2, <1>3 DEF TypeOK, PCs
<1>5. Heights' /\ Connection' /\ Deep' /\ Covered'
  BY <1>1, <1>2 DEF Heights, Connection, Deep, Covered
<1>6. Produced' /\ RemovedIsGone'
  BY <1>2, StillKnown
<1>7. Ordered'
  BY <1>1, <1>2 DEF Ordered, OnChain, Withdrawn
<1>8. Unforked'
  <2> SUFFICES ASSUME forks = 0 PROVE told' \ lost' = {}
    BY <1>1, <1>2 DEF Unforked, OnChain
  <2>1. pending \in told
    BY <1>1 DEF TypeOK
  <2> QED
    BY <1>1, <1>2, <1>3, <2>1 DEF Unforked, OnChain
<1>9. ActivationIsKept'
  <2> SUFFICES ASSUME disconnects' = 0 \/ forks' = 0, NEW e \in told' \ lost',
                      OnChain(e)', ~OnItsWay(e)'
               PROVE  FALSE
    BY DEF ActivationIsKept, Kept
  <2>1. e \in told \ lost /\ OnChain(e) /\ ~OnItsWay(e) /\ ~OnChain(pending)
    BY <1>2, <1>3 DEF OnChain, OnItsWay
  <2> QED
    BY <1>2, <2>1, PendingIsNeeded
<1>10. BackfillMeetsStream'
  BY <1>1, <1>2 DEF BackfillMeetsStream, OnItsWay
<1> QED
  BY <1>4, <1>5, <1>6, <1>7, <1>8, <1>9, <1>10 DEF IInv

\* The rest of the logs, when the first is read.
LEMMA LogsMove ==
  ASSUME TypeOK, logs # <<>>, logs' = Tail(logs)
  PROVE  /\ logs' \in Seq(Log)
         /\ Head(logs) = logs[1] /\ \A i \in DOMAIN logs : logs[i] \in Log
         /\ DOMAIN logs \subseteq Nat \ {0} /\ DOMAIN logs' \subseteq Nat \ {0} /\ 1 \in DOMAIN logs
         /\ \A i \in DOMAIN logs' : i + 1 \in DOMAIN logs /\ logs'[i] = logs[i + 1]
         /\ \A i \in DOMAIN logs : i = 1 \/ (i - 1 \in DOMAIN logs' /\ logs'[i - 1] = logs[i])
<1>1. /\ logs \in Seq(Log) /\ DOMAIN logs = 1..Len(logs) /\ Len(logs) \in Nat \ {0}
  BY LenProperties, EmptySeq DEF TypeOK
<1>2. /\ logs' \in Seq(Log)
      /\ Len(logs') = Len(logs) - 1
      /\ \A i \in 1..Len(logs') : logs'[i] = logs[i + 1]
      /\ Head(logs) \in Log
  BY <1>1, HeadTailProperties
<1>3. DOMAIN logs' = 1..Len(logs') /\ Len(logs') \in Nat
  BY <1>2, LenProperties
<1>4. Head(logs) = logs[1]
  BY <1>1
<1>5. \A i \in DOMAIN logs' : i + 1 \in DOMAIN logs /\ logs'[i] = logs[i + 1]
  BY <1>1, <1>2, <1>3
<1>6. ASSUME NEW i \in DOMAIN logs, i # 1
      PROVE  i - 1 \in DOMAIN logs' /\ logs'[i - 1] = logs[i]
  <2>1. i - 1 \in 1..Len(logs') /\ i - 1 + 1 = i
    BY <1>1, <1>2, <1>3, <1>6
  <2>2. logs'[i - 1] = logs[i - 1 + 1]
    BY <1>2, <2>1
  <2> QED
    BY <1>3, <2>1, <2>2
<1>7. \A i \in DOMAIN logs : logs[i] \in Log
  BY <1>1, ElementOfSeq
<1> QED
  BY <1>1, <1>2, <1>3, <1>4, <1>5, <1>6, <1>7

LEMMA WithdrawnMoves ==
  ASSUME TypeOK, logs # <<>>, logs' = Tail(logs), chain' = chain,
         told' = told \/ (told' = told \cup {logs[1].event} /\ ~logs[1].removed),
         NEW e \in Event, NEW i \in Nat, NEW m \in Nat, Withdrawn(e, i),
         \/ i = m + 1
         \/ i = 0 /\ m = 0 /\ logs[1] # [event |-> e, removed |-> TRUE]
  PROVE  Withdrawn(e, m)'
<1>1. PICK k \in DOMAIN logs :
        /\ k > i
        /\ logs[k] = [event |-> e, removed |-> TRUE]
        /\ \A j \in DOMAIN logs :
             ~logs[j].removed /\ OnChain(logs[j].event) /\ logs[j].event.number >= e.number
               => j > k
  BY DEF Withdrawn
<1>2. k \in Nat /\ k > 1
  <2>1. k \in Nat \ {0}
    BY LogsMove
  <2>2. CASE i = m + 1
    BY <1>1, <2>1, <2>2
  <2>3. CASE i = 0 /\ logs[1] # [event |-> e, removed |-> TRUE]
    <3>1. k # 1
      BY <1>1, <2>3
    <3> QED
      BY <2>1, <3>1
  <2> QED
    BY <2>2, <2>3
<1>3. k - 1 \in DOMAIN logs' /\ logs'[k - 1] = logs[k] /\ k - 1 > m
  <2>1. k - 1 > m
    BY <1>1, <1>2
  <2>2. k # 1
    BY <1>2
  <2> QED
    BY <2>1, <2>2, LogsMove
<1>4. ASSUME NEW j \in DOMAIN logs', ~logs'[j].removed, OnChain(logs[j].event)',
             logs'[j].event.number >= e.number
      PROVE  j > k - 1
  <2>1. j + 1 \in DOMAIN logs /\ logs'[j] = logs[j + 1] /\ j \in Nat
    BY LogsMove
  <2>2. OnChain(logs[j + 1].event)
    BY <1>4, <2>1 DEF OnChain
  <2>3. j + 1 > k
    BY <1>1, <1>4, <2>1, <2>2
  <2> QED
    BY <1>2, <2>1, <2>3
<1>5. ASSUME NEW f \in told', OnChain(f)'
      PROVE  f.number < e.number
  <2>1. OnChain(f)
    BY <1>5 DEF OnChain
  <2>2. CASE f \in told
    BY <2>1, <2>2 DEF Withdrawn
  <2>3. CASE f = logs[1].event /\ ~logs[1].removed
    <3>1. ~(f.number >= e.number)
      BY <1>1, <1>2, <2>1, <2>3, LogsMove
    <3>2. f.number \in Nat /\ e.number \in Nat
      BY <2>3, LogsMove DEF Log, Event
    <3> QED
      BY <3>1, <3>2
  <2> QED
    BY <2>2, <2>3
<1>6. \E n \in DOMAIN logs' :
        /\ n > m
        /\ logs'[n] = [event |-> e, removed |-> TRUE]
        /\ \A j \in DOMAIN logs' :
             ~logs'[j].removed /\ OnChain(logs[j].event)' /\ logs'[j].event.number >= e.number
               => j > n
  BY <1>1, <1>3, <1>4
<1> QED
  BY <1>5, <1>6 DEF Withdrawn

\* What the logs that are left behind keep, whatever was the first.
LEMMA RestKeeps ==
  ASSUME IInv, ObserveLog
  PROVE  /\ Known' \subseteq Known
         /\ logs' \in Seq(Log)
         /\ Heights' /\ Produced' /\ Connection' /\ Deep' /\ Covered' /\ RemovedIsGone'
<1> USE DEF ObserveLog, Unchecked, blockchain
<1>1. TypeOK /\ Heights /\ Produced /\ Connection /\ RemovedIsGone
  BY DEF IInv
<1>2. /\ logs' \in Seq(Log) /\ Head(logs) = logs[1] /\ 1 \in DOMAIN logs
      /\ \A i \in DOMAIN logs' : i + 1 \in DOMAIN logs /\ logs'[i] = logs[i + 1]
  BY <1>1, LogsMove
<1>3. pc' \in {"monitor", "check"} /\ (pc' = "check" => ReadyAtOnce)
  OBVIOUS
<1>4. Known' \subseteq Known
  <2>1. told' \subseteq Known
    BY <1>2 DEF Known
  <2>2. \A i \in DOMAIN logs' : logs'[i].event \in Known
    BY <1>2 DEF Known
  <2> QED
    BY <2>1, <2>2 DEF Known
<1>5. Heights'
  BY <1>1, <1>3 DEF Heights
<1>6. Produced'
  BY <1>1, <1>4 DEF Produced
<1>7. Connection' /\ Deep' /\ Covered'
  BY <1>1, <1>3 DEF Connection, Deep, Covered, ReadyAtOnce
<1>8. RemovedIsGone'
  BY <1>1, <1>2 DEF RemovedIsGone, OnChain
<1> QED
  BY <1>2, <1>4, <1>5, <1>6, <1>7, <1>8

LEMMA RemovalKeeps ==
  ASSUME IInv, ObserveLog, Head(logs).removed
  PROVE  IInv'
<1> USE DEF ObserveLog, Unchecked, blockchain
<1>1. /\ TypeOK /\ RemovedIsGone /\ Ordered /\ Unforked
      /\ ActivationIsKept /\ BackfillMeetsStream
  BY DEF IInv
<1> DEFINE event == Head(logs).event
<1>2. pending' = Forget(event) /\ told' = told /\ lost' = lost /\ short' = short /\ pc' = pc
  OBVIOUS
<1>3. logs # <<>> /\ logs' = Tail(logs) /\ chain' = chain /\ forks' = forks
  OBVIOUS
<1>4. /\ logs[1] = [event |-> event, removed |-> TRUE]
      /\ event \notin EventsOf(chain) /\ forks # 0
  <2>1. Head(logs) = logs[1] /\ logs[1] \in Log /\ 1 \in DOMAIN logs
    BY <1>1, <1>3, LogsMove
  <2>2. logs[1] = [event |-> event, removed |-> TRUE]
    BY <2>1 DEF Log
  <2> QED
    BY <1>1, <2>1, <2>2 DEF RemovedIsGone, Unforked, OnChain
<1>5. /\ DOMAIN logs \subseteq Nat \ {0} /\ DOMAIN logs' \subseteq Nat \ {0}
      /\ \A i \in DOMAIN logs' : i + 1 \in DOMAIN logs /\ logs'[i] = logs[i + 1]
      /\ \A i \in DOMAIN logs : i = 1 \/ (i - 1 \in DOMAIN logs' /\ logs'[i - 1] = logs[i])
  BY <1>1, <1>3, LogsMove
<1>6. TypeOK'
  <2>1. pending' \in told' \cup {NoEvent}
    BY <1>1, <1>2 DEF Forget, TypeOK
  <2> QED
    BY <1>1, <1>2, <2>1, RestKeeps DEF TypeOK
<1>7. \A e : OnItsWay(e) => OnItsWay(e)'
  <2> SUFFICES ASSUME NEW e, OnItsWay(e) PROVE OnItsWay(e)'
    OBVIOUS
  <2>1. PICK i \in DOMAIN logs : logs[i] = [event |-> e, removed |-> FALSE]
    BY DEF OnItsWay
  <2>2. i # 1
    <3>1. logs[i].removed = FALSE /\ logs[1].removed = TRUE
      BY <1>4, <2>1
    <3> QED
      BY <3>1
  <2>3. i - 1 \in DOMAIN logs' /\ logs'[i - 1] = [event |-> e, removed |-> FALSE]
    BY <1>5, <2>1, <2>2
  <2> QED
    BY <2>3 DEF OnItsWay
<1>8. Ordered'
  <2> SUFFICES ASSUME disconnects = 0
               PROVE  /\ pending' # NoEvent /\ ~OnChain(pending)' => Withdrawn(pending, 0)'
                      /\ \A i \in DOMAIN logs' :
                           ~logs'[i].removed /\ ~OnChain(logs[i].event)'
                             => Withdrawn(logs[i].event, i)'
    BY DEF Ordered
  <2>1. ASSUME pending' # NoEvent, ~OnChain(pending)'
        PROVE  Withdrawn(pending, 0)'
    <3>1. pending' = pending /\ pending # event
      BY <1>2, <2>1 DEF Forget
    <3>2. ~OnChain(pending) /\ pending # NoEvent
      BY <1>3, <2>1, <3>1 DEF OnChain
    <3>3. PICK p \in Event : p = pending
      BY <1>1, <3>2 DEF TypeOK
    <3>4. logs[1] # [event |-> p, removed |-> TRUE]
      BY <1>4, <3>1, <3>3
    <3>5. Withdrawn(p, 0)
      BY <1>1, <3>2, <3>3 DEF Ordered
    <3>6. Withdrawn(p, 0)'
      BY <1>1, <1>2, <1>3, <3>4, <3>5, WithdrawnMoves
    <3> QED
      BY <3>1, <3>3, <3>6
  <2>2. ASSUME NEW i \in DOMAIN logs', ~logs'[i].removed, ~OnChain(logs[i].event)'
        PROVE  Withdrawn(logs[i].event, i)'
    <3>1. i + 1 \in DOMAIN logs /\ logs'[i] = logs[i + 1] /\ i \in Nat /\ i + 1 \in Nat
      BY <1>5
    <3>2. PICK e : e = logs[i + 1].event
      OBVIOUS
    <3>3. e \in Event
      BY <1>1, <1>4, <3>1, <3>2, LogsMove DEF Log
    <3>4. Withdrawn(e, i + 1)
      BY <1>1, <1>3, <2>2, <3>1, <3>2 DEF Ordered, OnChain
    <3>5. Withdrawn(e, i)'
      BY <1>1, <1>2, <1>3, <3>1, <3>3, <3>4, WithdrawnMoves
    <3> QED
      BY <3>1, <3>2, <3>5
  <2> QED
    BY <2>1, <2>2
<1>9. Unforked'
  BY <1>3, <1>4 DEF Unforked
<1>10. ActivationIsKept'
  <2> SUFFICES ASSUME pc # "ended", disconnects = 0, NEW e \in told \ lost,
                      OnChain(e), ~OnItsWay(e)
               PROVE  pending' # NoEvent /\ pending'.number <= e.number
    BY <1>2, <1>3, <1>4, <1>7 DEF ActivationIsKept, Kept, OnChain
  <2>1. pending # NoEvent /\ pending.number <= e.number
    BY <1>1 DEF ActivationIsKept, Kept
  <2>2. CASE pending = event
    <3>1. e.number < pending.number
      BY <1>1, <1>4, <2>1, <2>2 DEF Ordered, OnChain, Withdrawn
    <3>2. pending \in Event /\ e \in Event
      BY <1>1, <2>1 DEF TypeOK
    <3> QED
      BY <2>1, <3>1, <3>2 DEF Event
  <2> QED
    BY <1>2, <2>1, <2>2 DEF Forget
<1>11. BackfillMeetsStream'
  BY <1>1, <1>2, <1>3, <1>7 DEF BackfillMeetsStream
<1> QED
  BY <1>6, <1>8, <1>9, <1>10, <1>11, RestKeeps DEF IInv

LEMMA AdditionKeeps ==
  ASSUME IInv, ObserveLog, ~Head(logs).removed
  PROVE  IInv'
<1> USE DEF ObserveLog, Unchecked, blockchain
<1>1. /\ TypeOK /\ Produced /\ Ordered /\ Unforked
      /\ ActivationIsKept /\ BackfillMeetsStream
  BY DEF IInv
<1>2. PICK event : event = Head(logs).event
  OBVIOUS
<1>3. /\ pending' \in Earliest({event}) /\ told' = told \cup {event}
      /\ lost' = lost \ {event} /\ short' = short /\ stale' = stale
      /\ pc' \in {"monitor", "check"} /\ pc = "monitor"
  BY <1>2
<1>4. logs # <<>> /\ logs' = Tail(logs) /\ chain' = chain /\ forks' = forks
  OBVIOUS
<1>5. /\ logs[1].event = event /\ ~logs[1].removed /\ 1 \in DOMAIN logs
      /\ event \in Event /\ event # NoEvent
  <2>1. Head(logs) = logs[1] /\ logs[1] \in Log /\ 1 \in DOMAIN logs
    BY <1>1, <1>4, LogsMove
  <2>2. event \in Known /\ event \in Event
    BY <1>2, <2>1 DEF Known, Log
  <2>3. event.number > 0
    BY <1>1, <2>2 DEF Produced
  <2> QED
    BY <1>2, <2>1, <2>2, <2>3 DEF NoEvent
<1>6. /\ DOMAIN logs \subseteq Nat \ {0} /\ DOMAIN logs' \subseteq Nat \ {0}
      /\ \A i \in DOMAIN logs' : i + 1 \in DOMAIN logs /\ logs'[i] = logs[i + 1]
      /\ \A i \in DOMAIN logs : i = 1 \/ (i - 1 \in DOMAIN logs' /\ logs'[i - 1] = logs[i])
  BY <1>1, <1>4, LogsMove
<1>7. /\ pending' \in {event, pending} /\ pending' # NoEvent
      /\ pending # NoEvent => pending'.number <= pending.number
      /\ pending'.number <= event.number
  <2>1. {event} \in SUBSET Event /\ NoEvent \notin {event} /\ {event} # {}
    BY <1>5
  <2> QED
    BY <1>1, <1>3, <2>1, EarliestIsLowest
<1>8. TypeOK'
  <2>1. /\ told' \subseteq Event /\ lost' \subseteq told'
        /\ pending' \in told' \cup {NoEvent}
    BY <1>1, <1>3, <1>5, <1>7 DEF TypeOK
  <2> QED
    BY <1>1, <1>3, <1>7, <2>1, RestKeeps DEF TypeOK, PCs
<1>9. \A e : OnItsWay(e) => e = event \/ OnItsWay(e)'
  <2> SUFFICES ASSUME NEW e, OnItsWay(e), e # event PROVE OnItsWay(e)'
    OBVIOUS
  <2>1. PICK i \in DOMAIN logs : logs[i] = [event |-> e, removed |-> FALSE]
    BY DEF OnItsWay
  <2>2. i # 1
    <3>1. logs[i].event # logs[1].event
      BY <1>5, <2>1
    <3> QED
      BY <3>1
  <2> QED
    BY <1>6, <2>1, <2>2 DEF OnItsWay
<1>10. Ordered'
  <2> SUFFICES ASSUME disconnects = 0
               PROVE  /\ ~OnChain(pending)' => Withdrawn(pending, 0)'
                      /\ \A i \in DOMAIN logs' :
                           ~logs'[i].removed /\ ~OnChain(logs[i].event)'
                             => Withdrawn(logs[i].event, i)'
    BY DEF Ordered
  <2>1. ASSUME NEW e \in Event, NEW i \in Nat, NEW m \in Nat, Withdrawn(e, i),
               \/ i = m + 1
               \/ i = 0 /\ m = 0 /\ logs[1] # [event |-> e, removed |-> TRUE]
        PROVE  Withdrawn(e, m)'
    BY <1>1, <1>3, <1>4, <1>5, <2>1, WithdrawnMoves
  <2>2. ASSUME ~OnChain(pending)'
        PROVE  Withdrawn(pending, 0)'
    <3>1. PICK p : p = pending'
      OBVIOUS
    <3>2. ~OnChain(p) /\ p \in {event, pending} /\ p # NoEvent
      BY <1>4, <1>7, <2>2, <3>1 DEF OnChain
    <3>3. p \in Event
      BY <1>1, <1>5, <3>2 DEF TypeOK
    <3>4. CASE p = event
      <4>1. ~logs[1].removed /\ ~OnChain(logs[1].event) /\ 1 \in DOMAIN logs /\ p = logs[1].event
        BY <1>5, <3>2, <3>4
      <4>2. Withdrawn(p, 1)
        BY <1>1, <4>1 DEF Ordered, OnChain
      <4>3. 0 \in Nat /\ 1 \in Nat /\ 1 = 0 + 1
        OBVIOUS
      <4>4. Withdrawn(p, 0)'
        BY <2>1, <3>3, <4>2, <4>3
      <4> QED
        BY <3>1, <4>4
    <3>5. CASE p = pending
      <4>1. Withdrawn(p, 0)
        BY <1>1, <3>2, <3>5 DEF Ordered
      <4>2. logs[1] # [event |-> p, removed |-> TRUE]
        BY <1>5
      <4> QED
        BY <2>1, <3>1, <3>3, <4>1, <4>2
    <3> QED
      BY <3>2, <3>4, <3>5
  <2>3. ASSUME NEW i \in DOMAIN logs', ~logs'[i].removed, ~OnChain(logs[i].event)'
        PROVE  Withdrawn(logs[i].event, i)'
    <3>1. i + 1 \in DOMAIN logs /\ logs'[i] = logs[i + 1] /\ i \in Nat /\ i + 1 \in Nat
      BY <1>6
    <3>2. PICK e : e = logs[i + 1].event
      OBVIOUS
    <3>3. e \in Event
      BY <1>1, <1>4, <3>1, <3>2, LogsMove DEF Log
    <3>4. Withdrawn(e, i + 1)
      BY <1>1, <1>4, <2>3, <3>1, <3>2 DEF Ordered, OnChain
    <3>5. Withdrawn(e, i)'
      BY <2>1, <3>1, <3>3, <3>4
    <3> QED
      BY <3>1, <3>2, <3>5
  <2> QED
    BY <2>2, <2>3
<1>11. \A e \in told : pending # NoEvent /\ pending.number <= e.number => pending'.number <= e.number
  <2>1. pending'.number \in Nat /\ pending.number \in Nat
    BY <1>1, <1>5, <1>7 DEF TypeOK, NoEvent, Event
  <2>2. \A e \in told : e.number \in Nat
    BY <1>1 DEF TypeOK, Event
  <2> QED
    BY <1>7, <2>1, <2>2
<1>12. Unforked'
  <2> SUFFICES ASSUME forks = 0
               PROVE  /\ stale = {}
                      /\ told' \subseteq EventsOf(chain)
                      /\ \A i \in DOMAIN logs' :
                           ~logs'[i].removed /\ logs'[i].event \in EventsOf(chain)
                      /\ \A e \in told' \ lost' :
                           pending' # NoEvent /\ pending'.number <= e.number
    BY <1>3, <1>4 DEF Unforked, OnChain
  <2>1. told' \subseteq EventsOf(chain)
    BY <1>1, <1>3, <1>5 DEF Unforked, OnChain
  <2>2. \A i \in DOMAIN logs' : ~logs'[i].removed /\ logs'[i].event \in EventsOf(chain)
    BY <1>1, <1>6 DEF Unforked, OnChain
  <2>3. \A e \in told' \ lost' : pending' # NoEvent /\ pending'.number <= e.number
    BY <1>1, <1>3, <1>7, <1>11 DEF Unforked
  <2> QED
    BY <1>1, <2>1, <2>2, <2>3 DEF Unforked
<1>13. ActivationIsKept'
  <2> SUFFICES ASSUME disconnects = 0 \/ forks = 0, NEW e \in told' \ lost',
                      OnChain(e), ~OnItsWay(e)'
               PROVE  pending'.number <= e.number
    BY <1>4, <1>7 DEF ActivationIsKept, Kept, OnChain
  <2>1. CASE e = event
    BY <1>7, <2>1
  <2>2. CASE e # event
    <3>1. e \in told \ lost /\ ~OnItsWay(e)
      BY <1>3, <1>9, <2>2
    <3>2. pending # NoEvent /\ pending.number <= e.number
      BY <1>1, <1>3, <3>1 DEF ActivationIsKept, Kept
    <3> QED
      BY <1>11, <3>1, <3>2
  <2> QED
    BY <2>1, <2>2
<1>14. BackfillMeetsStream'
  BY <1>1, <1>3, <1>4, <1>9 DEF BackfillMeetsStream
<1> QED
  BY <1>8, <1>10, <1>12, <1>13, <1>14, RestKeeps DEF IInv

-----------------------------------------------------------------------------
(* Disconnection and what follows it. *)

LEMMA DisconnectKeeps ==
  ASSUME IInv, Disconnect
  PROVE  IInv'
<1> USE DEF Disconnect, blockchain, engine
<1>1. /\ TypeOK /\ Heights /\ Unforked /\ disconnects' \in Nat /\ disconnects' > 0
  BY DEF IInv, TypeOK
<1>2. TypeOK' /\ Connection'
  BY <1>1 DEF TypeOK, Connection
<1>3. Heights' /\ Covered' /\ Ordered' /\ BackfillMeetsStream'
  BY <1>1 DEF Heights, Covered, Ordered, BackfillMeetsStream
<1>4. Deep'
  BY DEF IInv, Deep, ReadyAtOnce, Needed
<1>5. Produced' /\ RemovedIsGone'
  BY StillKnown
<1>6. Unforked'
  BY <1>1 DEF Unforked, OnChain
<1>7. ActivationIsKept'
  BY <1>1, <1>6 DEF Unforked, ActivationIsKept, Kept
<1> QED
  BY <1>2, <1>3, <1>4, <1>5, <1>6, <1>7 DEF IInv

\* The steps of a reconnection before the backfill.
LEMMA ReconnectionKeeps ==
  ASSUME IInv, StreamEnds \/ Resubscribe \/ ReadHead
  PROVE  IInv'
<1> USE DEF Unchecked, blockchain, stream, engine
<1>1. TypeOK /\ Heights /\ Produced /\ Connection /\ RemovedIsGone /\ Unforked
  BY DEF IInv
<1>2. /\ UNCHANGED <<confirmations, chain, forks, stale, disconnects, failures, pending,
                    lastSeen, told, lost>>
      /\ pc # "ended" /\ pc' \in {"reconnect", "subscribed", "query"}
      /\ disconnects # 0
  BY <1>1 DEF StreamEnds, Resubscribe, ReadHead, Connection, TypeOK
<1>3. /\ headers' = headers \/ headers' = <<>>
      /\ logs' = logs \/ logs' = <<>>
      /\ connected' \in BOOLEAN
  BY <1>1 DEF StreamEnds, Resubscribe, ReadHead, TypeOK
<1>4. short' \in BOOLEAN
  <2>1. short' = short \/ short' = (target' < Len(chain))
    BY DEF StreamEnds, Resubscribe, ReadHead
  <2>2. short \in BOOLEAN
    BY <1>1 DEF TypeOK
  <2>3. (target' < Len(chain)) \in BOOLEAN
    OBVIOUS
  <2> QED
    BY <2>1, <2>2, <2>3
<1>5. Len(chain) \in Nat /\ <<>> \in Seq(Nat) /\ <<>> \in Seq(Log)
  BY <1>1, LenProperties, EmptySeq DEF TypeOK
<1>6. /\ target' \in Nat /\ target' <= Len(chain)
      /\ pc' = "query" /\ ~short' => target' = Len(chain)
  <2>1. CASE ReadHead
    <3>1. target' \in Nat /\ target' <= Len(chain)
      BY <1>5, <2>1 DEF ReadHead, Reached
    <3>2. ~short' => ~(target' < Len(chain))
      BY <2>1, Zenon DEF ReadHead
    <3> QED
      BY <1>5, <3>1, <3>2
  <2>2. CASE StreamEnds \/ Resubscribe
    <3>1. target' = target /\ pc' # "query"
      BY <2>2 DEF StreamEnds, Resubscribe
    <3> QED
      BY <1>1, <3>1 DEF TypeOK, Heights
  <2> QED
    BY <2>1, <2>2
<1>7. \A i \in DOMAIN logs' : i \in DOMAIN logs /\ logs'[i] = logs[i]
  BY <1>3
<1>8. \A i \in DOMAIN headers' : i \in DOMAIN headers /\ headers'[i] = headers[i]
  BY <1>3
<1>9. TypeOK'
  BY <1>1, <1>2, <1>3, <1>4, <1>5, <1>6 DEF TypeOK, PCs
<1>10. Heights'
  BY <1>1, <1>2, <1>5, <1>6, <1>8 DEF Heights
<1>11. Produced'
  <2>1. Known' \subseteq Known
    BY <1>2, <1>7 DEF Known
  <2> QED
    BY <1>1, <1>2, <2>1 DEF Produced
<1>12. Connection' /\ Deep' /\ BackfillMeetsStream' /\ Ordered'
  BY <1>1, <1>2, <1>9 DEF Connection, Deep, BackfillMeetsStream, Ordered, TypeOK
<1>13. Covered'
  <2> SUFFICES ASSUME pc' = "query", ~short', NEW e \in EventsOf(chain'), e.number > target'
               PROVE  FALSE
    BY DEF Covered
  <2>1. e.number \in 1..Len(chain)
    BY <1>1, <1>2, EventsAreEvents DEF TypeOK
  <2> QED
    BY <1>5, <1>6, <2>1
<1>14. RemovedIsGone'
  BY <1>1, <1>2, <1>7 DEF RemovedIsGone, OnChain
<1>15. Unforked'
  BY <1>1, <1>2, <1>7 DEF Unforked, OnChain
<1>16. ActivationIsKept'
  BY <1>2, <1>15 DEF Unforked, ActivationIsKept, Kept
<1> QED
  BY <1>9, <1>10, <1>11, <1>12, <1>13, <1>14, <1>15, <1>16 DEF IInv

LEMMA BackfillKeeps ==
  ASSUME IInv, Backfill
  PROVE  IInv'
<1> USE DEF Unchecked, blockchain, stream
<1>1. /\ TypeOK /\ Heights /\ Produced /\ Connection /\ Covered /\ Unforked /\ RemovedIsGone
  BY DEF IInv
<1> DEFINE missed == Missed(EventsOf(chain))
<1>2. PICK height \in Reached(target), old \in SUBSET Missed(stale) :
         LET all == {event \in missed : event.number <= height} \cup old
         IN  /\ pending' \in Earliest(all)
             /\ told' = told \cup all
             /\ lost' = lost \ all
             /\ short' = (short \/ ~(missed \subseteq all))
             /\ pc' = IF ReadyAtOnce /\ all # {} THEN "check" ELSE "monitor"
  BY DEF Backfill
<1>3. PICK found : found = {event \in missed : event.number <= height} \cup old
  OBVIOUS
<1>4. /\ pending' \in Earliest(found) /\ told' = told \cup found /\ lost' = lost \ found
      /\ short' = (short \/ ~(missed \subseteq found))
      /\ pc = "query" /\ pc' \in {"monitor", "check"}
      /\ pc' = "check" => ReadyAtOnce /\ found # {}
      /\ lastSeen' = target /\ target' = target
      /\ UNCHANGED <<confirmations, blockchain, stream, disconnects, failures>>
  BY <1>2, <1>3 DEF Backfill
<1>5. /\ EventsOf(chain) \in SUBSET Event /\ stale \in SUBSET Event /\ found \in SUBSET Event
      /\ found \subseteq EventsOf(chain) \cup stale
  BY <1>1, <1>3, EventsAreEvents DEF Missed, TypeOK
<1>6. /\ NoEvent \notin found
      /\ \A e \in EventsOf(chain) : e.number \in 1..Len(chain) /\ e.fork = chain[e.number].fork
  <2>1. NoEvent \notin stale
    BY <1>1 DEF Produced, Known, NoEvent
  <2> QED
    BY <1>1, <1>5, <2>1, EventsAreEvents DEF TypeOK
<1>7. /\ pending' \in found \cup {pending}
      /\ pending # NoEvent \/ found # {} => pending' # NoEvent
      /\ pending # NoEvent => pending'.number <= pending.number
      /\ \A e \in found : pending'.number <= e.number
  BY <1>1, <1>4, <1>5, <1>6, EarliestIsLowest
<1>8. Len(chain) \in Nat /\ DOMAIN chain = 1..Len(chain)
  BY <1>1, LenProperties DEF TypeOK
<1>9. TypeOK'
  BY <1>1, <1>4, <1>5, <1>6, <1>7 DEF TypeOK, PCs
<1>10. Heights'
  BY <1>1, <1>4 DEF Heights
<1>11. Produced'
  <2>1. \A e \in Known' : e \in Known \/ e \in EventsOf(chain)
    BY <1>4, <1>5 DEF Known
  <2>2. \A e \in EventsOf(chain) : e.number \in 1..Len(chain) /\ e.fork <= forks
    BY <1>1, <1>6, <1>8 DEF Heights
  <2> QED
    BY <1>1, <1>4, <2>1, <2>2 DEF Produced
<1>12. Connection' /\ Deep' /\ Covered'
  BY <1>1, <1>4 DEF Connection, Deep, Covered, ReadyAtOnce
<1>13. RemovedIsGone'
  BY <1>1, <1>4 DEF RemovedIsGone, OnChain
<1>14. Ordered'
  BY <1>1, <1>4 DEF Ordered, Connection, TypeOK
<1>15. Unforked'
  <2> SUFFICES ASSUME forks = 0
               PROVE  /\ stale = {}
                      /\ told' \subseteq EventsOf(chain)
                      /\ \A e \in told' \ lost' :
                           pending' # NoEvent /\ pending'.number <= e.number
    BY <1>1, <1>4 DEF Unforked, OnChain
  <2>1. stale = {} /\ told' \subseteq EventsOf(chain)
    BY <1>1, <1>4, <1>5 DEF Unforked
  <2>2. ASSUME NEW e \in told \ lost
        PROVE  pending' # NoEvent /\ pending'.number <= e.number
    <3>1. pending # NoEvent /\ pending.number <= e.number
      BY <1>1, <1>4 DEF Unforked
    <3>2. pending \in Event /\ pending' \in Event /\ e \in Event
      BY <1>1, <1>5, <1>7 DEF TypeOK, Event, NoEvent
    <3> QED
      BY <1>7, <3>1, <3>2 DEF Event
  <2> QED
    BY <1>4, <1>7, <2>1, <2>2
<1>16. ActivationIsKept'
  BY <1>1, <1>4, <1>15 DEF Unforked, ActivationIsKept, Kept, Connection, TypeOK
<1>17. BackfillMeetsStream'
  <2> SUFFICES ASSUME connected, ~short', NEW e \in EventsOf(chain), e.number >= target - 1
               PROVE  e \in told' \/ OnItsWay(e)
    BY <1>4 DEF BackfillMeetsStream, OnItsWay
  <2>1. ~short /\ missed \subseteq found
    BY <1>4
  <2>2. CASE e.number > target
    BY <1>1, <1>4, <2>1, <2>2 DEF Covered
  <2>3. CASE ~(e.number > target)
    <3>1. target \in Nat /\ lastSeen \in Nat /\ lastSeen <= target /\ e.number \in Nat
      BY <1>1, <1>4, <1>5, <2>1 DEF TypeOK, Heights, Event
    <3>2. e.number \in (lastSeen - 1)..target
      BY <2>3, <3>1
    <3> QED
      BY <1>4, <2>1, <3>2 DEF Missed
  <2> QED
    BY <2>2, <2>3
<1> QED
  BY <1>9, <1>10, <1>11, <1>12, <1>13, <1>14, <1>15, <1>16, <1>17 DEF IInv

-----------------------------------------------------------------------------
(* The invariant, and what follows from it. *)

LEMMA InitInvariant == Init => IInv
<1> SUFFICES ASSUME Init PROVE IInv
  OBVIOUS
<1>1. /\ confirmations \in Nat /\ chain = <<>> /\ forks = 0 /\ headers = <<>> /\ logs = <<>>
      /\ connected = TRUE /\ disconnects = 0 /\ failures = 0 /\ pc = "monitor"
      /\ pending = NoEvent /\ lastSeen = 0 /\ target = 0
      /\ stale = {} /\ told = {} /\ lost = {} /\ short = FALSE
  BY ConstantsAssumption DEF Init
<1>2. /\ chain \in Seq(Block) /\ headers \in Seq(Nat) /\ logs \in Seq(Log)
      /\ Len(chain) = 0 /\ DOMAIN chain = {} /\ DOMAIN headers = {} /\ DOMAIN logs = {}
  BY <1>1, EmptySeq
<1>3. Known = {} /\ EventsOf(chain) = {}
  BY <1>1, <1>2 DEF Known, EventsOf
<1>4. TypeOK
  BY <1>1, <1>2 DEF TypeOK, PCs
<1>5. Heights /\ Produced /\ Connection /\ Deep /\ Covered /\ RemovedIsGone
  BY <1>1, <1>2, <1>3 DEF Heights, Produced, Connection, Deep, Covered, RemovedIsGone
<1>6. Ordered /\ Unforked /\ ActivationIsKept /\ BackfillMeetsStream
  BY <1>1, <1>2, <1>3 DEF Ordered, Unforked, ActivationIsKept, Kept, BackfillMeetsStream
<1> QED
  BY <1>4, <1>5, <1>6 DEF IInv

LEMMA NextInvariant == IInv /\ [Next]_vars => IInv'
<1> SUFFICES ASSUME IInv, [Next]_vars PROVE IInv'
  OBVIOUS
<1>1. CASE CheckCanonical \/ Prepare \/ Mint \/ ReconnectFails \/ Stop
  <2>1. /\ UNCHANGED <<confirmations, blockchain, stream, disconnects, failures, engine>>
        /\ pc' \in {"monitor", "prepare", "mint", "ended"}
        /\ pc' # "ended" => pc \in {"check", "prepare", "mint"}
    BY <1>1 DEF CheckCanonical, Prepare, Mint, ReconnectFails, Stop, Unchecked, stream
  <2> QED
    BY <2>1, SwitchKeeps
<1>2. CASE CheckNotCanonical
  BY <1>2, DiscardKeeps DEF CheckNotCanonical
<1>3. CASE CheckFails
  BY <1>3, DiscardKeeps DEF CheckFails
<1>4. CASE ObserveHeader
  BY <1>4, HeaderKeeps
<1>5. CASE ObserveLog
  BY <1>5, RemovalKeeps, AdditionKeeps
<1>6. CASE StreamEnds \/ Resubscribe \/ ReadHead
  BY <1>6, ReconnectionKeeps
<1>7. CASE Backfill
  BY <1>7, BackfillKeeps
<1>8. CASE NewBlock
  BY <1>8, NewBlockGrows, GrowthKeeps
<1>9. CASE Reorganise
  BY <1>9, ReorganiseGrows, GrowthKeeps
<1>10. CASE Disconnect
  BY <1>10, DisconnectKeeps
<1>11. CASE UNCHANGED vars
  BY <1>11, StutterKeeps
<1> QED
  BY <1>1, <1>2, <1>3, <1>4, <1>5, <1>6, <1>7, <1>8, <1>9, <1>10, <1>11 DEF Next, Monitor

LEMMA Invariance == Spec => []IInv
  BY InitInvariant, NextInvariant, PTL DEF Spec

\* TypeOK: every variable has its type, and only a pending event is checked and minted.
THEOREM TypesAreKept == Spec => []TypeOK
<1>1. IInv => TypeOK
  BY DEF IInv
<1> QED
  BY <1>1, Invariance, PTL

\* ActivationIsKept: an event that was told stays pending while it is canonical, unless
\* an earlier one is, through any number of forks or of disconnects, but not of both.
THEOREM ActivationsAreKept == Spec => []ActivationIsKept
<1>1. IInv => ActivationIsKept
  BY DEF IInv
<1> QED
  BY <1>1, Invariance, PTL

\* BackfillMeetsStream: no event falls between a backfill and the new subscription,
\* whatever forks and disconnects there are.
THEOREM BackfillsMeetStream == Spec => []BackfillMeetsStream
<1>1. IInv => BackfillMeetsStream
  BY DEF IInv
<1> QED
  BY <1>1, Invariance, PTL

\* TriggersWhenConfirmed: for every number of confirmations, a mint is prepared only
\* for an event that is deep enough and in the chain, or that a provider still answers
\* from an old branch while its removal is on its way.
THEOREM MintsWhenConfirmed == Spec => TriggersWhenConfirmed
<1> DEFINE Removal == \E i \in DOMAIN logs : logs[i] = [event |-> pending, removed |-> TRUE]
           Right == /\ Len(chain) >= pending.number + confirmations - 1
                    /\ \/ OnChain(pending)
                       \/ pending \in stale /\ (disconnects = 0 => Removal)
<1>1. IInv /\ [Next]_vars => [pc = "check" /\ pc' = "prepare" => Right]_vars
  <2> SUFFICES ASSUME IInv, [Next]_vars, pc = "check", pc' = "prepare"
               PROVE  Right
    OBVIOUS
  <2>1. CheckCanonical
    BY DEF Next, Monitor, vars, ObserveHeader, ObserveLog, CheckCanonical, CheckNotCanonical,
       Discard, Prepare, Mint, StreamEnds, Resubscribe, ReadHead, Backfill, CheckFails,
       ReconnectFails, Stop, NewBlock, Reorganise, Disconnect
  <2>2. OnChain(pending) \/ pending \in stale
    BY <2>1 DEF CheckCanonical, Answers, OnChain
  <2>3. /\ pending # NoEvent /\ pending \in Known /\ pending \in Event
        /\ confirmations \in Nat /\ Len(chain) \in Nat
    BY LenProperties DEF IInv, TypeOK, Known
  <2>4. pending.number \in Nat /\ pending.number <= Len(chain)
    BY <2>3 DEF IInv, Produced
  <2>5. Len(chain) >= pending.number + confirmations - 1
    <3>1. CASE confirmations <= 1
      BY <2>3, <2>4, <3>1
    <3>2. CASE ~(confirmations <= 1)
      <4>1. pending.number + (confirmations - 1) <= Len(chain)
        BY <3>2 DEF IInv, Deep, ReadyAtOnce, Needed
      <4> QED
        BY <2>3, <2>4, <4>1
    <3> QED
      BY <3>1, <3>2
  <2>6. ASSUME ~OnChain(pending), disconnects = 0
        PROVE  Removal
    BY <2>3, <2>6 DEF IInv, Ordered, Withdrawn
  <2> QED
    BY <2>2, <2>5, <2>6
<1> QED
  BY <1>1, Invariance, PTL DEF Spec, TriggersWhenConfirmed
=============================================================================
