--------------------------- MODULE StageSchedule ---------------------------
(***************************************************************************)
(* The monitor of an OpenSea drop (src/src/bot.rs, src/src/opensea.rs):    *)
(* block headers trigger a mint request at the start of the selected       *)
(* stage; OpenSea answers with a mint, or with a rejection that selects    *)
(* another stage, defers the request or ends the bot.  In automatic mode a *)
(* task polls the schedule meanwhile, and in aggressive mode the fields of *)
(* the transaction are refreshed between blocks.  The mint that is signed  *)
(* here is carried on by module Mint.                                      *)
(*                                                                         *)
(* A request names no stage: OpenSea mints in any open stage in which the  *)
(* wallet is eligible.  Its clock need not agree with the chain's.         *)
(***************************************************************************)
EXTENDS Integers, Sequences, SequencesExt

CONSTANTS
  None,         \* no nonce, no answer
  Schedules,    \* what OpenSea can publish, each sorted by start
  Eligible,     \* labels of the stages in which the wallet may mint
  Lag,          \* how far OpenSea's clock can be from the chain's
  RetryDelay,   \* how long a retry in the same stage is deferred
  SearchDelay,  \* how long a request is deferred for want of a later stage
  MaxTime,      \* bound on the chain's time
  MaxChanges,   \* bound on the changes of the schedule
  MaxNonce      \* bound on the nonces that other processes take

VARIABLES
  published,   \* the schedule at OpenSea
  changes,     \* how often it has changed
  now,         \* last_chain_timestamp
  auto,        \* auto_opensea_schedule
  aggressive,  \* is_aggressive_opensea
  watch,       \* the schedule in the channel of the polling task
  news,        \* has the channel changed since it was read?
  stages,      \* opensea_stages
  index,       \* opensea_stage_index, from 1
  due,         \* the timestamp of the trigger
  step,        \* "wait", "lock", "prepare", "rejected", "sign" or "failed"
  answer,      \* what OpenSea has answered the mint request
  taken,       \* the wallet's pending nonce
  asked,       \* its value when the running refresh began, or None
  healthy,     \* dynamic_fields_healthy
  checked,     \* what ensure_dynamic_fields has returned, or None
  read,        \* the nonce read behind the wallet lock, or None
  cached       \* the nonce of the prepared request

opensea == <<published, changes>>
mode == <<auto, aggressive>>
channel == <<watch, news>>
selection == <<stages, index, due>>
fields == <<asked, healthy, cached>>
request == <<answer, checked, read>>
vars == <<opensea, now, mode, channel, selection, step, taken, fields, request>>

-----------------------------------------------------------------------------
(* The selection of a stage. *)

Unexpired(list, time) == SelectSeq(list, LAMBDA stage : stage.end >= time)

\* refreshed_stage_index: the selected stage survives a new schedule as itself, by
\* its label or by its time.
RefreshedIndex(previous, i, updated) ==
  LET selected == previous[i]
      First(Test(_)) == SelectInSeq(updated, Test)
      same == First(LAMBDA stage : stage = selected)
      named == First(LAMBDA stage : stage.label = selected.label)
      later == First(LAMBDA stage : stage.start >= selected.start)
  IN  CASE same # 0 -> same
        [] same = 0 /\ named # 0 -> named
        [] same = 0 /\ named = 0 /\ later # 0 -> later
        [] OTHER -> IF i < Len(updated) THEN i ELSE Len(updated)

Select(updated) ==
  /\ stages' = updated
  /\ index' = RefreshedIndex(stages, index, updated)
  /\ due' = updated[index'].start

Init ==
  /\ published \in Schedules
  /\ changes = 0
  /\ now = 0
  /\ auto \in BOOLEAN
  /\ aggressive \in BOOLEAN
  /\ \E minimum \in 0..MaxTime :
       /\ auto <=> minimum = 0
       /\ stages = IF auto THEN Unexpired(published, now)
                   ELSE SelectSeq(published, LAMBDA stage : stage.start >= minimum)
  /\ stages # <<>>
  /\ index = 1
  /\ due = stages[1].start
  /\ watch = stages
  /\ news = FALSE
  /\ step = "wait"
  /\ taken = 0
  /\ asked = None
  /\ healthy = TRUE
  /\ cached = 0
  /\ answer = None
  /\ checked = None
  /\ read = None

-----------------------------------------------------------------------------
(* Waiting for the trigger. *)

\* start_armed_refresh: in normal mode OpenSea's answer is waited for.
RefreshStarts == aggressive /\ asked = None

\* A header brings the newest schedule into effect, and then triggers the mint or
\* starts a refresh.
Header ==
  /\ step = "wait"
  /\ now < MaxTime
  /\ now' = now + 1
  /\ LET updated == IF news THEN Unexpired(watch, now') ELSE <<>>
     IN  IF updated # <<>> THEN Select(updated) ELSE UNCHANGED selection
  /\ news' = FALSE
  /\ step' = IF now' >= due' THEN "lock" ELSE "wait"
  /\ asked' = IF now' < due' /\ RefreshStarts THEN taken ELSE asked
  /\ UNCHANGED <<opensea, mode, watch, taken, healthy, cached, request>>

RefreshEnds(succeeds) ==
  /\ asked # None
  /\ asked' = None
  /\ healthy' = succeeds
  /\ IF succeeds THEN cached' \in asked..taken ELSE UNCHANGED cached

FinishRefresh ==
  /\ step = "wait"
  /\ \E succeeds \in BOOLEAN : RefreshEnds(succeeds)
  /\ UNCHANGED <<opensea, now, mode, channel, selection, step, taken, request>>

\* refresh_schedule
PollSchedule ==
  /\ auto
  /\ step # "failed"
  /\ published # watch
  /\ watch' = published
  /\ news' = TRUE
  /\ UNCHANGED <<opensea, now, mode, selection, step, taken, fields, request>>

-----------------------------------------------------------------------------
(* Behind the wallet lock: the request to OpenSea, the fields and the nonce are *)
(* waited for together.                                                         *)

Acquire ==
  /\ step = "lock"
  /\ step' = "prepare"
  /\ UNCHANGED <<opensea, now, mode, channel, selection, taken, fields, request>>

ReadNonce ==
  /\ step = "prepare"
  /\ read = None
  /\ read' = taken
  /\ UNCHANGED <<opensea, now, mode, channel, selection, step, taken, fields, answer, checked>>

\* refresh_transaction_fields on the live request; in normal mode there is nothing
\* to refresh.
Refresh(succeeds) ==
  /\ succeeds \/ aggressive
  /\ healthy' = succeeds
  /\ cached' = IF succeeds /\ aggressive THEN taken ELSE cached
  /\ UNCHANGED asked

\* ensure_dynamic_fields: a running refresh is waited for, and one that failed is
\* made up for.
CheckFields ==
  /\ step = "prepare"
  /\ checked = None
  /\ \/ \E succeeds \in BOOLEAN :
          RefreshEnds(succeeds) /\ checked' = IF succeeds THEN TRUE ELSE None
     \/ asked = None /\ healthy /\ checked' = TRUE /\ UNCHANGED fields
     \/ /\ asked = None /\ ~healthy
        /\ \E succeeds \in BOOLEAN : Refresh(succeeds) /\ checked' = succeeds
  /\ UNCHANGED <<opensea, now, mode, channel, selection, step, taken, answer, read>>

Open(list, time) == {stage \in Range(list) : stage.start <= time /\ time < stage.end}

Refuses(list, time) ==
  Open(list, time) # {} /\ \A stage \in Open(list, time) : stage.label \notin Eligible

\* What OpenSea can answer; an ambiguous rejection names no reason.
Answers(time) ==
  IF Open(published, time) = {} THEN {"inactive", "ambiguous"}
  ELSE IF Refuses(published, time) THEN {"refused", "ambiguous"}
  ELSE {"mint", "ambiguous"}

\* A rejection drops the refresh that is waited for.
DropRefresh ==
  /\ healthy' = (healthy /\ asked = None)
  /\ asked' = None
  /\ UNCHANGED cached

\* Up to three answers that can be retried may have gone before.
Build ==
  /\ step = "prepare"
  /\ answer = None
  /\ \E time \in (now - Lag)..(now + Lag) :
       /\ answer' \in Answers(time)
       /\ step' = IF answer' = "mint" THEN "prepare" ELSE "rejected"
  /\ IF answer' = "mint" THEN UNCHANGED fields ELSE DropRefresh
  /\ UNCHANGED <<opensea, now, mode, channel, selection, taken, checked, read>>

\* The monitor waits for the next block and lets go of the wallet lock.
Wait ==
  /\ step' = "wait"
  /\ answer' = None
  /\ checked' = None
  /\ read' = None
  /\ UNCHANGED <<opensea, now, mode, channel, taken>>

\* Mutant: the nonce stays the one that was read before the lock was taken.
ReadyWithCache ==
  /\ step = "prepare"
  /\ answer = "mint"
  /\ read # None
  /\ checked = TRUE
  /\ step' = "sign"
  /\ UNCHANGED <<opensea, now, mode, channel, selection, taken, fields, request>>

Ready ==
  /\ step = "prepare"
  /\ answer = "mint"
  /\ read # None
  /\ checked = TRUE
  /\ cached' = read
  /\ step' = "sign"
  /\ UNCHANGED <<opensea, now, mode, channel, selection, taken, asked, healthy, request>>

NotReady ==
  /\ step = "prepare"
  /\ answer = "mint"
  /\ read # None
  /\ checked = FALSE
  /\ Wait
  /\ UNCHANGED <<selection, fields>>

\* The nonce cannot be read, OpenSea keeps failing, the call, its price, the budget
\* or the remaining supply forbids the mint.
Fail ==
  /\ step \in {"prepare", "rejected"}
  /\ step' = "failed"
  /\ UNCHANGED <<opensea, now, mode, channel, selection, taken, fields, request>>

-----------------------------------------------------------------------------
(* After a rejection. *)

\* refresh_opensea_schedule_now
Reload ==
  /\ step = "rejected"
  /\ auto
  /\ LET updated == Unexpired(published, now)
     IN  updated \notin {<<>>, stages} /\ Select(updated)
  /\ Wait
  /\ UNCHANGED fields

\* The reload has failed or has brought nothing new.
HasNext == index < Len(stages)
NextHasStarted == HasNext /\ stages[index + 1].start <= now

\* Mutant: an ambiguous rejection advances to a stage that has not started.
AdvanceEarly ==
  /\ step = "rejected"
  /\ HasNext
  /\ answer = "refused" \/ (answer = "ambiguous" /\ auto)
  /\ index' = index + 1
  /\ due' = stages[index'].start
  /\ Wait
  /\ UNCHANGED <<stages, fields>>

Advance ==
  /\ step = "rejected"
  /\ \/ answer = "refused" /\ HasNext
     \/ answer = "ambiguous" /\ auto /\ NextHasStarted
  /\ index' = index + 1
  /\ due' = stages[index'].start
  /\ Wait
  /\ UNCHANGED <<stages, fields>>

\* In aggressive mode the request is sent again at the next block.
RetryAt == IF aggressive THEN 0 ELSE now + RetryDelay

Defer ==
  /\ step = "rejected"
  /\ auto
  /\ \/ /\ answer = "refused" /\ ~HasNext
        /\ due' = now + SearchDelay
     \/ /\ answer = "inactive" \/ (answer = "ambiguous" /\ ~NextHasStarted)
        /\ due' = RetryAt
  /\ Wait
  /\ UNCHANGED <<stages, index, fields>>

GiveUp ==
  /\ step = "rejected"
  /\ ~auto
  /\ answer = "refused" => ~HasNext
  /\ step' = "failed"
  /\ UNCHANGED <<opensea, now, mode, channel, selection, taken, fields, request>>

-----------------------------------------------------------------------------
(* The environment. *)

Republish ==
  /\ changes < MaxChanges
  /\ changes' = changes + 1
  /\ published' \in Schedules \ {published}
  /\ UNCHANGED <<now, mode, channel, selection, step, taken, fields, request>>

\* Another local process sends a transaction, behind the same lock.
OtherSends ==
  /\ step \notin {"prepare", "rejected", "sign"}
  /\ taken < MaxNonce
  /\ taken' = taken + 1
  /\ UNCHANGED <<opensea, now, mode, channel, selection, step, fields, request>>

Next ==
  \/ Header
  \/ FinishRefresh
  \/ PollSchedule
  \/ Acquire
  \/ ReadNonce
  \/ CheckFields
  \/ Build
  \/ Ready
  \/ NotReady
  \/ Fail
  \/ Reload
  \/ Advance
  \/ Defer
  \/ GiveUp
  \/ Republish
  \/ OtherSends

Spec == Init /\ [][Next]_vars

-----------------------------------------------------------------------------
(* Properties. *)

Listed == Range(stages)

MayMint(stage, time) == stage.label \in Eligible /\ time < stage.end

\* The automatic monitor never sleeps through a stage that it knows of and in
\* which the wallet is eligible: whatever OpenSea rejects, and however it changes
\* the schedule, the next request is due when the stage starts or, once it has
\* started, within the delay of a retry.
NoStageSlept ==
  auto /\ step = "wait" =>
    \A stage \in Listed :
      MayMint(stage, now) =>
        due <= stage.start \/ due <= now + SearchDelay

\* The mint is signed with the nonce that is next for the wallet, whatever a
\* refresh has read before and other local processes have sent.
SignsNextNonce == step = "sign" => cached = taken

-----------------------------------------------------------------------------
(* Schedules with which no stage is slept through. *)

Stages == [label : STRING, start : Nat, end : Nat]

Sorted(list) ==
  /\ list \in Seq(Stages)
  /\ \A i, j \in DOMAIN list : i <= j => list[i].start <= list[j].start

\* What the monitor can have in memory at some time.
Held(schedules, time) ==
  {Unexpired(list, t) : list \in schedules, t \in 0..time} \ {<<>>}

\* No stage before the i-th can be missed: the wallet cannot mint in it any more, or
\* the i-th has started as well.
NoneMissed(list, i, time) ==
  \A k \in 1..(i - 1) : MayMint(list[k], time) => list[i].start <= time

\* OpenSea refuses nobody for a stage that ends within its clock's error of one in
\* which the wallet may mint.
RefusalsAreApart(schedules) ==
  \A time \in 0..MaxTime, list \in schedules : \A t \in (time - Lag)..(time + Lag) :
    Refuses(list, t) =>
      \A held \in Held(schedules, time) : \A i \in DOMAIN held :
        ~(MayMint(held[i], time) /\ held[i].start <= time)

\* No change puts a stage that can still be missed ahead of the selected one.
ChangesKeepPlace(schedules) ==
  \A time \in 0..MaxTime, list \in schedules : \A held \in Held(schedules, time) :
    \A i \in DOMAIN held :
      LET updated == Unexpired(list, time)
          j == RefreshedIndex(held, i, updated)
      IN  NoneMissed(held, i, time) /\ updated # <<>> =>
            j \in DOMAIN updated /\ NoneMissed(updated, j, time)

Orderly(schedules) ==
  /\ \A list \in Held(schedules, MaxTime) : Sorted(list)
  /\ RefusalsAreApart(schedules)
  /\ ChangesKeepPlace(schedules)
=============================================================================
