------------------------------- MODULE MCMint -------------------------------
(* A bot that waits for a stage of an OpenSea drop, or runs of the bot that  *)
(* have their mint prepared: what follows the trigger does not depend on how *)
(* it was waited for.                                                        *)
EXTENDS Mint

CONSTANTS
  Schedules, Eligible, Lag, RetryDelay, SearchDelay, MaxTime, MaxChanges, MaxOthers

ASSUME DelaysAssumption ==
  /\ Lag \in Nat
  /\ RetryDelay \in Nat
  /\ SearchDelay \in Nat
  /\ RetryDelay <= SearchDelay
  /\ MaxTime \in Nat \ {0}
  /\ MaxChanges \in Nat
  /\ MaxOthers \in Nat

VARIABLES
  phase,  \* "waits" or "mints"
  published, changes, now, auto, aggressive, watch, news, stages, index, due, step,
  answer, taken, asked, healthy, checked, read, cached

waiting == <<published, changes, now, auto, aggressive, watch, news, stages, index, due,
             step, answer, taken, asked, healthy, checked, read, cached>>

Monitor == INSTANCE StageSchedule WITH MaxNonce <- MaxOthers

Stage(label, start, end) == [label |-> label, start |-> start, end |-> end]
Always == MaxTime + 1

\* Stages move, end earlier, before and after the next begins; one is withdrawn,
\* one is renamed.
ShiftingSchedules ==
  { <<Stage("team", 1, 2), Stage("list", 3, 6), Stage("public", 5, Always)>>,
    <<Stage("team", 1, 2), Stage("list", 4, 5), Stage("public", 6, Always)>>,
    <<Stage("list", 3, 5), Stage("open", 6, Always)>> }

\* A stage moves ahead of the one before it.
ReorderedSchedules ==
  { <<Stage("team", 4, 6), Stage("list", 7, 8)>>,
    <<Stage("list", 2, 3), Stage("team", 4, 6)>> }

\* The first are orderly, which is what the theorem about the stages asks for; the
\* others are not, and a stage is slept through with them.
ASSUME SchedulesAssumption ==
  Monitor!Orderly(ShiftingSchedules) /\ ~Monitor!Orderly(ReorderedSchedules)

InitMC ==
  /\ Init
  /\ Monitor!Init
  /\ phase \in {"waits", "mints"}
  \* One bot that waits is enough to go with the runs that do not.
  /\ phase = "mints" =>
       /\ auto
       /\ aggressive
       /\ published = CHOOSE list \in Schedules : TRUE

NextMC ==
  \/ phase = "waits" /\ Monitor!Next /\ UNCHANGED <<phase, vars>>
  \/ phase = "mints" /\ Next /\ UNCHANGED <<phase, waiting>>

SpecMC == InitMC /\ [][NextMC]_<<phase, vars, waiting>> /\ Fairness

NoStageSlept == Monitor!NoStageSlept
SignsNextNonce == Monitor!SignsNextNonce
=============================================================================
