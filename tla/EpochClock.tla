----------------------------- MODULE EpochClock -----------------------------
(***************************************************************************)
(* The epoch that times the rate-limit quotas of x/ratelimit: one epoch    *)
(* info, advanced by every block's BeginBlocker by at most one epoch, so   *)
(* that after a halt the epochs that were missed end one per block.        *)
(* Block heights of an epoch are only recorded for a query and left out.   *)
(***************************************************************************)
EXTENDS Integers

CONSTANTS
  EpochDuration, \* EpochHourPeriod, in units of block time
  MaxTime        \* bound on the block time of a run

ASSUME ClockAssumption == EpochDuration \in Nat \ {0} /\ MaxTime \in Nat

VARIABLES
  now,   \* time of the last block
  clock  \* the epoch info

clockVars == <<now, clock>>

EpochInfo == [startTime: Nat, started: BOOLEAN, epoch: Nat, epochStart: Nat]

(* AddEpochInfo at genesis: the start time is the genesis time.             *)
NewEpochInfo(t) == [startTime |-> t, started |-> FALSE, epoch |-> 0, epochStart |-> 0]

ClockInit == now = 0 /\ clock = NewEpochInfo(0)

(* A counted epoch is over at a block strictly later than its end.          *)
EpochEnds(t) == clock.started /\ t > clock.epochStart + EpochDuration

(* A mutation of NextEpoch: the new epoch starts when the block comes.      *)
NextEpochFromBlock(t) == [clock EXCEPT !.epoch = @ + 1, !.epochStart = t]

(* A new epoch starts where the last one ended, whenever its block comes.   *)
NextEpoch(t) == [clock EXCEPT !.epoch = @ + 1, !.epochStart = @ + EpochDuration]

(* BeginBlocker, but for what AfterEpochEnd does.                           *)
AdvanceClock(t) ==
  /\ t > now
  /\ now' = t
  /\ clock' = IF t < clock.startTime THEN clock
              ELSE IF ~clock.started
                THEN [clock EXCEPT !.started = TRUE, !.epoch = 1, !.epochStart = clock.startTime]
              ELSE IF EpochEnds(t) THEN NextEpoch(t)
              ELSE clock

(* ExportGenesis writes the default epoch info whatever the store holds, so *)
(* that a restart counts from the beginning.                                *)
RestartClock == clock' = NewEpochInfo(now) /\ UNCHANGED now

-----------------------------------------------------------------------------
(* The clock holds an epoch info and times.                                 *)
ClockTypeOK == now \in Nat /\ clock \in EpochInfo

(* Epochs lie on the grid laid at genesis and never begin in the future:    *)
(* late blocks shift no epoch, and catching up overtakes no block time      *)
(* (abci.go).                                                               *)
EpochsOnGrid ==
  clock.started =>
    /\ clock.epoch >= 1
    /\ clock.epochStart = clock.startTime + (clock.epoch - 1) * EpochDuration
    /\ clock.epochStart <= now
=============================================================================
