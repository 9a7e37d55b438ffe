----------------------------- MODULE PrintMonitor -----------------------------
(***************************************************************************)
(* The print monitor of AceManager: a timer (klipper.py) samples the       *)
(* extruder's physical position and the shared encoder's pulse count while *)
(* a print runs, and reports a fault when the extruder has pushed          *)
(* detection_length of new filament without a new pulse.                   *)
(*                                                                         *)
(* A poll is one action: update_encoder_print_monitor holds _state_lock    *)
(* and gives the reactor away only in the pause macro, which it runs last. *)
(* The extruder, the encoder, the print, the path and the calibration      *)
(* wizard move between polls, and while the macro runs.                    *)
(***************************************************************************)
EXTENDS Integers, FiniteSetsExt

CONSTANTS
  Detection,      \* encoder_print_detection_length
  Resolution,     \* filament travel per pulse
  Lag,            \* travel that fits between two reports of the counter
  PauseMode,      \* encoder_print_mode: "pause" when TRUE, else "monitor"
  CounterResets,  \* the encoder object may restart its count
  MaxTravel,      \* bound: filament travel seen by the encoder
  MaxPosition     \* bound: distance of the extruder from its origin

ASSUME LengthAssumption ==
  Detection \in Nat \ {0} /\ Resolution \in Nat \ {0} /\ Lag \in Nat \ {0}
ASSUME MonitorAssumption == {PauseMode, CounterResets} \subseteq BOOLEAN
ASSUME MonitorBoundAssumption == {MaxTravel, MaxPosition} \subseteq Nat

VARIABLES
  \* What the monitor is told about, or samples.
  printing,     \* print_stats says "printing"
  loaded,       \* path_state "nozzle" with a current_tool
  busy,         \* a path transaction runs
  calibrating,  \* encoder calibration_active
  position,     \* the extruder's physical position
  counts,       \* the pulse count the encoder last reported
  \* The filament and the encoder wheel.
  jammed,       \* the filament does not follow the extruder
  travel,       \* filament travel
  phase,        \* travel since the last pulse
  pulses,       \* pulses not reported yet
  unreported,   \* travel since the last report of the counter
  \* The monitor (_encoder_print_*).
  active, state, lastPosition, lastCounts, retraction, extrusion,
  fault,        \* sequence of the latched fault, 0 for None
  faultCounts, sequence,
  pausing,      \* the pause macro of this event runs, 0 for none
  \* History: what the properties compare the monitor with.
  high, mark,   \* furthest position sampled, now and at the last pulse
  since,        \* filament travel since the last pulse sampled
  slipped,      \* the extruder moved alone, or counts were lost, since then
  moved         \* the reported count went up since the last event, if any

told    == <<printing, loaded, busy, calibrating>>
wheel   == <<travel, phase, pulses, unreported>>
sums    == <<retraction, extrusion>>
latch   == <<fault, faultCounts>>
monitor == <<active, state, lastPosition, lastCounts, retraction, extrusion,
             fault, faultCounts, sequence>>
history == <<high, mark, since, slipped, moved>>
vars == <<printing, loaded, busy, calibrating, position, counts, jammed,
          travel, phase, pulses, unreported, active, state, lastPosition,
          lastCounts, retraction, extrusion, fault, faultCounts, sequence,
          pausing, high, mark, since, slipped, moved>>

Init ==
  /\ printing = FALSE /\ loaded = FALSE /\ busy = FALSE /\ calibrating = FALSE
  /\ position = 0 /\ counts = 0 /\ jammed = FALSE
  /\ travel = 0 /\ phase = 0 /\ pulses = 0 /\ unreported = 0
  /\ active = FALSE /\ state = "inactive" /\ lastPosition = 0 /\ lastCounts = 0
  /\ retraction = 0 /\ extrusion = 0
  /\ fault = 0 /\ faultCounts = 0 /\ sequence = 0 /\ pausing = 0
  /\ high = 0 /\ mark = 0 /\ since = 0 /\ slipped = FALSE /\ moved = TRUE

(***************************************************************************)
(* The extruder and the encoder.                                           *)
(***************************************************************************)
Push(d) ==
  /\ position + d \in -MaxPosition..MaxPosition
  /\ position' = position + d

\* The filament follows: a pulse for every Resolution of travel, either way.
Move(d) ==
  /\ ~jammed /\ travel < MaxTravel /\ unreported < Lag
  /\ Push(d)
  /\ travel' = travel + 1 /\ unreported' = unreported + 1
  /\ phase' = IF phase + 1 = Resolution THEN 0 ELSE phase + 1
  /\ pulses' = IF phase + 1 = Resolution THEN pulses + 1 ELSE pulses
  /\ since' = IF active THEN since + 1 ELSE 0
  /\ UNCHANGED <<told, counts, jammed, monitor, pausing, high, mark, slipped, moved>>

\* The filament is jammed, broken or used up: the extruder turns alone.
Slip(d) ==
  /\ jammed /\ Push(d)
  /\ slipped' = active
  /\ UNCHANGED <<told, counts, jammed, wheel, monitor, pausing, high, mark, since, moved>>

Jam == jammed' = ~jammed /\ UNCHANGED <<told, position, counts, wheel, monitor, pausing, history>>

\* _counter_callback: the count catches up with the pulses.
Report ==
  /\ counts' = counts + pulses /\ pulses' = 0 /\ unreported' = 0
  /\ moved' = (moved \/ pulses > 0)
  /\ UNCHANGED <<told, position, jammed, travel, phase, monitor, pausing,
                 high, mark, since, slipped>>

CounterReset ==
  /\ CounterResets /\ counts' = 0
  /\ slipped' = active
  /\ UNCHANGED <<told, position, jammed, wheel, monitor, pausing, high, mark, since, moved>>

(***************************************************************************)
(* The monitor.                                                            *)
(***************************************************************************)
\* A fresh baseline for the history.
Mark(p) == high' = p /\ mark' = p /\ since' = 0 /\ slipped' = FALSE

\* _reset_encoder_print_monitor_locked; 0 stands for None.
ResetMonitor ==
  /\ active' = FALSE /\ state' = "inactive"
  /\ lastPosition' = 0 /\ lastCounts' = 0
  /\ retraction' = 0 /\ extrusion' = 0
  /\ Mark(0)

\* _update_encoder_print_fault_latch_locked, given what it reads.
Freed == fault # 0 /\ counts > faultCounts

LatchedFault == IF Freed THEN 0 ELSE fault
LatchedCounts ==
  CASE Freed                              -> 0
    [] fault # 0 /\ counts <= faultCounts -> counts
    [] OTHER                              -> faultCounts

UpdateLatch == fault' = LatchedFault /\ faultCounts' = LatchedCounts

Watching == printing /\ ~busy /\ ~calibrating /\ loaded

Label(f) == IF f # 0 THEN "fault" ELSE "monitoring"

PollUnread ==   \* get_status failed: no count, the latch is left alone
  /\ pausing = 0
  /\ ResetMonitor
  /\ UNCHANGED <<told, position, counts, jammed, wheel, latch, sequence, pausing, moved>>

PollInactive ==
  /\ pausing = 0
  /\ UpdateLatch
  \* Not printing, suspended, not loaded, or no physical position to read.
  /\ ResetMonitor
  /\ UNCHANGED <<told, position, counts, jammed, wheel, sequence, pausing, moved>>

\* Mutant: the monitor starts afresh and forgets the fault.
PollActivateAfresh ==
  /\ pausing = 0 /\ Watching /\ ~active
  /\ fault' = 0 /\ faultCounts' = 0
  /\ active' = TRUE /\ state' = "monitoring"
  /\ lastPosition' = position /\ lastCounts' = counts
  /\ retraction' = 0 /\ extrusion' = 0
  /\ Mark(position)
  /\ UNCHANGED <<told, position, counts, jammed, wheel, sequence, pausing, moved>>

PollActivate ==
  /\ pausing = 0 /\ Watching /\ ~active
  /\ UpdateLatch
  /\ active' = TRUE /\ state' = Label(LatchedFault)
  /\ lastPosition' = position /\ lastCounts' = counts
  /\ retraction' = 0 /\ extrusion' = 0
  /\ Mark(position)
  /\ UNCHANGED <<told, position, counts, jammed, wheel, sequence, pausing, moved>>

PollCounterReset ==
  /\ pausing = 0 /\ Watching /\ active /\ counts < lastCounts
  /\ UpdateLatch
  /\ state' = Label(LatchedFault)
  /\ lastPosition' = position /\ lastCounts' = counts
  /\ retraction' = 0 /\ extrusion' = 0
  /\ Mark(position)
  /\ UNCHANGED <<told, position, counts, jammed, wheel, active, sequence, pausing, moved>>

\* _encoder_print_net_extrusion
Delta == position - lastPosition
Recovered == IF Delta > 0 THEN Min({Delta, retraction}) ELSE 0
NetPush == IF Delta > 0 THEN Delta - Recovered ELSE 0

\* Mutant: a recovery does not pay the debt.
DebtUnpaid == IF Delta < 0 THEN retraction - Delta ELSE retraction

Debt == IF Delta < 0 THEN retraction - Delta ELSE retraction - Recovered
Furthest == Max({high, position})

\* Mutant: a pulse does not renew the detection length.
PollPulseNoReset ==
  /\ pausing = 0 /\ Watching /\ active /\ counts > lastCounts
  /\ lastPosition' = position /\ lastCounts' = counts
  /\ retraction' = Debt /\ extrusion' = extrusion
  /\ fault' = 0 /\ faultCounts' = 0 /\ state' = "monitoring"
  /\ high' = Furthest /\ mark' = Furthest /\ since' = 0 /\ slipped' = FALSE
  /\ UNCHANGED <<told, position, counts, jammed, wheel, active, sequence, pausing, moved>>

PollPulse ==
  /\ pausing = 0 /\ Watching /\ active /\ counts > lastCounts
  /\ lastPosition' = position /\ lastCounts' = counts
  /\ retraction' = Debt /\ extrusion' = 0
  /\ fault' = 0 /\ faultCounts' = 0 /\ state' = "monitoring"
  /\ high' = Furthest /\ mark' = Furthest /\ since' = 0 /\ slipped' = FALSE
  /\ UNCHANGED <<told, position, counts, jammed, wheel, active, sequence, pausing, moved>>

Quiet ==
  /\ pausing = 0 /\ Watching /\ active /\ counts = lastCounts
  /\ lastPosition' = position /\ lastCounts' = counts
  /\ retraction' = Debt /\ extrusion' = extrusion + NetPush
  /\ high' = Furthest
  /\ UNCHANGED <<told, position, counts, jammed, wheel, active, mark, since, slipped>>

PollQuiet ==
  /\ Quiet
  /\ LatchedFault # 0 \/ extrusion' < Detection
  /\ UpdateLatch
  /\ state' = Label(LatchedFault)
  /\ UNCHANGED <<sequence, pausing, moved>>

\* _record_encoder_print_fault_locked, then the pause macro.
PollFault ==
  /\ Quiet
  /\ LatchedFault = 0 /\ extrusion' >= Detection
  /\ sequence' = sequence + 1
  /\ fault' = sequence' /\ faultCounts' = counts /\ state' = "fault"
  /\ pausing' = IF PauseMode THEN sequence' ELSE 0
  /\ moved' = FALSE

Poll == \/ PollUnread \/ PollInactive \/ PollActivate \/ PollCounterReset
        \/ PollPulse \/ PollQuiet \/ PollFault

\* _request_encoder_print_pause: the macro pauses the print, or fails and the
\* error is noted in the event.  It is not tried again.
PauseReturns ==
  /\ pausing # 0 /\ pausing' = 0
  /\ printing' \in {printing, FALSE}
  /\ UNCHANGED <<loaded, busy, calibrating, position, counts, jammed, wheel, monitor, history>>

(***************************************************************************)
(* What else happens to the monitor.                                       *)
(***************************************************************************)
PrintStateChange ==
  /\ printing' = ~printing
  /\ UNCHANGED <<loaded, busy, calibrating, position, counts, jammed, wheel,
                 monitor, pausing, history>>

\* Mutant: the monitor is left running.
TransactionBeginRunning ==
  /\ ~busy /\ busy' = TRUE
  /\ UNCHANGED <<printing, loaded, calibrating, position, counts, jammed, wheel,
                 monitor, pausing, history>>

TransactionBegin ==
  /\ ~busy /\ busy' = TRUE
  /\ ResetMonitor
  /\ UNCHANGED <<printing, loaded, calibrating, position, counts, jammed, wheel,
                 latch, sequence, pausing, moved>>

TransactionEnd ==
  /\ busy /\ busy' = FALSE
  /\ UNCHANGED <<printing, loaded, calibrating, position, counts, jammed, wheel,
                 monitor, pausing, history>>

\* _set_path_state, _set_path_unknown: in a transaction or by ACE_RECONNECT.
PathChange ==
  /\ loaded' = ~loaded
  /\ ResetMonitor
  /\ UNCHANGED <<printing, busy, calibrating, position, counts, jammed, wheel,
                 latch, sequence, pausing, moved>>

CalibrationStart ==
  /\ ~calibrating /\ ~printing /\ ~busy /\ ~loaded
  /\ calibrating' = TRUE
  /\ ResetMonitor
  /\ UNCHANGED <<printing, loaded, busy, position, counts, jammed, wheel,
                 latch, sequence, pausing, moved>>

\* Cancelled, or its last segment accepted.
CalibrationEnd ==
  /\ calibrating /\ ~printing
  /\ calibrating' = FALSE
  /\ ResetMonitor
  /\ UNCHANGED <<printing, loaded, busy, position, counts, jammed, wheel,
                 latch, sequence, pausing, moved>>

Next ==
  \/ \E d \in {-1, 1} : Move(d) \/ Slip(d)
  \/ Jam \/ Report \/ CounterReset
  \/ Poll \/ PauseReturns
  \/ PrintStateChange \/ TransactionBegin \/ TransactionEnd \/ PathChange
  \/ CalibrationStart \/ CalibrationEnd

Spec == Init /\ [][Next]_vars

(***************************************************************************)
(* Properties.                                                             *)
(***************************************************************************)
FlagsOK ==
  /\ printing \in BOOLEAN /\ loaded \in BOOLEAN /\ busy \in BOOLEAN
  /\ calibrating \in BOOLEAN /\ jammed \in BOOLEAN /\ active \in BOOLEAN
  /\ slipped \in BOOLEAN /\ moved \in BOOLEAN

NumbersOK ==
  /\ position \in Int /\ lastPosition \in Int /\ high \in Int /\ mark \in Int
  /\ counts \in Nat /\ travel \in Nat /\ phase \in Nat /\ pulses \in Nat
  /\ unreported \in Nat /\ lastCounts \in Nat /\ retraction \in Nat /\ extrusion \in Nat
  /\ fault \in Nat /\ faultCounts \in Nat /\ sequence \in Nat /\ pausing \in Nat
  /\ since \in Nat
  /\ state \in {"inactive", "monitoring", "fault"}

TypeOK == FlagsOK /\ NumbersOK

\* The monitor is only ever running on a loaded path that no transaction and
\* no calibration uses, also between two polls: whoever takes the path stops it
\* (_transaction_scope, _set_path_state), so what a change of tool extrudes is
\* never counted as print.
RunsOnAQuietPath == active => loaded /\ ~busy /\ ~calibrating

\* Retractions and their recoveries cancel out however they are sliced by the
\* polls: what the accumulators hold is the distance to the furthest position
\* sampled, and how far that has moved since the last pulse
\* (_encoder_print_net_extrusion).
AccumulatorsMeasure ==
  active => /\ retraction = high - lastPosition
            /\ extrusion = high - mark

\* A fault is latched as soon as the samples show detection_length of new
\* filament without a pulse, and stays latched until a pulse: no active
\* monitor sits on an unreported jam.
JamsAreReported == active /\ high - mark >= Detection => fault # 0

\* An encoder that works, however late it reports within Lag, raises no alarm:
\* every event follows the extruder moving without the filament, or a count
\* that was lost since the baseline was taken.
HonestAlarm ==
  Detection >= Resolution + Lag /\ sequence' # sequence => slipped

AlarmsAreSlips == [][HonestAlarm]_vars

\* One event, and one pause, per jam: after an event the count goes up before
\* the next one, whatever transactions, pauses and counter restarts happen in
\* between.
OneEventPerJam == [][sequence' # sequence => moved]_vars

\* A latched fault is cleared by motion of the encoder only, never by a pause,
\* a change of tool, or the monitor standing by.
OnlyMotionClears == [][fault # 0 /\ fault' = 0 => moved]_vars

\* What the status reports as "fault" or "monitoring" is the latch of a
\* running monitor.
StateIsTrue ==
  /\ active => (state = "fault" <=> fault # 0)
  /\ ~active => state = "inactive"

\* While it runs, a latched fault waits for a count above the one last sampled.
LatchFollowsCount == active /\ fault # 0 => faultCounts = lastCounts
=============================================================================
