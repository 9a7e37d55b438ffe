-------------------------- MODULE PrintMonitorProofs --------------------------
(***************************************************************************)
(* The print monitor's invariants, and that a working encoder raises no    *)
(* alarm, for every detection length, resolution and report delay.         *)
(***************************************************************************)
EXTENDS PrintMonitor, TLAPS

LEMMA MinOfTwo ==
  ASSUME NEW a \in Int, NEW b \in Int
  PROVE  Min({a, b}) = IF a <= b THEN a ELSE b
<1>1. CASE a <= b
  <2>1. \A y \in {a, b} : a <= y
    BY <1>1
  <2>2. \A x \in {a, b} : (\A y \in {a, b} : x <= y) => x = a
    BY <1>1
  <2> QED BY <1>1, <2>1, <2>2 DEF Min
<1>2. CASE b < a
  <2>1. \A y \in {a, b} : b <= y
    BY <1>2
  <2>2. \A x \in {a, b} : (\A y \in {a, b} : x <= y) => x = b
    BY <1>2
  <2> QED BY <1>2, <2>1, <2>2 DEF Min
<1> QED BY <1>1, <1>2

LEMMA MaxOfTwo ==
  ASSUME NEW a \in Int, NEW b \in Int
  PROVE  Max({a, b}) = IF a >= b THEN a ELSE b
<1>1. CASE a >= b
  <2>1. \A y \in {a, b} : a >= y
    BY <1>1
  <2>2. \A x \in {a, b} : (\A y \in {a, b} : x >= y) => x = a
    BY <1>1
  <2> QED BY <1>1, <2>1, <2>2 DEF Max
<1>2. CASE a < b
  <2>1. \A y \in {a, b} : b >= y
    BY <1>2
  <2>2. \A x \in {a, b} : (\A y \in {a, b} : x >= y) => x = b
    BY <1>2
  <2> QED BY <1>2, <2>1, <2>2 DEF Max
<1> QED BY <1>1, <1>2

(***************************************************************************)
(* What a poll computes from the distance since the last one.              *)
(***************************************************************************)
LEMMA NetPushFacts ==
  ASSUME TypeOK
  PROVE  /\ NetPush \in Nat /\ Debt \in Nat /\ Furthest \in Int
         /\ NetPush <= 0 \/ NetPush <= position - lastPosition
         /\ retraction = high - lastPosition =>
              Debt = Furthest - position /\ NetPush = Furthest - high
<1>1. /\ position \in Int /\ lastPosition \in Int /\ high \in Int /\ retraction \in Nat
      /\ Delta \in Int
  BY DEF TypeOK, NumbersOK, Delta
<1>2. Min({Delta, retraction}) = IF Delta <= retraction THEN Delta ELSE retraction
  BY <1>1, MinOfTwo
<1>3. Furthest = IF high >= position THEN high ELSE position
  BY <1>1, MaxOfTwo DEF Furthest
<1> QED BY <1>1, <1>2, <1>3 DEF NetPush, Debt, Recovered, Delta

(***************************************************************************)
(* The invariant.  CountMoved ties the latch to the history; WheelBehind   *)
(* bounds what the filament can travel before a pulse is reported.         *)
(***************************************************************************)
CountMoved == /\ fault = 0 => moved
              /\ counts > faultCounts => moved

PushedBySince == active /\ ~slipped => /\ extrusion <= since
                                      /\ extrusion + position - lastPosition <= since

WheelBehind ==
  /\ phase < Resolution /\ unreported <= Lag
  /\ active /\ ~slipped =>
       /\ lastCounts <= counts
       /\ counts = lastCounts => since <= Resolution - 1 + unreported
       /\ counts = lastCounts /\ pulses = 0 => since <= phase

MonitorInv == /\ TypeOK
              /\ RunsOnAQuietPath /\ AccumulatorsMeasure /\ JamsAreReported
              /\ StateIsTrue /\ LatchFollowsCount
              /\ CountMoved /\ PushedBySince /\ WheelBehind

LEMMA LatchFacts ==
  ASSUME TypeOK, CountMoved
  PROVE  /\ LatchedFault \in Nat /\ LatchedCounts \in Nat
         /\ LatchedFault = 0 => moved
         /\ counts > LatchedCounts => moved
         /\ LatchedFault # 0 => LatchedFault = fault /\ LatchedCounts = counts
         /\ LatchedFault # fault => moved
BY DEF TypeOK, NumbersOK, CountMoved, LatchedFault, LatchedCounts, Freed

LEMMA InitHolds == Init => MonitorInv
<1> SUFFICES ASSUME Init PROVE MonitorInv
  OBVIOUS
<1>1. TypeOK
  <2>1. FlagsOK
    BY DEF Init, FlagsOK
  <2>2. NumbersOK
    BY DEF Init, NumbersOK
  <2> QED BY <2>1, <2>2 DEF Init, TypeOK
<1>2. RunsOnAQuietPath /\ AccumulatorsMeasure /\ JamsAreReported /\ StateIsTrue
  BY DEF Init, RunsOnAQuietPath, AccumulatorsMeasure, JamsAreReported, StateIsTrue
<1>3. LatchFollowsCount /\ CountMoved /\ PushedBySince /\ WheelBehind
  BY LengthAssumption DEF Init, LatchFollowsCount, CountMoved, PushedBySince, WheelBehind
<1> QED BY <1>1, <1>2, <1>3 DEF MonitorInv

LEMMA FlagsStep == TypeOK /\ [Next]_vars => FlagsOK'
<1> SUFFICES ASSUME TypeOK, [Next]_vars PROVE FlagsOK'
  OBVIOUS
<1> USE DEF TypeOK, FlagsOK, NumbersOK, told, wheel, latch, monitor, history
<1>1. ASSUME NEW d \in {-1, 1}, Move(d) PROVE FlagsOK'
  BY <1>1 DEF Move, Push
<1>2. ASSUME NEW d \in {-1, 1}, Slip(d) PROVE FlagsOK'
  BY <1>2 DEF Slip, Push
<1>3. CASE Jam
  BY <1>3 DEF Jam
<1>4. CASE Report
  BY <1>4 DEF Report
<1>5. CASE CounterReset
  BY <1>5 DEF CounterReset
<1>6. CASE PollUnread
  BY <1>6 DEF PollUnread, ResetMonitor, Mark
<1>7. CASE PollInactive
  BY <1>7 DEF PollInactive, ResetMonitor, Mark
<1>8. CASE PollActivate
  BY <1>8 DEF PollActivate, Mark
<1>9. CASE PollCounterReset
  BY <1>9 DEF PollCounterReset, Mark
<1>10. CASE PollPulse
  BY <1>10 DEF PollPulse
<1>11. CASE PollQuiet
  BY <1>11 DEF PollQuiet, Quiet
<1>12. CASE PollFault
  BY <1>12 DEF PollFault, Quiet
<1>13. CASE PauseReturns
  BY <1>13 DEF PauseReturns
<1>14. CASE PrintStateChange
  BY <1>14 DEF PrintStateChange
<1>15. CASE TransactionBegin
  BY <1>15 DEF TransactionBegin, ResetMonitor, Mark
<1>16. CASE TransactionEnd
  BY <1>16 DEF TransactionEnd
<1>17. CASE PathChange
  BY <1>17 DEF PathChange, ResetMonitor, Mark
<1>18. CASE CalibrationStart
  BY <1>18 DEF CalibrationStart, ResetMonitor, Mark
<1>19. CASE CalibrationEnd
  BY <1>19 DEF CalibrationEnd, ResetMonitor, Mark
<1>20. CASE UNCHANGED vars
  BY <1>20 DEF vars
<1> QED BY <1>1, <1>2, <1>3, <1>4, <1>5, <1>6, <1>7, <1>8, <1>9, <1>10, <1>11,
     <1>12, <1>13, <1>14, <1>15, <1>16, <1>17, <1>18, <1>19, <1>20 DEF Next, Poll

MonitorRest ==
  /\ NumbersOK /\ RunsOnAQuietPath /\ AccumulatorsMeasure /\ JamsAreReported /\ StateIsTrue
  /\ LatchFollowsCount /\ CountMoved /\ PushedBySince /\ WheelBehind

LEMMA RestStep == MonitorInv /\ [Next]_vars => MonitorRest'
<1> SUFFICES ASSUME MonitorInv, [Next]_vars PROVE MonitorRest'
  OBVIOUS
<1> USE LengthAssumption DEF MonitorInv, MonitorRest, TypeOK, FlagsOK, NumbersOK,
      RunsOnAQuietPath, AccumulatorsMeasure, JamsAreReported, StateIsTrue, LatchFollowsCount,
      CountMoved, PushedBySince,
      WheelBehind,
      told, wheel, latch, monitor, history
<1>1. ASSUME NEW d \in {-1, 1}, Move(d) PROVE MonitorRest'
  BY <1>1 DEF Move, Push
<1>2. ASSUME NEW d \in {-1, 1}, Slip(d) PROVE MonitorRest'
  BY <1>2 DEF Slip, Push
<1>3. CASE Jam
  BY <1>3 DEF Jam
<1>4. CASE Report
  <2>1. CASE pulses > 0
    <3>1. moved' /\ moved' \in BOOLEAN
      BY <1>4, <2>1 DEF Report
    <3>2. counts' \in Nat /\ counts' > counts /\ pulses' = 0 /\ unreported' = 0
      BY <1>4, <2>1 DEF Report
    <3>3. WheelBehind'
      BY <1>4, <3>2 DEF Report
    <3>4. CountMoved' /\ PushedBySince' /\ LatchFollowsCount' /\ StateIsTrue'
      BY <1>4, <3>1, <3>2 DEF Report
    <3>5. NumbersOK' /\ RunsOnAQuietPath' /\ AccumulatorsMeasure' /\ JamsAreReported'
      BY <1>4, <3>2 DEF Report
    <3> QED BY <3>3, <3>4, <3>5
  <2>2. CASE pulses = 0
    <3>1. counts' = counts /\ moved' = moved /\ pulses' = 0 /\ unreported' = 0
      BY <1>4, <2>2 DEF Report
    <3> QED BY <1>4, <2>2, <3>1 DEF Report
  <2> QED BY <2>1, <2>2
<1>5. CASE CounterReset
  BY <1>5 DEF CounterReset
<1>6. CASE PollUnread
  BY <1>6 DEF PollUnread, ResetMonitor, Mark
<1>7. CASE PollInactive
  BY <1>7, LatchFacts DEF PollInactive, ResetMonitor, Mark, UpdateLatch
<1>8. CASE PollActivate
  BY <1>8, LatchFacts DEF PollActivate, Mark, UpdateLatch, Watching, Label
<1>9. CASE PollCounterReset
  BY <1>9, LatchFacts DEF PollCounterReset, Mark, UpdateLatch, Watching, Label
<1>10. CASE PollPulse
  BY <1>10, NetPushFacts DEF PollPulse, Watching
<1>11. CASE PollQuiet
  BY <1>11, LatchFacts, NetPushFacts DEF PollQuiet, Quiet, UpdateLatch, Watching, Label
<1>12. CASE PollFault
  BY <1>12, LatchFacts, NetPushFacts DEF PollFault, Quiet, UpdateLatch, Watching, Label
<1>13. CASE PauseReturns
  BY <1>13 DEF PauseReturns
<1>14. CASE PrintStateChange
  BY <1>14 DEF PrintStateChange
<1>15. CASE TransactionBegin
  BY <1>15 DEF TransactionBegin, ResetMonitor, Mark
<1>16. CASE TransactionEnd
  BY <1>16 DEF TransactionEnd
<1>17. CASE PathChange
  BY <1>17 DEF PathChange, ResetMonitor, Mark
<1>18. CASE CalibrationStart
  BY <1>18 DEF CalibrationStart, ResetMonitor, Mark
<1>19. CASE CalibrationEnd
  BY <1>19 DEF CalibrationEnd, ResetMonitor, Mark
<1>20. CASE UNCHANGED vars
  BY <1>20 DEF vars
<1> QED BY <1>1, <1>2, <1>3, <1>4, <1>5, <1>6, <1>7, <1>8, <1>9, <1>10, <1>11,
     <1>12, <1>13, <1>14, <1>15, <1>16, <1>17, <1>18, <1>19, <1>20 DEF Next, Poll

LEMMA StepHolds == MonitorInv /\ [Next]_vars => MonitorInv'
BY FlagsStep, RestStep DEF MonitorInv, MonitorRest, TypeOK

(***************************************************************************)
(* The theorems.                                                           *)
(***************************************************************************)
LEMMA InvariantHolds == Spec => []MonitorInv
BY InitHolds, StepHolds, PTL DEF Spec

\* The monitor runs on a loaded path without transaction or calibration only
\* (_transaction_scope, _set_path_state).
THEOREM QuietPath == Spec => []RunsOnAQuietPath
<1>1. MonitorInv => RunsOnAQuietPath
  BY DEF MonitorInv
<1> QED BY <1>1, InvariantHolds, PTL

\* Retraction debt and extrusion since the last pulse are distances to the
\* furthest sample, for every sequence of moves and polls
\* (_encoder_print_net_extrusion).
THEOREM Measured == Spec => []AccumulatorsMeasure
<1>1. MonitorInv => AccumulatorsMeasure
  BY DEF MonitorInv
<1> QED BY <1>1, InvariantHolds, PTL

\* No active monitor sits on detection_length of filament without a pulse and
\* without a latched fault (update_encoder_print_monitor).
THEOREM JamsReported == Spec => []JamsAreReported
<1>1. MonitorInv => JamsAreReported
  BY DEF MonitorInv
<1> QED BY <1>1, InvariantHolds, PTL

\* What is reported as fault or monitoring is the latch of a running monitor.
THEOREM StateTrue == Spec => []StateIsTrue
<1>1. MonitorInv => StateIsTrue
  BY DEF MonitorInv
<1> QED BY <1>1, InvariantHolds, PTL

\* Every variable keeps its type: the sums never go negative, whatever the
\* extruder does (_encoder_print_net_extrusion).
THEOREM MonitorTypes == Spec => []TypeOK
<1>1. MonitorInv => TypeOK
  BY DEF MonitorInv
<1> QED BY <1>1, InvariantHolds, PTL

\* A latched fault of a running monitor waits for a count above the last one
\* sampled (_update_encoder_print_fault_latch_locked).
THEOREM LatchFollows == Spec => []LatchFollowsCount
<1>1. MonitorInv => LatchFollowsCount
  BY DEF MonitorInv
<1> QED BY <1>1, InvariantHolds, PTL

LEMMA OnlyFaultCounts ==
  ASSUME MonitorInv, [Next]_vars, sequence' # sequence
  PROVE  PollFault
BY DEF Next, Poll, vars, monitor, Move, Slip, Jam, Report, CounterReset, PollUnread,
   PollInactive, PollActivate, PollCounterReset, PollPulse, PollQuiet, PauseReturns,
   PrintStateChange, TransactionBegin, TransactionEnd, PathChange, CalibrationStart,
   CalibrationEnd

\* A working encoder raises no alarm when the detection length covers its
\* resolution and the delay of its reports.
THEOREM NoFalseAlarm == Spec => AlarmsAreSlips
<1>1. MonitorInv /\ [Next]_vars => [HonestAlarm]_vars
  <2> SUFFICES ASSUME MonitorInv, [Next]_vars, sequence' # sequence, ~slipped,
                      Detection >= Resolution + Lag
               PROVE  FALSE
    BY DEF HonestAlarm
  <2>1. PollFault
    BY OnlyFaultCounts
  <2>2. active /\ counts = lastCounts /\ extrusion' = extrusion + NetPush /\ extrusion' >= Detection
    BY <2>1 DEF PollFault, Quiet
  <2>3. NumbersOK /\ NetPush \in Nat /\ (NetPush <= 0 \/ NetPush <= position - lastPosition)
    BY NetPushFacts DEF MonitorInv, TypeOK
  <2>4. extrusion' <= since
    BY <2>2, <2>3 DEF MonitorInv, PushedBySince, NumbersOK
  <2>5. since <= Resolution - 1 + Lag
    BY <2>2, <2>3, LengthAssumption DEF MonitorInv, WheelBehind, NumbersOK
  <2> QED BY <2>2, <2>3, <2>4, <2>5, LengthAssumption DEF NumbersOK
<1> QED BY <1>1, InvariantHolds, PTL DEF Spec, AlarmsAreSlips

\* Between two events the count goes up: one event and one pause per jam.
THEOREM OneEvent == Spec => OneEventPerJam
<1>1. MonitorInv /\ [Next]_vars => [sequence' # sequence => moved]_vars
  <2> SUFFICES ASSUME MonitorInv, [Next]_vars, sequence' # sequence PROVE moved
    OBVIOUS
  <2>1. LatchedFault = 0
    BY OnlyFaultCounts DEF PollFault
  <2> QED BY <2>1, LatchFacts DEF MonitorInv
<1> QED BY <1>1, InvariantHolds, PTL DEF Spec, OneEventPerJam

\* Only motion of the encoder clears a latched fault.
THEOREM MotionClears == Spec => OnlyMotionClears
<1>1. MonitorInv /\ [Next]_vars => [fault # 0 /\ fault' = 0 => moved]_vars
  <2> SUFFICES ASSUME MonitorInv, [Next]_vars, fault # 0, fault' = 0 PROVE moved
    OBVIOUS
  <2>1. \/ LatchedFault = 0
        \/ PollPulse
        \/ PollFault
    BY DEF Next, Poll, vars, monitor, latch, Move, Slip, Jam, Report, CounterReset, PollUnread,
       PollInactive, PollActivate, PollCounterReset, PollQuiet, PauseReturns, UpdateLatch,
       PrintStateChange, TransactionBegin, TransactionEnd, PathChange, CalibrationStart,
       CalibrationEnd
  <2>2. LatchedFault = 0 => moved
    BY LatchFacts DEF MonitorInv
  <2>3. CASE PollPulse
    <3>1. active /\ counts > lastCounts
      BY <2>3 DEF PollPulse
    <3>2. faultCounts = lastCounts
      BY <3>1 DEF MonitorInv, LatchFollowsCount
    <3> QED BY <3>1, <3>2 DEF MonitorInv, CountMoved
  <2>4. CASE PollFault
    BY <2>2, <2>4 DEF PollFault
  <2> QED BY <2>1, <2>2, <2>3, <2>4
<1> QED BY <1>1, InvariantHolds, PTL DEF Spec, OnlyMotionClears
=============================================================================
