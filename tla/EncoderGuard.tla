----------------------------- MODULE EncoderGuard -----------------------------
(***************************************************************************)
(* The shared filament encoder as a guard of motions: what AceEncoder      *)
(* (klipper_extras/ace_encoder.py) measures of each motion, what the       *)
(* manager does with it in the modes off, monitor and protect, the two     *)
(* places a fault is kept in, and the manual calibration.                  *)
(*                                                                         *)
(* Where the filament is and what the units do is AcePath's business: here *)
(* a motion succeeds or fails, and sensors show what they show.            *)
(***************************************************************************)
EXTENDS Naturals, Sequences

CONSTANTS
  Modes,      \* values of encoder_mode
  Segments,   \* segments of a calibration round (SEGMENTS=)
  Measures,   \* measured length per pulse of one segment
  Attempts    \* bound: feed windows, unload turns

ASSUME ModeAssumption == Modes \subseteq {"off", "monitor", "protect"}
ASSUME RoundAssumption ==
  /\ Segments \in 1..10 /\ Measures \subseteq Nat \ {0} /\ Attempts \in Nat

VARIABLES
  mode,         \* encoder_mode, read once from the configuration
  path,         \* path_state
  owned,        \* current_tool is not None
  assist,       \* feed_assist_tool is not None
  step,         \* the motion under way
  tries,
  watched,      \* the encoder token of that motion is not None
  available,    \* a first pulse count has arrived
  resolution,   \* of AceEncoder, 0: not calibrated; times Segments
  saved,        \* encoder_resolution in the state store, 0: none
  motionFault,  \* AceEncoder._fault
  runtimeFault, \* AceManager._encoder_runtime_fault
  round,        \* the calibration: active, and the segments measured
  made,         \* history: the segments measured since a round last started
  answer        \* how the command that just ended was answered

claim  == <<path, owned, assist>>
faults == <<motionFault, runtimeFault>>
gauge  == <<available, resolution, saved>>
rounds == <<round, made>>
vars   == <<mode, path, owned, assist, step, tries, watched, available, resolution,
            saved, motionFault, runtimeFault, round, made, answer>>

Answers == {"none", "failed", "encoder", "reconnected", "too_few", "segment", "rejected",
            "passed", "warning", "unsaved"}

Init ==
  /\ mode \in Modes
  /\ path = "empty" /\ owned = FALSE /\ assist = FALSE
  /\ step = "idle" /\ tries = 0 /\ watched = FALSE
  /\ available = FALSE /\ resolution = 0 /\ saved = 0
  /\ motionFault = FALSE /\ runtimeFault = FALSE
  /\ round = [active |-> FALSE, measured |-> <<>>] /\ made = <<>>
  /\ answer = "none"

\* _encoder_status: either place shows as the fault.
FaultShown == motionFault \/ runtimeFault

\* As the encoder says it, and as the manager does.
EncoderArmed == mode = "protect" /\ available /\ resolution > 0 /\ ~motionFault
Armed        == EncoderArmed /\ ~runtimeFault

\* get_toolchange_readiness, _start_ace_motion
\* Mutant: monitor refuses as well.
NotRefusedWatched == mode # "off" => available /\ resolution > 0 /\ ~FaultShown

NotRefused == mode = "protect" => Armed

\* _start_encoder_tracking
ExtruderNotRefused == mode = "protect" => EncoderArmed

Toolchanging == ~round.active /\ NotRefused /\ path \in {"empty", "nozzle"}

Quiet == answer' = "none"

(***************************************************************************)
(* The first pulse count after Klipper has started.                        *)
(***************************************************************************)
FirstCount ==
  /\ ~available /\ available' = TRUE
  /\ UNCHANGED <<claim, step, tries, watched, resolution, saved, faults, rounds>> /\ Quiet

(***************************************************************************)
(* Motions.  The token is taken before the command and read after it.      *)
(***************************************************************************)
Goto(s, n) == step' = s /\ tries' = n

\* A motion that must be watched starts.
Start(next) == watched' = (mode # "off") /\ step' = next /\ UNCHANGED tries

\* finish_motion: what the pulses of the motion amount to.
FaultOf(pulses, tracking) ==
  \/ ~available
  \/ pulses = "none"
  \/ tracking /\ pulses = "low" /\ resolution > 0

Pulses == {"none", "low", "good"}

\* _finish_ace_motion
AceMeasures(fault) ==
  /\ motionFault' = fault
  /\ runtimeFault' = (fault \/ (runtimeFault /\ mode = "protect"))

\* _finish_encoder_tracking: the manager is not told.
ExtruderMeasures(fault) == motionFault' = fault /\ UNCHANGED runtimeFault

\* A failure inside the guarded part of a change.
Fails(why) ==
  /\ path' = "unknown" /\ UNCHANGED <<owned, assist>>
  /\ Goto("idle", 0) /\ watched' = FALSE /\ answer' = why

\* Mutant: protect lets the change go on.
EndsAnyway(tracking, Goes) ==
  \/ /\ ~watched /\ Goes /\ Quiet /\ UNCHANGED faults
  \/ /\ watched
     /\ \E pulses \in Pulses :
          LET fault == FaultOf(pulses, tracking) IN
          /\ IF tracking THEN ExtruderMeasures(fault) ELSE AceMeasures(fault)
          /\ Goes /\ Quiet

\* The motion is over: a fault of a watched one ends the change in protect.
Ends(tracking, Goes) ==
  \/ /\ ~watched /\ Goes /\ Quiet /\ UNCHANGED faults
  \/ /\ watched
     /\ \E pulses \in Pulses :
          LET fault == FaultOf(pulses, tracking) IN
          /\ IF tracking THEN ExtruderMeasures(fault) ELSE AceMeasures(fault)
          /\ IF fault /\ mode = "protect" THEN Fails("encoder") ELSE Goes /\ Quiet

(***************************************************************************)
(* change_tool and unload.                                                 *)
(***************************************************************************)
ChangeBegin ==
  /\ step = "idle" /\ Toolchanging
  /\ path' = "changing" /\ assist' = FALSE /\ UNCHANGED owned
  /\ IF owned THEN \E s \in {"pull", "retract", "park"} : Goto(s, 0) ELSE Goto("feed", 0)
  /\ UNCHANGED <<watched, gauge, faults, rounds>> /\ Quiet

\* Either a watched motion starts, or it is refused inside the guarded part.
MotionStart(from, allowed, to) ==
  /\ step = from
  /\ IF allowed THEN Start(to) /\ UNCHANGED claim /\ Quiet ELSE Fails("encoder")
  /\ UNCHANGED <<gauge, faults, rounds>>

FeedStart    == MotionStart("feed", NotRefused, "feeding")
ExtrudeStart == MotionStart("extrude", ExtruderNotRefused, "extruding")
PullStart    == MotionStart("pull", ExtruderNotRefused, "pulling")
RetractStart == MotionStart("retract", NotRefused, "retracting")
ParkStart    == MotionStart("park", NotRefused, "parking")

\* Mutant: the windows are not counted.
FeedEndUncounted ==
  /\ step = "feeding"
  /\ Ends(FALSE, (Goto("extrude", 0) \/ Goto("feed", tries + 1)) /\ watched' = FALSE /\ UNCHANGED claim)
  /\ UNCHANGED <<gauge, rounds>>

\* A window of _feed_to_upper_sensor: reached, or the next one.
FeedEnd ==
  /\ step = "feeding"
  /\ Ends(FALSE,
       /\ Goto("extrude", 0) \/ (tries < Attempts /\ Goto("feed", tries + 1))
       /\ watched' = FALSE /\ UNCHANGED claim)
  /\ UNCHANGED <<gauge, rounds>>

\* load_to_toolhead, then the record of the loaded tool.
ExtrudeEnd ==
  /\ step = "extruding"
  /\ Ends(TRUE,
       /\ path' = "nozzle" /\ owned' = TRUE /\ assist' = TRUE
       /\ Goto("idle", 0) /\ watched' = FALSE)
  /\ UNCHANGED <<gauge, rounds>>

PullEnd ==
  /\ step = "pulling"
  /\ Ends(TRUE, Goto("retract", tries) /\ watched' = FALSE /\ UNCHANGED claim)
  /\ UNCHANGED <<gauge, rounds>>

RetractEnd ==
  /\ step = "retracting"
  /\ Ends(FALSE,
       /\ \/ Goto("park", 0)
          \/ tries < Attempts /\ \E s \in {"pull", "retract"} : Goto(s, tries + 1)
       /\ watched' = FALSE /\ UNCHANGED claim)
  /\ UNCHANGED <<gauge, rounds>>

\* The encoder is past the total hub: once the hub is clear it has nothing to see.
ParkBlind ==
  /\ step = "park"
  /\ Goto("parking", 0) /\ watched' = FALSE
  /\ UNCHANGED <<claim, gauge, faults, rounds>> /\ Quiet

ParkEnd ==
  /\ step = "parking"
  /\ Ends(FALSE,
       /\ owned' = FALSE /\ watched' = FALSE /\ UNCHANGED assist
       /\ \/ path' = "empty" /\ Goto("idle", 0)
          \/ path' = "changing" /\ Goto("feed", 0))
  /\ UNCHANGED <<gauge, rounds>>

\* A serial failure, a lost sensor, a limit: the token is dropped unread.
ChangeFails ==
  /\ step # "idle"
  /\ Fails("failed")
  /\ UNCHANGED <<gauge, faults, rounds>>

(***************************************************************************)
(* feed and retract by hand: watched when a tool is loaded.                *)
(***************************************************************************)
\* Mutant: the calibration is not asked for.
ManualStartAnytime ==
  /\ step = "idle" /\ path \in {"empty", "nozzle"}
  /\ IF path = "nozzle"
     THEN NotRefused /\ Start("moving")
     ELSE watched' = FALSE /\ step' = "moving" /\ UNCHANGED tries
  /\ UNCHANGED <<claim, gauge, faults, rounds>> /\ Quiet

ManualStart ==
  /\ step = "idle" /\ ~round.active /\ path \in {"empty", "nozzle"}
  /\ IF path = "nozzle"
     THEN NotRefused /\ Start("moving")
     ELSE watched' = FALSE /\ step' = "moving" /\ UNCHANGED tries
  /\ UNCHANGED <<claim, gauge, faults, rounds>> /\ Quiet

ManualEnd ==
  /\ step = "moving"
  /\ Ends(FALSE,
       /\ path' \in {"nozzle", "empty", "unknown"} /\ owned' = (path' = "nozzle")
       /\ Goto("idle", 0) /\ watched' = FALSE /\ UNCHANGED assist)
  /\ UNCHANGED <<gauge, rounds>>

AssistOn ==
  /\ step = "idle" /\ ~round.active /\ ~assist
  /\ assist' = TRUE
  /\ UNCHANGED <<path, owned, step, tries, watched, gauge, faults, rounds>> /\ Quiet

AssistOff ==
  /\ step = "idle" /\ assist
  /\ assist' = FALSE
  /\ UNCHANGED <<path, owned, step, tries, watched, gauge, faults, rounds>> /\ Quiet

(***************************************************************************)
(* ACE_RECONNECT.  It asks for the sensors' word only after an uncertain   *)
(* action, on an unknown path, or with a protect fault on the manager's    *)
(* record.                                                                 *)
(***************************************************************************)
Reconcile ==
  \/ path' = "empty" /\ owned' = FALSE
  \/ path' = "nozzle" /\ owned /\ UNCHANGED owned
  \/ path' = "unknown" /\ UNCHANGED owned

MustReconcile(uncertain) ==
  uncertain \/ path = "unknown" \/ (runtimeFault /\ mode = "protect")

Recovered(uncertain) ==
  IF MustReconcile(uncertain) THEN Reconcile /\ path' # "unknown" ELSE UNCHANGED <<path, owned>>

\* The sensors do not identify a path.
ReconnectFails ==
  /\ step = "idle" /\ path' = "unknown"
  /\ answer' = "failed"
  /\ UNCHANGED <<owned, assist, step, tries, watched, gauge, faults, rounds>>

\* The encoder is told only when the manager has a fault on record.
Reconnect ==
  /\ step = "idle"
  /\ \E uncertain \in BOOLEAN : Recovered(uncertain)
  /\ runtimeFault' = FALSE
  /\ motionFault' = (motionFault /\ ~runtimeFault)
  /\ answer' = "reconnected"
  /\ UNCHANGED <<assist, step, tries, watched, gauge, rounds>>

(***************************************************************************)
(* ACE_ENCODER_CALIBRATE.                                                  *)
(***************************************************************************)
Calibratable == step = "idle" /\ ~assist /\ ~owned /\ path = "empty"

\* Mutant: the segments of the round before are kept.
CalibrationStartOver ==
  /\ Calibratable /\ available /\ ~round.active
  /\ round' = [round EXCEPT !.active = TRUE] /\ made' = <<>>
  /\ UNCHANGED <<claim, step, tries, watched, gauge, faults>> /\ Quiet

CalibrationStart ==
  /\ Calibratable /\ available /\ ~round.active
  /\ round' = [active |-> TRUE, measured |-> <<>>] /\ made' = <<>>
  /\ UNCHANGED <<claim, step, tries, watched, gauge, faults>> /\ Quiet

\* LENGTH= with too few pulses: an error, and the round goes on.
CalibrationTooFew ==
  /\ Calibratable /\ round.active
  /\ answer' = "too_few"
  /\ UNCHANGED <<claim, step, tries, watched, gauge, faults, rounds>>

Sum(s) ==
  LET upTo[i \in 0..Len(s)] == IF i = 0 THEN 0 ELSE upTo[i - 1] + s[i]
  IN  upTo[Len(s)]

\* The largest deviation of a segment from the mean is within percent.
Within(s, percent) ==
  \A i \in DOMAIN s :
    LET gap == IF Len(s) * s[i] > Sum(s) THEN Len(s) * s[i] - Sum(s)
                                         ELSE Sum(s) - Len(s) * s[i] IN
    100 * gap <= percent * Sum(s)

\* LENGTH= with enough pulses adds a segment.
Measure(m) ==
  /\ Calibratable /\ round.active
  /\ made' = Append(made, m)
  /\ UNCHANGED <<claim, step, tries, watched, available>>

All(m) == Append(round.measured, m)

CalibrationSegment(m) ==
  /\ Measure(m) /\ Len(All(m)) < Segments
  /\ round' = [active |-> TRUE, measured |-> All(m)]
  /\ answer' = "segment"
  /\ UNCHANGED <<resolution, saved, faults>>

\* The last segment ends the round.  The mean is the new resolution unless the
\* segments disagree by more than 10 percent.
LastSegment(m) ==
  /\ Measure(m) /\ Len(All(m)) >= Segments
  /\ round' = [active |-> FALSE, measured |-> All(m)]

CalibrationRejected(m) ==
  /\ LastSegment(m) /\ ~Within(All(m), 10)
  /\ answer' = "rejected"
  /\ UNCHANGED <<resolution, saved, faults>>

CalibrationSaved(m) ==
  /\ LastSegment(m) /\ Within(All(m), 10)
  /\ resolution' = Sum(All(m)) /\ saved' = Sum(All(m))
  /\ motionFault' = FALSE /\ runtimeFault' = FALSE
  /\ answer' = IF Within(All(m), 5) THEN "passed" ELSE "warning"

\* The encoder has taken the new resolution, then the state store raises.
CalibrationUnsaved(m) ==
  /\ LastSegment(m) /\ Within(All(m), 10)
  /\ resolution' = Sum(All(m)) /\ UNCHANGED saved
  /\ motionFault' = FALSE /\ UNCHANGED runtimeFault
  /\ answer' = "unsaved"

\* Allowed on any path, and while it is busy.
CalibrationCancel ==
  /\ round.active
  /\ round' = [round EXCEPT !.active = FALSE] /\ UNCHANGED made
  /\ UNCHANGED <<claim, step, tries, watched, gauge, faults>> /\ Quiet

(***************************************************************************)
(* Klipper restarts: faults, round and assist are not persisted.           *)
(***************************************************************************)
Restart ==
  /\ Reconcile
  /\ assist' = FALSE /\ Goto("idle", 0) /\ watched' = FALSE
  /\ available' = FALSE /\ resolution' = saved /\ UNCHANGED saved
  /\ motionFault' = FALSE /\ runtimeFault' = FALSE
  /\ round' = [active |-> FALSE, measured |-> <<>>] /\ made' = <<>>
  /\ Quiet

Step ==
  \/ FirstCount \/ ChangeBegin \/ ChangeFails
  \/ FeedStart \/ FeedEnd \/ ExtrudeStart \/ ExtrudeEnd
  \/ PullStart \/ PullEnd \/ RetractStart \/ RetractEnd
  \/ ParkStart \/ ParkBlind \/ ParkEnd
  \/ ManualStart \/ ManualEnd \/ AssistOn \/ AssistOff
  \/ ReconnectFails \/ Reconnect
  \/ CalibrationStart \/ CalibrationTooFew \/ CalibrationCancel
  \/ \E m \in Measures : \/ CalibrationSegment(m) \/ CalibrationRejected(m)
                         \/ CalibrationSaved(m) \/ CalibrationUnsaved(m)
  \/ Restart

Next == Step /\ UNCHANGED mode

Spec == Init /\ [][Next]_vars

(***************************************************************************)
(* Properties.                                                             *)
(***************************************************************************)
Steps == {"idle", "feed", "feeding", "extrude", "extruding", "pull", "pulling",
          "retract", "retracting", "park", "parking", "moving"}

TypeOK ==
  /\ mode \in Modes
  /\ path \in {"empty", "nozzle", "changing", "unknown"}
  /\ owned \in BOOLEAN /\ assist \in BOOLEAN /\ watched \in BOOLEAN /\ available \in BOOLEAN
  /\ motionFault \in BOOLEAN /\ runtimeFault \in BOOLEAN
  /\ step \in Steps /\ tries \in 0..Attempts
  /\ resolution \in Nat /\ saved \in Nat
  /\ round \in [active : BOOLEAN, measured : Seq(Measures)] /\ made \in Seq(Measures)
  /\ answer \in Answers

\* Nothing the driver commands moves filament past the encoder while the user
\* measures a segment by hand (_assert_encoder_calibration_allowed against
\* get_toolchange_readiness, _assert_path_available and enable_feed_assist).
CalibrationIsStill == round.active => step = "idle" /\ ~assist

\* In protect mode a fault the manager has seen keeps the path unknown until a
\* reconnect has asked the sensors or Klipper restarts, and a change of tool never
\* goes on past a fault, so a tool is recorded as loaded only after every motion
\* of its load was measured (_finish_ace_motion, _finish_encoder_tracking).
FaultHoldsPath ==
  mode = "protect" =>
    /\ runtimeFault => path = "unknown"
    /\ step \notin {"idle", "moving"} => ~FaultShown

\* A round holds the segments measured since it was started, all of them and no
\* other, whatever rounds were cancelled or rejected before: it goes on until
\* SEGMENTS= of them are there, and the resolution it answers with is made of
\* exactly these (start_calibration, finish_calibration, cancel_calibration).
RoundsDoNotMix ==
  /\ round.active => round.measured = made /\ Len(made) < Segments
  /\ answer \in {"rejected", "passed", "warning", "unsaved"} => Len(made) = Segments
  /\ answer \in {"passed", "warning", "unsaved"} => resolution = Sum(made)

\* docs/DEVELOPMENT.zh-CN.md:96: ACE_RECONNECT clears an observed fault.
ReconnectClears == answer = "reconnected" => ~FaultShown
=============================================================================
