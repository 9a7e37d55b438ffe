------------------------------- MODULE AcePath -------------------------------
(***************************************************************************)
(* The shared filament path of the ACE driver: AceManager's transactions   *)
(* (ace_driver/manager.py) against the ACE units they command              *)
(* (ace_driver/device.py), the sensors they read and the filament itself.  *)
(*                                                                         *)
(* Klipper runs everything on one reactor thread.  A transaction gives the *)
(* reactor away only while it waits for a serial reply, sleeps, or runs a  *)
(* machine macro, so one action below is the code between two such points. *)
(* Between them the status poll, the motors, a person at the printer and a *)
(* restart of Klipper take their steps.  The path lock (_path_lock) is     *)
(* held exactly when step # "idle".                                        *)
(***************************************************************************)
EXTENDS Naturals, FiniteSets

CONSTANTS
  Tools,            \* T0, T1, ... : one per slot of every unit
  Devices,          \* the ACE units
  DeviceOf,         \* the unit a tool belongs to (tool_target)
  NoTool,           \* None in the code, -1 on disk
  Bypass,           \* toolhead_sensor_bypass: ignore the lower sensor
  HubSensor,        \* the total-hub sensor "rdm" is installed
  MaxAttempts,      \* toolhead_unload_max_attempts
  FeedWindows,      \* feed windows that fit upper_sensor_feed_timeout
  ParkSegments,     \* retract segments of the parking move after the first
  LinkFaults,       \* serial requests may fail or be rejected
  LostReplies,      \* a physical command may execute, its reply be lost
  Restarts,         \* "none", "settled" (motors at rest) or "prompt"
  SingleReconnect   \* ACE_RECONNECT DEVICE=... is used, not only all units

ASSUME ToolsAssumption ==
  /\ DeviceOf \in [Tools -> Devices]
  /\ NoTool \notin Tools
  /\ "empty" \notin Tools /\ "unsure" \notin Tools
ASSUME SwitchAssumption ==
  /\ {Bypass, HubSensor, LinkFaults, LostReplies, SingleReconnect} \subseteq BOOLEAN
  /\ Restarts \in {"none", "settled", "prompt"}
  \* get_toolchange_readiness: several units need the total-hub sensor
  /\ HubSensor \/ \A d, e \in Devices : d = e
ASSUME BoundAssumption == {MaxAttempts, FeedWindows, ParkSegments} \subseteq Nat

VARIABLES
  path,         \* path_state
  owner,        \* current_tool
  assist,       \* feed_assist_tool, in memory only
  step,         \* where the transaction stands, "idle" when there is none
  target,       \* the tool being loaded, moved or assisted
  old,          \* the tool being unloaded
  tries,        \* attempts, windows or segments used so far
  connected,    \* AceDevice.connected
  uncertain,    \* AceDevice._physical_state_unknown
  motion,       \* what each unit's motor is really doing
  helping,      \* slots whose feed assist is really on
  pos           \* where each tool's filament really ends

claim == <<path, owner, assist>>
ctl   == <<step, target, old, tries>>
link  == <<connected, uncertain>>
unit  == <<connected, uncertain, motion, helping>>
vars  == <<path, owner, assist, step, target, old, tries,
           connected, uncertain, motion, helping, pos>>

PathStates == {"empty", "nozzle", "changing", "unknown"}

UnloadSteps == {"release", "verify", "cut", "pull", "retract", "retract_wait",
                "park", "park_stop", "park_wait", "cleared", "disown"}
LoadSteps   == {"prepare", "inspect", "feed", "feed_stop", "feed_wait",
                "feed_abort", "route", "assist", "handover", "undo", "loaded", "own"}
MoveStep == [feed |-> "feed_move", retract |-> "retract_move"]
WaitStep == [feed |-> "feed_moving", retract |-> "retract_moving"]
DoneStep == [feed |-> "feed_moved", retract |-> "retract_moved"]
ManualSteps == {"feed_move", "retract_move", "feed_moving", "retract_moving",
                "feed_moved", "retract_moved"}
Steps == UnloadSteps \cup LoadSteps \cup ManualSteps \cup
         {"idle", "pre", "post", "pause", "assist_on"}

(***************************************************************************)
(* Filament positions, ordered along the path, and the sensors they press. *)
(***************************************************************************)
Parked   == 0     \* in its slot or its own branch
AtHub    == 1     \* in the shared path, past the total hub
AtUpper  == 2     \* on the sensor above the extruder
AtNozzle == 3     \* through the extruder, on the lower sensor

Upper == \E t \in Tools : pos[t] >= AtUpper
Lower == \E t \in Tools : pos[t] >= AtNozzle
Hub   == \E t \in Tools : pos[t] >= AtHub

AllClear == ~Upper /\ (HubSensor => ~Hub) /\ (~Bypass => ~Lower)

Still       == [dir |-> "still", tool |-> NoTool]
Moving(a,t) == [dir |-> a, tool |-> t]
Motions     == {Still} \cup [dir : {"feed", "retract"}, tool : Tools]

Init ==
  /\ path = "empty" /\ owner = NoTool /\ assist = NoTool
  /\ step = "idle" /\ target = NoTool /\ old = NoTool /\ tries = 0
  /\ connected = [d \in Devices |-> TRUE]
  /\ uncertain = [d \in Devices |-> FALSE]
  /\ motion = [d \in Devices |-> Still]
  /\ helping = {}
  /\ pos = [t \in Tools |-> Parked]

(***************************************************************************)
(* A physical command to unit d, which would leave its motor doing m and   *)
(* the assisted slots h.  It is never retried.                             *)
(***************************************************************************)
\* Mutant: the guard forgets the unresolved action.
MayCommandIfOnline(d) == connected[d]

MayCommand(d) == connected[d] /\ ~uncertain[d]

Takes(d, m, h) ==
  /\ motion' = [motion EXCEPT ![d] = m]
  /\ helping' = h

Accepted(d, m, h) == MayCommand(d) /\ Takes(d, m, h) /\ UNCHANGED link

Refused(d) == ~MayCommand(d) /\ UNCHANGED unit

Rejected(d) ==
  /\ LinkFaults /\ MayCommand(d)
  /\ connected' = [connected EXCEPT ![d] = FALSE]
  /\ UNCHANGED <<uncertain, motion, helping>>

Lost(d, m, h) ==
  /\ LostReplies /\ MayCommand(d)
  /\ connected' = [connected EXCEPT ![d] = FALSE]
  /\ uncertain' = [uncertain EXCEPT ![d] = TRUE]
  /\ Takes(d, m, h) \/ UNCHANGED <<motion, helping>>

Failed(d, m, h) == Refused(d) \/ Rejected(d) \/ Lost(d, m, h)

(***************************************************************************)
(* wait_ready: status requests until the unit reports ready.  A failed     *)
(* request raises without marking the physical state unknown; only the     *)
(* timeout does.                                                           *)
(***************************************************************************)
WaitDone(d) ==
  /\ motion[d] = Still
  /\ connected' = [connected EXCEPT ![d] = TRUE]
  /\ UNCHANGED <<uncertain, motion, helping>>

WaitFailed(d) ==
  /\ \/ /\ LinkFaults
        /\ UNCHANGED uncertain
     \/ /\ motion[d] # Still
        /\ uncertain' = [uncertain EXCEPT ![d] = TRUE]
  /\ connected' = [connected EXCEPT ![d] = FALSE]
  /\ UNCHANGED <<motion, helping>>

(***************************************************************************)
(* Control helpers.                                                        *)
(***************************************************************************)
Goto(s) == step' = s /\ UNCHANGED <<target, old, tries>>

GotoCounting(s, n) == step' = s /\ tries' = n /\ UNCHANGED <<target, old>>

Begin(s, t, o) == step' = s /\ target' = t /\ old' = o /\ tries' = 0

Finish == Begin("idle", NoTool, NoTool)

Keep == UNCHANGED claim

LosePath == path' = "unknown" /\ UNCHANGED <<owner, assist>>

\* Inside the guarded part of a change, a sensor that cannot be read, an
\* encoder that is not armed, or a macro that fails ends it.
Abandon == LosePath /\ Goto("pause")

\* _stop_ace_motion: whatever it raises is swallowed.
BestEffortStop(d) ==
  Accepted(d, Still, helping) \/ Failed(d, Still, helping)

Toolchanging == path \in {"empty", "nozzle"}   \* readiness, _assert_path_available

(***************************************************************************)
(* change_tool and unload.                                                 *)
(***************************************************************************)
ChangeBegin(t) ==
  /\ step = "idle" /\ Toolchanging /\ owner # t /\ connected[DeviceOf[t]]
  /\ Begin("pre", t, owner)
  /\ Keep /\ UNCHANGED <<unit, pos>>

UnloadBegin ==
  /\ step = "idle" /\ Toolchanging /\ owner # NoTool /\ connected[DeviceOf[owner]]
  /\ Begin("pre", NoTool, owner)
  /\ Keep /\ UNCHANGED <<unit, pos>>

\* pre_toolchange and the extruder preflight: either may raise.
PreHook ==
  /\ step = "pre"
  /\ Goto(IF old = NoTool THEN "prepare" ELSE "release") \/ Goto("pause")
  /\ Keep /\ UNCHANGED <<unit, pos>>

\* _unload_tool: stop assisting the old slot before anything else moves.
Release ==
  LET d == DeviceOf[old]
      h == helping \ {old} IN
  /\ step = "release"
  /\ \/ /\ Accepted(d, motion[d], h)
        /\ assist' = IF assist = old THEN NoTool ELSE assist
        /\ UNCHANGED <<path, owner>>
        /\ Goto("verify")
     \/ /\ Failed(d, motion[d], h) \/ UNCHANGED unit
        /\ Keep
        /\ Goto("pause")
  /\ UNCHANGED pos

\* The saved tool must show on the upper sensor and on its route sensors.  The
\* optional first-stage sensors are not modelled: the route check may fail.
Verify ==
  /\ step = "verify"
  /\ \/ Upper /\ path' = "changing" /\ UNCHANGED <<owner, assist>> /\ Goto("cut")
     \/ Keep /\ Goto("pause")
  /\ UNCHANGED <<unit, pos>>

Cut ==
  /\ step = "cut"
  /\ \/ Keep /\ GotoCounting("pull", 0)
     \/ (Bypass \/ Lower) /\ Abandon
  /\ UNCHANGED <<unit, pos>>

\* One turn of the coordinated unload: the extruder's retraction, before the
\* unit's.  An encoder fault of the turn before stops the unit.
Pull ==
  /\ step = "pull"
  /\ \/ ~Upper /\ UNCHANGED <<unit, pos>> /\ Keep /\ GotoCounting("park", 0)
     \/ /\ Upper /\ tries < MaxAttempts /\ UNCHANGED unit
        /\ IF Bypass \/ Lower
           THEN \E p \in AtHub..pos[old] : pos' = [pos EXCEPT ![old] = p]
           ELSE UNCHANGED pos
        /\ (Keep /\ Goto("retract")) \/ Abandon
     \/ UNCHANGED <<unit, pos>> /\ Abandon
     \/ tries > 0 /\ BestEffortStop(DeviceOf[old]) /\ UNCHANGED pos /\ Abandon

RetractStep ==
  LET d == DeviceOf[old]
      m == Moving("retract", old) IN
  /\ step = "retract"
  /\ \/ Accepted(d, m, helping) /\ Keep /\ Goto("retract_wait")
     \/ Failed(d, m, helping) /\ Abandon
  /\ UNCHANGED pos

\* Mutant: the wait's failure is ignored and the unload goes on.
RetractWaitIgnored ==
  LET d == DeviceOf[old] IN
  /\ step = "retract_wait"
  /\ WaitDone(d) \/ WaitFailed(d)
  /\ Keep /\ GotoCounting("pull", tries + 1)
  /\ UNCHANGED pos

\* Mutant: the attempt is not counted.
RetractWaitUncounted ==
  LET d == DeviceOf[old] IN
  /\ step = "retract_wait"
  /\ \/ WaitDone(d) /\ Keep /\ Goto("pull")
     \/ WaitFailed(d) /\ Abandon
  /\ UNCHANGED pos

RetractWait ==
  LET d == DeviceOf[old] IN
  /\ step = "retract_wait"
  /\ \/ WaitDone(d) /\ Keep /\ GotoCounting("pull", tries + 1)
     \/ WaitFailed(d) /\ Abandon
  /\ UNCHANGED pos

\* _retract_to_parking_position: bounded segments, stopped by the total hub
\* sensor where there is one.
Park ==
  LET d == DeviceOf[old]
      m == Moving("retract", old) IN
  /\ step = "park"
  /\ \/ /\ Accepted(d, m, helping) /\ Keep
        /\ Goto(IF HubSensor /\ Hub THEN "park_stop" ELSE "park_wait")
     \/ Failed(d, m, helping) /\ Abandon
  /\ UNCHANGED pos

ParkStop ==
  LET d == DeviceOf[old] IN
  /\ step = "park_stop"
  /\ \/ Accepted(d, Still, helping) /\ Keep /\ Goto("park_wait")
     \/ Failed(d, Still, helping) /\ Abandon
     \/ UNCHANGED unit /\ Abandon
  /\ UNCHANGED pos

ParkWait ==
  LET d == DeviceOf[old]
      cleared == HubSensor => ~Hub IN
  /\ step = "park_wait"
  /\ \/ /\ WaitDone(d)
        /\ \/ tries < ParkSegments /\ Keep /\ GotoCounting("park", tries + 1)
           \/ cleared /\ Keep /\ Goto("cleared")
           \/ ~cleared /\ tries = ParkSegments /\ Abandon
     \/ WaitFailed(d) /\ Abandon
  /\ UNCHANGED pos

\* The last word on an unload belongs to the sensors.
Cleared ==
  /\ step = "cleared"
  /\ \/ /\ AllClear /\ UNCHANGED unit
        /\ path' = "empty" /\ UNCHANGED <<owner, assist>> /\ Goto("disown")
     \/ UNCHANGED unit /\ Abandon
     \/ BestEffortStop(DeviceOf[old]) /\ Abandon
  /\ UNCHANGED pos

Disown ==
  /\ step = "disown"
  /\ owner' = NoTool /\ UNCHANGED <<path, assist>>
  /\ Goto(IF target = NoTool THEN "post" ELSE "prepare")
  /\ UNCHANGED <<unit, pos>>

(***************************************************************************)
(* _load_tool.                                                             *)
(***************************************************************************)
\* Safety and slot checks, then _disable_active_feed_assist.
Prepare ==
  /\ step = "prepare"
  /\ \/ /\ assist = NoTool
        /\ UNCHANGED unit
        /\ Keep /\ Goto("inspect")
     \/ /\ assist # NoTool
        /\ LET d == DeviceOf[assist] IN Accepted(d, motion[d], helping \ {assist})
        /\ assist' = NoTool /\ UNCHANGED <<path, owner>>
        /\ Goto("inspect")
     \/ /\ assist # NoTool
        /\ LET d == DeviceOf[assist] IN Failed(d, motion[d], helping \ {assist})
        /\ Keep /\ Goto("pause")
     \/ UNCHANGED unit /\ Keep /\ Goto("pause")
  /\ UNCHANGED pos

\* No sensor may see filament before the target is fed.
Inspect ==
  /\ step = "inspect"
  /\ \/ /\ AllClear
        /\ path' = "changing" /\ UNCHANGED <<owner, assist>>
        /\ GotoCounting("feed", 0)
     \/ Keep /\ Goto("pause")
  /\ UNCHANGED <<unit, pos>>

\* One feed window, unless the upper sensor, the deadline or an encoder fault
\* of the window before ends the search.
Feed ==
  LET d == DeviceOf[target]
      m == Moving("feed", target) IN
  /\ step = "feed"
  /\ \/ Upper /\ UNCHANGED unit /\ Keep /\ Goto("route")
     \/ /\ ~Upper /\ tries < FeedWindows
        /\ \/ Accepted(d, m, helping) /\ GotoCounting("feed_stop", tries + 1)
           \/ Failed(d, m, helping) /\ Goto("feed_abort")
        /\ Keep
     \/ BestEffortStop(d) /\ Abandon
  /\ UNCHANGED pos

\* The sensor was reached or the window is over: stop_feed, which may raise.
FeedStop ==
  LET d == DeviceOf[target] IN
  /\ step = "feed_stop"
  /\ \/ Accepted(d, Still, helping) /\ Goto("feed_wait")
     \/ Failed(d, Still, helping) /\ Goto("feed_abort")
     \/ UNCHANGED unit /\ Goto("feed_abort")
  /\ Keep /\ UNCHANGED pos

FeedWait ==
  LET d == DeviceOf[target] IN
  /\ step = "feed_wait"
  /\ \/ WaitDone(d) /\ Goto("feed")
     \/ WaitFailed(d) /\ Goto("feed_abort")
  /\ Keep /\ UNCHANGED pos

FeedAbort ==
  /\ step = "feed_abort"
  /\ BestEffortStop(DeviceOf[target])
  /\ Abandon
  /\ UNCHANGED pos

Route ==
  /\ step = "route"
  /\ \/ Keep /\ Goto("assist")
     \/ Abandon
  /\ UNCHANGED <<unit, pos>>

\* enable_feed_assist stands outside every try: a failure leaves the path as
\* it is.
AssistTarget ==
  LET d == DeviceOf[target]
      h == helping \cup {target} IN
  /\ step = "assist"
  /\ \/ /\ Accepted(d, motion[d], h)
        /\ assist' = target /\ UNCHANGED <<path, owner>>
        /\ Goto("handover")
     \/ Failed(d, motion[d], h) /\ Keep /\ Goto("pause")
  /\ UNCHANGED pos

\* The load_to_toolhead macro: the extruder takes the filament over, or slips.
Handover ==
  /\ step = "handover"
  /\ \E p \in {pos[target], AtNozzle} : pos' = [pos EXCEPT ![target] = p]
  /\ \/ Upper' /\ (Bypass \/ Lower') /\ Goto("loaded")
     \/ Goto("undo")
  /\ Keep /\ UNCHANGED unit

Undo ==
  LET d == DeviceOf[target]
      h == helping \ {target} IN
  /\ step = "undo"
  /\ Accepted(d, motion[d], h) \/ Failed(d, motion[d], h)
  /\ path' = "unknown"
  /\ assist' = IF assist = target THEN NoTool ELSE assist
  /\ UNCHANGED owner
  /\ Goto("pause")
  /\ UNCHANGED pos

Loaded ==
  /\ step = "loaded"
  /\ path' = "nozzle" /\ UNCHANGED <<owner, assist>>
  /\ Goto("own")
  /\ UNCHANGED <<unit, pos>>

Own ==
  /\ step = "own"
  /\ owner' = target /\ UNCHANGED <<path, assist>>
  /\ Goto("post")
  /\ UNCHANGED <<unit, pos>>

\* wipe_nozzle and post_toolchange.
PostHook ==
  /\ step = "post"
  /\ Finish \/ Goto("pause")
  /\ Keep /\ UNCHANGED <<unit, pos>>

PauseOnError ==
  /\ step = "pause"
  /\ Finish
  /\ Keep /\ UNCHANGED <<unit, pos>>

(***************************************************************************)
(* Manual feed and retract of one tool (a is "feed" or "retract").         *)
(***************************************************************************)
\* Mutant: any tool may be moved by hand, whoever owns the path.
ManualBeginAny(a, t) ==
  /\ step = "idle" /\ Toolchanging /\ connected[DeviceOf[t]]
  /\ Begin(MoveStep[a], t, NoTool)
  /\ Keep /\ UNCHANGED <<unit, pos>>

\* _assert_manual_motion_path: the path is empty and unowned, or t's own.
ManualBegin(a, t) ==
  /\ step = "idle" /\ Toolchanging /\ connected[DeviceOf[t]]
  /\ (path = "nozzle") = (owner # NoTool)
  /\ owner \in {NoTool, t}
  /\ Begin(MoveStep[a], t, NoTool)
  /\ Keep /\ UNCHANGED <<unit, pos>>

ManualMove(a) ==
  LET d == DeviceOf[target]
      m == Moving(a, target) IN
  /\ step = MoveStep[a]
  /\ \/ Accepted(d, m, helping) /\ Keep /\ Goto(WaitStep[a])
     \/ Failed(d, m, helping) /\ LosePath /\ Finish
     \/ path = "nozzle" /\ UNCHANGED unit /\ Keep /\ Finish   \* encoder not armed
  /\ UNCHANGED pos

\* Mutant: a failed wait leaves the path on record as it was.
ManualWaitTrusting(a) ==
  LET d == DeviceOf[target] IN
  /\ step = WaitStep[a]
  /\ \/ WaitDone(d) /\ Keep /\ Goto(DoneStep[a])
     \/ WaitFailed(d) /\ Keep /\ Finish
  /\ UNCHANGED pos

\* A failed wait gives up the lock without a stop command.
ManualWait(a) ==
  LET d == DeviceOf[target] IN
  /\ step = WaitStep[a]
  /\ \/ WaitDone(d) /\ Keep /\ Goto(DoneStep[a])
     \/ WaitFailed(d) /\ LosePath /\ Finish
  /\ UNCHANGED pos

\* Mutant: a completed feed counts as a loaded tool.
ManualDoneTrusting(a) ==
  /\ step = DoneStep[a]
  /\ \/ a = "feed" /\ path' = "nozzle" /\ owner' = target
     \/ a = "retract" /\ AllClear /\ path' = "empty" /\ owner' = NoTool
     \/ path' = "unknown" /\ owner' = NoTool
  /\ Finish
  /\ UNCHANGED <<assist, unit, pos>>

\* _finalize_manual_motion: the sensors decide what the move left behind, or
\* an encoder fault on a loaded path comes first.
ManualDone(a) ==
  LET lowerConfirmed == IF Bypass THEN path = "nozzle" /\ owner = target ELSE Lower IN
  /\ step = DoneStep[a]
  /\ \/ /\ \/ Upper /\ lowerConfirmed /\ path' = "nozzle" /\ owner' = target
           \/ a = "retract" /\ AllClear /\ path' = "empty" /\ owner' = NoTool
           \/ path' = "unknown" /\ owner' = NoTool
        /\ UNCHANGED <<assist, unit>>
     \/ path = "nozzle" /\ LosePath /\ BestEffortStop(DeviceOf[target])
  /\ Finish
  /\ UNCHANGED pos

(***************************************************************************)
(* Feed assist outside a toolchange.                                       *)
(***************************************************************************)
\* Mutant: the slot assisted before is left on.
AssistBeginOver(t) ==
  /\ step = "idle" /\ connected[DeviceOf[t]] /\ assist # t
  /\ Begin("assist_on", t, NoTool)
  /\ Keep /\ UNCHANGED <<unit, pos>>

AssistBegin(t) ==
  /\ step = "idle" /\ connected[DeviceOf[t]] /\ assist # t
  /\ \/ /\ assist = NoTool
        /\ UNCHANGED unit /\ Keep
        /\ Begin("assist_on", t, NoTool)
     \/ /\ assist # NoTool
        /\ LET d == DeviceOf[assist] IN Accepted(d, motion[d], helping \ {assist})
        /\ assist' = NoTool /\ UNCHANGED <<path, owner>>
        /\ Begin("assist_on", t, NoTool)
     \/ /\ assist # NoTool
        /\ LET d == DeviceOf[assist] IN Failed(d, motion[d], helping \ {assist})
        /\ Keep /\ UNCHANGED ctl
  /\ UNCHANGED pos

AssistOn ==
  LET d == DeviceOf[target]
      h == helping \cup {target} IN
  /\ step = "assist_on"
  /\ \/ Accepted(d, motion[d], h) /\ assist' = target /\ UNCHANGED <<path, owner>>
     \/ Failed(d, motion[d], h) /\ Keep
  /\ Finish
  /\ UNCHANGED pos

AssistOff(t) ==
  LET d == DeviceOf[t]
      h == helping \ {t} IN
  /\ step = "idle" /\ connected[d]
  /\ \/ /\ Accepted(d, motion[d], h)
        /\ assist' = IF assist = t THEN NoTool ELSE assist
        /\ UNCHANGED <<path, owner>>
     \/ Failed(d, motion[d], h) /\ Keep
  /\ UNCHANGED <<ctl, pos>>

\* start_drying, stop_drying: no motor and no path lock, but a physical command
\* of the unit all the same.
Dry(d) ==
  /\ step = "idle"
  /\ Accepted(d, motion[d], helping) \/ Failed(d, motion[d], helping)
  /\ Keep /\ UNCHANGED <<ctl, pos>>

(***************************************************************************)
(* Recovery.                                                               *)
(***************************************************************************)
\* Mutant: a saved tool is believed without the sensors.
ReconcileTrusting ==
  \/ AllClear /\ path' = "empty" /\ owner' = NoTool
  \/ owner # NoTool /\ path' = "nozzle" /\ UNCHANGED owner
  \/ path' = "unknown" /\ UNCHANGED owner

\* reconcile_path_state: what the sensors allow the driver to believe.  A
\* sensor that cannot be read, or one off the tool's route, allows nothing.
Reconcile ==
  \/ AllClear /\ path' = "empty" /\ owner' = NoTool
  \/ Upper /\ (Bypass \/ Lower) /\ owner # NoTool /\ path' = "nozzle" /\ UNCHANGED owner
  \/ path' = "unknown" /\ UNCHANGED owner

\* ACE_RECONNECT of the units ds.  It never waits while it holds a half-made
\* decision, so it is one step: all answer ready, or one does not.
ReconnectTargets == {Devices} \cup (IF SingleReconnect THEN {{d} : d \in Devices} ELSE {})

Reconnect(ds) ==
  /\ step = "idle"
  /\ \/ /\ LinkFaults \/ \E d \in ds : motion[d] # Still
        /\ connected' \in [Devices -> BOOLEAN]
        /\ \A d \in Devices \ ds : connected'[d] = connected[d]
        /\ UNCHANGED uncertain /\ Keep
     \/ /\ \A d \in ds : motion[d] = Still
        /\ connected' = [d \in Devices |-> d \in ds \/ connected[d]]
        /\ IF path = "unknown" \/ \E d \in ds : uncertain[d]
           THEN /\ Reconcile
                /\ uncertain' = [d \in Devices |->
                     uncertain[d] /\ (d \notin ds \/ path' = "unknown")]
                /\ UNCHANGED assist
           ELSE Keep /\ UNCHANGED uncertain
  /\ UNCHANGED <<ctl, motion, helping, pos>>

\* Klipper restarts, with or without warning: memory is lost, path_state and
\* current_tool are read back, _handle_ready starts the units and reconciles.
Restart ==
  /\ Restarts # "none"
  /\ Restarts = "settled" => \A d \in Devices : motion[d] = Still
  /\ assist' = NoTool
  /\ Finish
  /\ uncertain' = [d \in Devices |-> FALSE]
  /\ connected' \in [Devices -> IF LinkFaults THEN BOOLEAN ELSE {TRUE}]
  /\ Reconcile
  /\ UNCHANGED <<motion, helping, pos>>

(***************************************************************************)
(* Everything that is not a transaction.                                   *)
(***************************************************************************)
\* The background poll merges a reply or records an error, at any moment.
Poll(d) ==
  /\ connected' = [connected EXCEPT ![d] = ~@]
  /\ LinkFaults \/ ~connected[d]
  /\ UNCHANGED <<claim, ctl, uncertain, motion, helping, pos>>

MotorStep(d) ==
  LET m == motion[d] IN
  /\ \/ m.dir = "feed" /\ pos[m.tool] < AtNozzle
        /\ pos' = [pos EXCEPT ![m.tool] = @ + 1]
     \/ m.dir = "retract" /\ pos[m.tool] > Parked
        /\ pos' = [pos EXCEPT ![m.tool] = @ - 1]
  /\ UNCHANGED <<claim, ctl, unit>>

MotorDone(d) ==
  /\ motion[d] # Still
  /\ motion' = [motion EXCEPT ![d] = Still]
  /\ UNCHANGED <<claim, ctl, link, helping, pos>>

\* A person clears the path the driver has declared unknown.
PullOut(t) ==
  /\ step = "idle" /\ path = "unknown" /\ pos[t] # Parked
  /\ pos' = [pos EXCEPT ![t] = Parked]
  /\ UNCHANGED <<claim, ctl, unit>>

Unloading == \/ Release \/ Verify \/ Cut \/ Pull \/ RetractStep \/ RetractWait
             \/ Park \/ ParkStop \/ ParkWait \/ Cleared \/ Disown

Loading == \/ Prepare \/ Inspect \/ Feed \/ FeedStop \/ FeedWait \/ FeedAbort
           \/ Route \/ AssistTarget \/ Handover \/ Undo \/ Loaded \/ Own

Manual == \E a \in {"feed", "retract"} : ManualMove(a) \/ ManualWait(a) \/ ManualDone(a)

Transaction == PreHook \/ Unloading \/ Loading \/ PostHook \/ PauseOnError
               \/ Manual \/ AssistOn

Command ==
  \/ UnloadBegin
  \/ \E t \in Tools : ChangeBegin(t) \/ AssistBegin(t) \/ AssistOff(t)
  \/ \E t \in Tools, a \in {"feed", "retract"} : ManualBegin(a, t)
  \/ \E d \in Devices : Dry(d)
  \/ \E ds \in ReconnectTargets : Reconnect(ds)

Environment ==
  \/ \E d \in Devices : Poll(d) \/ MotorStep(d) \/ MotorDone(d)
  \/ \E t \in Tools : PullOut(t)
  \/ Restart

Next == Command \/ Transaction \/ Environment

Spec == Init /\ [][Next]_vars

\* Macros return and serial waits time out, so a transaction keeps moving; a
\* motor runs out of the length it was given.
Fairness ==
  /\ WF_vars(Transaction)
  /\ \A d \in Devices : WF_vars(MotorDone(d))

FairSpec == Spec /\ Fairness

-----------------------------------------------------------------------------
(***************************************************************************)
(* Properties.                                                             *)
(***************************************************************************)
TypeOK ==
  /\ path \in PathStates
  /\ owner \in Tools \cup {NoTool}
  /\ assist \in Tools \cup {NoTool}
  /\ step \in Steps
  /\ target \in Tools \cup {NoTool}
  /\ old \in Tools \cup {NoTool}
  /\ tries \in Nat
  /\ connected \in [Devices -> BOOLEAN]
  /\ uncertain \in [Devices -> BOOLEAN]
  /\ motion \in [Devices -> Motions]
  /\ helping \in SUBSET Tools
  /\ pos \in [Tools -> Parked..AtNozzle]

(***************************************************************************)
(* The path as SharedPath sees it.  The driver is unsure while it moves    *)
(* filament, while path_state says so, while a loaded path has no recorded *)
(* owner yet, and while any unit carries an unresolved physical action.    *)
(***************************************************************************)
InPath == {t \in Tools : pos[t] >= AtHub}

Belief ==
  IF step \in ManualSteps \/ \E d \in Devices : uncertain[d] THEN "unsure"
  ELSE IF path = "empty" THEN "empty"
  ELSE IF path = "nozzle" /\ owner # NoTool THEN owner
  ELSE "unsure"

Promise == INSTANCE SharedPath WITH
  Empty <- "empty", Unsure <- "unsure", belief <- Belief, inPath <- InPath

\* Whatever fails, whenever Klipper restarts: the driver moves filament only
\* while it is unsure of the path, and what it then records as certain (empty,
\* or this tool loaded) is so.  path_state, current_tool and the latches of
\* manager.py implement SharedPath.
ImplementsSharedPath == Promise!Spec

\* Inside a transaction the record agrees with where it stands: the tool being
\* unloaded owns the path until it is disowned, nobody owns it while another is
\* loaded, the path is "changing" from the cut until the sensors are clear and
\* from the first feed until the handover is confirmed, and a manual move never
\* touches another tool's path.  path_state and current_tool disagree only
\* between the two writes that end a load or an unload, so the mismatches that
\* _assert_manual_motion_path also looks for never occur.
HandoverSteps == LoadSteps \ {"prepare", "inspect", "own"}

RecordFollowsStep ==
  /\ step = "pre" => old = owner /\ (old = NoTool => target \in Tools)
  /\ step \in UnloadSteps => old \in Tools /\ owner = old
  /\ step \in UnloadSteps \ {"release", "verify", "disown"} => path = "changing"
  /\ step \in LoadSteps => target \in Tools /\ owner = NoTool
  /\ step \in HandoverSteps => path = "changing"
  /\ step = "own" => path = "nozzle"
  /\ step = "disown" => path = "empty"
  /\ step \in ManualSteps => target \in Tools /\ owner \in {NoTool, target}
  /\ step = "assist_on" => target \in Tools
  /\ path = "empty" /\ owner # NoTool => step = "disown"
  /\ path = "nozzle" /\ owner = NoTool => step = "own"

\* A path recorded empty holds no filament, and a path recorded as loaded holds
\* the recorded tool's filament, on the upper sensor, and no other's.
BeliefIsTrue ==
  /\ Belief = "empty" => InPath = {}
  /\ Belief \in Tools => InPath = {Belief} /\ pos[Belief] >= AtUpper

\* No unit is told to feed a tool while another tool's filament is in the
\* shared path: one path, one filament.
NeverFedIntoAnother ==
  [][\A d \in Devices :
       motion'[d].dir = "feed" /\ motion'[d] # motion[d]
         => InPath \subseteq {motion'[d].tool}]_vars

\* The motors of two units never run at the same time (docs: one owner of
\* motion on the shared path).
OneMover ==
  \A d, e \in Devices : motion[d] # Still /\ motion[e] # Still => d = e

\* A tool becomes the current tool only with the path recorded as loaded and
\* its own filament on the upper sensor, never on the strength of a command.
OwnershipIsEarned ==
  [][owner' \notin {owner, NoTool} => path' = "nozzle" /\ pos[owner'] >= AtUpper]_vars

\* change_tool feeds its target only after the tool it replaces has been given
\* up on record, and a manual feed moves no tool but the owner.
FedToolIsUncontested ==
  [][\A d \in Devices :
       motion'[d].dir = "feed" /\ motion'[d] # motion[d]
         => \/ path = "changing" /\ owner = NoTool
            \/ step = "feed_move" /\ owner \in {NoTool, motion'[d].tool}]_vars

\* A unit with an unresolved physical action is commanded no motion and no
\* assist, and short of a restart only a recovery that ends with the path
\* reconciled lifts that state.
UncertaintyIsHeld ==
  [][\A d \in Devices : uncertain[d] =>
       /\ motion'[d] \in {motion[d], Still}
       /\ \A t \in Tools : DeviceOf[t] = d => (t \in helping) = (t \in helping')
       /\ ~uncertain'[d] => Restart \/ path' \in {"empty", "nozzle"}]_vars

\* A slot is made to assist only when none is on record as assisting: a change,
\* its handover and an enable by hand all disable the old slot first, and give
\* up when that fails.
AssistsInTurn ==
  [][\A t \in helping' \ helping : assist = NoTool /\ target = t]_vars

\* Why the two hold: with the total hub observed, all units reconnected at once
\* and no restart while a motor runs, a motor runs only where a step waits for
\* it or the path is already unknown; a recorded owner is the only tool that
\* moves or is in the path, an unowned path holds at most the tool being moved.
UnloadMoving == {"retract_wait", "park_stop", "park_wait"}
LoadMoving   == {"feed_stop", "feed_wait", "feed_abort"}
ManualMoving == {"feed_moving", "retract_moving"}
ManualMoved  == {"feed_moved", "retract_moved"}

MotionInv ==
  /\ OneMover
  /\ path = "unknown" => step \in {"idle", "pause", "assist_on"}
  /\ \A d \in Devices : motion[d] # Still =>
       /\ DeviceOf[motion[d].tool] = d
       /\ owner \in {NoTool, motion[d].tool}
       /\ path # "unknown" => \/ step \in UnloadMoving /\ motion[d].tool = old
                              \/ step \in LoadMoving \cup ManualMoving
                                 /\ motion[d].tool = target

FilamentInv ==
  /\ owner # NoTool => InPath \subseteq {owner}
  /\ step \in HandoverSteps \cup {"own"} \cup ManualSteps => InPath \subseteq {target}
  /\ step \in {"loaded", "own"} => pos[target] >= AtUpper
  /\ step \notin ManualMoving \cup ManualMoved =>
       /\ path = "empty" => InPath = {}
       /\ path = "nozzle" /\ owner # NoTool => pos[owner] >= AtUpper

PathInv == MotionInv /\ FilamentInv

\* Every transaction gives the path lock back: each search is bounded.
LockIsReleased == step # "idle" ~> step = "idle"

(***************************************************************************)
(* What the documents say and the code does not do.                        *)
(***************************************************************************)
\* Single print head, at most one slot is being assisted.
OneSlotAssisted == Cardinality(helping) <= 1
=============================================================================
