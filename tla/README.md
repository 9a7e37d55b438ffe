# A TLA+ model of the ACE Pro Control Center

The repository drives up to four filament changers ("ACE units", four slots
each) from Klipper.  All slots end in **one** filament path to **one** print
head, so the program's core is not a data structure but a discipline: who may
move filament, what the driver believes is in the path, and what it does when a
command, a sensor, a person or a restart makes that belief doubtful.  This
directory models that discipline, checks it with TLC and proves it with TLAPS.

Paths below are relative to the repository (`src/` here); `manager.py` and the
like are in `ace_driver/`.


## 1. The system

```
 browser ── Moonraker (ace_status.py) ── G-code ──┐
 (ace-core.js, cards, dashboard)                  │
 print file ── T0..T15, ACE_* ── commands.py ── AceManager (manager.py)
                                          │            │         │
                            SafetyPolicy ─┘   machine  │         ├─ state store
                                              macros ──┤         │  (klipper.py,
                                              sensors ─┤         │  persistent_state.py)
                                              encoder ─┘         │
                                   AceDevice × n (device.py) ────┘
                                          │
            protocol_ace1.py / protocol_ace2.py, transport.py ── serial line ── unit
```

| Component | State it keeps | Operations | What makes it correct |
|---|---|---|---|
| **Shared path** (`manager.py`) | `path_state`, `current_tool`, `feed_assist_tool`, `_path_lock` | `change_tool`, `unload`, `feed`, `retract`, feed assist, drying, `reconnect`, `reconcile_path_state` | Only one motor at a time; no tool is fed into another's filament; a path recorded as empty or loaded really is; the lock always comes back |
| **Unit and serial link** (`device.py`, `transport.py`, `protocol*.py`, `_ReactorSerialTransport` in `klipper.py`) | `connected`, `_transport_open`, `_physical_state_unknown`, cached status, request ids, worker queue | physical commands, `refresh`, `wait_ready`, `open`, `close` | A physical command happens at most once; its answer is true; without one it is in doubt until a recovery after which it can no longer happen |
| **Encoder guard** (`klipper_extras/ace_encoder.py`, `manager.py`, `klipper.py`) | counts, resolution, two fault records, a calibration round | tracking of ACE and extruder motions; `ACE_ENCODER_CALIBRATE` | `monitor` changes nothing; in `protect` nothing goes on past a fault; nothing moves while a segment is measured |
| **Print monitor** (`manager.py`, timer in `klipper.py`) | baselines, two sums, fault latch, sequence, pause | `update_encoder_print_monitor`, its resets | Every jam is reported, a good print never; one event and one pause per jam |
| **State store** (`klipper.py`, `persistent_state.py`) | memory, SAVE_VARIABLE, `runtime-state.json` | `get`, `set`, `flush`, migration | What is on disk is a whole state, never half of one; a value that was not saved is dirty or was reported; a V2 inventory is imported once |
| **ACE2 bus** (`protocol_ace2.py`, `klipper.py`) | addresses by UID | discovery, assignment, directed status | A status is never another unit's; no physical command |
| **Safety policy, commands, Moonraker** (`safety.py`, `commands.py`, `moonraker/ace_status.py`, `manager.py`) | the status a request was checked against, the command that waits, the one that runs | one action from a click, a print file or a macro to a manager call | Nothing of the web moves filament in a print but what it may; what was true when asked is checked again when run |
| **Endless spool, tool map, notices** (`endless_spool.py`, `tool_map.py`, `manager.py`) | slot status, the notice of an ignored command | `select`, runout, T commands | The replacement is ready and of the same material; an empty spool is not tried again; a print goes on with the material asked for, or says otherwise |
| **Installer** (`installer/install.sh`, `scripts/`) | links, marked blocks, configuration files, its state directory, snapshots | install, uninstall, restore | A failed run changes nothing; a snapshot restores everything; uninstalling is clean; no unit is authorised by a script |
| **Configuration, frontends, release tooling** | files | — | — |

### How it runs

Klipper has one reactor thread.  Greenlets (the G-code queue, timers, event
handlers) run until they wait, and the waits are: a serial reply
(`_ReactorSerialTransport._wait`), a cooperative sleep, a machine macro.  The
code's `RLock`s do not exclude greenlets from one another (they are one thread);
what does is Klipper's G-code mutex and the non-blocking `_path_lock`.  So a
*step* of the models is the code between two such waits, and the interleavings
that matter are: the status poll, the print-monitor timer, the motors, a person
at the printer, a shutdown or a restart between any two steps of a change.

### What is hard

* a command whose reply is lost may or may not have moved filament;
* a failed wait leaves a motor running after the lock is released;
* errors in the clean-up of an error;
* the poll marks a unit offline or opens it again in the middle of a change;
* after a restart the driver knows a saved tool and the sensors, nothing else;
* encoder pulses arrive late, and extrusion is sampled in arbitrary slices;
* two records of one fact (`path_state` and `current_tool`, two fault records,
  `feed_assist_tool` and what the units really assist, three layers of a store);
* units that answer for one another on a shared line, with ids all counted from 1;
* a request is checked when it is sent and runs when Klipper comes to it;
* an installation is a hundred file operations, any of which may be the last.

`PROJECT.json` lists these hazards with their lines and the properties that
would catch them; section 6 names what is known and not covered.


## 2. Modules

| Module | What it is |
|---|---|
| `SharedPath` | The promise of the path: a belief (empty, a tool, unsure) that is true whenever it is not "unsure" |
| `AcePath` | The manager's transactions against units, motors, sensors, filament; refines `SharedPath` |
| `MCAcePath` | Values for TLC: one unit with two slots, two units with one each, symmetry |
| `AcePathProofs` | Its theorems |
| `OneShot` | The promise of a link: at most once, true answers, doubt until settled |
| `SerialLink`, `SerialLinkProofs` | Device, transport, worker, ids and a lossy line; refines `OneShot`; its theorems |
| `PrintMonitor`, `PrintMonitorProofs` | The print monitor, and its theorems |
| `EncoderGuard` | Encoder modes, fault records, recovery, calibration |
| `EncoderReadOnly` | `monitor` as a refinement of `off`: `EncoderGuard` implements itself with the encoder hidden |
| `EncoderGuardProofs` | Its theorems |
| `SavedState` | The promise of the store: values written, synced as a set, read back after a restart |
| `StateStore`, `StateStoreProofs` | Memory, SAVE_VARIABLE and the JSON file; refines `SavedState`; its theorems |
| `Ace2Bus`, `Ace2BusProofs` | Discovery, addresses and directed status of ACE2 units on one line; its theorems |
| `ActionGate`, `ActionGateProofs` | From a request to a running command: Moonraker, policy, manager, notices, endless spool; its theorems |
| `Installation`, `InstallationProofs` | Install, uninstall, restore as transactions on files; its theorems |
| `MCStateStore`, `MCAce2Bus`, `MCActionGate`, `MCInstallation` | Values for TLC |

How they fit: `AcePath` treats one physical command as `Accepted`, `Rejected`
or `Lost` (executed or not, and the unit then in doubt).  That is `OneShot` seen
by the manager, and `SerialLink` shows that device, transport and line keep it.
`AcePath` lets a change fail anywhere an encoder fault could make it fail;
`EncoderGuard` says exactly where, and forgets where the filament is.
`PrintMonitor` sees a change only as "busy".  `ActionGate` decides which command
begins, and lets it end in any way `AcePath` permits; `AcePath` takes commands
from anybody.  `AcePath` saves `current_tool` in one step and finds it after a
restart: `SavedState` says when that is so (the value reached the disk), and
`StateStore` that a save never leaves anything else.

### AcePath

`path`, `owner`, `assist` are `path_state`, `current_tool`, `feed_assist_tool`;
`step`, `target`, `old`, `tries` say where the transaction stands; `connected`,
`uncertain` are the device's; `motion`, `helping`, `pos` are the world: what the
motors do, which slots are really assisted, where each tool's filament ends
(parked, past the hub, on the upper sensor, in the nozzle).  Sensors are
functions of `pos`.  The path lock is held exactly when `step # "idle"`.

Each action is the code between two waits: `ChangeBegin`, `UnloadBegin`,
`PreHook`; `Release` … `Disown` of `_unload_tool` and the parking; `Prepare` …
`Own` of `_load_tool`; `PostHook`, `PauseOnError`; `ManualBegin`, `ManualMove`,
`ManualWait`, `ManualDone`; `AssistBegin`, `AssistOn`, `AssistOff`; `Dry`;
`Reconnect`; and around them `Poll`, `MotorStep`, `MotorDone`, `PullOut` (a
person clears the path) and `Restart`.

Left out or abstracted: lengths and speeds (a motor does any number of steps of
its length); the optional first-stage hub sensors (the route check fails or
not); the encoder, the print-state gate and slot status (a command is refused or
not); the firmware's `completed` flag; operation without sensors; a macro that
calls back into the manager (refused as busy, nothing changes); a device in an
error state is one that is not connected; `current_tool` is saved in one step
with its assignment.

### SerialLink

`at` and `outcome` are the three greenlets that share a unit ("gcode", "poll",
"stop" for `_handle_disconnect`) and the result of the future each waits for;
`jobs`, `attempt`, `reading`, `port` are the one worker thread and
`SerialTransport`; `opened`, `connected`, `unknown`, `nextId` are the device's
and the protocol's; `toUnit`, `fromUnit` are the line in order; `moving`,
`times` are the unit.  Greenlets whose jobs are done wake in any order (25 ms
polls).  `Write`, `WriteFailed`, `ReadReply`, `ReadGarbled`, `ReadTimeout` and
`Fails` are `_request` and `_read_matching` with retries for questions and none
for physical commands; `ReconnectStart` … `ReconnectDone` are `reconnect`.
External assumptions: the line keeps the order of frames, a unit that refuses a
command has not moved, and it reports busy from the moment it obeys.  `_pending`
has no effect besides growing and is not a variable.

### PrintMonitor

One action per poll (`update_encoder_print_monitor` holds `_state_lock` and
gives the reactor away only in the pause macro, its last act); extruder, wheel,
late counter reports, jams, the print, the path and the wizard move in between.
`high`, `mark`, `since`, `slipped`, `moved` are history: what the properties
compare the sums and the latch with.  Mode `off` registers no timer and is left
out; polls without a count or a position are a choice; a poll may be arbitrarily
late.  `CounterResets` stands for encoders that restart their count, which the
code guards against though `AceEncoder` never does.

### EncoderGuard

The motions of a change in order, each with its tracking token; a motion sees no
pulses, too few, or enough (`FaultOf`).  Motions of the units use the manager's
`armed` (both fault records), extruder motions the encoder's own (its record
only), as in the code.  The calibration keeps the measured segments, and `made`, history, those
since the round was started, cancelled or rejected, which is what "of this round"
means; the resolution is kept as the sum of `Segments` measures, which avoids
division.  `answer`
says how the last command ended.  Tracking lengths are assumed to be at least
`encoder_detection_length`, which the preflight checks.

### StateStore

`memory`, `variables`, `state`, `loaded`, `dirty`, `file` are the layers;
`section` says whether `printer.cfg` has `[save_variables]`; `pc`, `op`, `key`,
`val` are the call under way.  `Write` starts a `set`, `SaveVariable`,
`StateSet`, `Flush`, `Replace` are its file operations, each of which may fail
or be the last before Klipper dies (`Exit`).  `Start` and `Migrate` are the
construction of the manager and the import of a V2 inventory, `Disconnect` the
flush on the way down, `Reconfigure` a person who edits `printer.cfg` while
Klipper is down.  `lost` is history: keys whose last save was reported (raised or
logged) as failed.  `SavedState` leaves open what `Reconfigure` brings back,
because `[save_variables]`, removed and added again, brings back old values.

### Ace2Bus

`addr` is what each unit believes its address is, `asked` the requests units may
still answer, `line` the answers under way, in any order and late; `waiting` is
the request the one transport waits for; `phase`, `attempts`, `assigned`,
`candidate`, `router` are `_initialize_ace2_buses`; `bound`, `status`,
`connected` the devices.  A unit keeps its address for
as long as it has power (`PowerLoss`), across restarts of Klipper.  So a configured
unit starts with any address of the line, and one that is on the line and not in
`ace.cfg` with the one it had when it was, `Former`, or none: nothing takes the
address back when a unit is removed or disabled.  Whose answer a device shows is
kept in `status`.  The content of a status is left out, and so are physical
commands, which the code refuses for ACE2.

### ActionGate

`Submit` is Moonraker's check of a request against a status and its
confirmation; `WebCommand`, `FileCommand`, `Macro` begin a command when Klipper is
free (`running`), after the manager's and the policy's checks (`Gates`) of
what is true by then; `End` ends it as `AcePath` permits.  `print` is
`print_stats`, `slot` what the units last said, `full` what is really on the
spools, `runout` the macro that is due.  `wanted`, `told`, `spent` are history:
the tool the file asked for last, whether the printer gave notice of an ignored
command or somebody changed the tool from the web, and slots left empty.  A
print neither starts nor stops while a command runs (it occupies G-code).
`TR` unloads whatever is current.  `recover` is no physical action, as its
`ActionSpec` says; the set `PHYSICAL_ACTIONS` that names it is read nowhere.
`SetSlot` is `STATUS=` only: a material, a colour or an RFID choice changes what
matches, and `Material` is fixed.  Left out: restarts (the record after one is
`AcePath`'s), drying, calibration, which slot is assisted, the wording of
notices.

### Installation

`files` maps a path to what the installer owns of it (a link of ours, a file of
the user, a newer one that came later, a marked block, the units with their
authorisation); `op`, `todo`, `source` are the script, its remaining file
operations and the Fluidd tree it was given, `log` the transaction log, `snapshot` a
kept snapshot.  `Change` does the next operation, `Fail` starts the rollback, which
removes what is at a target (`RollbackRemove`, then `half` holds its paths) and
copies back what was saved (`RollbackCopy`); `Kill` (SIGKILL, loss of power, or a
rollback that fails) may come between any two of these and starts nothing.  A first
run finds no older release, the split layout with its `ace.cfg`, or the one before
it.  A person replaces links, edits files with our blocks in them and allows units
in between.  One Fluidd tree is followed; `--fluidd-source` may name it, another one
or none, and of the other only the note in `fluidd-source.path` is.  `Blank` is the
placeholder unit of the template `config/ace.cfg`, which `Create` and `Upgrade`
write and `Merge` replaces; it is assumed that nobody gives it as a device.
`before`, `original`, `trusted`, `astray`, `torn`, `elsewhere`, `since` are
history; a snapshot remembers whether the files it was taken of were `astray` or
`torn`, and what is restored from it is so again.  Left out: `--dry-run`, discovery
of paths, prompts and compatibility reports, which change nothing; what is written
inside a block; empty directories that a rollback leaves; one target of a restore is
one step.


## 3. Runs

| Run | Instance | Distinct states | Shows |
|---|---|---|---|
| `path_one` | one unit, two slots, bypassed lower sensor, all faults, restarts, fairness | 14 344 | beliefs are true (`BeliefIsTrue`), `OwnershipIsEarned`, `UncertaintyIsHeld`, slots assist in turn (`AssistsInTurn`), and `LockIsReleased` (liveness) |
| `path_two` | two units, one slot each, all faults, restarts | 41 792 | `OneMover`, `NeverFedIntoAnother`, `PathInv` (the inductive core), and `AcePath` implements `SharedPath` |
| `path_assist` | two units | — | violated: two slots are assisted (finding 1) |
| `path_single` | two units, `ACE_RECONNECT DEVICE=` | — | violated: two motors run (finding 2) |
| `serial_link` | 3 requests, 1 retry, 2 frames on the line each way | 630 595 | `KeepsOneShot` (refinement), `ReadyIsFresh`, `JobsAreDone` (liveness) |
| `print_monitor` | counter may restart, travel to 5 | 1 930 588 | `RunsOnAQuietPath`, `AccumulatorsMeasure`, `JamsAreReported`, `AlarmsAreSlips`, `OneEventPerJam` |
| `encoder_guard` | modes `monitor` and `protect`, rounds of 2 | 48 264 | `RoundsDoNotMix`, `CalibrationIsStill`, `FaultHoldsPath`, `MonitorIsReadOnly` (refinement) |
| `encoder_reconnect` | mode `monitor` | — | violated: a fault survives `ACE_RECONNECT` (finding 3) |
| `state_store` | two keys, two values, with and without `[save_variables]`, damaged file, V2 inventory | 62 670 | `NoSilentLoss`, `MigratesOnce`, and `StateStore` implements `SavedState` |
| `ace2_bus` | two configured units and one taken out of `ace.cfg` that may keep its old address, 3 rounds, 2 polls each | 772 662 | `StatusIsOwn`, `AddressesAreUnique`, `InitializationEnds` (liveness) |
| `action_gate` | three units of one slot, two of one material, one request open, two spools that end | 1 323 944 | `WebKeepsOutOfPrints`, `PrintsTheRightMaterial`, `EmptySpoolStaysOut`, `EverySpoolIsUsed` |
| `installation` | two units, three layouts, a Fluidd tree, another or none, three runs, one edit or loss of power | 2 604 954 | `FailureChangesNothing`, `RestoreUndoesInstall`, `UninstallIsClean`, `NeverLockedOut`, `NothingRetiredTooEarly`, `TrustsOnlyThePerson` |

The types (`TypeOK`) are theorems in every module; the runs that also list theirs
are `serial_link`, `encoder_guard` and `installation`.  The proofs also give
properties no run repeats: `RecordFollowsStep`, `FedToolIsUncontested`, `StateIsTrue`,
`LatchFollowsCount`, `OnlyMotionClears`, `SavesAreSnapshots`,
`WebMovesAreConfirmed`.

Every property of a passing run has a mutant, a plausible bug written beside the
definition it changes (`\* Mutant: …`), for which TLC finds it violated.

**Bounds.**  Two tools suffice for one displacing another, two units for two
motors and two latches; a third adds only repetitions, and the theorems hold for
any number.  `MaxAttempts`, `FeedWindows`, `ParkSegments` of 1 or 2 reach both
"try again" and "give up".  In `SerialLink` three ids allow a command, its wait
or recovery, and a poll whose late reply crosses them; one retry sends a frame
twice; the line holds an old frame and a new one.  `Detection` 3, `Resolution` 2,
`Lag` 1 are the smallest with `Detection >= Resolution + Lag` in which a pulse
is neither immediate nor the whole window; travel 5 passes it.  Measures 20,
22, 25 give rounds within 5, within 10 and beyond 10 percent.  In `StateStore` two
keys tell a whole state from half of one.  In `Ace2Bus` two polls per device
let an answer to the first carry the id another device waits for (all count from
1); `MaxAsked` and `MaxLine` keep one late answer beside the one awaited.  In
`ActionGate` three slots are one that ends, one that matches and one that does
not, and two spools may end; one open request suffices, since requests meet
only in Klipper's queue, where a file and a macro compete as well.  In
`Installation` three runs are install, a changed install and uninstall, or
install, restore and anything; one event (`MaxEvents`) is an edit between any two of
them or a loss of power at any operation of any of them, a rollback or a restore
included.  A file that replaces a link and is linked over again is install, edit,
install, uninstall; the patch of a tree that is left behind is install, install with
another tree, uninstall.

**Deadlock** is checked everywhere but in `serial_link` and `installation`, which
stop when their ids or runs are used up, and in `ace2_bus`, where a failed
discovery ends the work of the bus until the next restart.

**Restarts** in the path runs are "settled": Klipper comes back with the motors
at rest.  The documents ask for that; `_physical_state_unknown` is not saved, so
a restart during a motion forgets the doubt.  `Restarts = "prompt"` models the
other case, in which `BeliefIsTrue` and `OwnershipIsEarned` do not hold.

**Fairness.**  `AcePath!Fairness`: weak fairness of the transaction (macros
return, serial waits time out, searches count their windows) and of every motor
reaching its length; none of commands, people, polls.  `SerialLink!Spec`: weak
fairness of the worker thread, whose every wait has a deadline; none of the unit
or the line.  `Ace2Bus!FairSpec`: weak fairness of `_initialize_ace2_buses`, which
runs in a handler until it waits, and of that wait, which an answer or its
timeout ends; none of the units.  `StateStore`, `ActionGate`, `PrintMonitor`,
`EncoderGuard` and `Installation` claim safety only: what happens next there
is up to people, prints and hosts.


## 4. Proofs

All theorems are about every number of tools, units, windows, segments, ids,
keys, requests and lengths; TLC's instances are only where they were found.

*AcePath.*  `IInv == TypeOK /\ RecordFollowsStep` is inductive without any
assumption and gives `TypeCorrect`, `RecordIsKept`, `FeedsAreUncontested` and
`UncertaintyHolds`.  That filament is where the record says it is needs more:
`PathInv == MotionInv /\ FilamentInv`.  `MotionInv` says a motor runs only where
a step waits for it or the path is already unknown, and then moves the owner or
the tool at hand; `FilamentInv` says which tools can be past the hub in each
step.  Neither is inductive alone, since a motor moves filament and the filament
decides what the sensors let the next step do.  Under
`Watched == HubSensor /\ ~SingleReconnect /\ Restarts # "prompt"` they give
`PathAccounted`, `MoversAreOne`, `BeliefHolds`, `FeedsIntoNone`,
`OwnersAreEarned`, and `Implements`: every step of `AcePath` is a step or a
stutter of `SharedPath`.  Each conjunct of `Watched` is needed: without the hub
sensor filament past the hub is invisible, a reconnect of one unit overlooks
another (finding 2), and a prompt restart forgets a running motor.
`AssistsAreInTurn` needs none of this, only `DisabledFirst`: from the inspection of
a load to the handover no slot is recorded as assisted, so what the units assist
then is what the step at hand asked for.

*SerialLink.*  Every message carries an id, and `LinkInv` rests on their order
(`OrderInv`): replies in `fromUnit`, frames in `toUnit` and questions in `jobs`, one
after the other, never descend.  So a reply to a question tells the state of a
unit that had already read every older frame, and a command behind another job
has left no trace on the line (`Fresh` in `OnceInv`).  `QueueInv` says where each
greenlet waits and for which job, `KindInv` that an id means the same to all,
`JudgeInv` what each verdict says of the device, `ReadyInv` that a "ready" newer
than the last command was said by a unit at rest.  `TypesCorrect` and
`ReadyHolds` are among them; `LinkImplementsOneShot` maps a command's submission
to `Issue`, the unit that obeys to `Happen`, the command's three endings to
`Confirm`, `Refuse` and `Doubt`, a `wait_ready` that gives up to `Doubt`, a
reconnection that ends a doubt to `Settle`, and all else to a stutter.  Any number
of requests, retries and frames on the line is allowed.

*PrintMonitor.*  `MonitorInv` relates the two sums to the history (`retraction`
is the way back to the furthest position, `extrusion` the way it has moved since
the last pulse), the latch to the counts, and, for `NoFalseAlarm`, the wheel to
the extruder: with an honest encoder what the monitor has counted is at most
what has moved since the last pulse and the late report.  It yields `QuietPath`,
`Measured`, `JamsReported`, `StateTrue`, `NoFalseAlarm`, `OneEvent` and
`MotionClears`.

*EncoderGuard.*  `GuardInv` (flags, the round, and in `protect` what a recorded
fault excludes) yields `StillCalibration`, `FaultsHold` and `RoundsApart`, which
compares the segments of an active round, and what an answered resolution is made of,
with the segments measured since that round was started;
`ReadOnly` is a step simulation of the mode `off` by the mode `monitor`.
`TypesCorrect` needs that a round's sum is a natural number; the induction over
the round is made by hand, from the least index at which it would fail
(`LeastExists`, from the library's well-founded induction).

*StateStore.*  A value passes through memory, the variables or the state, and the
file, and each layer may fail on its own; which two of them may differ depends
on the step of the call under way.  `StoreInv` says so: `FileAndState` (what is
loaded and not dirty is the file), `AtStep` (what each `pc` has done), and `Layers`
(for each key, which layer has the value that memory has, separately with and
without `[save_variables]`).  `NoSilentLoss` alone says nothing of the layers
between, so no step preserves it by itself.  From it follow
`NothingLostSilently`, `ImportedOnce`, `SavedTogether` and `Implements`: a crash
between two file operations maps to `Stop`, the move of the new file to `Sync`.

*Ace2Bus.*  `BusInv`: an outstanding assignment names a configured unit and its
own address (`AskedOK`), hence a unit that answered one has that address or,
after a loss of power, none (`LineOK`, `PhaseOK`); the controller's ids are not
used twice, so the answer it waits for is from the unit it addressed
(`WaitingOK`).  Only with all four is a late answer on the shared line harmless:
`OwnStatus`, `UniqueAddresses`.  Both hold for any old addresses, and say what an
old address can do: a unit that is not configured any more may answer for the device
whose address it was once given (`MayAnswerAt`), and for no other; configured units
are never mixed up.

*ActionGate.*  `GateInv`: what `Submit` and `Gates` made sure of still holds while
the command waits and runs (`Requested`, `Permitted`), a runout that is due finds
the print paused on an empty slot (`Owed`), and a slot left empty shows so
(`SpentStayEmpty`).  It gives `WebStaysOut`, `WebIsConfirmed`, `EmptyIsNotChosen`
and `EverySpoolServes`; the last needs that a set of distances has a least
element (`LeastExists`, from the library's well-founded induction).
`MaterialInv` adds where a change under way is heading, and gives
`RightMaterial`.  No assumption limits tools, units or requests.

*Installation.*  Six layers, each resting on those before it.  The steps of a
script have a rank, and those still to come ascend (`TodoInv`); so whatever was
promised is done or still on the list (`TurnInv`).  Files, saved files and
snapshots fit their paths and hold no authorisation a person did not give
(`FitInv`; `TrustIsAPersons`, `TypesCorrect`).  The log read backwards gives
`before` (`UndoInv`; `FailureIsUndone`), since a path is saved before its first
change and the earliest entry is undone last.  What a snapshot leaves out no run
that made it touches (`SnapInv`; `RestoreIsComplete`).  An archive is filled only
after `ace.cfg` has its content, and the log saves them in that order, so neither
going on nor rolling back loses the only copy (`PhaseInv`, `RetireInv`).  Inside the
rollback the invariant speaks of the files as they will be when the copy that was
begun is made (`Copied`) and of the log that is then left (`Left`); a cut between
`rm` and `cp` of `ace.cfg` sets `torn`, and then the archive is accounted for by the
last installation's snapshot, where what it holds can be traced (`TraceInv`;
`RetiredInTime`).  Records agree with files whenever nothing runs (`Settled`), and
during a run link by link, as far as its steps have got (`CleanInv`;
`UninstalledClean`, `RunsAgain`).  What a record tells (`Told`) is what was at the
place of a link when it was recorded, whatever a person puts there and a later
installation links over.  Assumed of the constants: an old hardware
file describes a topology or is missing, and "missing" is not a configuration;
the placeholder is not among the devices; units, devices, trees, runs, edits and
losses of power are any number.  The proof of
`RetiredInTime` found what three runs cannot reach: after an interrupted restore the
next run may take a snapshot of the torn files and a fourth restore it, which
leaves them torn.  A snapshot therefore remembers `torn`, and the property makes
the same exception for it as for the interrupted restore itself.

**Model-checked only:** the liveness properties `LockIsReleased`, `JobsAreDone` and
`InitializationEnds`; fairness is outside the prover.  Every other property of a
passing run is a theorem.


## 5. Where the documents and the code differ

1. **Two assisted slots** (`path_assist`).  When the toolhead handover fails and
   the `disable_feed_assist` that cleans up fails as well, the failure is
   swallowed and `feed_assist_tool` is cleared (`manager.py:1558`); a second unit
   can then assist too.  `wiki/Safety-and-Limitations.md:158` says at most one.
2. **Reconnecting one unit clears the path** (`path_single`).
   `ACE_RECONNECT DEVICE=` looks for uncertain units among its targets only
   (`manager.py:1375`), while another unit may still carry out a command whose
   reply was lost.
3. **A fault survives a reconnect** (`encoder_reconnect`).  A fault of an
   extruder motion is in `AceEncoder` alone; `reconnect` clears the encoder only
   with a fault on the manager's record (`manager.py:1417`).

Met while reading, without a run: a failed `enable_feed_assist` in `_load_tool`
leaves `path_state` "changing" (`manager.py:1541`), though
`docs/ARCHITECTURE.zh-CN.md:120` wants "unknown"; a manual move whose wait fails
gives the lock back with the motor running (`manager.py:676`, against line 146
of the same document; `path_state` "unknown" is what stops the next move); a
calibration round with a 5 to 10 percent spread is saved at once, and too few
pulses leave a round active (`ace_encoder.py:340` and `:298`, against
`docs/DECISIONS.zh-CN.md:194`); after a shutdown a change under way opens the
port again in its next `wait_ready`;
an ACE2 unit that is taken out of `ace.cfg` or disabled and stays powered keeps its
address, which may be assigned to another one: if its discovery answers are lost, two
units answer there (`klipper.py:977`, `:997`, against
`docs/TESTING.zh-CN.md:49`); a file that came to the place of an overlay link after
the installation is linked over with the backup, or the absence, that was recorded
first, so uninstalling gives that back and the newer file is in the snapshot only
(`install.sh:528`, `:547`, against `frontend/fluidd-overlay/README.md:46`); an
installation or uninstallation with another `--fluidd-source` leaves the earlier tree
patched, and the note of it is overwritten or removed (`install.sh:758`, `:876`).


## 6. Known limits, not modelled, and the plan

Behaviour seen while modelling that no document decides, so no property is
stated about it; the models have the steps.

* *Shared path.*  A restart during a motion (above).
* *Link.*  A poll that wakes after a later request was answered merges the older
  status over the newer (`device.py:187`; waits read the answer to their own
  request); ids of failed requests stay in `_pending`, and ids are used again
  after 65535 (`protocol.py:85`; ids are unbounded in the model).
* *Print monitor.*  A pause macro that fails is not tried again while the fault is
  latched (`manager.py:1189`); `event_sequence` starts again at 0 with Klipper
  (`manager.py:1134`) while frontends drop events by the sequence seen.
* *Calibration.*  The encoder has the new resolution when saving it fails
  (`manager.py:887`).
* *State store.*  `[save_variables]` removed and added again brings back an old
  tool and inventory (`klipper.py:143`).
* *ACE2 bus.*  One UID that is not configured, or one configured unit that is off,
  leaves all units of that bus unbound until the next restart
  (`protocol_ace2.py:392`).
* *Action gate.*  A change asked for in standby runs as `gcode`: if a print has
  begun meanwhile the manager lets it through, though it would refuse the web
  (`ace_status.py:802`); `WebKeepsOutOfPrints` names this exception.
  `handle_runout` without a candidate returns without an error
  (`manager.py:1483`), so what follows is the macro's business.  A file that asks
  again for a tool whose spool was replaced is refused (`manager.py:2405`).
* *Installer.*  Killed between making the package link and recording it
  (`install.sh:555`), or between creating or upgrading `ace.cfg`, which brings the
  topology of the template, and archiving `ace_hardware.cfg`, every later run refuses
  (lines 701 and 671) until the snapshot is restored or a file removed;
  `NeverLockedOut` covers these two refusals and only runs that were not killed.  A
  rollback cut between its `rm` and its `cp` (lines 485 and 488) leaves `ace.cfg`
  missing with the archives of earlier runs present; the snapshot has it.  Restoring
  an older snapshot brings back its manifest with its files; `UninstallIsClean` and
  `NeverLockedOut` are claimed until then.  `trusted` only grows: an authorisation
  that a person took back and a restore returns is not seen.
* *Units taken out of `ace.cfg`.*  `StatusIsOwn` and `AddressesAreUnique` except the
  address such a unit had (section 5), since nothing in the code takes it back.

Not modelled for good: formats and wording (frames, JSON, protobuf, checksums,
translations), parsing of `ace.cfg` (no state after the start; its results are
CONSTANTS), display code, the frontend core (pending actions in a browser:
`ActionGate` takes any request a browser may send), release tooling.  Open-loop
operation without sensors and the optional first-stage sensors are left out of
`AcePath`.

What is left:

1. Premises of the liveness properties that are safety: that a transaction of
   `AcePath`, a job of `SerialLink` and `_initialize_ace2_buses` always have a step
   of their own to take, and a measure that it decreases.  That the step is
   eventually taken stays with TLC.
2. That what `AcePath` assumes of a unit's command (`Accepted`, `Rejected`, `Lost`)
   is what `OneShot` promises, as a refinement of one unit's part.
3. `AcePath` without the assumption on restarts: which part of `PathInv` survives a
   restart during a motion.
