------------------------------ MODULE SerialLink ------------------------------
(***************************************************************************)
(* One ACE1 unit at the end of its serial line: AceDevice (device.py), the *)
(* transport's single worker thread with its retries (transport.py,        *)
(* _ReactorSerialTransport in klipper.py), the request ids (protocol.py)   *)
(* and a line that loses and delays frames.                                *)
(*                                                                         *)
(* Three greenlets of the reactor share the unit: "gcode" sends the        *)
(* physical commands, waits for ready and reconnects, "poll" refreshes the *)
(* status, "stop" is the shutdown handler.  Each blocks in _wait for its   *)
(* own job; a step of a greenlet is what runs between two waits.           *)
(***************************************************************************)
EXTENDS Naturals, Sequences

CONSTANTS
  Retries,     \* SerialTransport.retries
  MaxRequests, \* bound: request ids used
  LineHolds    \* bound: frames on their way, in each direction

ASSUME LinkAssumption == Retries \in Nat /\ MaxRequests \in Nat /\ LineHolds \in Nat \ {0}

Greenlets == {"gcode", "poll", "stop"}
Ids       == 1..MaxRequests

VARIABLES
  at,         \* what each greenlet waits for
  outcome,    \* the result of its job, "none" while the job is not done
  jobs,       \* the executor's queue, the worker runs the head
  attempt,    \* retries the worker has used on it
  reading,    \* the frame is written, the worker reads
  port,       \* the serial port is open
  opened,     \* AceDevice._transport_open
  connected,  \* status["connected"]
  unknown,    \* AceDevice._physical_state_unknown
  nextId,     \* BaseProtocol._next_request_id
  command,    \* id of the last physical command
  toUnit,     \* frames on their way
  fromUnit,   \* replies on their way, or in the input buffer
  moving,     \* the unit's motor
  verdict,    \* history: what the driver holds of each command
  times       \* history: how often the unit has carried it out

greenlets == <<at, outcome>>
worker    == <<jobs, attempt, reading, port>>
device    == <<opened, connected, unknown, nextId, command, verdict>>
line      == <<toUnit, fromUnit>>
unit      == <<moving, times>>
vars      == <<greenlets, worker, device, line, unit>>

\* AceManager.start has opened the unit and read its first status.
Init ==
  /\ at = [g \in Greenlets |-> "idle"] /\ outcome = [g \in Greenlets |-> "none"]
  /\ jobs = <<>> /\ attempt = 0 /\ reading = FALSE /\ port = TRUE
  /\ opened = TRUE /\ connected = TRUE /\ unknown = FALSE
  /\ nextId = 1 /\ command = 0 /\ verdict = [c \in Ids |-> "none"]
  /\ toUnit = <<>> /\ fromUnit = <<>>
  /\ moving = FALSE /\ times = [c \in Ids |-> 0]

(***************************************************************************)
(* Greenlets: AceDevice.                                                   *)
(***************************************************************************)
\* _ReactorSerialTransport: a job for the worker, then _wait.
Submit(g, op, id, here) ==
  /\ jobs' = Append(jobs, [by |-> g, op |-> op, id |-> id])
  /\ at' = [at EXCEPT ![g] = here] /\ outcome' = [outcome EXCEPT ![g] = "none"]
  /\ UNCHANGED <<attempt, reading, port, line, unit>>

\* encode_request numbers the request.
Request(g, op, here) ==
  /\ nextId \in Ids /\ nextId' = nextId + 1
  /\ Submit(g, op, nextId, here)

Ask(g, here) == Request(g, "status", here) /\ UNCHANGED command

Rests(g, here) ==
  /\ at' = [at EXCEPT ![g] = here] /\ outcome' = [outcome EXCEPT ![g] = "none"]
  /\ UNCHANGED <<worker, line, unit, nextId, command>>

Woken(g, here, what) == at[g] = here /\ outcome[g] = what

\* AceDevice.refresh
Refresh(g, mustOpen) ==
  /\ IF mustOpen
     THEN Submit(g, "open", 0, "opening") /\ UNCHANGED <<nextId, command>>
     ELSE Ask(g, "asking")
  /\ UNCHANGED <<opened, connected, unknown, verdict>>

\* _poll, until the shutdown handler has unregistered the timer.
PollStart ==
  /\ at["poll"] = "idle" /\ at["stop"] = "idle"
  /\ Refresh("poll", ~connected \/ ~opened)

\* wait_ready, once round.
WaitStart == at["gcode"] = "accepted" /\ Refresh("gcode", ~opened)

\* AceDevice.open has the port open: on to the question.
OpenDone(g) ==
  /\ \E here \in {"opening", "recovering"} :
       /\ Woken(g, here, "ok")
       /\ Ask(g, IF here = "opening" THEN "asking" ELSE "verifying")
  /\ opened' = TRUE /\ connected' = FALSE
  /\ UNCHANGED <<unknown, verdict>>

OpenFailed(g) ==
  /\ at[g] \in {"opening", "recovering"} /\ outcome[g] = "failed"
  /\ Rests(g, "idle")
  /\ connected' = FALSE
  /\ UNCHANGED <<opened, unknown, verdict>>

Questions == {"asking", "verifying"}
\* "busy" is any state that is not ready, an error among them.
States    == {"ready", "busy"}

\* _request raises: the next refresh opens the port again.
AskFailed(g) ==
  /\ at[g] \in Questions /\ outcome[g] = "failed"
  /\ Rests(g, "idle")
  /\ opened' = FALSE /\ connected' = FALSE
  /\ UNCHANGED <<unknown, verdict>>

\* _merge_status
Merged == connected' = TRUE /\ UNCHANGED opened

PollDone ==
  /\ at["poll"] = "asking" /\ outcome["poll"] \in States
  /\ Rests("poll", "idle") /\ Merged
  /\ UNCHANGED <<unknown, verdict>>

WaitDone ==
  /\ Woken("gcode", "asking", "ready")
  /\ Rests("gcode", "idle") /\ Merged
  /\ UNCHANGED <<unknown, verdict>>

WaitFault ==
  /\ Woken("gcode", "asking", "busy")
  /\ Rests("gcode", "idle") /\ Merged
  /\ UNCHANGED <<unknown, verdict>>

WaitAgain ==
  /\ Woken("gcode", "asking", "busy")
  /\ Rests("gcode", "accepted") /\ Merged
  /\ UNCHANGED <<unknown, verdict>>

\* _mark_physical_unknown
WaitTimeout ==
  /\ Woken("gcode", "asking", "busy")
  /\ Rests("gcode", "idle")
  /\ connected' = FALSE /\ unknown' = TRUE /\ UNCHANGED opened
  /\ verdict' = [verdict EXCEPT ![command] = "doubt"]

\* feed, retract and the others: _assert_physical, then request_once.  A wait
\* may be cut short by a stop command.
CommandStart ==
  /\ at["gcode"] \in {"idle", "accepted"}
  /\ connected /\ ~unknown
  /\ Request("gcode", "command", "commanding") /\ command' = nextId
  /\ verdict' = [verdict EXCEPT ![nextId] = "waiting"]
  /\ UNCHANGED <<opened, connected, unknown>>

Judged(v) == verdict' = [verdict EXCEPT ![command] = v]

CommandDone ==
  /\ Woken("gcode", "commanding", "ok")
  /\ Rests("gcode", "accepted") /\ Judged("ok")
  /\ UNCHANGED <<opened, connected, unknown>>

\* code # 0
CommandRejected ==
  /\ Woken("gcode", "commanding", "rejected")
  /\ Rests("gcode", "idle") /\ Judged("refused")
  /\ connected' = FALSE /\ UNCHANGED <<opened, unknown>>

CommandFailed ==
  /\ Woken("gcode", "commanding", "failed")
  /\ Rests("gcode", "idle") /\ Judged("doubt")
  /\ opened' = FALSE /\ connected' = FALSE /\ unknown' = TRUE

(***************************************************************************)
(* ACE_RECONNECT and shutdown.                                             *)
(***************************************************************************)
ReconnectStart ==
  /\ at["gcode"] = "idle" /\ at["stop"] = "idle"
  /\ Submit("gcode", "close", 0, "closing")
  /\ UNCHANGED device

\* Mutant: a port that opens again is enough.
ReconnectClosedOnly ==
  /\ Woken("gcode", "closing", "ok")
  /\ Submit("gcode", "open", 0, "recovering")
  /\ opened' = FALSE /\ connected' = FALSE /\ unknown' = FALSE
  /\ verdict' = [c \in Ids |-> IF verdict[c] = "doubt" THEN "settled" ELSE verdict[c]]
  /\ UNCHANGED <<nextId, command>>

ReconnectClosed ==
  /\ Woken("gcode", "closing", "ok")
  /\ Submit("gcode", "open", 0, "recovering")
  /\ opened' = FALSE /\ connected' = FALSE
  /\ UNCHANGED <<unknown, nextId, command, verdict>>

\* Ready, and the sensors identify the path.
ReconnectDone ==
  /\ Woken("gcode", "verifying", "ready")
  /\ Rests("gcode", "idle") /\ Merged
  /\ unknown' = FALSE
  /\ verdict' = [c \in Ids |-> IF verdict[c] = "doubt" THEN "settled" ELSE verdict[c]]

ReconnectRefused ==
  /\ at["gcode"] = "verifying" /\ outcome["gcode"] \in States
  /\ Rests("gcode", "idle") /\ Merged
  /\ UNCHANGED <<unknown, verdict>>

\* _handle_disconnect.  A transaction under way goes on.
StopStart ==
  /\ at["stop"] = "idle"
  /\ Submit("stop", "close", 0, "closing")
  /\ UNCHANGED device

StopDone ==
  /\ Woken("stop", "closing", "ok")
  /\ Rests("stop", "down")
  /\ opened' = FALSE /\ connected' = FALSE
  /\ UNCHANGED <<unknown, verdict>>

(***************************************************************************)
(* The worker: SerialTransport.                                            *)
(***************************************************************************)
Job == Head(jobs)

Finish(what) ==
  /\ outcome' = [outcome EXCEPT ![Job.by] = what]
  /\ jobs' = Tail(jobs) /\ attempt' = 0 /\ reading' = FALSE
  /\ UNCHANGED <<at, device, unit>>

\* reset_input_buffer drops what has arrived, as a lost reply, and nothing of
\* what is still on its way.
Reset == UNCHANGED fromUnit

DoClose ==
  /\ jobs # <<>> /\ Job.op = "close"
  /\ port' = FALSE /\ Finish("ok") /\ UNCHANGED line

DoOpen ==
  /\ jobs # <<>> /\ Job.op = "open"
  /\ \/ port /\ UNCHANGED <<port, line>> /\ Finish("ok")
     \/ ~port /\ port' = TRUE /\ Reset /\ UNCHANGED toUnit /\ Finish("ok")
     \/ ~port /\ UNCHANGED <<port, line>> /\ Finish("failed")

Asked == jobs # <<>> /\ Job.op \in {"status", "command"}
Frame == [id |-> Job.id, op |-> Job.op]

\* request_once against request
\* Mutant: physical commands are retried as well.
RetriesOfAll(op) == Retries

RetriesOf(op) == IF op = "command" THEN 0 ELSE Retries

\* The same frame again, on a port closed and opened.
Again ==
  /\ port' = TRUE /\ attempt' = attempt + 1 /\ reading' = FALSE
  /\ UNCHANGED <<greenlets, jobs, device, unit>>

\* Mutant: one attempt more than configured.
FailsLate(open) ==
  \/ attempt > RetriesOf(Job.op) /\ Finish("failed") /\ port' = open
  \/ attempt <= RetriesOf(Job.op) /\ (Again \/ (port' = FALSE /\ Finish("failed")))

\* Mutant: attempts are not counted.
FailsNever(open) ==
  /\ port' = TRUE /\ reading' = FALSE
  /\ UNCHANGED <<greenlets, jobs, attempt, device, unit>>

\* An attempt is lost; open tells the port.  It may not open for the next one.
Fails(open) ==
  \/ attempt >= RetriesOf(Job.op) /\ Finish("failed") /\ port' = open
  \/ attempt < RetriesOf(Job.op) /\ (Again \/ (port' = FALSE /\ Finish("failed")))

Send == Len(toUnit) < LineHolds /\ toUnit' = Append(toUnit, Frame)

\* _request opens a closed port on its own.
Write ==
  /\ Asked /\ ~reading
  /\ port' = TRUE /\ reading' = TRUE
  /\ Send /\ Reset
  /\ UNCHANGED <<greenlets, jobs, attempt, device, unit>>

\* The port does not open or the write fails, with the frame sent or not.
WriteFailed ==
  /\ Asked /\ ~reading
  /\ \/ UNCHANGED toUnit /\ \E open \in {port, TRUE} : Fails(open)
     \/ Send /\ Fails(TRUE)
  /\ Reset

\* Mutant: any reply will do.
MatchesAny(reply) == TRUE

Matches(reply) == reply.id = Job.id

\* _read_matching skips what answers another request.
Read(i, what) ==
  /\ \A j \in 1..(i - 1) : ~Matches(fromUnit[j])
  /\ fromUnit' = SubSeq(fromUnit, i + 1, Len(fromUnit))
  /\ Finish(what) /\ UNCHANGED <<port, toUnit>>

ReadReply ==
  /\ Asked /\ reading
  /\ \E i \in DOMAIN fromUnit : Matches(fromUnit[i]) /\ Read(i, fromUnit[i].says)

\* A frame whose id cannot be read is taken for the reply; decode_response
\* refuses it, and a reply with a bad checksum.
ReadGarbled ==
  /\ Asked /\ reading
  /\ \E i \in DOMAIN fromUnit : Read(i, "failed")

ReadTimeout == Asked /\ reading /\ Fails(port) /\ UNCHANGED line

Worker == DoClose \/ DoOpen \/ Write \/ WriteFailed \/ ReadReply \/ ReadGarbled \/ ReadTimeout

(***************************************************************************)
(* The unit and the line.                                                  *)
(***************************************************************************)
Reply(says) ==
  /\ toUnit' = Tail(toUnit)
  /\ \/ UNCHANGED fromUnit
     \/ /\ Len(fromUnit) < LineHolds
        /\ fromUnit' = Append(fromUnit, [id |-> Head(toUnit).id, says |-> says])
  /\ UNCHANGED <<greenlets, worker, device>>

UnitObeys ==
  /\ toUnit # <<>> /\ Head(toUnit).op = "command"
  /\ moving' \in BOOLEAN /\ times' = [times EXCEPT ![Head(toUnit).id] = @ + 1]
  /\ Reply("ok")

UnitRejects ==
  /\ toUnit # <<>> /\ Head(toUnit).op = "command"
  /\ Reply("rejected") /\ UNCHANGED unit

UnitReports ==
  /\ toUnit # <<>> /\ Head(toUnit).op = "status"
  /\ \E state \in {IF moving THEN "busy" ELSE "ready", "busy"} : Reply(state)
  /\ UNCHANGED unit

MotionEnds ==
  /\ moving /\ moving' = FALSE
  /\ UNCHANGED <<greenlets, worker, device, line, times>>

FrameLost ==
  /\ toUnit # <<>> /\ toUnit' = Tail(toUnit)
  /\ UNCHANGED <<greenlets, worker, device, unit, fromUnit>>

Next ==
  \/ PollStart \/ PollDone
  \/ WaitStart \/ WaitDone \/ WaitFault \/ WaitAgain \/ WaitTimeout
  \/ \E g \in {"gcode", "poll"} : OpenDone(g) \/ OpenFailed(g) \/ AskFailed(g)
  \/ CommandStart \/ CommandDone \/ CommandRejected \/ CommandFailed
  \/ ReconnectStart \/ ReconnectClosed \/ ReconnectDone \/ ReconnectRefused
  \/ StopStart \/ StopDone
  \/ Worker
  \/ UnitObeys \/ UnitRejects \/ UnitReports \/ MotionEnds \/ FrameLost

\* A thread of the host runs, and every wait in it has a timeout.
Spec == Init /\ [][Next]_vars /\ WF_vars(Worker)

(***************************************************************************)
(* Properties.                                                             *)
(***************************************************************************)
JobType == [by : Greenlets, op : {"open", "close", "status", "command"}, id : 0..MaxRequests]

TypeOK ==
  /\ at \in [Greenlets -> Questions \cup {"idle", "opening", "accepted", "commanding",
                                          "closing", "recovering", "down"}]
  /\ outcome \in [Greenlets -> States \cup {"none", "ok", "rejected", "failed"}]
  /\ jobs \in Seq(JobType) /\ attempt \in 0..Retries /\ reading \in BOOLEAN
  /\ port \in BOOLEAN /\ opened \in BOOLEAN /\ connected \in BOOLEAN /\ unknown \in BOOLEAN
  /\ nextId \in 1..(MaxRequests + 1) /\ command \in 0..MaxRequests
  /\ toUnit \in Seq([id : Ids, op : {"status", "command"}])
  /\ fromUnit \in Seq([id : Ids, says : States \cup {"ok", "rejected"}])
  /\ moving \in BOOLEAN
  /\ verdict \in [Ids -> {"none", "waiting", "ok", "refused", "doubt", "settled"}]
  /\ times \in [Ids -> Nat]

\* Through retries, late replies and reconnects, a physical command keeps the
\* promise of OneShot (request_once, _mark_physical_unknown, reconnect).
OneShotPromise == INSTANCE OneShot
KeepsOneShot   == OneShotPromise!Spec

\* The ready that ends a wait, or a recovery, was said after the command it is
\* about: no reply to an older question passes for it (_read_matching).
ReadyIsFresh == outcome["gcode"] = "ready" => ~moving

\* Whatever the line does, the job of a command in progress is done: G-code, and
\* the path lock, wait for it (bounded retries, read timeouts, a queue in order).
Waiting     == \E i \in DOMAIN jobs : jobs[i].by = "gcode"
JobsAreDone == Waiting ~> ~Waiting
=============================================================================
