----------------------------- MODULE ActionGate ------------------------------
(***************************************************************************)
(* Who may move filament, and when.  A web request is checked by the       *)
(* Moonraker component (moonraker/ace_status.py) against a status it asks  *)
(* Klipper for, and becomes one G-code command.  Klipper runs commands one *)
(* at a time, so a print file, a runout macro or another request may be    *)
(* served first; the manager (manager.py, safety.py) then checks again     *)
(* what is true by that time.  What a command does to the path once it is  *)
(* allowed is AcePath's matter: here it ends in any way AcePath permits.   *)
(***************************************************************************)
EXTENDS Naturals, FiniteSets

CONSTANTS
  UnitCount,     \* configured units
  SlotCount,     \* slots of a unit, 4 in the code
  Actionable,    \* ACE1 units with physical_actions_enabled
  Fickle,        \* units that may go offline
  Short,         \* slots whose spool may end
  Material,      \* what the match mode compares: the material, or it and its colour
  UnknownMaterial,
  NoTool,
  Requests       \* web requests that may be open together

Units == 0..(UnitCount - 1)
Tools == 0..(UnitCount * SlotCount - 1)

\* ToolMap.resolve
DeviceOf(t) == t \div SlotCount

ASSUME GateAssumption ==
  /\ UnitCount \in Nat /\ SlotCount \in Nat \ {0}
  /\ Actionable \subseteq Units /\ Fickle \subseteq Units
  /\ Short \subseteq Tools /\ NoTool \notin Tools
  /\ DOMAIN Material = Tools
  /\ Requests \cap {"file", "macro"} = {}

VARIABLES
  print,      \* print_stats
  tool, path, endless,       \* the manager's
  online, slot,              \* each unit's status, as last polled
  full,       \* slots that really have filament
  request,    \* the command a web request waits for, or Free
  running,    \* the command Klipper runs, which holds the path lock, or Free
  runout,     \* the runout macro is due
  wanted,     \* the tool the file asked for last
  told,       \* a command of this print was ignored with a notice, or someone
              \* changed its tool from the web
  spent       \* tools left for an empty spool and not refilled since

claim  == <<tool, path, endless>>
status == <<online, slot>>
story  == <<wanted, told>>
vars   == <<print, claim, status, full, request, running, runout, story, spent>>

Idle == {"standby"}     \* stands for idle, ready, complete as well
Free == [name |-> "none"]

Commands == {"change", "T", "feed", "retract", "enable_feed_assist",
             "disable_feed_assist", "set_slot", "set_endless_spool",
             "recover", "endless_spool_change"}

\* tool: NoTool is TR for a change; recover names a unit by one of its tools.  on: ENABLE or
\* STATUS=ready.  confirmed: what the web was asked.  idle: no print was seen by
\* the gate.
Command(n, t, on, c, b, s) ==
  [name |-> n, tool |-> t, on |-> on, confirmed |-> c, by |-> b, idle |-> s]

Init ==
  /\ print = "standby"
  /\ tool = NoTool /\ path = "empty" /\ endless = FALSE
  /\ online = [d \in Units |-> TRUE]
  /\ slot = [t \in Tools |-> "ready"] /\ full = Tools
  /\ request = [r \in Requests |-> Free] /\ running = Free /\ runout = FALSE
  /\ wanted = NoTool /\ told = FALSE
  /\ spent = {}

\* get_toolchange_readiness, in automatic mode with hooks and sensors in order
Ready == Actionable # {} /\ path \in {"empty", "nozzle"}

-----------------------------------------------------------------------------
(***************************************************************************)
(* The web: _validate_payload, _validate_action and _build_command.  The   *)
(* status comes with one query and nothing waits between it and the        *)
(* command, so the gate is one step that reads the current state.          *)
(***************************************************************************)
WebActions == {"select_tool", "unload", "feed", "retract", "enable_feed_assist",
               "disable_feed_assist", "set_slot", "set_endless_spool", "recover"}

NeedsConfirmation ==
  {"select_tool", "unload", "feed", "retract", "enable_feed_assist", "recover"}

PrintSafe == {"set_slot", "set_endless_spool", "enable_feed_assist",
              "disable_feed_assist"}

\* ActionSpec.physical.  recover is not: it is there for a unit that is offline
\* (the set PHYSICAL_ACTIONS, which names it, is not read by anything).
Physical == WebActions \ {"set_slot", "set_endless_spool", "recover"}

NeedsReady(a, on) == a \in {"select_tool", "unload"} \/ (a = "set_endless_spool" /\ on)

\* _resolve_target: without a slot, what the status shows as loaded.
Resolve(a, t) == IF a = "unload" \/ (a \in {"feed", "retract"} /\ t = NoTool)
                 THEN tool ELSE t

\* What the capabilities in the status come to, and the device part of the policy.
Usable(d) == d \in Actionable /\ online[d]

\* _path_busy
Busy == running # Free

Admitted(a, t, on, c) ==
  /\ NeedsReady(a, on) => Ready
  /\ a \in NeedsConfirmation => c
  /\ a \in PrintSafe \/ print \in Idle
  /\ Busy => a = "disable_feed_assist"
  /\ a \in Physical => Resolve(a, t) # NoTool /\ Usable(DeviceOf(Resolve(a, t)))

Name(a) == IF a \in {"select_tool", "unload"} THEN "change" ELSE a

\* The parameters an action has.
Asked(a, t, on, c) ==
  /\ a \in {"unload", "set_endless_spool"} => t = NoTool
  /\ a \notin {"unload", "set_endless_spool", "feed", "retract"} => t # NoTool
  /\ a \notin {"set_slot", "set_endless_spool"} => on
  /\ a \notin NeedsConfirmation => ~c     \* it is asked for nothing else

\* handle_action_request.  A request that is not admitted is answered at once.
Submit(r) ==
  /\ request[r] = Free
  /\ \E a \in WebActions, t \in Tools \cup {NoTool}, on \in BOOLEAN, c \in BOOLEAN :
       /\ Asked(a, t, on, c) /\ Admitted(a, t, on, c)
       /\ request' = [request EXCEPT ![r] =
            Command(Name(a), IF a = "unload" THEN NoTool ELSE Resolve(a, t), on, c, r,
                    print \in Idle)]
  /\ UNCHANGED <<print, claim, status, full, running, runout, story, spent>>

-----------------------------------------------------------------------------
(***************************************************************************)
(* SafetyPolicy.assert_allowed.  Every command says "gcode", the runout    *)
(* macro "runout"; only enabling feed assist passes the confirmation on.   *)
(***************************************************************************)
\* Mutant: manual motion is not told from a change.
PrintingAllowsMotion(action, source) ==
  \/ action = "enable_feed_assist"
  \/ source = "gcode"

PrintingAllows(action, source) ==
  \/ action = "enable_feed_assist"
  \/ source = "gcode" /\ action = "change"

Allowed(d, action, source, confirmed) ==
  /\ Usable(d)
  /\ action = "enable_feed_assist" /\ print = "printing" => confirmed
  /\ \/ action = "disable_feed_assist"
     \/ source = "runout" /\ print = "paused" /\ action = "change"
     \/ print \in Idle
     \/ print = "printing" /\ PrintingAllows(action, source)

Source(c) == IF c.by = "macro" THEN "runout" ELSE "gcode"

-----------------------------------------------------------------------------
(***************************************************************************)
(* EndlessSpoolSelector.select                                             *)
(***************************************************************************)
\* Mutant: the search stops at the last tool.
MatchesAbove(t) ==
  t > tool /\ slot[t] = "ready" /\ Usable(DeviceOf(t)) /\ Material[t] = Material[tool]

Matches(t) ==
  /\ t # tool /\ slot[t] = "ready" /\ Usable(DeviceOf(t))
  /\ Material[t] = Material[tool] /\ Material[tool] # UnknownMaterial

Distance(t) == (t + UnitCount * SlotCount - tool) % (UnitCount * SlotCount)

\* The first upwards, T0 following the last; NoTool when there is none.
Candidate ==
  IF \E t \in Tools : Matches(t)
  THEN CHOOSE t \in Tools : Matches(t) /\ \A u \in Tools : Matches(u) => Distance(t) <= Distance(u)
  ELSE NoTool

-----------------------------------------------------------------------------
(***************************************************************************)
(* The manager, up to the transaction: change_tool, unload, feed, retract, *)
(* enable_feed_assist, disable_feed_assist, reconnect.                     *)
(***************************************************************************)
Target(c) == IF c.name = "endless_spool_change" THEN Candidate ELSE c.tool

\* A change to the loaded tool, and unloading nothing, do nothing.
Vacuous(c) == c.name \in {"change", "T"} /\ Ready /\ c.tool = tool

MayChange(c) ==
  /\ Ready
  /\ LET t == Target(c) IN
       /\ t # tool
       /\ IF t = NoTool
          THEN Allowed(DeviceOf(tool), "change", Source(c), TRUE)
          ELSE Allowed(DeviceOf(t), "change", Source(c), TRUE) /\ slot[t] = "ready"

\* _assert_manual_motion_path
MayMove(c) ==
  /\ Allowed(DeviceOf(c.tool), c.name, "gcode", TRUE)
  /\ path \in {"empty", "nozzle"} /\ tool \in {NoTool, c.tool}

Gates(c) ==
  CASE c.name \in {"change", "T"} -> MayChange(c)
    [] c.name \in {"feed", "retract"} -> MayMove(c)
    [] c.name = "enable_feed_assist" ->
         /\ Allowed(DeviceOf(c.tool), c.name, "gcode", c.confirmed)
         /\ slot[c.tool] = "ready"
    [] c.name = "disable_feed_assist" -> Allowed(DeviceOf(c.tool), c.name, "gcode", TRUE)
    [] c.name = "recover" -> print \in Idle
    [] c.name = "endless_spool_change" ->
         endless /\ tool # NoTool /\ Candidate # NoTool /\ MayChange(c)

\* Answers the web request, or clears the macro, that gave command c.
Answer(c) ==
  /\ request' = [r \in Requests |-> IF r = c.by THEN Free ELSE request[r]]
  /\ runout' = (runout /\ c.by # "macro")

Instant == {"set_slot", "set_endless_spool"}

\* The transaction begins: _transaction_scope.
Start(c) ==
  /\ c.name \notin Instant /\ ~Vacuous(c) /\ Gates(c)
  /\ running' = [c EXCEPT !.tool = Target(c)]
  /\ UNCHANGED <<print, claim, status, full, request, runout, spent>>

\* The error of a refused command stops a print that sent it, and nothing else.
Refuse(c) ==
  /\ c.name \notin Instant /\ ~Vacuous(c) /\ ~Gates(c)
  /\ c.name = "T" => Ready
  /\ c.name = "endless_spool_change" =>
       ~(Ready /\ endless /\ tool # NoTool /\ Candidate = NoTool)
  /\ Answer(c)
  /\ print' = IF c.by = "file" THEN "error" ELSE print
  /\ UNCHANGED <<claim, status, full, running, spent>>

Skip(c) ==
  /\ Vacuous(c)
  /\ Answer(c)
  /\ UNCHANGED <<print, claim, status, full, running, spent>>

\* handle_runout without a candidate: the pause hook, which may fail.
GiveUp(c) ==
  /\ c.name = "endless_spool_change"
  /\ Ready /\ endless /\ tool # NoTool /\ Candidate = NoTool
  /\ print' \in {print, "paused"}
  /\ Answer(c)
  /\ UNCHANGED <<claim, status, full, running, spent>>

\* set_slot with STATUS=; a material or a colour typed in is not modelled, since
\* Material is fixed.  set_endless_spool.
SetSlot(c) ==
  /\ c.name = "set_slot"
  /\ slot' = [slot EXCEPT ![c.tool] = IF c.on THEN "ready" ELSE "empty"]
  /\ spent' = IF c.on THEN spent \ {c.tool} ELSE spent
  /\ Answer(c)
  /\ UNCHANGED <<print, claim, online, full, running>>

SetEndless(c) ==
  /\ c.name = "set_endless_spool"
  /\ endless' = IF c.on THEN (Ready \/ endless) ELSE FALSE
  /\ Answer(c)
  /\ UNCHANGED <<print, tool, path, status, full, running, spent>>

-----------------------------------------------------------------------------
(***************************************************************************)
(* Klipper's command queue.                                                *)
(***************************************************************************)
Serve(c) == Start(c) \/ Refuse(c) \/ Skip(c) \/ GiveUp(c) \/ SetSlot(c) \/ SetEndless(c)

WebCommand(r) ==
  /\ running = Free /\ request[r] # Free
  /\ Serve(request[r])
  /\ UNCHANGED story

Macro ==
  /\ running = Free /\ runout
  /\ Serve(Command("endless_spool_change", NoTool, TRUE, TRUE, "macro", FALSE))
  /\ UNCHANGED story

\* Mutant: the command is ignored without a word.
NoticeSilent(c) ==
  /\ ~Ready
  /\ UNCHANGED <<print, claim, status, full, request, running, runout, spent, told>>

\* handle_tool_command: a T command that cannot be served does not stop a print.
Notice(c) ==
  /\ ~Ready
  /\ told' = TRUE
  /\ UNCHANGED <<print, claim, status, full, request, running, runout, spent>>

FileCommand(t) ==
  /\ print = "printing" /\ running = Free
  /\ LET c == Command("T", t, TRUE, TRUE, "file", FALSE)
     IN (Serve(c) /\ UNCHANGED told) \/ Notice(c)
  /\ wanted' = t

\* refresh: the unit shows its slots as they are, or does not answer.
Polled(d) ==
  /\ online' = [online EXCEPT ![d] = TRUE]
  /\ slot' = [t \in Tools |-> IF DeviceOf(t) # d THEN slot[t]
                              ELSE IF t \in full THEN "ready" ELSE "empty"]

Offline(d) ==
  /\ d \in Fickle /\ online' = [online EXCEPT ![d] = FALSE]
  /\ UNCHANGED slot

Released(c) ==
  /\ running' = Free
  /\ Answer(c)

\* Mutant: the new slot is marked instead.
MarkNew(c) ==
  IF c.name = "endless_spool_change"
  THEN slot' = [slot EXCEPT ![c.tool] = "empty"] /\ spent' = spent \cup {tool}
  ELSE UNCHANGED <<slot, spent>>

\* handle_runout, after the change: the old slot is empty.
Mark(c) ==
  IF c.name = "endless_spool_change"
  THEN /\ slot' = [slot EXCEPT ![tool] = "empty"]
       /\ spent' = spent \cup {tool}
  ELSE UNCHANGED <<slot, spent>>

NewTool == running.tool

\* A change succeeds.
Changed ==
  /\ running.name \in {"change", "T", "endless_spool_change"}
  /\ tool' = NewTool
  /\ path' = IF running.tool = NoTool THEN "empty" ELSE "nozzle"
  /\ Mark(running)
  /\ told' = (told \/ (running.by \in Requests /\ print # "standby"))
  /\ UNCHANGED <<print, endless, online>>

Left(ends) == \E p \in ends : tool' = p[1] /\ path' = p[2]

\* It fails at any of its steps, and pause_on_error pauses a print, or fails.
ChangeFails ==
  /\ running.name \in {"change", "T", "endless_spool_change"}
  /\ Left({<<tool, path>>, <<NoTool, "empty">>, <<tool, "unknown">>, <<NoTool, "unknown">>}
          \cup (IF running.tool = NoTool THEN {} ELSE {<<running.tool, "nozzle">>}))
  /\ IF running.by = "file" THEN print' = "error"
     ELSE print' = print \/ (print = "printing" /\ print' = "paused")
  /\ told' = (told \/ (running.by \in Requests /\ print # "standby"))
  /\ UNCHANGED <<endless, online, slot, spent>>

\* feed and retract: _finalize_manual_motion, or a failure
Moved ==
  /\ running.name \in {"feed", "retract"}
  /\ Left({<<running.tool, "nozzle">>, <<NoTool, "unknown">>, <<tool, "unknown">>}
          \cup (IF running.name = "retract" THEN {<<NoTool, "empty">>} ELSE {}))
  /\ UNCHANGED <<print, endless, status, spent, told>>

\* Which slot is assisted is told by AcePath.
Assisted ==
  /\ running.name \in {"enable_feed_assist", "disable_feed_assist"}
  /\ UNCHANGED <<print, tool, path, endless, status, spent, told>>

\* reconnect: the unit is polled; an unknown path becomes what the sensors say.
Recovered ==
  /\ running.name = "recover"
  /\ \/ Offline(DeviceOf(running.tool)) /\ UNCHANGED <<tool, path>>
     \/ /\ Polled(DeviceOf(running.tool))
        /\ \/ UNCHANGED <<tool, path>>
           \/ path = "unknown" /\ tool' = NoTool /\ path' = "empty"
           \/ path = "unknown" /\ tool # NoTool /\ path' = "nozzle" /\ UNCHANGED tool
  /\ UNCHANGED <<print, endless, spent, told>>

End ==
  /\ running # Free
  /\ Released(running)
  /\ Changed \/ ChangeFails \/ Moved \/ Assisted \/ Recovered
  /\ UNCHANGED <<full, wanted>>

-----------------------------------------------------------------------------
(***************************************************************************)
(* The printer and the units.  A print starts, stops and resumes by        *)
(* commands too, so never while one runs.                                  *)
(***************************************************************************)
Printer(p) ==
  /\ running = Free /\ print' = p
  /\ UNCHANGED <<claim, status, full, request, running, spent>>

StartPrint ==
  /\ print \in {"standby", "error"} /\ Printer("printing")
  /\ wanted' = NoTool /\ told' = FALSE
  /\ UNCHANGED runout

FinishPrint ==
  /\ print # "standby" /\ ~runout /\ Printer("standby")
  /\ wanted' = NoTool /\ told' = FALSE
  /\ UNCHANGED runout

Pause == print = "printing" /\ Printer("paused") /\ UNCHANGED <<story, runout>>

Resume == print = "paused" /\ ~runout /\ Printer("printing") /\ UNCHANGED <<story, runout>>

\* The spool of the loaded tool ends: Klipper pauses and owes the runout macro.
SpoolEnds ==
  /\ print = "printing" /\ tool \in full \cap Short
  /\ full' = full \ {tool} /\ runout' = TRUE
  /\ running = Free /\ print' = "paused"
  /\ UNCHANGED <<claim, status, request, running, story, spent>>

Refill(t) ==
  /\ t \notin full /\ t # tool
  /\ full' = full \cup {t} /\ spent' = spent \ {t}
  /\ UNCHANGED <<print, claim, status, request, running, runout, story>>

Poll(d) ==
  /\ Polled(d) \/ Offline(d)
  /\ UNCHANGED <<print, claim, full, request, running, runout, story, spent>>

Environment ==
  \/ StartPrint \/ FinishPrint \/ Pause \/ Resume \/ SpoolEnds
  \/ \E t \in Tools : Refill(t)
  \/ \E d \in Units : Poll(d)

Next ==
  \/ \E r \in Requests : Submit(r) \/ WebCommand(r)
  \/ Macro
  \/ \E t \in Tools \cup {NoTool} : FileCommand(t)
  \/ End
  \/ Environment

Spec == Init /\ [][Next]_vars

-----------------------------------------------------------------------------
(* Properties *)

CommandRecords ==
  [name : Commands, tool : Tools \cup {NoTool}, on : BOOLEAN, confirmed : BOOLEAN,
   by : Requests \cup {"file", "macro"}, idle : BOOLEAN]

\* Every variable has its type, and a path that is known agrees with the tool:
\* an empty one has none, one loaded to the nozzle has one.
TypeOK ==
  /\ print \in {"standby", "printing", "paused", "error"}
  /\ tool \in Tools \cup {NoTool} /\ path \in {"empty", "nozzle", "unknown"}
  /\ path = "empty" => tool = NoTool
  /\ path = "nozzle" => tool \in Tools
  /\ {endless, runout, told} \subseteq BOOLEAN
  /\ online \in [Units -> BOOLEAN] /\ slot \in [Tools -> {"ready", "empty"}]
  /\ full \subseteq Tools /\ spent \subseteq Tools
  /\ request \in [Requests -> CommandRecords \cup {Free}]
  /\ running \in CommandRecords \cup {Free}
  /\ wanted \in Tools \cup {NoTool}

\* Whatever the status a web request was checked against has become since,
\* nothing of the web moves filament in a print except feed assist that was
\* confirmed, and a change that was let through before the print began.
WebKeepsOutOfPrints ==
  print = "printing" /\ running # Free /\ running.by \in Requests =>
    \/ running.name = "change" /\ running.idle
    \/ running.name = "enable_feed_assist" /\ running.confirmed
    \/ running.name = "disable_feed_assist"

\* A command of the web that moves filament, or says where it is, was confirmed
\* by a person, though the command itself no longer tells.
WebMovesAreConfirmed ==
  running # Free /\ running.by \in Requests =>
    running.confirmed \/ running.name = "disable_feed_assist"

\* A print goes on with the material its file asked for last, through spools
\* that end and changes that fail, unless the printer has said that it ignored
\* a command or the tool was changed from the web.
PrintsTheRightMaterial ==
  print = "printing" /\ running = Free /\ {tool, wanted} \subseteq Tools /\ ~told =>
    Material[tool] = Material[wanted]

\* The endless spool never goes back to a spool it left empty.
EmptySpoolStaysOut ==
  [][running' # running /\ running'.name = "endless_spool_change" =>
       running'.tool \notin spent]_vars

\* A runout is given up only when no other slot shows the same, known material.
EverySpoolIsUsed ==
  [][runout /\ ~runout' /\ running = Free /\ Ready /\ endless
       /\ tool \in Tools /\ Material[tool] # UnknownMaterial =>
       \A t \in Tools \ {tool} :
         ~(slot[t] = "ready" /\ Material[t] = Material[tool] /\ Usable(DeviceOf(t)))]_vars
=============================================================================
