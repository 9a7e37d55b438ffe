-------------------------- MODULE ActionGateProofs ---------------------------
(***************************************************************************)
(* What the web may do in a print, and how a spool that ended is replaced, *)
(* for every number of units, slots, tools and requests.                   *)
(***************************************************************************)
EXTENDS ActionGate, TLAPS, WellFoundedInduction

(***************************************************************************)
(* The invariant.  A command keeps what the gate saw of it, the manager's  *)
(* check holds for as long as the command runs, since a print neither      *)
(* starts nor stops meanwhile, and nothing but the macro's own change ends *)
(* the ownership of the slot that ran out.                                 *)
(***************************************************************************)
Web(c) ==
  /\ c.name \notin {"T", "endless_spool_change"}
  /\ c.name \notin Instant \cup {"disable_feed_assist"} => c.confirmed
  /\ c.name \in {"change", "feed", "retract", "recover"} => c.idle
  /\ c.name \in {"feed", "retract"} => c.tool \in Tools

\* What is true of a command from its sender on.
Sent(c) ==
  /\ c \in CommandRecords
  /\ c.by \in Requests => Web(c)
  /\ c.by = "file" => c.name = "T" /\ print = "printing"
  /\ c.by = "macro" => c.name = "endless_spool_change" /\ runout

Requested ==
  \A r \in Requests : request[r] # Free => request[r].by = r /\ Web(request[r])

Permitted ==
  running # Free =>
    /\ Sent(running) /\ running.name \notin Instant
    /\ running.name \in {"feed", "retract", "recover"} => print \in Idle
    /\ runout => running.name \in {"disable_feed_assist", "endless_spool_change"}

Owed == runout => print = "paused" /\ tool \in Tools \ full

SpentStayEmpty == \A t \in spent : t \notin full /\ slot[t] = "empty"

GateInv == TypeOK /\ Requested /\ Permitted /\ Owed /\ SpentStayEmpty

-----------------------------------------------------------------------------
(***************************************************************************)
(* The search for a spool ends with the nearest one.                       *)
(***************************************************************************)
LEMMA LeastExists ==
  ASSUME NEW T \in SUBSET Nat, T # {}
  PROVE  \E x \in T : \A y \in T : x <= y
<1> DEFINE R == {ss \in Nat \X Nat : ss[1] < ss[2]}
<1>1. IsWellFoundedOn(R, Nat)
  BY NatLessThanWellFounded DEF OpToRel
<1>2. PICK x \in T : \A y \in T : <<y, x>> \notin R
  <2> HIDE DEF R
  <2> QED BY <1>1, WFMin
<1>3. ASSUME NEW y \in T PROVE x <= y
  <2>1. <<y, x>> \in Nat \X Nat /\ <<y, x>>[1] = y /\ <<y, x>>[2] = x
    OBVIOUS
  <2>2. ~(y < x)
    BY <1>2, <2>1
  <2> QED BY <2>2
<1> QED BY <1>3

LEMMA NearestMatch ==
  ASSUME tool \in Tools, NEW t \in Tools, Matches(t)
  PROVE  \E u \in Tools : Matches(u) /\ \A q \in Tools : Matches(q) => Distance(u) <= Distance(q)
<1> DEFINE N == UnitCount * SlotCount
           T == {Distance(u) : u \in {q \in Tools : Matches(q)}}
<1>1. N \in Nat /\ Tools = 0..(N - 1)
  BY GateAssumption DEF Tools
<1>2. \A u \in Tools : Distance(u) \in Nat
  <2> SUFFICES ASSUME NEW u \in 0..(N - 1) PROVE (u + N - tool) % N \in Nat
    BY <1>1 DEF Distance
  <2>1. N \in Nat /\ N > 0 /\ u + N - tool \in Int
    BY <1>1
  <2> HIDE DEF N
  <2> QED BY <2>1
<1>3. T \in SUBSET Nat /\ T # {}
  BY <1>2
<1>4. PICK x \in T : \A y \in T : x <= y
  <2> HIDE DEF T
  <2> QED BY <1>3, LeastExists
<1> QED BY <1>4

LEMMA CandidateFacts ==
  ASSUME tool \in Tools
  PROVE  /\ Candidate \in Tools \cup {NoTool}
         /\ Candidate # NoTool <=> \E t \in Tools : Matches(t)
         /\ Candidate # NoTool => Matches(Candidate)
<1>1. CASE \E t \in Tools : Matches(t)
  <2>1. \E u \in Tools : Matches(u) /\ \A q \in Tools : Matches(q) => Distance(u) <= Distance(q)
    BY <1>1, NearestMatch
  <2>2. Candidate \in Tools /\ Matches(Candidate)
    BY <1>1, <2>1 DEF Candidate
  <2> QED BY <1>1, <2>2, GateAssumption
<1>2. CASE ~\E t \in Tools : Matches(t)
  BY <1>2 DEF Candidate
<1> QED BY <1>1, <1>2

-----------------------------------------------------------------------------
(***************************************************************************)
(* A command begins, is refused, or is carried out at once.                *)
(***************************************************************************)
LEMMA FreeIsNoCommand == Free \notin CommandRecords
  BY DEF Free, CommandRecords, Commands

LEMMA GatesFacts ==
  ASSUME GateInv, NEW c \in CommandRecords, Sent(c), Gates(c), c.name \notin Instant
  PROVE  /\ Target(c) \in Tools \cup {NoTool}
         /\ c.name \in {"feed", "retract", "recover"} => print \in Idle
         /\ runout => c.name \in {"disable_feed_assist", "endless_spool_change"}
<1>1. Target(c) \in Tools \cup {NoTool}
  <2>1. CASE c.name = "endless_spool_change"
    <3>1. tool # NoTool /\ tool \in Tools \cup {NoTool}
      BY <2>1 DEF Gates, GateInv, TypeOK
    <3> QED BY <2>1, <3>1, CandidateFacts DEF Target
  <2>2. CASE c.name # "endless_spool_change"
    BY <2>2 DEF Target, CommandRecords
  <2> QED BY <2>1, <2>2
<1>2. c.name \in {"feed", "retract", "recover"} => print \in Idle
  BY DEF Gates, MayMove, Allowed, PrintingAllows
<1>3. ASSUME runout
      PROVE  c.name \in {"disable_feed_assist", "endless_spool_change"}
  <2>1. print = "paused"
    BY <1>3 DEF GateInv, Owed
  <2>2. c.name \notin {"feed", "retract", "recover"}
    BY <1>2, <2>1 DEF Idle
  <2>3. c.name # "enable_feed_assist"
    BY <2>1 DEF Gates, Allowed, Idle
  <2>4. ASSUME c.name \in {"change", "T"} PROVE FALSE
    <3>1. MayChange(c) /\ c.by # "macro"
      BY <2>4 DEF Gates, Sent
    <3>2. PICK d : Allowed(d, "change", "gcode", TRUE)
      BY <3>1 DEF MayChange, Source
    <3> QED BY <2>1, <3>2 DEF Allowed, Idle
  <2> QED BY <2>2, <2>3, <2>4 DEF CommandRecords, Commands, Instant
<1> QED BY <1>1, <1>2, <1>3

LEMMA StartKeeps ==
  ASSUME GateInv, running = Free, NEW c \in CommandRecords, Sent(c), Start(c),
         wanted' \in Tools \cup {NoTool}, told' \in BOOLEAN
  PROVE  GateInv'
<1>1. /\ running' = [c EXCEPT !.tool = Target(c)] /\ c.name \notin Instant
      /\ UNCHANGED <<print, tool, path, endless, online, slot, full, request, runout, spent>>
  BY DEF Start, claim, status
<1>2. /\ Target(c) \in Tools \cup {NoTool}
      /\ c.name \in {"feed", "retract", "recover"} => print \in Idle
      /\ runout => c.name \in {"disable_feed_assist", "endless_spool_change"}
  BY <1>1, GatesFacts DEF Start
<1>3. /\ running' \in CommandRecords /\ running'.name = c.name /\ running'.by = c.by
      /\ running'.confirmed = c.confirmed /\ running'.idle = c.idle
      /\ c.name # "endless_spool_change" => running'.tool = c.tool
  BY <1>1, <1>2 DEF CommandRecords, Target
<1>4. TypeOK'
  BY <1>1, <1>3 DEF GateInv, TypeOK
<1>5. Sent(running)'
  BY <1>1, <1>3 DEF Sent, Web, Instant
<1>6. Permitted'
  BY <1>1, <1>2, <1>3, <1>5 DEF Permitted, Instant
<1>7. Requested'
  BY <1>1 DEF GateInv, Requested, Web
<1> QED BY <1>1, <1>4, <1>6, <1>7 DEF GateInv, Owed, SpentStayEmpty

\* A command is done with: nothing runs, and its request is free again.
LEMMA AnswerKeeps ==
  ASSUME GateInv, NEW c \in CommandRecords \cup {Free}, Answer(c)
  PROVE  /\ Requested' /\ (runout' => runout) /\ runout' \in BOOLEAN
         /\ request' \in [Requests -> CommandRecords \cup {Free}]
<1>1. request' = [r \in Requests |-> IF r = c.by THEN Free ELSE request[r]]
  BY DEF Answer
<1>2. request' \in [Requests -> CommandRecords \cup {Free}]
  BY <1>1 DEF GateInv, TypeOK
<1>3. Requested'
  BY <1>1 DEF GateInv, Requested, Web
<1> QED BY <1>2, <1>3 DEF Answer, GateInv, TypeOK

LEMMA ServeKeeps ==
  ASSUME GateInv, running = Free, NEW c \in CommandRecords, Sent(c), Serve(c),
         wanted' \in Tools \cup {NoTool}, told' \in BOOLEAN
  PROVE  GateInv'
<1>1. CASE Start(c)
  BY <1>1, StartKeeps
<1>2. CASE Answer(c) /\ running' = Free
  <2>1. /\ Requested' /\ Permitted' /\ (runout' => runout) /\ runout' \in BOOLEAN
        /\ request' \in [Requests -> CommandRecords \cup {Free}]
    BY <1>2, AnswerKeeps DEF Permitted
  <2> USE DEF GateInv, TypeOK, Owed, SpentStayEmpty
  <2>2. CASE Refuse(c)
    <3>1. print' = print \/ (print' = "error" /\ ~runout)
      BY <2>2 DEF Refuse, Sent
    <3> QED BY <1>2, <2>1, <2>2, <3>1 DEF Refuse, claim, status
  <2>3. CASE Skip(c)
    BY <1>2, <2>1, <2>3 DEF Skip, claim, status
  <2>4. CASE GiveUp(c)
    <3>1. c.by \in Requests \cup {"file", "macro"} /\ c.name = "endless_spool_change"
      BY <2>4 DEF GiveUp, CommandRecords
    <3>2. c.by = "macro"
      BY <3>1 DEF Sent, Web
    <3>3. ~runout'
      BY <1>2, <3>2 DEF Answer
    <3> QED BY <1>2, <2>1, <2>4, <3>3 DEF GiveUp, claim, status
  <2>5. CASE SetSlot(c)
    <3>1. /\ slot' = [slot EXCEPT ![c.tool] = IF c.on THEN "ready" ELSE "empty"]
          /\ spent' = IF c.on THEN spent \ {c.tool} ELSE spent
          /\ UNCHANGED <<print, tool, path, endless, online, full, running>>
      BY <2>5 DEF SetSlot, claim
    <3>2. slot' \in [Tools -> {"ready", "empty"}] /\ spent' \subseteq Tools
      BY <3>1
    <3>3. SpentStayEmpty'
      BY <3>1
    <3> QED BY <1>2, <2>1, <3>1, <3>2, <3>3
  <2>6. CASE SetEndless(c)
    BY <1>2, <2>1, <2>6 DEF SetEndless, status, Ready
  <2> QED BY <1>2, <2>2, <2>3, <2>4, <2>5, <2>6, <1>1 DEF Serve
<1> QED BY <1>1, <1>2 DEF Serve, Refuse, Skip, GiveUp, SetSlot, SetEndless

-----------------------------------------------------------------------------
(***************************************************************************)
(* The steps.                                                              *)
(***************************************************************************)
LEMMA SubmitKeeps ==
  ASSUME GateInv, NEW r \in Requests, Submit(r)
  PROVE  GateInv'
<1>1. PICK a \in WebActions, t \in Tools \cup {NoTool}, on \in BOOLEAN, c \in BOOLEAN :
        /\ Asked(a, t, on, c) /\ Admitted(a, t, on, c)
        /\ request' = [request EXCEPT ![r] =
             Command(Name(a), IF a = "unload" THEN NoTool ELSE Resolve(a, t), on, c, r,
                     print \in Idle)]
  BY DEF Submit
<1> DEFINE new == Command(Name(a), IF a = "unload" THEN NoTool ELSE Resolve(a, t), on, c, r,
                          print \in Idle)
<1>2. /\ new \in CommandRecords /\ new.by = r /\ new.name = Name(a)
      /\ new.confirmed = c /\ new.idle = (print \in Idle)
      /\ a \in {"feed", "retract"} => new.tool = Resolve(a, t)
  BY DEF Command, CommandRecords, Name, Commands, WebActions, Resolve, GateInv, TypeOK
<1>3. Web(new)
  <2>1. a \notin Instant \cup {"disable_feed_assist"} => c
    BY <1>1 DEF Admitted, NeedsConfirmation, WebActions, Instant
  <2>2. a \in {"select_tool", "unload", "feed", "retract", "recover"} => print \in Idle
    BY <1>1 DEF Admitted, PrintSafe
  <2>3. a \in {"feed", "retract"} => Resolve(a, t) \in Tools
    BY <1>1 DEF Admitted, Physical, WebActions, Resolve, GateInv, TypeOK
  <2>4. Name(a) \notin {"T", "endless_spool_change"}
    BY DEF Name, WebActions
  <2> HIDE DEF new
  <2> QED BY <1>2, <2>1, <2>2, <2>3, <2>4 DEF Web, Name, WebActions, Instant
<1>4. request' \in [Requests -> CommandRecords \cup {Free}] /\ Requested'
  <2> HIDE DEF new
  <2>1. request' = [request EXCEPT ![r] = new]
    BY <1>1 DEF new
  <2>2. request' \in [Requests -> CommandRecords \cup {Free}]
    BY <1>2, <2>1 DEF GateInv, TypeOK
  <2>3. ASSUME NEW q \in Requests, request'[q] # Free
        PROVE  request'[q].by = q /\ Web(request'[q])
    <3>1. request'[q] = IF q = r THEN new ELSE request[q]
      BY <2>1 DEF GateInv, TypeOK
    <3> QED BY <1>2, <1>3, <2>3, <3>1 DEF GateInv, Requested
  <2>4. Requested'
    BY <2>3 DEF Requested, Web
  <2> QED BY <2>2, <2>4
<1> QED BY <1>4 DEF Submit, claim, status, story, GateInv, TypeOK, Permitted, Sent, Web, Owed,
                    SpentStayEmpty

LEMMA WebCommandKeeps ==
  ASSUME GateInv, NEW r \in Requests, WebCommand(r)
  PROVE  GateInv'
<1> DEFINE c == request[r]
<1>1. /\ running = Free /\ c # Free /\ Serve(c) /\ c \in CommandRecords
      /\ wanted' \in Tools \cup {NoTool} /\ told' \in BOOLEAN
  BY DEF WebCommand, story, GateInv, TypeOK
<1>2. Sent(c)
  BY <1>1, GateAssumption DEF GateInv, Requested, Sent
<1> HIDE DEF c
<1> QED BY <1>1, <1>2, ServeKeeps

LEMMA MacroKeeps ==
  ASSUME GateInv, Macro
  PROVE  GateInv'
<1> DEFINE c == Command("endless_spool_change", NoTool, TRUE, TRUE, "macro", FALSE)
<1>1. /\ running = Free /\ runout /\ Serve(c)
      /\ wanted' \in Tools \cup {NoTool} /\ told' \in BOOLEAN
  BY DEF Macro, story, GateInv, TypeOK
<1>2. c \in CommandRecords /\ Sent(c)
  BY <1>1, GateAssumption DEF Command, CommandRecords, Commands, Sent
<1> HIDE DEF c
<1> QED BY <1>1, <1>2, ServeKeeps

LEMMA FileCommandKeeps ==
  ASSUME GateInv, NEW t \in Tools \cup {NoTool}, FileCommand(t)
  PROVE  GateInv'
<1> DEFINE c == Command("T", t, TRUE, TRUE, "file", FALSE)
<1>1. print = "printing" /\ running = Free /\ wanted' = t
  BY DEF FileCommand
<1>2. CASE Serve(c) /\ UNCHANGED told
  <2>1. c \in CommandRecords /\ Sent(c) /\ told' \in BOOLEAN
    BY <1>1, <1>2, GateAssumption DEF Command, CommandRecords, Commands, Sent, GateInv, TypeOK
  <2> HIDE DEF c
  <2> QED BY <1>1, <1>2, <2>1, ServeKeeps
<1>3. CASE Notice(c)
  BY <1>1, <1>3 DEF Notice, claim, status, GateInv, TypeOK, Requested, Web, Permitted, Sent, Owed,
                    SpentStayEmpty
<1> QED BY <1>2, <1>3 DEF FileCommand

LEMMA PolledFacts ==
  ASSUME GateInv, NEW d, Polled(d) \/ Offline(d)
  PROVE  /\ online' \in [Units -> BOOLEAN] /\ slot' \in [Tools -> {"ready", "empty"}]
         /\ \A t \in spent : slot'[t] = "empty"
BY DEF Polled, Offline, GateInv, TypeOK, SpentStayEmpty

LEMMA EnvironmentKeeps ==
  ASSUME GateInv, Environment
  PROVE  GateInv'
<1> USE DEF GateInv, TypeOK, Requested, Web, Permitted, Sent, Owed, SpentStayEmpty, Printer, claim,
            status, story
<1>1. CASE StartPrint
  BY <1>1 DEF StartPrint
<1>2. CASE FinishPrint
  BY <1>2 DEF FinishPrint
<1>3. CASE Pause
  BY <1>3 DEF Pause
<1>4. CASE Resume
  BY <1>4 DEF Resume
<1>5. CASE SpoolEnds
  BY <1>5, GateAssumption DEF SpoolEnds
<1>6. ASSUME NEW t \in Tools, Refill(t) PROVE GateInv'
  BY <1>6 DEF Refill
<1>7. ASSUME NEW d \in Units, Poll(d) PROVE GateInv'
  BY <1>7, PolledFacts DEF Poll
<1> QED BY <1>1, <1>2, <1>3, <1>4, <1>5, <1>6, <1>7 DEF Environment

LEMMA EndKeeps ==
  ASSUME GateInv, End
  PROVE  GateInv'
<1>1. /\ running # Free /\ running \in CommandRecords /\ Sent(running) /\ running' = Free
      /\ Answer(running) /\ UNCHANGED <<full, wanted>> /\ NoTool \notin Tools
  BY GateAssumption DEF End, Released, GateInv, TypeOK, Permitted
<1>2. /\ Requested' /\ Permitted' /\ (runout' => runout) /\ runout' \in BOOLEAN
      /\ request' \in [Requests -> CommandRecords \cup {Free}]
  BY <1>1, AnswerKeeps DEF Permitted
<1>3. runout' => running.name = "disable_feed_assist"
  <2>1. running.by = "macro" => ~runout'
    BY <1>1 DEF Answer
  <2>2. running.name = "endless_spool_change" => running.by = "macro"
    BY <1>1 DEF Sent, Web, CommandRecords
  <2> QED BY <1>1, <1>2, <2>1, <2>2 DEF GateInv, Permitted
<1>4. /\ running.tool \in Tools \cup {NoTool}
      /\ running.name \in {"feed", "retract"} => running.tool \in Tools
  BY <1>1 DEF Sent, Web, CommandRecords
<1> USE DEF GateInv, TypeOK, Owed, SpentStayEmpty
<1>5. CASE Changed
  <2>1. CASE running.name = "endless_spool_change"
    <3>1. runout /\ tool \in Tools \ full
      <4>1. running.by = "macro"
        BY <1>1, <2>1 DEF Sent, Web, CommandRecords
      <4> QED BY <1>1, <4>1 DEF Sent
    <3>2. slot' = [slot EXCEPT ![tool] = "empty"] /\ spent' = spent \cup {tool}
      BY <1>5, <2>1 DEF Changed, Mark
    <3> QED BY <1>1, <1>2, <1>3, <1>4, <1>5, <2>1, <3>1, <3>2 DEF Changed, NewTool
  <2>2. CASE running.name # "endless_spool_change"
    <3>1. UNCHANGED <<slot, spent>>
      BY <1>5, <2>2 DEF Changed, Mark
    <3> QED BY <1>1, <1>2, <1>3, <1>4, <1>5, <2>2, <3>1 DEF Changed, NewTool
  <2> QED BY <2>1, <2>2
<1>6. CASE ChangeFails
  <2>1. tool' \in Tools \cup {NoTool} /\ path' \in {"empty", "nozzle", "unknown"}
        /\ (path' = "empty" => tool' = NoTool) /\ (path' = "nozzle" => tool' \in Tools)
    BY <1>4, <1>6 DEF ChangeFails, Left
  <2>2. print' \in {"standby", "printing", "paused", "error"}
    BY <1>6 DEF ChangeFails
  <2> QED BY <1>1, <1>2, <1>3, <1>6, <2>1, <2>2 DEF ChangeFails
<1>7. CASE Moved
  BY <1>1, <1>2, <1>3, <1>4, <1>7 DEF Moved, Left, status
<1>8. CASE Assisted
  BY <1>1, <1>2, <1>3, <1>8 DEF Assisted, status
<1>9. CASE Recovered
  <2>1. PICK d : Polled(d) \/ Offline(d)
    BY <1>9 DEF Recovered
  <2>2. /\ online' \in [Units -> BOOLEAN] /\ slot' \in [Tools -> {"ready", "empty"}]
        /\ \A t \in spent : slot'[t] = "empty"
    BY <2>1, PolledFacts
  <2> QED BY <1>1, <1>2, <1>3, <1>9, <2>2 DEF Recovered
<1> QED BY <1>5, <1>6, <1>7, <1>8, <1>9 DEF End

LEMMA GateInvariant == Spec => []GateInv
<1>1. Init => GateInv
  BY DEF Init, GateInv, TypeOK, Requested, Permitted, Owed, SpentStayEmpty
<1>2. GateInv /\ [Next]_vars => GateInv'
  <2> SUFFICES ASSUME GateInv, [Next]_vars PROVE GateInv'
    OBVIOUS
  <2>1. CASE UNCHANGED vars
    BY <2>1 DEF vars, claim, status, story, GateInv, TypeOK, Requested, Web, Permitted, Sent, Owed,
                SpentStayEmpty
  <2> QED BY <2>1, SubmitKeeps, WebCommandKeeps, MacroKeeps, FileCommandKeeps, EndKeeps,
             EnvironmentKeeps DEF Next
<1> QED BY <1>1, <1>2, PTL DEF Spec

-----------------------------------------------------------------------------
(***************************************************************************)
(* The theorems.                                                           *)
(***************************************************************************)
\* Every variable has its type, and a known path agrees with the current tool
\* (AceManager.current_tool and path_state).
THEOREM TypesCorrect == Spec => []TypeOK
<1>1. GateInv => TypeOK
  BY DEF GateInv
<1> QED BY <1>1, GateInvariant, PTL

\* Nothing of the web moves filament in a print but confirmed feed assist and
\* a change let through before it (_validate_action, SafetyPolicy).
THEOREM WebStaysOut == Spec => []WebKeepsOutOfPrints
<1>1. GateInv => WebKeepsOutOfPrints
  <2> SUFFICES ASSUME GateInv, print = "printing", running # Free, running.by \in Requests
               PROVE  \/ running.name = "change" /\ running.idle
                      \/ running.name = "enable_feed_assist" /\ running.confirmed
                      \/ running.name = "disable_feed_assist"
    BY DEF WebKeepsOutOfPrints
  <2>1. /\ running \in CommandRecords /\ Web(running) /\ running.name \notin Instant
        /\ running.name \notin {"feed", "retract", "recover"}
    BY DEF GateInv, Permitted, Sent, Idle
  <2> QED BY <2>1 DEF CommandRecords, Commands, Web, Instant
<1> QED BY <1>1, GateInvariant, PTL

\* A web command that moves filament, or says where it is, was confirmed by a
\* person (NeedsConfirmation in moonraker/ace_status.py).
THEOREM WebIsConfirmed == Spec => []WebMovesAreConfirmed
<1>1. GateInv => WebMovesAreConfirmed
  BY DEF GateInv, Permitted, Sent, Web, Instant, WebMovesAreConfirmed
<1> QED BY <1>1, GateInvariant, PTL

\* No change for a spool that ended goes to a slot an earlier one left empty
\* (handle_runout, EndlessSpoolSelector.select).
THEOREM EmptyIsNotChosen == Spec => EmptySpoolStaysOut
<1>1. GateInv /\ [Next]_vars
        => [running' # running /\ running'.name = "endless_spool_change" =>
              running'.tool \notin spent]_vars
  <2> SUFFICES ASSUME GateInv, [Next]_vars, running' # running,
                      running'.name = "endless_spool_change"
               PROVE  running'.tool \notin spent
    OBVIOUS
  <2>1. ASSUME NEW c, running = Free, Serve(c), c \in CommandRecords
        PROVE  running'.tool \notin spent
    <3>1. Start(c)
      BY <2>1 DEF Serve, Refuse, Skip, GiveUp, SetSlot, SetEndless
    <3>2. running' = [c EXCEPT !.tool = Target(c)]
      BY <3>1 DEF Start
    <3>3. c.name = "endless_spool_change" /\ running'.tool = Target(c)
      BY <2>1, <3>2 DEF CommandRecords
    <3>4. Gates(c) /\ Target(c) = Candidate /\ Candidate # NoTool
      BY <3>1, <3>3 DEF Start, Gates, Target
    <3>5. slot[Candidate] = "ready"
      BY <3>3, <3>4 DEF Gates, MayChange
    <3> QED BY <3>3, <3>4, <3>5 DEF GateInv, SpentStayEmpty
  <2>2. ASSUME NEW r \in Requests, WebCommand(r) PROVE running'.tool \notin spent
    BY <2>1, <2>2 DEF WebCommand, GateInv, TypeOK
  <2>3. ASSUME Macro PROVE running'.tool \notin spent
    BY <2>1, <2>3 DEF Macro, Command, CommandRecords, Commands
  <2>4. ASSUME NEW t \in Tools \cup {NoTool}, FileCommand(t) PROVE running'.tool \notin spent
    BY <2>1, <2>4 DEF FileCommand, Notice, Command, CommandRecords, Commands
  <2>5. running' = running \/ running' = Free \/ (\E r \in Requests : WebCommand(r)) \/ Macro
        \/ \E t \in Tools \cup {NoTool} : FileCommand(t)
    BY DEF Next, Submit, End, Released, Environment, StartPrint, FinishPrint, Pause, Resume,
           SpoolEnds, Refill, Poll, Printer, vars
  <2> QED BY <2>2, <2>3, <2>4, <2>5 DEF Free
<1> QED BY <1>1, GateInvariant, PTL DEF Spec, EmptySpoolStaysOut

\* A runout is given up only when no usable slot shows the same material
\* (handle_runout, EndlessSpoolSelector.select).
THEOREM EverySpoolServes == Spec => EverySpoolIsUsed
<1>1. GateInv /\ [Next]_vars
        => [runout /\ ~runout' /\ running = Free /\ Ready /\ endless
              /\ tool \in Tools /\ Material[tool] # UnknownMaterial =>
              \A t \in Tools \ {tool} :
                ~(slot[t] = "ready" /\ Material[t] = Material[tool] /\ Usable(DeviceOf(t)))]_vars
  <2> SUFFICES ASSUME GateInv, [Next]_vars, runout, ~runout', running = Free, Ready, endless,
                      tool \in Tools, Material[tool] # UnknownMaterial,
                      NEW t \in Tools \ {tool}, slot[t] = "ready",
                      Material[t] = Material[tool], Usable(DeviceOf(t))
               PROVE  FALSE
    OBVIOUS
  <2>1. print = "paused" /\ NoTool \notin Tools
    BY GateAssumption DEF GateInv, Owed
  <2>2. Candidate # NoTool /\ Candidate \in Tools /\ Matches(Candidate)
    <3>1. Matches(t)
      BY DEF Matches
    <3> QED BY <3>1, CandidateFacts
  <2> DEFINE c == Command("endless_spool_change", NoTool, TRUE, TRUE, "macro", FALSE)
  <2>3. Serve(c)
    <3>1. ASSUME NEW r \in Requests, WebCommand(r) PROVE FALSE
      <4>1. Serve(request[r]) /\ request[r].by = r /\ r # "macro"
        BY <3>1, GateAssumption DEF WebCommand, GateInv, Requested
      <4> QED BY <4>1 DEF Serve, Start, Refuse, Skip, GiveUp, SetSlot, SetEndless, Answer
    <3>2. Macro
      BY <3>1, <2>1 DEF Next, Submit, FileCommand, End, Environment, StartPrint, FinishPrint, Pause,
                        Resume, SpoolEnds, Refill, Poll, Printer, vars
    <3> QED BY <3>2 DEF Macro
  <2>4. c.name = "endless_spool_change" /\ c.by = "macro"
    BY DEF Command
  <2> HIDE DEF c
  <2>5. Gates(c)
    <3>1. Candidate # tool /\ slot[Candidate] = "ready" /\ Usable(DeviceOf(Candidate))
      BY <2>2 DEF Matches
    <3>2. Allowed(DeviceOf(Candidate), "change", "runout", TRUE)
      BY <2>1, <3>1 DEF Allowed
    <3>3. Target(c) = Candidate /\ Source(c) = "runout"
      BY <2>4 DEF Target, Source
    <3>4. MayChange(c)
      BY <2>2, <3>1, <3>2, <3>3 DEF MayChange
    <3> QED BY <2>1, <2>2, <2>4, <3>4 DEF Gates
  <2> QED BY <2>2, <2>3, <2>4, <2>5 DEF Serve, Start, Refuse, Skip, Vacuous, GiveUp, SetSlot,
                                        SetEndless, Instant
<1> QED BY <1>1, GateInvariant, PTL DEF Spec, EverySpoolIsUsed

(***************************************************************************)
(* The material.  A change ordered by the file leads to the tool it wants, *)
(* one for a spool that ended to the material that was loaded, and every   *)
(* other change is told or happens where no print is.                      *)
(***************************************************************************)
InPrint == print \in {"printing", "paused"}

SameMaterial == {tool, wanted} \subseteq Tools => Material[tool] = Material[wanted]

Heading ==
  running # Free =>
    /\ running.by = "file" => running.tool = wanted
    /\ running.name = "endless_spool_change" =>
         tool \in Tools /\ running.tool \in Tools /\ Material[running.tool] = Material[tool]

MaterialInv ==
  /\ print = "standby" => wanted = NoTool
  /\ Heading
  /\ InPrint /\ ~told /\ ~(running # Free /\ running.by = "file") => SameMaterial

LEMMA ServeKeepsMaterial ==
  ASSUME GateInv, MaterialInv, running = Free, NEW c \in CommandRecords, Sent(c), Serve(c),
         c.by = "file" => wanted' = c.tool,
         c.by # "file" => wanted' = wanted, told' = told
  PROVE  MaterialInv'
<1>1. CASE Start(c)
  <2>1. /\ running' = [c EXCEPT !.tool = Target(c)] /\ UNCHANGED <<print, tool>> /\ Gates(c)
    BY <1>1 DEF Start, claim
  <2>2. /\ running'.by = c.by /\ running'.name = c.name /\ running'.tool = Target(c)
    BY <2>1 DEF CommandRecords
  <2>3. c.by = "file" => running'.tool = wanted' /\ print = "printing"
    BY <2>2 DEF Sent, Target
  <2>4. c.name = "endless_spool_change" => /\ tool \in Tools /\ Candidate \in Tools
                                           /\ Material[Candidate] = Material[tool]
    BY <2>1, CandidateFacts DEF Gates, Matches, GateInv, TypeOK
  <2>5. Heading'
    BY <2>1, <2>2, <2>3, <2>4 DEF Heading, Target
  <2>6. print = "standby" => wanted' = NoTool
    BY <2>3 DEF MaterialInv
  <2>7. c.by # "file" /\ InPrint /\ ~told => SameMaterial'
    BY <2>1 DEF MaterialInv, SameMaterial
  <2>8. running' # Free
    BY <2>2 DEF Free, CommandRecords, Commands
  <2> QED BY <2>1, <2>2, <2>5, <2>6, <2>7, <2>8 DEF MaterialInv, InPrint
<1>2. CASE running' = Free /\ ~Start(c)
  <2>1. tool' = tool
    BY <1>2 DEF Serve, Refuse, Skip, GiveUp, SetSlot, SetEndless, claim
  <2>2. CASE c.by = "file"
    <3>1. c.name = "T" /\ print = "printing"
      BY <2>2 DEF Sent
    <3>2. CASE Refuse(c)
      BY <1>2, <2>2, <3>2 DEF Refuse, MaterialInv, Heading, InPrint
    <3>3. CASE Skip(c)
      <4>1. wanted' = tool' /\ print' = print
        BY <2>1, <2>2, <3>3 DEF Skip, Vacuous
      <4> QED BY <1>2, <3>1, <4>1 DEF MaterialInv, Heading, SameMaterial
    <3> QED BY <1>2, <3>1, <3>2, <3>3 DEF Serve, GiveUp, SetSlot, SetEndless
  <2>3. CASE c.by # "file"
    <3>1. GiveUp(c) => print' = print
      <4>1. GiveUp(c) => c.by = "macro"
        BY DEF GiveUp, Sent, Web, CommandRecords
      <4> QED BY <4>1 DEF GiveUp, Sent, GateInv, Owed
    <3>2. print' = print
      BY <1>2, <2>3, <3>1 DEF Serve, Refuse, Skip, SetSlot, SetEndless
    <3> QED BY <1>2, <2>1, <2>3, <3>2 DEF MaterialInv, Heading, InPrint, SameMaterial
  <2> QED BY <2>2, <2>3
<1> QED BY <1>1, <1>2 DEF Serve, Refuse, Skip, GiveUp, SetSlot, SetEndless

LEMMA EndKeepsMaterial ==
  ASSUME GateInv, MaterialInv, End
  PROVE  MaterialInv'
<1>1. /\ running # Free /\ running' = Free /\ wanted' = wanted /\ running \in CommandRecords
      /\ Sent(running)
  BY DEF End, Released, GateInv, TypeOK, Permitted
<1>2. Heading'
  BY <1>1 DEF Heading
<1>3. print' = print \/ (print = "printing" /\ print' \in {"error", "paused"})
  BY <1>1 DEF End, Changed, ChangeFails, Moved, Assisted, Recovered, Sent
<1>4. ASSUME InPrint', ~told' PROVE SameMaterial'
  <2>1. InPrint /\ (print = "standby" => wanted = NoTool)
    BY <1>3, <1>4 DEF InPrint, MaterialInv
  <2>2. running.name \notin {"feed", "retract", "recover"}
    BY <1>1, <2>1 DEF GateInv, Permitted, InPrint, Idle
  <2>3. CASE running.by = "file"
    <3>1. running.name = "T" /\ running.tool = wanted
      BY <1>1, <2>3 DEF Sent, MaterialInv, Heading
    <3>2. Changed
      <4>1. ChangeFails => print' = "error"
        BY <2>3 DEF ChangeFails
      <4>2. ~ChangeFails /\ ~Moved /\ ~Assisted /\ ~Recovered
        BY <1>4, <3>1, <4>1 DEF Moved, Assisted, Recovered, InPrint
      <4> QED BY <4>2 DEF End
    <3> QED BY <1>1, <3>1, <3>2 DEF Changed, NewTool, SameMaterial
  <2>4. CASE running.by = "macro"
    <3>1. running.name = "endless_spool_change"
      BY <1>1, <2>4 DEF Sent
    <3>2. /\ tool \in Tools /\ running.tool \in Tools /\ Material[running.tool] = Material[tool]
          /\ tool' \in {tool, NoTool, running.tool}
      BY <1>1, <3>1 DEF MaterialInv, Heading, End, Changed, NewTool, ChangeFails, Left, Moved,
                        Assisted, Recovered
    <3>3. ~told /\ SameMaterial
      BY <1>1, <1>4, <2>1, <2>4, <3>1 DEF MaterialInv, End, Changed, ChangeFails, Moved, Assisted,
                                          Recovered
    <3> QED BY <1>1, <3>2, <3>3, GateAssumption DEF SameMaterial
  <2>5. CASE running.by \in Requests
    <3>1. tool' = tool /\ told' = told
      BY <1>4, <2>1, <2>2, <2>5 DEF End, Changed, ChangeFails, Moved, Assisted, Recovered, InPrint
    <3> QED BY <1>1, <1>4, <2>1, <2>5, <3>1, GateAssumption DEF MaterialInv, SameMaterial
  <2> QED BY <1>1, <2>3, <2>4, <2>5 DEF CommandRecords
<1> QED BY <1>1, <1>2, <1>3, <1>4 DEF MaterialInv

LEMMA StepKeepsMaterial ==
  ASSUME GateInv, MaterialInv, [Next]_vars
  PROVE  MaterialInv'
<1>1. ASSUME NEW r \in Requests, WebCommand(r) PROVE MaterialInv'
  <2>1. /\ request[r] # Free /\ request[r] \in CommandRecords /\ request[r].by = r
        /\ Web(request[r]) /\ r \notin {"file", "macro"}
    BY <1>1, GateAssumption DEF WebCommand, GateInv, TypeOK, Requested
  <2>2. Sent(request[r])
    BY <2>1 DEF Sent
  <2> QED BY <1>1, <2>1, <2>2, ServeKeepsMaterial DEF WebCommand, story
<1>2. CASE Macro
  <2> DEFINE c == Command("endless_spool_change", NoTool, TRUE, TRUE, "macro", FALSE)
  <2>1. /\ running = Free /\ runout /\ Serve(c) /\ UNCHANGED <<wanted, told>>
    BY <1>2 DEF Macro, story
  <2>2. c \in CommandRecords /\ Sent(c) /\ c.by # "file"
    BY <2>1, GateAssumption DEF Command, CommandRecords, Commands, Sent
  <2> HIDE DEF c
  <2> QED BY <2>1, <2>2, ServeKeepsMaterial
<1>3. ASSUME NEW t \in Tools \cup {NoTool}, FileCommand(t) PROVE MaterialInv'
  <2> DEFINE c == Command("T", t, TRUE, TRUE, "file", FALSE)
  <2>1. print = "printing" /\ running = Free /\ wanted' = t
    BY <1>3 DEF FileCommand
  <2>2. CASE Serve(c) /\ UNCHANGED told
    <3>1. c \in CommandRecords /\ Sent(c) /\ c.by = "file" /\ c.tool = t
      BY <2>1, GateAssumption DEF Command, CommandRecords, Commands, Sent
    <3> HIDE DEF c
    <3> QED BY <2>1, <2>2, <3>1, ServeKeepsMaterial
  <2>3. CASE Notice(c)
    BY <2>1, <2>3 DEF Notice, MaterialInv, Heading
  <2> QED BY <1>3, <2>2, <2>3 DEF FileCommand
<1>4. CASE End
  BY <1>4, EndKeepsMaterial
<1>5. CASE Environment
  BY <1>5, GateAssumption DEF Environment, StartPrint, FinishPrint, Pause, Resume,
              SpoolEnds, Refill, Poll, Printer,
              claim, story, MaterialInv, Heading, InPrint, SameMaterial
<1>6. ASSUME NEW r \in Requests, Submit(r) PROVE MaterialInv'
  BY <1>6 DEF Submit, claim, story, MaterialInv, Heading, InPrint, SameMaterial
<1>7. CASE UNCHANGED vars
  BY <1>7 DEF vars, claim, story, MaterialInv, Heading, InPrint, SameMaterial
<1> QED BY <1>1, <1>2, <1>3, <1>4, <1>5, <1>6, <1>7 DEF Next

\* A print goes on with the material its file asked for last, unless a command
\* was ignored with a notice or the tool changed from the web
\* (handle_tool_command, handle_runout).
THEOREM RightMaterial == Spec => []PrintsTheRightMaterial
<1>1. Init => MaterialInv
  BY DEF Init, MaterialInv, Heading, InPrint
<1>2. GateInv /\ MaterialInv /\ [Next]_vars => MaterialInv'
  BY StepKeepsMaterial
<1>3. MaterialInv => PrintsTheRightMaterial
  BY DEF MaterialInv, InPrint, SameMaterial, PrintsTheRightMaterial
<1> QED BY <1>1, <1>2, <1>3, GateInvariant, PTL DEF Spec
=============================================================================
