--------------------------- MODULE SerialLinkProofs ---------------------------
(***************************************************************************)
(* The link of an ACE1 unit keeps the promise of OneShot, for every number *)
(* of requests and retries and every length of the line.                   *)
(*                                                                         *)
(* The argument is about the order of the ids.  Replies, frames on their   *)
(* way and jobs in the queue carry ids in ascending order, so what is      *)
(* older than a question was said before it, and a command behind others   *)
(* has left no trace on the line yet.                                      *)
(***************************************************************************)
EXTENDS SerialLink, SequenceTheorems, TLAPS

(***************************************************************************)
(* Queues.  What they hold is read by position.                            *)
(***************************************************************************)
Listed(t) ==
  /\ Len(t) \in Nat /\ DOMAIN t = 1..Len(t)
  /\ t # <<>> => 1 \in DOMAIN t /\ Head(t) = t[1]

Dropped(t, s, k) ==
  /\ Listed(t) /\ Len(t) = Len(s) - k
  /\ \A i \in DOMAIN t : i + k \in DOMAIN s /\ t[i] = s[i + k]

Pushed(t, s, e) ==
  /\ Listed(t) /\ t # <<>> /\ Len(t) = Len(s) + 1 /\ t[Len(t)] = e
  /\ \A i \in DOMAIN t : i # Len(t) => i \in DOMAIN s /\ t[i] = s[i]

LEMMA Positions ==
  ASSUME NEW S, NEW s \in Seq(S)
  PROVE  Listed(s) /\ \A i \in DOMAIN s : s[i] \in S
<1> QED BY ElementOfSeq, LenProperties, EmptySeq DEF Listed

LEMMA Appended ==
  ASSUME NEW S, NEW s \in Seq(S), NEW e \in S
  PROVE  Append(s, e) \in Seq(S) /\ Pushed(Append(s, e), s, e)
<1> DEFINE t == Append(s, e)
<1>1. /\ t \in Seq(S) /\ t # <<>> /\ Len(t) = Len(s) + 1 /\ t[Len(s) + 1] = e
      /\ \A i \in 1..Len(s) : t[i] = s[i]
  BY AppendProperties
<1>2. Listed(s) /\ Listed(t)
  BY <1>1, Positions
<1> HIDE DEF t
<1>3. Pushed(t, s, e)
  BY <1>1, <1>2 DEF Pushed, Listed
<1> QED BY <1>1, <1>3 DEF t

LEMMA Cut ==
  ASSUME NEW S, NEW s \in Seq(S), NEW k \in DOMAIN s
  PROVE  /\ SubSeq(s, k + 1, Len(s)) \in Seq(S)
         /\ Dropped(SubSeq(s, k + 1, Len(s)), s, k)
<1> DEFINE t == SubSeq(s, k + 1, Len(s))
<1>1. Listed(s) /\ k \in 1..Len(s)
  BY Positions DEF Listed
<1>2. /\ t \in Seq(S) /\ Len(t) = Len(s) - k
      /\ \A i \in 1..(Len(s) - k) : t[i] = s[i + k]
  <2>1. \A i \in (k + 1)..Len(s) : s[i] \in S
    BY <1>1, Positions DEF Listed
  <2>2. CASE k < Len(s)
    BY <1>1, <2>1, <2>2, SubSeqProperties DEF Listed
  <2>3. CASE k = Len(s)
    BY <1>1, <2>1, <2>3, SubSeqProperties, SubSeqEmpty, EmptySeq DEF Listed
  <2> QED BY <1>1, <2>2, <2>3 DEF Listed
<1>3. Listed(t)
  BY <1>2, Positions
<1> HIDE DEF t
<1>4. Dropped(t, s, k)
  BY <1>1, <1>2, <1>3 DEF Dropped, Listed
<1> QED BY <1>2, <1>4 DEF t

LEMMA Popped ==
  ASSUME NEW S, NEW s \in Seq(S), s # <<>>
  PROVE  /\ Tail(s) \in Seq(S) /\ Dropped(Tail(s), s, 1)
         /\ 1 \in DOMAIN s /\ Head(s) = s[1] /\ Head(s) \in S
<1> DEFINE t == Tail(s)
<1>1. /\ t \in Seq(S) /\ Len(t) = Len(s) - 1 /\ \A i \in 1..Len(t) : t[i] = s[i + 1]
      /\ Head(s) \in S
  BY HeadTailProperties
<1>2. Listed(s) /\ Listed(t)
  BY <1>1, Positions
<1> HIDE DEF t
<1>3. Dropped(t, s, 1)
  BY <1>1, <1>2 DEF Dropped, Listed
<1> QED BY <1>1, <1>2, <1>3 DEF t, Listed

(***************************************************************************)
(* The invariant.                                                          *)
(***************************************************************************)
Asks(job) == job.op \in {"status", "command"}

StatesOf(g) ==
  CASE g = "gcode" -> Questions \cup {"idle", "opening", "accepted", "commanding", "closing",
                                      "recovering"}
    [] g = "poll"  -> {"idle", "opening", "asking"}
    [] g = "stop"  -> {"idle", "closing", "down"}

Places == Questions \cup {"idle", "opening", "accepted", "commanding", "closing", "recovering", "down"}

OpFor(here) ==
  CASE here \in {"opening", "recovering"} -> "open"
    [] here = "closing" -> "close"
    [] here \in Questions -> "status"
    [] here = "commanding" -> "command"
    [] OTHER -> "none"

\* A job is its greenlet's only one, still without a result, and of the kind the
\* greenlet waits for.
JobOK(i) ==
  /\ outcome[jobs[i].by] = "none" /\ jobs[i].op = OpFor(at[jobs[i].by])
  /\ Asks(jobs[i]) => jobs[i].id \in Ids /\ jobs[i].id < nextId
  /\ jobs[i].by = "gcode" /\ jobs[i].op = "status" => command < jobs[i].id
  /\ jobs[i].op = "command" => jobs[i].by = "gcode" /\ jobs[i].id = command
  /\ \A j \in DOMAIN jobs : jobs[j].by = jobs[i].by => i = j

\* The greenlets wait where their code waits, the worker reads for the head.
QueueInv ==
  /\ \A g \in Greenlets : at[g] \in StatesOf(g)
  /\ \A i \in DOMAIN jobs : JobOK(i)
  /\ reading => jobs # <<>> /\ Asks(Job)

\* Replies before frames, frames before jobs; the jobs from first to last.
OrderInv ==
  /\ \A i \in DOMAIN jobs, j \in DOMAIN jobs :
       i < j /\ Asks(jobs[i]) /\ Asks(jobs[j]) => jobs[i].id < jobs[j].id
  /\ \A i \in DOMAIN toUnit :
       /\ toUnit[i].id < nextId
       /\ \A j \in DOMAIN jobs : Asks(jobs[j]) => toUnit[i].id <= jobs[j].id
       /\ \A j \in DOMAIN toUnit : i <= j => toUnit[i].id <= toUnit[j].id
  /\ \A i \in DOMAIN fromUnit :
       /\ fromUnit[i].id < nextId
       /\ \A j \in DOMAIN jobs : Asks(jobs[j]) => fromUnit[i].id <= jobs[j].id
       /\ \A j \in DOMAIN toUnit : fromUnit[i].id <= toUnit[j].id

\* An id with a verdict is a command's, wherever it is found.
KindInv ==
  /\ command < nextId
  /\ \A c \in Ids : verdict[c] # "none" => c <= command
  /\ \A i \in DOMAIN jobs : Asks(jobs[i]) =>
        (jobs[i].op = "command" <=> verdict[jobs[i].id] # "none")
  /\ \A i \in DOMAIN toUnit : toUnit[i].op = "command" <=> verdict[toUnit[i].id] # "none"
  /\ \A i \in DOMAIN fromUnit :
       IF verdict[fromUnit[i].id] = "none" THEN fromUnit[i].says \in States
       ELSE fromUnit[i].says \in {"ok", "rejected"}

\* One command waits at a time, a doubt keeps the others away, and what
\* wait_ready asks about is the command accepted last.
JudgeInv ==
  /\ \A c \in Ids :
       /\ verdict[c] = "waiting" <=> at["gcode"] = "commanding" /\ c = command
       /\ verdict[c] = "doubt" => unknown
  /\ at["gcode"] \in {"accepted", "opening", "asking"} =>
       command \in Ids /\ verdict[command] = "ok"
  /\ at["gcode"] = "commanding" => command \in Ids

\* No frame of c is left on the line; nothing of c was ever on it.
Gone(c) == \A i \in DOMAIN toUnit : toUnit[i].id # c
Fresh(c) == Gone(c) /\ times[c] = 0 /\ \A i \in DOMAIN fromUnit : fromUnit[i].id # c

\* A command frame on the line has not been carried out, is the only one, and its
\* command is open; replies and results are true.
OnceInv ==
  /\ \A i \in DOMAIN toUnit : toUnit[i].op = "command" =>
       /\ verdict[toUnit[i].id] \in {"waiting", "doubt"} /\ times[toUnit[i].id] = 0
       /\ \A j \in DOMAIN toUnit : toUnit[j].id = toUnit[i].id => i = j
  /\ \A i \in DOMAIN fromUnit :
       /\ fromUnit[i].says = "ok" => times[fromUnit[i].id] = 1
       /\ fromUnit[i].says = "rejected" => times[fromUnit[i].id] = 0 /\ Gone(fromUnit[i].id)
  /\ \A i \in DOMAIN jobs : jobs[i].op = "command" /\ (i > 1 \/ ~reading) => Fresh(jobs[i].id)
  /\ at["gcode"] = "commanding" =>
       /\ outcome["gcode"] = "ok" => times[command] = 1
       /\ outcome["gcode"] = "rejected" => times[command] = 0 /\ Gone(command)
  /\ \A c \in Ids : verdict[c] = "none" => times[c] = 0

\* A ready newer than the last command was said by a unit at rest.
ReadyInv ==
  /\ \A i \in DOMAIN fromUnit :
       fromUnit[i].says = "ready" /\ command < fromUnit[i].id => ~moving
  /\ outcome["gcode"] = "ready" =>
       /\ ~moving
       /\ \A i \in DOMAIN toUnit : toUnit[i].op # "command"

LinkInv ==
  TypeOK /\ QueueInv /\ OrderInv /\ KindInv /\ JudgeInv /\ OnceInv /\ ReadyInv

(***************************************************************************)
(* What a step does, sorted by who takes it.                               *)
(***************************************************************************)
NoJobOf(g) == \A i \in DOMAIN jobs : jobs[i].by # g

Sent == ~reading /\ toUnit' = Append(toUnit, Frame)

Submits(g, op, here) ==
  /\ Submit(g, op, IF op \in {"status", "command"} THEN nextId ELSE 0, here)
  /\ here \in StatesOf(g) /\ NoJobOf(g) /\ op = OpFor(here)
  /\ IF op \in {"status", "command"} THEN nextId \in Ids /\ nextId' = nextId + 1
     ELSE UNCHANGED nextId
  /\ IF op = "command"
     THEN /\ g = "gcode" /\ ~unknown /\ command' = nextId
          /\ verdict' = [verdict EXCEPT ![nextId] = "waiting"]
     ELSE UNCHANGED <<command, verdict>>
  /\ g = "gcode" => at[g] # "commanding"
  /\ g = "gcode" /\ here \in {"opening", "asking"} => at[g] \in {"accepted", "opening"}
  /\ UNCHANGED unknown /\ opened' \in BOOLEAN /\ connected' \in BOOLEAN

SubmitStep ==
  \E g \in Greenlets, op \in {"open", "close", "status", "command"}, here \in Places :
    Submits(g, op, here)

\* The greenlet of G-code ends a wait, or judges its command.
Judges(here) ==
  \/ /\ at["gcode"] = "asking" /\ here = "idle"
     /\ unknown' = TRUE /\ Judged("doubt")
  \/ /\ at["gcode"] = "commanding" /\ outcome["gcode"] = "ok" /\ here = "accepted"
     /\ Judged("ok") /\ UNCHANGED unknown
  \/ /\ at["gcode"] = "commanding" /\ outcome["gcode"] = "rejected" /\ here = "idle"
     /\ Judged("refused") /\ UNCHANGED unknown
  \/ /\ at["gcode"] = "commanding" /\ outcome["gcode"] = "failed" /\ here = "idle"
     /\ Judged("doubt") /\ unknown' = TRUE
  \/ /\ at["gcode"] = "verifying" /\ outcome["gcode"] = "ready" /\ here = "idle"
     /\ verdict' = [c \in Ids |-> IF verdict[c] = "doubt" THEN "settled" ELSE verdict[c]]
     /\ unknown' = FALSE

RestStep ==
  \E g \in Greenlets, here \in {"idle", "accepted", "down"} :
    /\ Rests(g, here) /\ here \in StatesOf(g) /\ NoJobOf(g) /\ outcome[g] # "none"
    /\ \/ /\ UNCHANGED <<verdict, unknown>>
          /\ g = "gcode" => at[g] # "commanding" /\ (here = "accepted" => at[g] = "asking")
       \/ g = "gcode" /\ Judges(here)
    /\ opened' \in BOOLEAN /\ connected' \in BOOLEAN

FinishStep ==
  /\ jobs # <<>> /\ port' \in BOOLEAN
  /\ \E what \in States \cup {"ok", "rejected", "failed"} :
       /\ Finish(what)
       /\ \/ UNCHANGED line /\ (Asks(Job) => what = "failed") /\ what \in {"ok", "failed"}
          \/ Asks(Job) /\ Sent /\ UNCHANGED fromUnit /\ what = "failed"
          \/ /\ Asks(Job) /\ reading /\ UNCHANGED toUnit
             /\ \E i \in DOMAIN fromUnit :
                  /\ fromUnit' = SubSeq(fromUnit, i + 1, Len(fromUnit))
                  /\ \/ what = "failed"
                     \/ fromUnit[i].id = Job.id /\ what = fromUnit[i].says

AttemptStep ==
  /\ jobs # <<>> /\ Asks(Job)
  /\ UNCHANGED <<greenlets, jobs, device, unit, fromUnit>> /\ port' \in BOOLEAN
  /\ \/ Sent /\ reading' = TRUE /\ UNCHANGED attempt
     \/ /\ Job.op = "status" /\ reading' = FALSE /\ attempt < Retries /\ attempt' = attempt + 1
        /\ UNCHANGED toUnit \/ Sent

Answered(says) == fromUnit' = Append(fromUnit, [id |-> Head(toUnit).id, says |-> says])

UnitStep ==
  /\ toUnit # <<>> /\ toUnit' = Tail(toUnit)
  /\ UNCHANGED <<greenlets, worker, device>>
  /\ \/ UNCHANGED <<fromUnit, unit>>
     \/ /\ Head(toUnit).op = "command" /\ moving' \in BOOLEAN
        /\ times' = [times EXCEPT ![Head(toUnit).id] = @ + 1]
        /\ UNCHANGED fromUnit \/ Answered("ok")
     \/ Head(toUnit).op = "command" /\ Answered("rejected") /\ UNCHANGED unit
     \/ /\ Head(toUnit).op = "status" /\ UNCHANGED unit
        /\ \E says \in States : Answered(says) /\ (moving => says = "busy")

FrameType == [id : Ids, op : {"status", "command"}]
ReplyType == [id : Ids, says : States \cup {"ok", "rejected"}]

LEMMA Queues ==
  ASSUME TypeOK
  PROVE  /\ Listed(jobs) /\ \A i \in DOMAIN jobs : jobs[i] \in JobType
         /\ Listed(toUnit) /\ \A i \in DOMAIN toUnit : toUnit[i] \in FrameType
         /\ Listed(fromUnit) /\ \A i \in DOMAIN fromUnit : fromUnit[i] \in ReplyType
         /\ jobs # <<>> => 1 \in DOMAIN jobs /\ Job = jobs[1]
         /\ toUnit # <<>> => 1 \in DOMAIN toUnit /\ Head(toUnit) = toUnit[1]
<1>1. jobs \in Seq(JobType) /\ toUnit \in Seq(FrameType) /\ fromUnit \in Seq(ReplyType)
  BY DEF TypeOK, FrameType, ReplyType
<1>2. Listed(jobs) /\ \A i \in DOMAIN jobs : jobs[i] \in JobType
  BY <1>1, Positions
<1>3. Listed(toUnit) /\ \A i \in DOMAIN toUnit : toUnit[i] \in FrameType
  BY <1>1, Positions
<1>4. Listed(fromUnit) /\ \A i \in DOMAIN fromUnit : fromUnit[i] \in ReplyType
  BY <1>1, Positions
<1> QED BY <1>2, <1>3, <1>4 DEF Listed, Job

LEMMA Moves ==
  ASSUME TypeOK
  PROVE  /\ \A e \in JobType : jobs' = Append(jobs, e) =>
              jobs' \in Seq(JobType) /\ Pushed(jobs', jobs, e)
         /\ jobs # <<>> /\ jobs' = Tail(jobs) =>
              jobs' \in Seq(JobType) /\ Dropped(jobs', jobs, 1)
         /\ \A e \in FrameType : toUnit' = Append(toUnit, e) =>
              toUnit' \in Seq(FrameType) /\ Pushed(toUnit', toUnit, e)
         /\ toUnit # <<>> /\ toUnit' = Tail(toUnit) =>
              toUnit' \in Seq(FrameType) /\ Dropped(toUnit', toUnit, 1)
         /\ \A e \in ReplyType : fromUnit' = Append(fromUnit, e) =>
              fromUnit' \in Seq(ReplyType) /\ Pushed(fromUnit', fromUnit, e)
         /\ \A i \in DOMAIN fromUnit : fromUnit' = SubSeq(fromUnit, i + 1, Len(fromUnit)) =>
              fromUnit' \in Seq(ReplyType) /\ Dropped(fromUnit', fromUnit, i)
<1>1. jobs \in Seq(JobType) /\ toUnit \in Seq(FrameType) /\ fromUnit \in Seq(ReplyType)
  BY DEF TypeOK, FrameType, ReplyType
<1>2. \A e \in JobType : jobs' = Append(jobs, e) =>
        jobs' \in Seq(JobType) /\ Pushed(jobs', jobs, e)
  BY <1>1, Appended
<1>3. jobs # <<>> /\ jobs' = Tail(jobs) => jobs' \in Seq(JobType) /\ Dropped(jobs', jobs, 1)
  BY <1>1, Popped
<1>4. \A e \in FrameType : toUnit' = Append(toUnit, e) =>
        toUnit' \in Seq(FrameType) /\ Pushed(toUnit', toUnit, e)
  BY <1>1, Appended
<1>5. toUnit # <<>> /\ toUnit' = Tail(toUnit) =>
        toUnit' \in Seq(FrameType) /\ Dropped(toUnit', toUnit, 1)
  BY <1>1, Popped
<1>6. \A e \in ReplyType : fromUnit' = Append(fromUnit, e) =>
        fromUnit' \in Seq(ReplyType) /\ Pushed(fromUnit', fromUnit, e)
  BY <1>1, Appended
<1>7. \A i \in DOMAIN fromUnit : fromUnit' = SubSeq(fromUnit, i + 1, Len(fromUnit)) =>
        fromUnit' \in Seq(ReplyType) /\ Dropped(fromUnit', fromUnit, i)
  BY <1>1, Cut
<1> QED BY <1>2, <1>3, <1>4, <1>5, <1>6, <1>7

LEMMA Resting ==
  ASSUME TypeOK, QueueInv, NEW g \in Greenlets,
         outcome[g] # "none" \/ at[g] \in {"idle", "accepted", "down"}
  PROVE  NoJobOf(g)
<1> SUFFICES ASSUME NEW i \in DOMAIN jobs, jobs[i].by = g PROVE FALSE
  BY DEF NoJobOf
<1>1. jobs[i] \in JobType
  BY DEF TypeOK
<1>2. outcome[g] = "none" /\ jobs[i].op = OpFor(at[g])
  BY DEF QueueInv, JobOK
<1> QED BY <1>1, <1>2 DEF OpFor, JobType, Questions

MotionStep == moving' \in {moving, FALSE} /\ UNCHANGED <<greenlets, worker, device, line, times>>

LEMMA Steps ==
  ASSUME TypeOK, QueueInv, [Next]_vars
  PROVE  SubmitStep \/ RestStep \/ FinishStep \/ AttemptStep \/ UnitStep \/ MotionStep
<1> USE DEF Greenlets, Ids
<1>t. /\ opened \in BOOLEAN /\ connected \in BOOLEAN /\ unknown \in BOOLEAN /\ port \in BOOLEAN
      /\ reading \in BOOLEAN /\ attempt \in 0..Retries /\ Retries \in Nat /\ moving \in BOOLEAN
      /\ at \in [Greenlets -> Questions \cup {"idle", "opening", "accepted", "commanding",
                                          "closing", "recovering", "down"}]
  BY LinkAssumption DEF TypeOK
<1>r. \A g \in Greenlets : outcome[g] # "none" \/ at[g] \in {"idle", "accepted", "down"} => NoJobOf(g)
  BY Resting
<1>a. \A g \in Greenlets : at[g] \in StatesOf(g)
  BY DEF QueueInv
<1>1. CASE PollStart
  BY <1>1, <1>t, <1>r DEF PollStart, Refresh, Ask, Request, SubmitStep, Submits, Places, StatesOf, OpFor, Questions
<1>2. CASE WaitStart
  BY <1>2, <1>t, <1>r DEF WaitStart, Refresh, Ask, Request, SubmitStep, Submits, Places, StatesOf, OpFor, Questions
<1>3. ASSUME NEW g \in {"gcode", "poll"}, OpenDone(g) PROVE SubmitStep
  BY <1>3, <1>t, <1>r, <1>a DEF OpenDone, Woken, Ask, Request, SubmitStep, Submits, Places, StatesOf, OpFor, Questions
<1>4. ASSUME NEW g \in {"gcode", "poll"}, OpenFailed(g) PROVE RestStep
  BY <1>4, <1>t, <1>r, <1>a DEF OpenFailed, RestStep, StatesOf
<1>5. ASSUME NEW g \in {"gcode", "poll"}, AskFailed(g) PROVE RestStep
  BY <1>5, <1>t, <1>r, <1>a DEF AskFailed, RestStep, StatesOf, Questions
<1>6. CASE PollDone
  BY <1>6, <1>t, <1>r DEF PollDone, Merged, RestStep, StatesOf, States
<1>7. CASE WaitDone \/ WaitFault
  BY <1>7, <1>t, <1>r DEF WaitDone, WaitFault, Woken, Merged, RestStep, StatesOf
<1>8. CASE WaitAgain
  BY <1>8, <1>t, <1>r DEF WaitAgain, Woken, Merged, RestStep, StatesOf
<1>9. CASE WaitTimeout
  BY <1>9, <1>t, <1>r DEF WaitTimeout, Woken, RestStep, Judges, StatesOf, Judged
<1>10. CASE CommandStart
  BY <1>10, <1>t, <1>r DEF CommandStart, Request, SubmitStep, Submits, Places, StatesOf, OpFor, Questions
<1>11. CASE CommandDone
  BY <1>11, <1>t, <1>r DEF CommandDone, Woken, RestStep, Judges, StatesOf
<1>12. CASE CommandRejected
  BY <1>12, <1>t, <1>r DEF CommandRejected, Woken, RestStep, Judges, StatesOf
<1>13. CASE CommandFailed
  BY <1>13, <1>t, <1>r DEF CommandFailed, Woken, RestStep, Judges, StatesOf
<1>14. CASE ReconnectStart
  BY <1>14, <1>t, <1>r DEF ReconnectStart, device, SubmitStep, Submits, Places, StatesOf, OpFor, Questions
<1>15. CASE ReconnectClosed
  BY <1>15, <1>t, <1>r DEF ReconnectClosed, Woken, SubmitStep, Submits, Places, StatesOf, OpFor, Questions
<1>16. CASE ReconnectDone
  BY <1>16, <1>t, <1>r DEF ReconnectDone, Woken, Merged, RestStep, Judges, StatesOf
<1>17. CASE ReconnectRefused
  BY <1>17, <1>t, <1>r DEF ReconnectRefused, Merged, RestStep, StatesOf, States
<1>18. CASE StopStart
  BY <1>18, <1>t, <1>r DEF StopStart, device, SubmitStep, Submits, Places, StatesOf, OpFor, Questions
<1>19. CASE StopDone
  BY <1>19, <1>t, <1>r DEF StopDone, Woken, RestStep, StatesOf
<1>20. CASE DoClose \/ DoOpen
  BY <1>20, <1>t DEF DoClose, DoOpen, Reset, line, FinishStep, Asks
<1>21. CASE Write
  BY <1>21, <1>t DEF Write, Asked, Send, Reset, Sent, AttemptStep, Asks
<1>22. ASSUME NEW open \in BOOLEAN, Asked, Fails(open)
       PROVE  /\ port' \in BOOLEAN
              /\ \/ Finish("failed")
                 \/ /\ Job.op = "status" /\ reading' = FALSE /\ attempt < Retries /\ attempt' = attempt + 1
                    /\ UNCHANGED <<greenlets, jobs, device, unit>>
  <2>1. Job.op \in {"status", "command"}
    BY <1>22 DEF Asked
  <2>2. CASE Finish("failed") /\ port' = open
    BY <2>2
  <2>3. CASE Finish("failed") /\ port' = FALSE
    BY <2>3
  <2>4. CASE attempt < RetriesOf(Job.op) /\ Again
    BY <2>1, <2>4, <1>t DEF RetriesOf, Again
  <2> QED BY <1>22, <2>2, <2>3, <2>4 DEF Fails
<1>23. CASE WriteFailed
  <2>1. Asked /\ ~reading /\ UNCHANGED fromUnit
    BY <1>23 DEF WriteFailed, Reset
  <2>2. UNCHANGED toUnit \/ Sent
    BY <1>23, <2>1 DEF WriteFailed, Send, Sent
  <2>3. \E open \in BOOLEAN : Fails(open)
    BY <1>23, <1>t DEF WriteFailed
  <2> QED BY <1>22, <2>1, <2>2, <2>3 DEF FinishStep, AttemptStep, Asked, Asks, line
<1>24. CASE ReadTimeout
  BY <1>22, <1>24, <1>t DEF ReadTimeout, Asked, FinishStep, AttemptStep, Asks, line
<1>25. CASE ReadReply \/ ReadGarbled
  <2>1. \A i \in DOMAIN fromUnit : fromUnit[i].says \in States \cup {"ok", "rejected"}
    BY Queues DEF ReplyType
  <2> QED BY <1>25, <1>t, <2>1 DEF ReadReply, ReadGarbled, Read, Matches, Asked, Asks, FinishStep
<1>26. CASE UnitObeys
  BY <1>26 DEF UnitObeys, Reply, UnitStep, Answered, line, unit
<1>27. CASE UnitRejects \/ UnitReports
  BY <1>27 DEF UnitRejects, UnitReports, Reply, UnitStep, Answered, unit, States
<1>28. CASE FrameLost
  BY <1>28 DEF FrameLost, UnitStep, unit
<1>29. CASE MotionEnds
  BY <1>29 DEF MotionEnds, MotionStep
<1>30. CASE UNCHANGED vars
  BY <1>30 DEF vars, unit, MotionStep
<1> QED BY <1>1, <1>2, <1>3, <1>4, <1>5, <1>6, <1>7, <1>8, <1>9, <1>10, <1>11, <1>12, <1>13,
     <1>14, <1>15, <1>16, <1>17, <1>18, <1>19, <1>20, <1>21, <1>23, <1>24, <1>25, <1>26,
     <1>27, <1>28, <1>29, <1>30 DEF Next, Worker

(***************************************************************************)
(* Types.                                                                  *)
(***************************************************************************)
QueueTypes ==
  jobs \in Seq(JobType) /\ toUnit \in Seq(FrameType) /\ fromUnit \in Seq(ReplyType)

GreenletTypes ==
  /\ at \in [Greenlets -> Questions \cup {"idle", "opening", "accepted", "commanding",
                                          "closing", "recovering", "down"}]
  /\ outcome \in [Greenlets -> States \cup {"none", "ok", "rejected", "failed"}]

WorkerTypes == attempt \in 0..Retries /\ reading \in BOOLEAN /\ port \in BOOLEAN

DeviceTypes ==
  /\ opened \in BOOLEAN /\ connected \in BOOLEAN /\ unknown \in BOOLEAN
  /\ nextId \in 1..(MaxRequests + 1) /\ command \in 0..MaxRequests

VerdictType == verdict \in [Ids -> {"none", "waiting", "ok", "refused", "doubt", "settled"}]
UnitTypes   == moving \in BOOLEAN /\ times \in [Ids -> Nat]

Types == QueueTypes /\ GreenletTypes /\ WorkerTypes /\ DeviceTypes /\ VerdictType /\ UnitTypes

LEMMA TypesAre == TypeOK <=> Types
<1> QED BY DEF TypeOK, Types, QueueTypes, GreenletTypes, WorkerTypes, DeviceTypes, VerdictType,
          UnitTypes, FrameType, ReplyType

LEMMA SubmitTypes ==
  ASSUME Types, SubmitStep
  PROVE  Types'
<1> USE LinkAssumption DEF Greenlets, Ids, Types
<1>1. PICK g \in Greenlets, op \in {"open", "close", "status", "command"}, here \in Places :
        Submits(g, op, here)
  BY DEF SubmitStep
<1>2. [by |-> g, op |-> op, id |-> IF op \in {"status", "command"} THEN nextId ELSE 0] \in JobType
  BY <1>1 DEF Submits, JobType
<1>3. QueueTypes'
  BY <1>1, <1>2, Moves, TypesAre DEF Submits, Submit, QueueTypes, line
<1>4. GreenletTypes'
  BY <1>1 DEF GreenletTypes, Submits, Submit, StatesOf, Questions
<1>5. WorkerTypes'
  BY <1>1 DEF WorkerTypes, Submits, Submit
<1>6. DeviceTypes'
  BY <1>1 DEF DeviceTypes, Submits
<1>7. VerdictType'
  BY <1>1 DEF VerdictType, Submits
<1>8. UnitTypes'
  BY <1>1 DEF UnitTypes, Submits, Submit, unit
<1> QED BY <1>3, <1>4, <1>5, <1>6, <1>7, <1>8

LEMMA RestTypes ==
  ASSUME Types, RestStep
  PROVE  Types'
<1> USE LinkAssumption DEF Greenlets, Ids, Types
<1>1. PICK g \in Greenlets, here \in {"idle", "accepted", "down"} : Rests(g, here)
  BY DEF RestStep
<1>2. QueueTypes' /\ WorkerTypes'
  BY <1>1 DEF Rests, QueueTypes, WorkerTypes, worker, line
<1>3. GreenletTypes'
  BY <1>1 DEF GreenletTypes, Rests
<1>4. DeviceTypes'
  <2>1. unknown' \in BOOLEAN /\ opened' \in BOOLEAN /\ connected' \in BOOLEAN
    BY DEF RestStep, Judges, DeviceTypes
  <2> QED BY <1>1, <2>1 DEF DeviceTypes, Rests
<1>5. VerdictType'
  BY DEF VerdictType, RestStep, Judges, Judged
<1>6. UnitTypes'
  BY <1>1 DEF UnitTypes, Rests, unit
<1> QED BY <1>2, <1>3, <1>4, <1>5, <1>6

\* A frame of the job at the head.
LEMMA FrameTyped ==
  ASSUME Types, QueueInv, jobs # <<>>, Asks(Job)
  PROVE  Frame \in FrameType
<1> QED BY Queues, TypesAre DEF Asks, QueueInv, JobOK, Frame, FrameType

LEMMA FinishTypes ==
  ASSUME Types, QueueInv, FinishStep
  PROVE  Types'
<1> USE LinkAssumption DEF Greenlets, Ids, Types
<1>1. PICK what \in States \cup {"ok", "rejected", "failed"} : Finish(what)
  BY DEF FinishStep
<1>2. jobs # <<>> /\ port' \in BOOLEAN /\ Job.by \in Greenlets
  BY Queues, TypesAre DEF FinishStep, JobType
<1>3. QueueTypes'
  <2>1. jobs' \in Seq(JobType)
    BY <1>1, <1>2, Moves, TypesAre DEF Finish
  <2>2. toUnit' \in Seq(FrameType)
    BY FrameTyped, Moves, TypesAre DEF FinishStep, Sent, line, QueueTypes
  <2>3. fromUnit' \in Seq(ReplyType)
    BY Moves, TypesAre DEF FinishStep, line, QueueTypes
  <2> QED BY <2>1, <2>2, <2>3 DEF QueueTypes
<1>4. GreenletTypes'
  BY <1>1, <1>2 DEF GreenletTypes, Finish
<1>5. WorkerTypes'
  <2>1. attempt' \in 0..Retries
    BY <1>1 DEF Finish
  <2>2. reading' \in BOOLEAN
    BY <1>1 DEF Finish
  <2> QED BY <1>2, <2>1, <2>2 DEF WorkerTypes
<1>6. DeviceTypes' /\ VerdictType'
  BY <1>1 DEF DeviceTypes, VerdictType, Finish, device
<1>7. UnitTypes'
  BY <1>1 DEF UnitTypes, Finish, unit
<1> QED BY <1>3, <1>4, <1>5, <1>6, <1>7

LEMMA AttemptTypes ==
  ASSUME Types, QueueInv, AttemptStep
  PROVE  Types'
<1> USE LinkAssumption DEF Greenlets, Ids, Types
<1>1. QueueTypes'
  BY FrameTyped, Moves, TypesAre DEF AttemptStep, Sent, QueueTypes
<1>2. GreenletTypes'
  BY DEF AttemptStep, GreenletTypes, greenlets
<1>3. WorkerTypes'
  <2>1. attempt' \in 0..Retries
    BY DEF AttemptStep, WorkerTypes
  <2>2. reading' \in BOOLEAN /\ port' \in BOOLEAN
    BY DEF AttemptStep
  <2> QED BY <2>1, <2>2 DEF WorkerTypes
<1>4. DeviceTypes' /\ VerdictType'
  BY DEF AttemptStep, DeviceTypes, VerdictType, device
<1>5. UnitTypes'
  BY DEF AttemptStep, UnitTypes, unit
<1> QED BY <1>1, <1>2, <1>3, <1>4, <1>5

LEMMA UnitStepTypes ==
  ASSUME Types, UnitStep
  PROVE  Types'
<1>0. QueueTypes /\ GreenletTypes /\ WorkerTypes /\ DeviceTypes /\ VerdictType /\ UnitTypes
  BY DEF Types
<1>1. toUnit' \in Seq(FrameType) /\ Head(toUnit) \in FrameType
  BY Moves, Queues, TypesAre DEF UnitStep
<1>2. \A says \in States \cup {"ok", "rejected"} : Answered(says) => fromUnit' \in Seq(ReplyType)
  BY <1>1, Moves, TypesAre DEF Answered, FrameType, ReplyType
<1>3. QueueTypes'
  BY <1>0, <1>1, <1>2 DEF UnitStep, QueueTypes, worker
<1>4. GreenletTypes' /\ WorkerTypes'
  BY <1>0 DEF UnitStep, GreenletTypes, WorkerTypes, greenlets, worker
<1>5. DeviceTypes' /\ VerdictType'
  BY <1>0 DEF UnitStep, DeviceTypes, VerdictType, device
<1>6. UnitTypes'
  <2>1. moving' \in BOOLEAN
    BY <1>0 DEF UnitStep, UnitTypes, unit
  <2>2. times' \in [Ids -> Nat]
    BY <1>0, <1>1 DEF UnitStep, UnitTypes, unit, FrameType
  <2> QED BY <2>1, <2>2 DEF UnitTypes
<1> QED BY <1>3, <1>4, <1>5, <1>6 DEF Types

LEMMA MotionTypes ==
  ASSUME Types, MotionStep
  PROVE  Types'
<1> QED BY DEF MotionStep, Types, QueueTypes, GreenletTypes, WorkerTypes, DeviceTypes, VerdictType,
          UnitTypes, greenlets, worker, device, line

LEMMA TypesKept ==
  ASSUME TypeOK, QueueInv, [Next]_vars
  PROVE  TypeOK'
<1>1. Types
  BY TypesAre
<1>2. Types'
  BY <1>1, Steps, SubmitTypes, RestTypes, FinishTypes, AttemptTypes, UnitStepTypes, MotionTypes
<1> QED BY <1>2 DEF TypeOK, Types, QueueTypes, GreenletTypes, WorkerTypes, DeviceTypes, VerdictType,
          UnitTypes, FrameType, ReplyType

(***************************************************************************)
(* The queue.                                                              *)
(***************************************************************************)
Submitted(g, job, here) ==
  /\ job \in JobType /\ job.by = g /\ job.op = OpFor(here)
  /\ here \in StatesOf(g) /\ NoJobOf(g) /\ Pushed(jobs', jobs, job)
  /\ at' = [at EXCEPT ![g] = here] /\ outcome' = [outcome EXCEPT ![g] = "none"]
  /\ IF Asks(job) THEN job.id = nextId /\ nextId \in Ids /\ nextId' = nextId + 1
     ELSE nextId' = nextId
  /\ IF job.op = "command"
     THEN /\ g = "gcode" /\ ~unknown /\ command' = nextId
          /\ verdict' = [verdict EXCEPT ![nextId] = "waiting"]
     ELSE command' = command /\ verdict' = verdict
  /\ g = "gcode" => at[g] # "commanding"
  /\ g = "gcode" /\ here \in {"opening", "asking"} => at[g] \in {"accepted", "opening"}
  /\ unknown' = unknown /\ reading' = reading /\ toUnit' = toUnit /\ fromUnit' = fromUnit
  /\ moving' = moving /\ times' = times

LEMMA Submission ==
  ASSUME TypeOK, SubmitStep
  PROVE  \E g \in Greenlets, job \in JobType, here \in Places : Submitted(g, job, here)
<1>1. PICK g \in Greenlets, op \in {"open", "close", "status", "command"}, here \in Places :
        Submits(g, op, here)
  BY DEF SubmitStep
<1> DEFINE job == [by |-> g, op |-> op, id |-> IF op \in {"status", "command"} THEN nextId ELSE 0]
<1>3. job \in JobType
  BY <1>1, LinkAssumption DEF Submits, JobType, Ids
<1>4. Pushed(jobs', jobs, job)
  BY <1>1, <1>3, Moves DEF Submits, Submit
<1>5. Submitted(g, job, here)
  BY <1>1, <1>3, <1>4 DEF Submitted, Submits, Submit, Asks, line, unit
<1> QED BY <1>3, <1>5

LEMMA QueueSubmit ==
  ASSUME LinkInv, SubmitStep
  PROVE  QueueInv'
<1>1. PICK g \in Greenlets, job \in JobType, here \in Places : Submitted(g, job, here)
  BY Submission DEF LinkInv
<1>2. /\ DOMAIN at = Greenlets /\ DOMAIN outcome = Greenlets
      /\ nextId \in Nat /\ command \in Nat /\ command < nextId
  BY LinkAssumption DEF LinkInv, TypeOK, KindInv
<1>3. (\A h \in Greenlets : at[h] \in StatesOf(h))'
  BY <1>1, <1>2 DEF Submitted, LinkInv, QueueInv
<1>4. /\ \A i \in DOMAIN jobs : jobs[i] \in JobType /\ JobOK(i) /\ jobs[i].by # g
  BY <1>1, Queues DEF Submitted, NoJobOf, LinkInv, QueueInv
<1>5. /\ jobs'[Len(jobs')] = job
      /\ \A i \in DOMAIN jobs' : i # Len(jobs') => i \in DOMAIN jobs /\ jobs'[i] = jobs[i]
  BY <1>1 DEF Submitted, Pushed
<1>6. ASSUME NEW i \in DOMAIN jobs' PROVE JobOK(i)'
  <2>1. \A j \in DOMAIN jobs' : jobs'[j].by = jobs'[i].by => i = j
    BY <1>1, <1>4, <1>5 DEF Submitted, JobOK
  <2>2. CASE i # Len(jobs')
    <3>1. i \in DOMAIN jobs /\ jobs'[i] = jobs[i] /\ JobOK(i) /\ jobs[i].by # g
          /\ jobs[i].by \in Greenlets /\ jobs[i].id \in Nat
      BY <1>4, <1>5, <2>2, LinkAssumption DEF JobType
    <3>2. outcome'[jobs[i].by] = outcome[jobs[i].by] /\ at'[jobs[i].by] = at[jobs[i].by]
      BY <1>1, <1>2, <3>1 DEF Submitted
    <3>3. nextId' \in Nat /\ nextId' >= nextId /\ (jobs[i].by = "gcode" => command' = command)
      BY <1>1, <1>2, <3>1 DEF Submitted
    <3> QED BY <1>2, <2>1, <3>1, <3>2, <3>3 DEF JobOK, Asks
  <2>3. CASE i = Len(jobs')
    <3>1. outcome'[g] = "none" /\ at'[g] = here /\ jobs'[i] = job
      BY <1>1, <1>2, <1>5, <2>3 DEF Submitted
    <3>2. job.op = "command" => job.by = "gcode" /\ job.id = command'
      BY <1>1 DEF Submitted, Asks
    <3>3. job.op = "status" => command' < job.id
      BY <1>1, <1>2 DEF Submitted, Asks
    <3> QED BY <1>1, <1>2, <2>1, <3>1, <3>2, <3>3 DEF JobOK, Submitted
  <2> QED BY <2>2, <2>3
<1>7. (reading => jobs # <<>> /\ Asks(Job))'
  <2>1. CASE reading
    <3>1. jobs # <<>> /\ Asks(Job)
      BY <2>1 DEF LinkInv, QueueInv
    <3>2. 1 \in DOMAIN jobs /\ Job = jobs[1]
      BY <3>1, Queues DEF LinkInv
    <3>3. jobs' # <<>> /\ 1 \in DOMAIN jobs' /\ Head(jobs') = jobs'[1] /\ 1 # Len(jobs')
      BY <1>1, <3>2, Queues DEF Submitted, Pushed, Listed, LinkInv
    <3> QED BY <3>1, <3>2, <3>3, <1>5 DEF Job
  <2>2. CASE ~reading
    BY <1>1, <2>2 DEF Submitted
  <2> QED BY <2>1, <2>2
<1> QED BY <1>3, <1>6, <1>7 DEF QueueInv

LEMMA QueueRest ==
  ASSUME LinkInv, RestStep
  PROVE  QueueInv'
<1>1. PICK g \in Greenlets, here \in {"idle", "accepted", "down"} :
        Rests(g, here) /\ here \in StatesOf(g) /\ NoJobOf(g)
  BY DEF RestStep
<1>2. /\ DOMAIN at = Greenlets /\ DOMAIN outcome = Greenlets
      /\ \A i \in DOMAIN jobs : jobs[i] \in JobType /\ jobs[i].by \in Greenlets
  BY Queues DEF LinkInv, TypeOK, JobType
<1>3. jobs' = jobs /\ reading' = reading /\ nextId' = nextId /\ command' = command
  BY <1>1 DEF Rests, worker
<1>4. (\A h \in Greenlets : at[h] \in StatesOf(h))'
  BY <1>1, <1>2 DEF Rests, LinkInv, QueueInv
<1>5. ASSUME NEW i \in DOMAIN jobs PROVE JobOK(i)'
  <2>1. JobOK(i) /\ jobs[i].by # g
    BY <1>1 DEF LinkInv, QueueInv, NoJobOf
  <2>2. outcome'[jobs[i].by] = outcome[jobs[i].by] /\ at'[jobs[i].by] = at[jobs[i].by]
    BY <1>1, <1>2, <2>1 DEF Rests
  <2> QED BY <1>3, <2>1, <2>2 DEF JobOK
<1> QED BY <1>3, <1>4, <1>5 DEF LinkInv, QueueInv, Job

Finished(what) ==
  /\ jobs # <<>> /\ 1 \in DOMAIN jobs /\ Job = jobs[1] /\ Job.by \in Greenlets
  /\ Dropped(jobs', jobs, 1) /\ reading' = FALSE
  /\ outcome' = [outcome EXCEPT ![Job.by] = what]
  /\ at' = at /\ unknown' = unknown /\ nextId' = nextId /\ command' = command
  /\ verdict' = verdict /\ moving' = moving /\ times' = times

LEMMA Finishing ==
  ASSUME TypeOK, NEW what, Finish(what), jobs # <<>>
  PROVE  Finished(what)
<1>1. 1 \in DOMAIN jobs /\ Job = jobs[1] /\ Job.by \in Greenlets
  BY Queues DEF JobType
<1>2. Dropped(jobs', jobs, 1)
  BY Moves DEF Finish
<1> QED BY <1>1, <1>2 DEF Finished, Finish, device, unit

LEMMA QueueFinish ==
  ASSUME LinkInv, FinishStep
  PROVE  QueueInv'
<1>1. PICK what \in States \cup {"ok", "rejected", "failed"} : Finished(what)
  BY Finishing DEF LinkInv, FinishStep
<1>2. /\ DOMAIN outcome = Greenlets
      /\ \A i \in DOMAIN jobs : JobOK(i) /\ jobs[i] \in JobType /\ jobs[i].by \in Greenlets
  BY Queues DEF LinkInv, TypeOK, JobType, QueueInv
<1>3. \A i \in DOMAIN jobs' : i + 1 \in DOMAIN jobs /\ jobs'[i] = jobs[i + 1] /\ i \in Nat \ {0}
  BY <1>1 DEF Finished, Dropped, Listed
<1>4. ASSUME NEW i \in DOMAIN jobs' PROVE JobOK(i)'
  <2>1. JobOK(i + 1) /\ jobs'[i] = jobs[i + 1] /\ jobs'[i].by \in Greenlets
    BY <1>2, <1>3
  <2>2. jobs[i + 1].by # Job.by
    BY <1>1, <1>3, <2>1 DEF Finished, JobOK
  <2>3. outcome'[jobs'[i].by] = outcome[jobs'[i].by]
    BY <1>1, <1>2, <2>1, <2>2 DEF Finished
  <2>4. \A j \in DOMAIN jobs' : jobs'[j].by = jobs'[i].by => i = j
    BY <1>3, <2>1 DEF JobOK
  <2> QED BY <1>1, <2>1, <2>3, <2>4 DEF JobOK, Finished
<1> QED BY <1>1, <1>4 DEF Finished, LinkInv, QueueInv

LEMMA QueueOthers ==
  ASSUME LinkInv, AttemptStep \/ UnitStep \/ MotionStep
  PROVE  QueueInv'
<1>1. at' = at /\ outcome' = outcome /\ jobs' = jobs /\ nextId' = nextId /\ command' = command
  BY DEF AttemptStep, UnitStep, MotionStep, greenlets, worker, device
<1>2. (reading => jobs # <<>> /\ Asks(Job))'
  BY <1>1 DEF AttemptStep, UnitStep, MotionStep, worker, LinkInv, QueueInv, Job
<1> QED BY <1>1, <1>2 DEF LinkInv, QueueInv, JobOK

(***************************************************************************)
(* The order of the ids: replies, frames, jobs.                            *)
(***************************************************************************)
LEMMA Sending ==
  ASSUME TypeOK, QueueInv, jobs # <<>>, Asks(Job), Sent
  PROVE  /\ Pushed(toUnit', toUnit, Frame) /\ Frame \in FrameType
         /\ Frame.id = jobs[1].id /\ Frame.op = jobs[1].op
<1>1. Frame \in FrameType /\ Frame.id = jobs[1].id /\ Frame.op = jobs[1].op
  BY FrameTyped, TypesAre, Queues DEF Frame
<1> QED BY <1>1, Moves DEF Sent

Told(says) == Pushed(fromUnit', fromUnit, [id |-> toUnit[1].id, says |-> says])

Acted ==
  /\ 1 \in DOMAIN toUnit /\ toUnit[1] \in FrameType /\ Dropped(toUnit', toUnit, 1)
  /\ at' = at /\ outcome' = outcome /\ jobs' = jobs /\ reading' = reading
  /\ unknown' = unknown /\ nextId' = nextId /\ command' = command /\ verdict' = verdict
  /\ \/ fromUnit' = fromUnit /\ moving' = moving /\ times' = times
     \/ /\ toUnit[1].op = "command" /\ moving' \in BOOLEAN
        /\ times' = [times EXCEPT ![toUnit[1].id] = @ + 1]
        /\ fromUnit' = fromUnit \/ Told("ok")
     \/ /\ toUnit[1].op = "command" /\ moving' = moving /\ times' = times
        /\ Told("rejected")
     \/ /\ toUnit[1].op = "status" /\ moving' = moving /\ times' = times
        /\ \E says \in States : Told(says) /\ (moving => says = "busy")

LEMMA Acting ==
  ASSUME TypeOK, UnitStep
  PROVE  Acted
<1>1. 1 \in DOMAIN toUnit /\ Head(toUnit) = toUnit[1] /\ toUnit[1] \in FrameType
      /\ Dropped(toUnit', toUnit, 1)
  BY Queues, Moves DEF UnitStep
<1>2. ASSUME NEW says \in States \cup {"ok", "rejected"}, Answered(says) PROVE Told(says)
  <2>1. [id |-> toUnit[1].id, says |-> says] \in ReplyType
    BY <1>1 DEF FrameType, ReplyType
  <2> QED BY <1>1, <1>2, <2>1, Moves DEF Answered, Told
<1>3. /\ at' = at /\ outcome' = outcome /\ jobs' = jobs /\ reading' = reading
      /\ unknown' = unknown /\ nextId' = nextId /\ command' = command /\ verdict' = verdict
  BY DEF UnitStep, greenlets, worker, device
<1> QED BY <1>1, <1>2, <1>3 DEF UnitStep, Acted, unit, States

\* The ids on the way to the unit stay in order when the head of the queue is sent.
LEMMA SentInOrder ==
  ASSUME LinkInv, jobs # <<>>, Asks(Job), Sent
  PROVE  /\ \A i \in DOMAIN toUnit' :
              /\ toUnit'[i].id \in Nat /\ toUnit'[i].id < nextId
              /\ \A j \in DOMAIN jobs : Asks(jobs[j]) => toUnit'[i].id <= jobs[j].id
              /\ \A j \in DOMAIN toUnit' : i <= j => toUnit'[i].id <= toUnit'[j].id
         /\ \A i \in DOMAIN fromUnit, j \in DOMAIN toUnit' : fromUnit[i].id <= toUnit'[j].id
<1>1. /\ Listed(toUnit') /\ toUnit'[Len(toUnit')].id = jobs[1].id
      /\ \A i \in DOMAIN toUnit' : i # Len(toUnit') => i \in DOMAIN toUnit /\ toUnit'[i] = toUnit[i]
  BY Sending DEF LinkInv, Pushed
<1>2. /\ 1 \in DOMAIN jobs /\ Asks(jobs[1]) /\ jobs[1].id < nextId
      /\ \A i \in DOMAIN toUnit : toUnit[i].id \in Nat
      /\ \A i \in DOMAIN jobs : jobs[i].id \in Nat /\ (i = 1 \/ 1 < i)
  BY Queues, LinkAssumption DEF LinkInv, QueueInv, JobOK, JobType, FrameType, Ids, Listed
<1>3. ASSUME NEW i \in DOMAIN toUnit'
      PROVE  /\ toUnit'[i].id \in Nat /\ toUnit'[i].id < nextId /\ toUnit'[i].id <= jobs[1].id
             /\ \A j \in DOMAIN jobs : Asks(jobs[j]) => toUnit'[i].id <= jobs[j].id
             /\ \A j \in DOMAIN toUnit' : i <= j => toUnit'[i].id <= toUnit'[j].id
  <2>1. CASE i = Len(toUnit')
    <3>1. toUnit'[i].id = jobs[1].id
      BY <1>1, <2>1
    <3>2. \A j \in DOMAIN jobs : Asks(jobs[j]) => jobs[1].id <= jobs[j].id
      BY <1>2 DEF LinkInv, OrderInv
    <3>3. \A j \in DOMAIN toUnit' : i <= j => j = i
      BY <1>1, <2>1 DEF Listed
    <3> QED BY <1>2, <3>1, <3>2, <3>3
  <2>2. CASE i # Len(toUnit')
    BY <1>1, <1>2, <2>2 DEF LinkInv, OrderInv
  <2> QED BY <2>1, <2>2
<1>4. ASSUME NEW i \in DOMAIN fromUnit, NEW j \in DOMAIN toUnit' PROVE fromUnit[i].id <= toUnit'[j].id
  BY <1>1, <1>2 DEF LinkInv, OrderInv
<1> QED BY <1>3, <1>4

LEMMA Numbers ==
  ASSUME TypeOK
  PROVE  /\ nextId \in Nat /\ command \in Nat
         /\ \A i \in DOMAIN jobs : jobs[i].id \in Nat
         /\ \A i \in DOMAIN toUnit : toUnit[i].id \in Ids /\ toUnit[i].id \in Nat
         /\ \A i \in DOMAIN fromUnit : fromUnit[i].id \in Ids /\ fromUnit[i].id \in Nat
<1>1. nextId \in Nat /\ command \in Nat
  BY LinkAssumption DEF TypeOK
<1> QED BY <1>1, Queues, LinkAssumption DEF JobType, FrameType, ReplyType, Ids

LEMMA OrderSubmit ==
  ASSUME LinkInv, SubmitStep
  PROVE  OrderInv'
<1>1. PICK g \in Greenlets, job \in JobType, here \in Places : Submitted(g, job, here)
  BY Submission DEF LinkInv
<1>2. /\ Listed(jobs') /\ jobs'[Len(jobs')] = job
      /\ \A i \in DOMAIN jobs' : i # Len(jobs') => i \in DOMAIN jobs /\ jobs'[i] = jobs[i]
  BY <1>1 DEF Submitted, Pushed
<1>3. /\ nextId' \in Nat /\ nextId <= nextId' /\ (Asks(job) => job.id = nextId /\ nextId < nextId')
      /\ toUnit' = toUnit /\ fromUnit' = fromUnit
  BY <1>1, Numbers DEF Submitted, LinkInv
<1>4. \A i \in DOMAIN jobs : Asks(jobs[i]) => jobs[i].id < nextId
  BY DEF LinkInv, QueueInv, JobOK
<1>5. ASSUME NEW i \in DOMAIN jobs', NEW j \in DOMAIN jobs', i < j, Asks(jobs'[i]), Asks(jobs'[j])
      PROVE  jobs'[i].id < jobs'[j].id
  <2>1. i # Len(jobs')
    BY <1>2, <1>5 DEF Listed
  <2>2. CASE j = Len(jobs')
    BY <1>2, <1>3, <1>4, <1>5, <2>1, <2>2
  <2>3. CASE j # Len(jobs')
    BY <1>2, <1>5, <2>1, <2>3 DEF LinkInv, OrderInv
  <2> QED BY <2>2, <2>3
<1>6. ASSUME NEW i \in DOMAIN toUnit
      PROVE  toUnit[i].id < nextId' /\ \A j \in DOMAIN jobs' : Asks(jobs'[j]) => toUnit[i].id <= jobs'[j].id
  BY <1>2, <1>3, Numbers DEF LinkInv, OrderInv
<1>7. ASSUME NEW i \in DOMAIN fromUnit
      PROVE  fromUnit[i].id < nextId' /\ \A j \in DOMAIN jobs' : Asks(jobs'[j]) => fromUnit[i].id <= jobs'[j].id
  BY <1>2, <1>3, Numbers DEF LinkInv, OrderInv
<1> QED BY <1>3, <1>5, <1>6, <1>7 DEF LinkInv, OrderInv

LEMMA OrderFinish ==
  ASSUME LinkInv, FinishStep
  PROVE  OrderInv'
<1>1. \E what \in States \cup {"ok", "rejected", "failed"} : Finished(what)
  BY Finishing DEF LinkInv, FinishStep
<1>2. /\ nextId' = nextId
      /\ \A i \in DOMAIN jobs' : i + 1 \in DOMAIN jobs /\ jobs'[i] = jobs[i + 1] /\ i \in Nat
  BY <1>1 DEF Finished, Dropped, Listed
<1>3. \A i \in DOMAIN jobs', j \in DOMAIN jobs' :
        i < j /\ Asks(jobs'[i]) /\ Asks(jobs'[j]) => jobs'[i].id < jobs'[j].id
  BY <1>2 DEF LinkInv, OrderInv
<1>4. toUnit' = toUnit \/ (jobs # <<>> /\ Asks(Job) /\ Sent /\ fromUnit' = fromUnit)
  BY DEF FinishStep, line
<1>5. /\ \A i \in DOMAIN toUnit' :
           /\ toUnit'[i].id < nextId
           /\ \A j \in DOMAIN jobs : Asks(jobs[j]) => toUnit'[i].id <= jobs[j].id
           /\ \A j \in DOMAIN toUnit' : i <= j => toUnit'[i].id <= toUnit'[j].id
      /\ \A i \in DOMAIN fromUnit, j \in DOMAIN toUnit' : fromUnit[i].id <= toUnit'[j].id
  BY <1>4, SentInOrder DEF LinkInv, OrderInv
<1>6. \A i \in DOMAIN fromUnit' : \E k \in DOMAIN fromUnit : fromUnit'[i] = fromUnit[k]
  <2>1. \/ fromUnit' = fromUnit
        \/ \E k \in DOMAIN fromUnit : fromUnit' = SubSeq(fromUnit, k + 1, Len(fromUnit))
    BY DEF FinishStep, line
  <2> QED BY <2>1, Moves DEF Dropped, LinkInv
<1>7. ASSUME NEW i \in DOMAIN fromUnit'
      PROVE  /\ fromUnit'[i].id < nextId
             /\ \A j \in DOMAIN jobs : Asks(jobs[j]) => fromUnit'[i].id <= jobs[j].id
             /\ \A j \in DOMAIN toUnit' : fromUnit'[i].id <= toUnit'[j].id
  BY <1>5, <1>6 DEF LinkInv, OrderInv
<1> QED BY <1>2, <1>3, <1>5, <1>7 DEF OrderInv

LEMMA OrderAttempt ==
  ASSUME LinkInv, AttemptStep
  PROVE  OrderInv'
<1>1. /\ jobs # <<>> /\ Asks(Job) /\ jobs' = jobs /\ fromUnit' = fromUnit /\ nextId' = nextId
      /\ toUnit' = toUnit \/ Sent
  BY DEF AttemptStep, device
<1> QED BY <1>1, SentInOrder DEF LinkInv, OrderInv

LEMMA OrderUnit ==
  ASSUME LinkInv, UnitStep
  PROVE  OrderInv'
<1>1. Acted
  BY Acting DEF LinkInv
<1>2. /\ jobs' = jobs /\ nextId' = nextId /\ 1 \in DOMAIN toUnit
      /\ \A i \in DOMAIN toUnit' : i \in Nat /\ i + 1 \in DOMAIN toUnit /\ toUnit'[i] = toUnit[i + 1]
  BY <1>1 DEF Acted, Dropped, Listed
<1>3. ASSUME NEW i \in DOMAIN fromUnit'
      PROVE  (\E k \in DOMAIN fromUnit : fromUnit'[i] = fromUnit[k]) \/ fromUnit'[i].id = toUnit[1].id
  <2>1. fromUnit' = fromUnit \/ \E says \in States \cup {"ok", "rejected"} : Told(says)
    BY <1>1 DEF Acted, States
  <2>2. CASE fromUnit' = fromUnit
    BY <1>3, <2>2
  <2>3. ASSUME NEW says \in States \cup {"ok", "rejected"}, Told(says)
        PROVE  (\E k \in DOMAIN fromUnit : fromUnit'[i] = fromUnit[k]) \/ fromUnit'[i].id = toUnit[1].id
    BY <2>3 DEF Told, Pushed
  <2> QED BY <2>1, <2>2, <2>3
<1>4. ASSUME NEW i \in DOMAIN toUnit'
      PROVE  /\ toUnit'[i].id < nextId /\ toUnit[1].id <= toUnit'[i].id
             /\ \A j \in DOMAIN jobs : Asks(jobs[j]) => toUnit'[i].id <= jobs[j].id
             /\ \A j \in DOMAIN toUnit' : i <= j => toUnit'[i].id <= toUnit'[j].id
  BY <1>2 DEF LinkInv, OrderInv
<1>5. ASSUME NEW i \in DOMAIN fromUnit'
      PROVE  /\ fromUnit'[i].id < nextId
             /\ \A j \in DOMAIN jobs : Asks(jobs[j]) => fromUnit'[i].id <= jobs[j].id
             /\ \A j \in DOMAIN toUnit' : fromUnit'[i].id <= toUnit'[j].id
  BY <1>2, <1>3, <1>4 DEF LinkInv, OrderInv
<1> QED BY <1>2, <1>4, <1>5 DEF LinkInv, OrderInv

LEMMA OrderOthers ==
  ASSUME LinkInv, RestStep \/ MotionStep
  PROVE  OrderInv'
<1>1. jobs' = jobs /\ toUnit' = toUnit /\ fromUnit' = fromUnit /\ nextId' = nextId
  BY DEF RestStep, Rests, MotionStep, worker, line, device
<1> QED BY <1>1 DEF LinkInv, OrderInv

(***************************************************************************)
(* What an id is of: a command has a verdict, a question has none.         *)
(***************************************************************************)
Rested(g, here) ==
  /\ here \in StatesOf(g) /\ NoJobOf(g) /\ outcome[g] # "none"
  /\ at' = [at EXCEPT ![g] = here] /\ outcome' = [outcome EXCEPT ![g] = "none"]
  /\ jobs' = jobs /\ reading' = reading /\ toUnit' = toUnit /\ fromUnit' = fromUnit
  /\ moving' = moving /\ times' = times /\ nextId' = nextId /\ command' = command
  /\ \/ /\ verdict' = verdict /\ unknown' = unknown
        /\ g = "gcode" => at[g] # "commanding" /\ (here = "accepted" => at[g] = "asking")
     \/ g = "gcode" /\ Judges(here)

LEMMA RestEffect ==
  ASSUME RestStep
  PROVE  \E g \in Greenlets, here \in {"idle", "accepted", "down"} : Rested(g, here)
<1>1. PICK g \in Greenlets, here \in {"idle", "accepted", "down"} :
        /\ Rests(g, here) /\ here \in StatesOf(g) /\ NoJobOf(g) /\ outcome[g] # "none"
        /\ \/ /\ UNCHANGED <<verdict, unknown>>
              /\ g = "gcode" => at[g] # "commanding" /\ (here = "accepted" => at[g] = "asking")
           \/ g = "gcode" /\ Judges(here)
  BY DEF RestStep
<1>2. Rested(g, here)
  BY <1>1 DEF Rested, Rests, worker, line, unit
<1> QED BY <1>2

\* A judgement is about a command that has a verdict.
LEMMA Judgement ==
  ASSUME LinkInv, RestStep
  PROVE  \/ verdict' = verdict
         \/ /\ command \in Ids /\ verdict[command] \in {"waiting", "ok"}
            /\ \E v \in {"ok", "refused", "doubt"} : verdict' = [verdict EXCEPT ![command] = v]
         \/ verdict' = [c \in Ids |-> IF verdict[c] = "doubt" THEN "settled" ELSE verdict[c]]
<1>1. PICK g \in Greenlets, here \in {"idle", "accepted", "down"} : Rested(g, here)
  BY RestEffect
<1>2. at["gcode"] \in {"asking", "commanding"} => command \in Ids /\ verdict[command] \in {"waiting", "ok"}
  BY DEF LinkInv, JudgeInv
<1> QED BY <1>1, <1>2 DEF Rested, Judges, Judged

LEMMA KindsKept ==
  ASSUME LinkInv, RestStep \/ FinishStep \/ AttemptStep \/ UnitStep \/ MotionStep
  PROVE  /\ command' = command /\ nextId' = nextId
         /\ \A c \in Ids : verdict'[c] = "none" <=> verdict[c] = "none"
<1>1. DOMAIN verdict = Ids
  BY DEF LinkInv, TypeOK
<1>2. CASE RestStep
  <2>1. command' = command /\ nextId' = nextId
    BY <1>2, RestEffect DEF Rested
  <2>2. ASSUME NEW c \in Ids PROVE verdict'[c] = "none" <=> verdict[c] = "none"
    BY <1>1, <1>2, Judgement
  <2> QED BY <2>1, <2>2
<1>3. CASE FinishStep
  BY <1>3, Finishing DEF FinishStep, Finished, LinkInv
<1>4. CASE AttemptStep \/ UnitStep \/ MotionStep
  BY <1>4 DEF AttemptStep, UnitStep, MotionStep, device
<1> QED BY <1>2, <1>3, <1>4

LEMMA KindSubmit ==
  ASSUME LinkInv, SubmitStep
  PROVE  KindInv'
<1>1. PICK g \in Greenlets, job \in JobType, here \in Places : Submitted(g, job, here)
  BY Submission DEF LinkInv
<1>2. /\ jobs'[Len(jobs')] = job
      /\ \A i \in DOMAIN jobs' : i # Len(jobs') => i \in DOMAIN jobs /\ jobs'[i] = jobs[i]
  BY <1>1 DEF Submitted, Pushed
<1>3. DOMAIN verdict = Ids /\ Ids \subseteq Nat /\ command < nextId
  BY LinkAssumption DEF LinkInv, TypeOK, KindInv, Ids
<1>4. /\ toUnit' = toUnit /\ fromUnit' = fromUnit /\ command' < nextId' /\ command <= command'
      /\ \A c \in Ids : c # nextId => verdict'[c] = verdict[c]
      /\ job.op = "command" => job.id = nextId /\ command' = nextId /\ verdict'[nextId] # "none"
      /\ job.op # "command" => verdict' = verdict /\ (Asks(job) => job.id = nextId /\ nextId \in Ids)
  BY <1>1, <1>3, Numbers DEF Submitted, Asks, LinkInv
<1>5. \A c \in Ids : verdict'[c] # "none" => c <= command'
  BY <1>3, <1>4, Numbers, <1>1 DEF Submitted, LinkInv, KindInv
<1>6. nextId \in Ids => verdict[nextId] = "none"
  BY <1>3, Numbers DEF LinkInv, KindInv
<1>7. \A i \in DOMAIN jobs' : Asks(jobs'[i]) => (jobs'[i].op = "command" <=> verdict'[jobs'[i].id] # "none")
  <2>1. ASSUME NEW i \in DOMAIN jobs, Asks(jobs[i])
        PROVE jobs[i].id \in Ids /\ jobs[i].id # nextId /\ (jobs[i].op = "command" <=> verdict[jobs[i].id] # "none")
    BY <2>1, <1>3, Numbers DEF LinkInv, QueueInv, JobOK, KindInv
  <2>2. Asks(job) => (job.op = "command" <=> verdict'[job.id] # "none")
    BY <1>4, <1>6
  <2> QED BY <1>2, <1>4, <2>1, <2>2
<1>8. \A i \in DOMAIN toUnit : toUnit[i].op = "command" <=> verdict'[toUnit[i].id] # "none"
  BY <1>4, Numbers DEF LinkInv, OrderInv, KindInv
<1>9. \A i \in DOMAIN fromUnit :
        IF verdict'[fromUnit[i].id] = "none" THEN fromUnit[i].says \in States
        ELSE fromUnit[i].says \in {"ok", "rejected"}
  BY <1>4, Numbers DEF LinkInv, OrderInv, KindInv
<1> QED BY <1>4, <1>5, <1>7, <1>8, <1>9 DEF KindInv

LEMMA KindOthers ==
  ASSUME LinkInv, RestStep \/ FinishStep \/ AttemptStep \/ UnitStep \/ MotionStep
  PROVE  KindInv'
<1>1. /\ command' = command /\ nextId' = nextId
      /\ \A c \in Ids : verdict'[c] = "none" <=> verdict[c] = "none"
  BY KindsKept
<1>2. ASSUME NEW i \in DOMAIN jobs' PROVE \E k \in DOMAIN jobs : jobs'[i] = jobs[k]
  <2>1. CASE FinishStep
    BY <2>1, Finishing DEF FinishStep, Finished, Dropped, LinkInv
  <2>2. CASE RestStep
    BY <2>2, RestEffect DEF Rested
  <2>3. CASE AttemptStep \/ UnitStep \/ MotionStep
    BY <2>3 DEF AttemptStep, UnitStep, MotionStep, worker
  <2> QED BY <2>1, <2>2, <2>3
<1>3. ASSUME NEW i \in DOMAIN toUnit'
      PROVE  \/ \E k \in DOMAIN toUnit : toUnit'[i] = toUnit[k]
             \/ \E k \in DOMAIN jobs : Asks(jobs[k]) /\ toUnit'[i].id = jobs[k].id /\ toUnit'[i].op = jobs[k].op
  <2>1. CASE jobs # <<>> /\ Asks(Job) /\ Sent
    BY <2>1, Sending, Queues DEF Pushed, LinkInv
  <2>2. CASE UnitStep
    BY <2>2, Acting DEF Acted, Dropped, LinkInv
  <2>3. CASE toUnit' = toUnit
    BY <2>3
  <2>4. RestStep \/ MotionStep => toUnit' = toUnit
    BY RestEffect DEF Rested, MotionStep, line
  <2>5. FinishStep \/ AttemptStep => toUnit' = toUnit \/ (jobs # <<>> /\ Asks(Job) /\ Sent)
    BY DEF FinishStep, AttemptStep, line
  <2> QED BY <2>1, <2>2, <2>3, <2>4, <2>5
<1>4. ASSUME NEW i \in DOMAIN fromUnit'
      PROVE  \/ \E k \in DOMAIN fromUnit : fromUnit'[i] = fromUnit[k]
             \/ \E k \in DOMAIN toUnit :
                  /\ fromUnit'[i].id = toUnit[k].id
                  /\ fromUnit'[i].says \in (IF toUnit[k].op = "command" THEN {"ok", "rejected"} ELSE States)
  <2>1. CASE UnitStep
    <3>1. fromUnit' = fromUnit \/ \E says \in (IF toUnit[1].op = "command" THEN {"ok", "rejected"} ELSE States) : Told(says)
      BY <2>1, Acting DEF Acted, LinkInv
    <3>2. CASE fromUnit' = fromUnit
      BY <3>2
    <3>3. ASSUME NEW says \in (IF toUnit[1].op = "command" THEN {"ok", "rejected"} ELSE States), Told(says),
                 i = Len(fromUnit')
          PROVE  fromUnit'[i].id = toUnit[1].id /\ fromUnit'[i].says = says
      BY <3>3 DEF Told, Pushed
    <3>4. ASSUME NEW says, Told(says), i # Len(fromUnit')
          PROVE  \E k \in DOMAIN fromUnit : fromUnit'[i] = fromUnit[k]
      BY <3>4 DEF Told, Pushed
    <3>5. 1 \in DOMAIN toUnit
      BY <2>1, Acting DEF Acted, LinkInv
    <3> QED BY <3>1, <3>2, <3>3, <3>4, <3>5
  <2>2. CASE \E k \in DOMAIN fromUnit : fromUnit' = SubSeq(fromUnit, k + 1, Len(fromUnit))
    <3>1. PICK k \in DOMAIN fromUnit : Dropped(fromUnit', fromUnit, k)
      BY <2>2, Moves DEF LinkInv
    <3> QED BY <3>1 DEF Dropped
  <2>3. CASE fromUnit' = fromUnit
    BY <2>3
  <2>4. RestStep \/ MotionStep \/ AttemptStep => fromUnit' = fromUnit
    BY RestEffect DEF Rested, MotionStep, AttemptStep, line
  <2>5. FinishStep => \/ fromUnit' = fromUnit
                      \/ \E k \in DOMAIN fromUnit : fromUnit' = SubSeq(fromUnit, k + 1, Len(fromUnit))
    BY DEF FinishStep, line
  <2> QED BY <2>1, <2>2, <2>3, <2>4, <2>5
<1>5. /\ \A i \in DOMAIN jobs : Asks(jobs[i]) => jobs[i].id \in Ids
      /\ \A i \in DOMAIN toUnit : toUnit[i].id \in Ids /\ toUnit[i].op \in {"status", "command"}
      /\ \A i \in DOMAIN fromUnit : fromUnit[i].id \in Ids
  BY Numbers, Queues DEF LinkInv, QueueInv, JobOK, FrameType
<1>6. command' < nextId' /\ \A c \in Ids : verdict'[c] # "none" => c <= command'
  BY <1>1 DEF LinkInv, KindInv
<1>7. \A i \in DOMAIN jobs' : Asks(jobs'[i]) => (jobs'[i].op = "command" <=> verdict'[jobs'[i].id] # "none")
  BY <1>1, <1>2, <1>5 DEF LinkInv, KindInv
<1>8. \A i \in DOMAIN toUnit' : toUnit'[i].op = "command" <=> verdict'[toUnit'[i].id] # "none"
  BY <1>1, <1>3, <1>5 DEF LinkInv, KindInv
<1>9. \A i \in DOMAIN fromUnit' :
        IF verdict'[fromUnit'[i].id] = "none" THEN fromUnit'[i].says \in States
        ELSE fromUnit'[i].says \in {"ok", "rejected"}
  BY <1>1, <1>4, <1>5 DEF LinkInv, KindInv
<1> QED BY <1>6, <1>7, <1>8, <1>9 DEF KindInv

(***************************************************************************)
(* What the driver holds of a command, and where it stands.                *)
(***************************************************************************)
LEMMA JudgeSubmit ==
  ASSUME LinkInv, SubmitStep
  PROVE  JudgeInv'
<1>1. PICK g \in Greenlets, job \in JobType, here \in Places : Submitted(g, job, here)
  BY Submission DEF LinkInv
<1>2. DOMAIN verdict = Ids /\ DOMAIN at = Greenlets
  BY DEF LinkInv, TypeOK
<1>3. CASE g # "gcode"
  <2>1. at'["gcode"] = at["gcode"] /\ command' = command /\ verdict' = verdict /\ unknown' = unknown
    BY <1>1, <1>2, <1>3 DEF Submitted
  <2> QED BY <2>1 DEF LinkInv, JudgeInv
<1>4. CASE g = "gcode"
  <2>1. at["gcode"] # "commanding" /\ at'["gcode"] = here /\ unknown' = unknown
        /\ (here \in {"opening", "asking"} => at["gcode"] \in {"accepted", "opening"})
        /\ job.op = OpFor(here) /\ here \in StatesOf("gcode")
    BY <1>1, <1>2, <1>4 DEF Submitted
  <2>2. \A c \in Ids : verdict[c] # "waiting"
    BY <2>1 DEF LinkInv, JudgeInv
  <2>3. CASE here = "commanding"
    <3>1. job.op = "command"
      BY <2>1, <2>3 DEF OpFor, Questions
    <3>2. ~unknown /\ nextId \in Ids /\ command' = nextId /\ verdict' = [verdict EXCEPT ![nextId] = "waiting"]
      BY <1>1, <3>1 DEF Submitted, Asks
    <3> QED BY <1>2, <2>1, <2>2, <2>3, <3>2 DEF LinkInv, JudgeInv
  <2>4. CASE here # "commanding"
    <3>1. job.op # "command" /\ here # "accepted"
      BY <1>1, <2>1, <2>4, <1>4 DEF OpFor, Questions, JobType, StatesOf
    <3>2. command' = command /\ verdict' = verdict
      BY <1>1, <3>1 DEF Submitted
    <3> QED BY <2>1, <2>2, <2>4, <3>1, <3>2 DEF LinkInv, JudgeInv
  <2> QED BY <2>3, <2>4
<1> QED BY <1>3, <1>4

LEMMA JudgeRest ==
  ASSUME LinkInv, RestStep
  PROVE  JudgeInv'
<1>1. PICK g \in Greenlets, here \in {"idle", "accepted", "down"} : Rested(g, here)
  BY RestEffect
<1>2. DOMAIN verdict = Ids /\ DOMAIN at = Greenlets
  BY DEF LinkInv, TypeOK
<1>3. command' = command
  BY <1>1 DEF Rested
<1>4. CASE g # "gcode"
  <2>1. at'["gcode"] = at["gcode"] /\ verdict' = verdict /\ unknown' = unknown
    BY <1>1, <1>2, <1>4 DEF Rested
  <2> QED BY <1>3, <2>1 DEF LinkInv, JudgeInv
<1>5. CASE g = "gcode"
  <2>1. at'["gcode"] = here
    BY <1>1, <1>2, <1>5 DEF Rested
  <2>2. CASE verdict' = verdict /\ unknown' = unknown /\ at["gcode"] # "commanding"
             /\ (here = "accepted" => at["gcode"] = "asking")
    BY <1>3, <2>1, <2>2 DEF LinkInv, JudgeInv
  <2>3. CASE Judges(here)
    <3>1. CASE verdict' = [c \in Ids |-> IF verdict[c] = "doubt" THEN "settled" ELSE verdict[c]]
               /\ unknown' = FALSE /\ at["gcode"] = "verifying" /\ here = "idle"
      BY <1>2, <1>3, <2>1, <3>1 DEF LinkInv, JudgeInv
    <3>2. ASSUME NEW v \in {"ok", "refused", "doubt"}, verdict' = [verdict EXCEPT ![command] = v],
                 at["gcode"] \in {"asking", "commanding"}, v = "doubt" => unknown' = TRUE,
                 v # "doubt" => unknown' = unknown, here = "accepted" => v = "ok"
          PROVE  JudgeInv'
      <4>1. command \in Ids
        BY <3>2 DEF LinkInv, JudgeInv
      <4> QED BY <1>2, <1>3, <2>1, <3>2, <4>1 DEF LinkInv, JudgeInv
    <3> QED BY <2>3, <3>1, <3>2 DEF Judges, Judged
  <2> QED BY <1>1, <1>5, <2>2, <2>3 DEF Rested
<1> QED BY <1>4, <1>5

LEMMA JudgeOthers ==
  ASSUME LinkInv, FinishStep \/ AttemptStep \/ UnitStep \/ MotionStep
  PROVE  JudgeInv'
<1>1. at' = at /\ verdict' = verdict /\ command' = command /\ unknown' = unknown
  <2>1. CASE FinishStep
    BY <2>1, Finishing DEF FinishStep, Finished, LinkInv
  <2>2. CASE AttemptStep \/ UnitStep \/ MotionStep
    BY <2>2 DEF AttemptStep, UnitStep, MotionStep, greenlets, device
  <2> QED BY <2>1, <2>2
<1> QED BY <1>1 DEF LinkInv, JudgeInv

(***************************************************************************)
(* At most once.                                                           *)
(***************************************************************************)
\* The command at the head of the queue waits in the greenlet of G-code.
LEMMA CommandJob ==
  ASSUME LinkInv, NEW i \in DOMAIN jobs, jobs[i].op = "command"
  PROVE  /\ at["gcode"] = "commanding" /\ outcome["gcode"] = "none" /\ jobs[i].id = command
         /\ jobs[i].id \in Ids /\ verdict[command] = "waiting"
<1>1. JobOK(i) /\ jobs[i] \in JobType
  BY Queues DEF LinkInv, QueueInv
<1>2. at["gcode"] \in StatesOf("gcode")
  BY DEF LinkInv, QueueInv, Greenlets
<1>3. at["gcode"] = "commanding" /\ outcome["gcode"] = "none" /\ jobs[i].id = command /\ jobs[i].id \in Ids
  BY <1>1, <1>2 DEF JobOK, Asks, OpFor, Questions, StatesOf
<1> QED BY <1>3 DEF LinkInv, JudgeInv

LEMMA SentOnce ==
  ASSUME LinkInv, jobs # <<>>, Asks(Job), Sent
  PROVE  /\ \A i \in DOMAIN toUnit' : toUnit'[i].op = "command" =>
              /\ verdict[toUnit'[i].id] \in {"waiting", "doubt"} /\ times[toUnit'[i].id] = 0
              /\ \A j \in DOMAIN toUnit' : toUnit'[j].id = toUnit'[i].id => i = j
         /\ \A i \in DOMAIN fromUnit, j \in DOMAIN toUnit' :
              fromUnit[i].says = "rejected" => toUnit'[j].id # fromUnit[i].id
         /\ \A i \in DOMAIN jobs, j \in DOMAIN toUnit' :
              jobs[i].op = "command" /\ i > 1 => toUnit'[j].id # jobs[i].id
         /\ at["gcode"] = "commanding" /\ outcome["gcode"] = "rejected" =>
              \A j \in DOMAIN toUnit' : toUnit'[j].id # command
<1>1. /\ toUnit'[Len(toUnit')].id = jobs[1].id /\ toUnit'[Len(toUnit')].op = jobs[1].op
      /\ \A i \in DOMAIN toUnit' : i # Len(toUnit') => i \in DOMAIN toUnit /\ toUnit'[i] = toUnit[i]
  BY Sending DEF LinkInv, Pushed
<1>2. /\ 1 \in DOMAIN jobs /\ Asks(jobs[1]) /\ ~reading /\ jobs[1] \in JobType /\ JobOK(1)
      /\ jobs[1].id \in Ids
  BY Queues DEF LinkInv, QueueInv, JobOK, Sent
<1>3. jobs[1].op = "command" => Fresh(jobs[1].id) /\ verdict[jobs[1].id] = "waiting"
  BY <1>2, CommandJob DEF LinkInv, OnceInv
<1>4. jobs[1].op = "status" => verdict[jobs[1].id] = "none"
  BY <1>2 DEF LinkInv, KindInv
<1>5. jobs[1].op \in {"status", "command"}
  BY <1>2 DEF Asks
<1>6. ASSUME NEW i \in DOMAIN toUnit, toUnit[i].op = "command" PROVE toUnit[i].id # jobs[1].id
  <2>1. CASE jobs[1].op = "command"
    BY <1>3, <2>1 DEF Fresh, Gone
  <2>2. CASE jobs[1].op = "status"
    BY <1>4, <1>6, <2>2 DEF LinkInv, KindInv
  <2> QED BY <1>5, <2>1, <2>2
<1>7. ASSUME NEW i \in DOMAIN toUnit', toUnit'[i].op = "command"
      PROVE  /\ verdict[toUnit'[i].id] \in {"waiting", "doubt"} /\ times[toUnit'[i].id] = 0
             /\ \A j \in DOMAIN toUnit' : toUnit'[j].id = toUnit'[i].id => i = j
  <2>1. CASE i = Len(toUnit')
    <3>1. toUnit'[i].id = jobs[1].id /\ jobs[1].op = "command"
      BY <1>1, <1>7, <2>1
    <3>2. \A j \in DOMAIN toUnit : toUnit[j].id # jobs[1].id
      BY <1>3, <3>1 DEF Fresh, Gone
    <3> QED BY <1>1, <1>3, <2>1, <3>1, <3>2 DEF Fresh
  <2>2. CASE i # Len(toUnit')
    <3>1. i \in DOMAIN toUnit /\ toUnit'[i] = toUnit[i] /\ toUnit[i].id # jobs[1].id
      BY <1>1, <1>6, <1>7, <2>2
    <3> QED BY <1>1, <1>7, <3>1 DEF LinkInv, OnceInv
  <2> QED BY <2>1, <2>2
<1>8. ASSUME NEW i \in DOMAIN fromUnit, fromUnit[i].says = "rejected", NEW j \in DOMAIN toUnit'
      PROVE  toUnit'[j].id # fromUnit[i].id
  <2>1. fromUnit[i].id # jobs[1].id
    <3>1. CASE jobs[1].op = "command"
      BY <1>3, <3>1 DEF Fresh
    <3>2. CASE jobs[1].op = "status"
      BY <1>4, <1>8, <3>2 DEF LinkInv, KindInv, States
    <3> QED BY <1>5, <3>1, <3>2
  <2> QED BY <1>1, <1>8, <2>1 DEF LinkInv, OnceInv, Gone
<1>9. ASSUME NEW i \in DOMAIN jobs, jobs[i].op = "command", i > 1, NEW j \in DOMAIN toUnit'
      PROVE  toUnit'[j].id # jobs[i].id
  <2>1. jobs[1].id < jobs[i].id
    BY <1>2, <1>9 DEF LinkInv, OrderInv, Asks
  <2>2. jobs[1].id # jobs[i].id
    BY <2>1, Numbers, <1>2 DEF LinkInv
  <2> QED BY <1>1, <1>9, <2>2 DEF LinkInv, OnceInv, Fresh, Gone
<1>10. ASSUME at["gcode"] = "commanding", outcome["gcode"] = "rejected", NEW j \in DOMAIN toUnit'
       PROVE  toUnit'[j].id # command
  <2>1. jobs[1].op = "status"
    BY <1>2, <1>5, <1>10, CommandJob
  <2>2. jobs[1].id # command
    BY <1>4, <1>10, <2>1 DEF LinkInv, JudgeInv
  <2> QED BY <1>1, <1>10, <2>2 DEF LinkInv, OnceInv, Gone
<1> QED BY <1>7, <1>8, <1>9, <1>10

LEMMA OnceSubmit ==
  ASSUME LinkInv, SubmitStep
  PROVE  OnceInv'
<1>1. PICK g \in Greenlets, job \in JobType, here \in Places : Submitted(g, job, here)
  BY Submission DEF LinkInv
<1>2. /\ jobs'[Len(jobs')] = job
      /\ \A i \in DOMAIN jobs' : i # Len(jobs') => i \in DOMAIN jobs /\ jobs'[i] = jobs[i]
  BY <1>1 DEF Submitted, Pushed
<1>3. /\ toUnit' = toUnit /\ fromUnit' = fromUnit /\ reading' = reading /\ times' = times
      /\ DOMAIN verdict = Ids /\ DOMAIN at = Greenlets /\ DOMAIN outcome = Greenlets
  BY <1>1 DEF Submitted, LinkInv, TypeOK
<1>4. /\ \A c \in Ids : c # nextId => verdict'[c] = verdict[c]
      /\ job.op = "command" => job.id = nextId /\ nextId \in Ids
      /\ \A c \in Ids : verdict'[c] = "none" => verdict[c] = "none"
  BY <1>1, <1>3 DEF Submitted, Asks
<1>5. nextId \in Ids => Fresh(nextId)
  <2>1. nextId \in Ids => verdict[nextId] = "none"
    BY Numbers DEF LinkInv, KindInv
  <2> QED BY <2>1, Numbers DEF LinkInv, OrderInv, OnceInv, Fresh, Gone
<1>6. \A i \in DOMAIN toUnit : toUnit[i].op = "command" =>
        /\ verdict'[toUnit[i].id] \in {"waiting", "doubt"} /\ times[toUnit[i].id] = 0
        /\ \A j \in DOMAIN toUnit : toUnit[j].id = toUnit[i].id => i = j
  BY <1>4, Numbers DEF LinkInv, OrderInv, OnceInv
<1>7. \A i \in DOMAIN jobs' : jobs'[i].op = "command" /\ (i > 1 \/ ~reading) => Fresh(jobs'[i].id)
  BY <1>2, <1>4, <1>5 DEF LinkInv, OnceInv
<1>8. at'["gcode"] = "commanding" =>
        /\ outcome'["gcode"] = "ok" => times[command'] = 1
        /\ outcome'["gcode"] = "rejected" => times[command'] = 0 /\ Gone(command')
  <2>1. CASE g = "gcode"
    BY <1>1, <1>3, <2>1 DEF Submitted
  <2>2. CASE g # "gcode"
    <3>1. at'["gcode"] = at["gcode"] /\ outcome'["gcode"] = outcome["gcode"] /\ command' = command
      BY <1>1, <1>3, <2>2 DEF Submitted
    <3> QED BY <3>1 DEF LinkInv, OnceInv
  <2> QED BY <2>1, <2>2
<1> QED BY <1>3, <1>4, <1>6, <1>7, <1>8 DEF LinkInv, OnceInv, Fresh, Gone

LEMMA OnceRest ==
  ASSUME LinkInv, RestStep
  PROVE  OnceInv'
<1>1. PICK g \in Greenlets, here \in {"idle", "accepted", "down"} : Rested(g, here)
  BY RestEffect
<1>2. /\ toUnit' = toUnit /\ fromUnit' = fromUnit /\ jobs' = jobs /\ reading' = reading
      /\ times' = times /\ command' = command /\ nextId' = nextId
      /\ DOMAIN verdict = Ids /\ DOMAIN at = Greenlets /\ DOMAIN outcome = Greenlets
  BY <1>1 DEF Rested, LinkInv, TypeOK
<1>3. \A c \in Ids : verdict'[c] = "none" => verdict[c] = "none"
  BY KindsKept
<1>4. ASSUME NEW i \in DOMAIN toUnit, toUnit[i].op = "command"
      PROVE  verdict'[toUnit[i].id] \in {"waiting", "doubt"}
  <2>1. /\ toUnit[i].id \in Ids /\ verdict[toUnit[i].id] \in {"waiting", "doubt"}
        /\ times[toUnit[i].id] = 0
    BY <1>4, Numbers DEF LinkInv, OnceInv
  <2>2. CASE verdict' = verdict
    BY <2>1, <2>2
  <2>3. CASE at["gcode"] = "commanding" /\ outcome["gcode"] = "ok" /\ Judged("ok")
    BY <1>2, <2>1, <2>3 DEF Judged, LinkInv, OnceInv
  <2>4. CASE at["gcode"] = "commanding" /\ outcome["gcode"] = "rejected" /\ Judged("refused")
    BY <1>2, <2>1, <2>4 DEF Judged, LinkInv, OnceInv, Gone
  <2>5. CASE Judged("doubt")
    BY <1>2, <2>1, <2>5 DEF Judged
  <2>6. CASE outcome["gcode"] = "ready"
    BY <1>4, <2>6 DEF LinkInv, ReadyInv
  <2> QED BY <1>1, <2>2, <2>3, <2>4, <2>5, <2>6 DEF Rested, Judges
<1>5. at'["gcode"] = "commanding" =>
        /\ outcome'["gcode"] = "ok" => times[command] = 1
        /\ outcome'["gcode"] = "rejected" => times[command] = 0 /\ Gone(command)
  <2>1. CASE g = "gcode"
    BY <1>1, <1>2, <2>1 DEF Rested
  <2>2. CASE g # "gcode"
    <3>1. at'["gcode"] = at["gcode"] /\ outcome'["gcode"] = outcome["gcode"]
      BY <1>1, <1>2, <2>2 DEF Rested
    <3> QED BY <3>1 DEF LinkInv, OnceInv
  <2> QED BY <2>1, <2>2
<1> QED BY <1>2, <1>3, <1>4, <1>5 DEF LinkInv, OnceInv, Fresh, Gone

LEMMA OnceFinish ==
  ASSUME LinkInv, FinishStep
  PROVE  OnceInv'
<1>1. PICK what \in States \cup {"ok", "rejected", "failed"} :
        /\ Finished(what)
        /\ \/ toUnit' = toUnit /\ fromUnit' = fromUnit /\ (Asks(Job) => what = "failed")
           \/ Asks(Job) /\ Sent /\ fromUnit' = fromUnit /\ what = "failed"
           \/ /\ Asks(Job) /\ toUnit' = toUnit
              /\ \E i \in DOMAIN fromUnit :
                   /\ fromUnit' = SubSeq(fromUnit, i + 1, Len(fromUnit))
                   /\ \/ what = "failed"
                      \/ fromUnit[i].id = Job.id /\ what = fromUnit[i].says
  BY Finishing DEF FinishStep, LinkInv, line
<1>2. /\ jobs # <<>> /\ at' = at /\ command' = command /\ verdict' = verdict /\ times' = times
      /\ reading' = FALSE /\ outcome' = [outcome EXCEPT ![Job.by] = what] /\ DOMAIN outcome = Greenlets
      /\ 1 \in DOMAIN jobs /\ Job = jobs[1]
      /\ \A i \in DOMAIN jobs' : i + 1 \in DOMAIN jobs /\ jobs'[i] = jobs[i + 1] /\ i + 1 > 1
  BY <1>1 DEF Finished, Dropped, Listed, LinkInv, TypeOK
<1>3. \A i \in DOMAIN fromUnit' : \E k \in DOMAIN fromUnit : fromUnit'[i] = fromUnit[k]
  <2>1. ASSUME NEW k \in DOMAIN fromUnit, fromUnit' = SubSeq(fromUnit, k + 1, Len(fromUnit))
        PROVE  \A i \in DOMAIN fromUnit' : fromUnit'[i] = fromUnit[i + k] /\ i + k \in DOMAIN fromUnit
    BY <2>1, Moves DEF Dropped, LinkInv
  <2> QED BY <1>1, <2>1
<1>4. /\ \A i \in DOMAIN toUnit' : toUnit'[i].op = "command" =>
           /\ verdict[toUnit'[i].id] \in {"waiting", "doubt"} /\ times[toUnit'[i].id] = 0
           /\ \A j \in DOMAIN toUnit' : toUnit'[j].id = toUnit'[i].id => i = j
      /\ \A i \in DOMAIN fromUnit, j \in DOMAIN toUnit' :
           fromUnit[i].says = "rejected" => toUnit'[j].id # fromUnit[i].id
      /\ \A i \in DOMAIN jobs, j \in DOMAIN toUnit' :
           jobs[i].op = "command" /\ i > 1 => toUnit'[j].id # jobs[i].id
      /\ at["gcode"] = "commanding" /\ outcome["gcode"] = "rejected" =>
           \A j \in DOMAIN toUnit' : toUnit'[j].id # command
  <2>1. CASE Asks(Job) /\ Sent
    BY <1>2, <2>1, SentOnce
  <2>2. CASE toUnit' = toUnit
    BY <2>2 DEF LinkInv, OnceInv, Fresh, Gone
  <2> QED BY <1>1, <2>1, <2>2
<1>5. \A i \in DOMAIN fromUnit' :
        /\ fromUnit'[i].says = "ok" => times[fromUnit'[i].id] = 1
        /\ fromUnit'[i].says = "rejected" =>
             times[fromUnit'[i].id] = 0 /\ \A j \in DOMAIN toUnit' : toUnit'[j].id # fromUnit'[i].id
  BY <1>3, <1>4 DEF LinkInv, OnceInv
<1>6. \A i \in DOMAIN jobs' : jobs'[i].op = "command" =>
        /\ \A j \in DOMAIN toUnit' : toUnit'[j].id # jobs'[i].id
        /\ times[jobs'[i].id] = 0
        /\ \A k \in DOMAIN fromUnit' : fromUnit'[k].id # jobs'[i].id
  BY <1>2, <1>3, <1>4 DEF LinkInv, OnceInv, Fresh
<1>7. at["gcode"] = "commanding" =>
        /\ outcome'["gcode"] = "ok" => times[command] = 1
        /\ outcome'["gcode"] = "rejected" =>
             times[command] = 0 /\ \A j \in DOMAIN toUnit' : toUnit'[j].id # command
  <2>1. CASE Job.by # "gcode"
    BY <1>2, <1>4, <2>1 DEF LinkInv, OnceInv
  <2>2. CASE Job.by = "gcode" /\ at["gcode"] = "commanding"
    <3>1. Job.op = "command"
      BY <1>2, <2>2 DEF LinkInv, QueueInv, JobOK, OpFor, Questions
    <3>2. Job.id = command /\ Asks(Job)
      BY <1>2, <3>1, CommandJob DEF Asks
    <3>3. outcome'["gcode"] = what
      BY <1>2, <2>2 DEF Greenlets
    <3>4. what = "failed" \/ (toUnit' = toUnit /\ \E i \in DOMAIN fromUnit : fromUnit[i].id = command /\ what = fromUnit[i].says)
      BY <1>1, <3>2
    <3> QED BY <3>3, <3>4 DEF LinkInv, OnceInv, Gone
  <2> QED BY <2>1, <2>2
<1> QED BY <1>2, <1>4, <1>5, <1>6, <1>7 DEF LinkInv, OnceInv, Fresh, Gone

LEMMA OnceAttempt ==
  ASSUME LinkInv, AttemptStep
  PROVE  OnceInv'
<1>1. /\ jobs # <<>> /\ Asks(Job) /\ at' = at /\ outcome' = outcome /\ jobs' = jobs
      /\ command' = command /\ verdict' = verdict /\ times' = times /\ fromUnit' = fromUnit
      /\ toUnit' = toUnit \/ Sent
      /\ reading' = TRUE \/ Job.op = "status"
      /\ 1 \in DOMAIN jobs /\ Job = jobs[1] /\ \A i \in DOMAIN jobs : i = 1 \/ i > 1
  BY Queues DEF AttemptStep, greenlets, device, unit, LinkInv, Listed
<1>2. /\ \A i \in DOMAIN toUnit' : toUnit'[i].op = "command" =>
           /\ verdict[toUnit'[i].id] \in {"waiting", "doubt"} /\ times[toUnit'[i].id] = 0
           /\ \A j \in DOMAIN toUnit' : toUnit'[j].id = toUnit'[i].id => i = j
      /\ \A i \in DOMAIN fromUnit, j \in DOMAIN toUnit' :
           fromUnit[i].says = "rejected" => toUnit'[j].id # fromUnit[i].id
      /\ \A i \in DOMAIN jobs, j \in DOMAIN toUnit' :
           jobs[i].op = "command" /\ i > 1 => toUnit'[j].id # jobs[i].id
      /\ at["gcode"] = "commanding" /\ outcome["gcode"] = "rejected" =>
           \A j \in DOMAIN toUnit' : toUnit'[j].id # command
  <2>1. CASE Sent
    BY <1>1, <2>1, SentOnce
  <2>2. CASE toUnit' = toUnit
    BY <2>2 DEF LinkInv, OnceInv, Fresh, Gone
  <2> QED BY <1>1, <2>1, <2>2
<1>3. ASSUME NEW i \in DOMAIN jobs, jobs[i].op = "command", i > 1 \/ reading' # TRUE
      PROVE  i > 1 /\ times[jobs[i].id] = 0 /\ \A k \in DOMAIN fromUnit : fromUnit[k].id # jobs[i].id
  <2>1. i > 1
    BY <1>1, <1>3
  <2> QED BY <1>3, <2>1 DEF LinkInv, OnceInv, Fresh
<1> QED BY <1>1, <1>2, <1>3 DEF LinkInv, OnceInv, Fresh, Gone

LEMMA OnceUnit ==
  ASSUME LinkInv, UnitStep
  PROVE  OnceInv'
<1>1. Acted
  BY Acting DEF LinkInv
<1>2. /\ 1 \in DOMAIN toUnit /\ toUnit[1].id \in Ids /\ DOMAIN times = Ids
      /\ at' = at /\ outcome' = outcome /\ jobs' = jobs /\ reading' = reading
      /\ command' = command /\ verdict' = verdict
      /\ \A i \in DOMAIN toUnit' : i + 1 \in DOMAIN toUnit /\ toUnit'[i] = toUnit[i + 1] /\ i \in Nat /\ i + 1 # 1
  BY <1>1 DEF Acted, Dropped, Listed, LinkInv, TypeOK, FrameType
<1> DEFINE h == toUnit[1]
<1>3. h.op = "command" =>
        /\ verdict[h.id] \in {"waiting", "doubt"} /\ times[h.id] = 0
        /\ \A j \in DOMAIN toUnit' : toUnit'[j].id # h.id
        /\ \A i \in DOMAIN fromUnit : fromUnit[i].says \in {"ok", "rejected"} => fromUnit[i].id # h.id
        /\ \A i \in DOMAIN jobs : jobs[i].op = "command" /\ (i > 1 \/ ~reading) => jobs[i].id # h.id
        /\ at["gcode"] = "commanding" /\ outcome["gcode"] \in {"ok", "rejected"} => command # h.id
  BY <1>2 DEF LinkInv, OnceInv, Fresh, Gone
<1>4. \A i \in DOMAIN fromUnit' : fromUnit'[i].says \in {"ok", "rejected"} =>
        \/ \E k \in DOMAIN fromUnit : fromUnit'[i] = fromUnit[k]
        \/ fromUnit'[i].says = "ok" /\ h.op = "command" /\ fromUnit'[i].id = h.id
             /\ times' = [times EXCEPT ![h.id] = @ + 1]
        \/ fromUnit'[i].says = "rejected" /\ h.op = "command" /\ fromUnit'[i].id = h.id
             /\ times' = times
  <2>1. CASE fromUnit' = fromUnit
    BY <2>1
  <2>2. CASE h.op = "command" /\ times' = [times EXCEPT ![h.id] = @ + 1] /\ Told("ok")
    BY <2>2 DEF Told, Pushed
  <2>3. CASE h.op = "command" /\ times' = times /\ Told("rejected")
    BY <2>3 DEF Told, Pushed
  <2>4. ASSUME NEW says \in States, Told(says)
        PROVE  \A i \in DOMAIN fromUnit' : fromUnit'[i].says \in {"ok", "rejected"} =>
                 \E k \in DOMAIN fromUnit : fromUnit'[i] = fromUnit[k]
    BY <2>4 DEF Told, Pushed, States
  <2> QED BY <1>1, <2>1, <2>2, <2>3, <2>4 DEF Acted
<1>5. \/ times' = times
      \/ h.op = "command" /\ times' = [times EXCEPT ![h.id] = @ + 1]
  BY <1>1 DEF Acted
<1>6. \A i \in DOMAIN fromUnit' : \/ \E k \in DOMAIN fromUnit : fromUnit'[i] = fromUnit[k]
                                  \/ fromUnit'[i].id = h.id
  <2>1. ASSUME NEW says, Told(says)
        PROVE  \A i \in DOMAIN fromUnit' : \/ \E k \in DOMAIN fromUnit : fromUnit'[i] = fromUnit[k]
                                           \/ fromUnit'[i].id = h.id
    BY <2>1 DEF Told, Pushed
  <2> QED BY <1>1, <2>1 DEF Acted
<1>7. \A c \in Ids : times'[c] = times[c] \/ (c = h.id /\ h.op = "command" /\ times'[c] = 1)
  BY <1>2, <1>3, <1>5
<1>8. \A i \in DOMAIN toUnit' : toUnit'[i].op = "command" =>
        /\ verdict[toUnit'[i].id] \in {"waiting", "doubt"} /\ times'[toUnit'[i].id] = 0
        /\ \A j \in DOMAIN toUnit' : toUnit'[j].id = toUnit'[i].id => i = j
  BY <1>2, <1>3, <1>7, Numbers DEF LinkInv, OnceInv
<1>9. \A i \in DOMAIN fromUnit' :
        /\ fromUnit'[i].says = "ok" => times'[fromUnit'[i].id] = 1
        /\ fromUnit'[i].says = "rejected" =>
             times'[fromUnit'[i].id] = 0 /\ \A j \in DOMAIN toUnit' : toUnit'[j].id # fromUnit'[i].id
  BY <1>2, <1>3, <1>4, <1>7, Numbers DEF LinkInv, OnceInv, Gone
<1>10. \A i \in DOMAIN jobs : jobs[i].op = "command" /\ (i > 1 \/ ~reading) =>
        /\ \A j \in DOMAIN toUnit' : toUnit'[j].id # jobs[i].id
        /\ times'[jobs[i].id] = 0
        /\ \A k \in DOMAIN fromUnit' : fromUnit'[k].id # jobs[i].id
  BY <1>2, <1>6, <1>7, CommandJob DEF LinkInv, OnceInv, Fresh, Gone
<1>11. at["gcode"] = "commanding" =>
         /\ outcome["gcode"] = "ok" => times'[command] = 1
         /\ outcome["gcode"] = "rejected" =>
              times'[command] = 0 /\ \A j \in DOMAIN toUnit' : toUnit'[j].id # command
  BY <1>2, <1>3, <1>7 DEF LinkInv, OnceInv, JudgeInv, Gone
<1>12. \A c \in Ids : verdict[c] = "none" => times'[c] = 0
  BY <1>3, <1>7 DEF LinkInv, OnceInv
<1> QED BY <1>2, <1>8, <1>9, <1>10, <1>11, <1>12 DEF OnceInv, Fresh, Gone

LEMMA OnceMotion ==
  ASSUME LinkInv, MotionStep
  PROVE  OnceInv'
<1> QED BY DEF MotionStep, greenlets, worker, device, line, LinkInv, OnceInv, Fresh, Gone

(***************************************************************************)
(* Ready.                                                                  *)
(***************************************************************************)
\* A ready the greenlet of G-code can still take for its question is from after
\* its last command, and there is no command on the way then.
LEMMA ReadyKept ==
  ASSUME LinkInv, SubmitStep \/ RestStep \/ FinishStep \/ AttemptStep \/ UnitStep \/ MotionStep
  PROVE  ReadyInv'
<1>1. DOMAIN outcome = Greenlets /\ "gcode" \in Greenlets
  BY DEF LinkInv, TypeOK, Greenlets
<1>2. CASE SubmitStep
  <2>1. PICK g \in Greenlets, job \in JobType, here \in Places : Submitted(g, job, here)
    BY <1>2, Submission DEF LinkInv
  <2>2. /\ moving' = moving /\ toUnit' = toUnit /\ fromUnit' = fromUnit /\ command <= command'
        /\ outcome'["gcode"] # "ready" \/ outcome'["gcode"] = outcome["gcode"]
    BY <1>1, <2>1, Numbers DEF Submitted, LinkInv, KindInv
  <2>3. command' \in Nat
    BY <2>1, Numbers DEF Submitted, LinkInv
  <2> QED BY <2>2, <2>3, Numbers DEF LinkInv, ReadyInv
<1>3. CASE RestStep
  <2>1. PICK g \in Greenlets, here \in {"idle", "accepted", "down"} : Rested(g, here)
    BY <1>3, RestEffect
  <2>2. /\ moving' = moving /\ toUnit' = toUnit /\ fromUnit' = fromUnit /\ command' = command
        /\ outcome'["gcode"] # "ready" \/ outcome'["gcode"] = outcome["gcode"]
    BY <1>1, <2>1 DEF Rested
  <2> QED BY <2>2 DEF LinkInv, ReadyInv
<1>4. CASE MotionStep
  <2>1. outcome' = outcome /\ toUnit' = toUnit /\ fromUnit' = fromUnit /\ command' = command
    BY <1>4 DEF MotionStep, greenlets, device, line
  <2>2. moving' = moving \/ moving' = FALSE
    BY <1>4 DEF MotionStep
  <2> QED BY <2>1, <2>2 DEF LinkInv, ReadyInv
<1>5. ASSUME NEW i \in DOMAIN fromUnit, fromUnit[i].says = "ready", command < fromUnit[i].id
      PROVE  \A j \in DOMAIN toUnit : toUnit[j].op # "command"
  <2>1. ASSUME NEW j \in DOMAIN toUnit, toUnit[j].op = "command" PROVE FALSE
    <3>1. toUnit[j].id <= command /\ fromUnit[i].id <= toUnit[j].id
      BY <2>1, Numbers DEF LinkInv, KindInv, OrderInv
    <3> QED BY <1>5, <3>1, Numbers DEF LinkInv
  <2> QED BY <2>1
<1>6. CASE FinishStep
  <2>1. PICK what \in States \cup {"ok", "rejected", "failed"} :
          /\ Finished(what)
          /\ \/ toUnit' = toUnit /\ fromUnit' = fromUnit /\ what \in {"ok", "failed"}
             \/ Asks(Job) /\ Sent /\ fromUnit' = fromUnit /\ what = "failed"
             \/ /\ Asks(Job) /\ toUnit' = toUnit
                /\ \E i \in DOMAIN fromUnit :
                     /\ fromUnit' = SubSeq(fromUnit, i + 1, Len(fromUnit))
                     /\ \/ what = "failed"
                        \/ fromUnit[i].id = Job.id /\ what = fromUnit[i].says
    BY <1>6, Finishing DEF FinishStep, LinkInv, line
  <2>2. /\ jobs # <<>> /\ moving' = moving /\ command' = command /\ Job = jobs[1] /\ 1 \in DOMAIN jobs
        /\ outcome' = [outcome EXCEPT ![Job.by] = what] /\ JobOK(1) /\ jobs[1] \in JobType
    BY <2>1, Queues DEF Finished, LinkInv, QueueInv
  <2>3. \A i \in DOMAIN fromUnit' : \E k \in DOMAIN fromUnit : fromUnit'[i] = fromUnit[k]
    <3>1. ASSUME NEW k \in DOMAIN fromUnit, fromUnit' = SubSeq(fromUnit, k + 1, Len(fromUnit))
          PROVE  \A i \in DOMAIN fromUnit' : fromUnit'[i] = fromUnit[i + k] /\ i + k \in DOMAIN fromUnit
      BY <3>1, Moves DEF Dropped, LinkInv
    <3> QED BY <2>1, <3>1
  <2>4. ASSUME outcome'["gcode"] = "ready"
        PROVE  ~moving /\ \A j \in DOMAIN toUnit' : toUnit'[j].op # "command"
    <3>1. CASE Job.by = "gcode"
      <4>1. what = "ready"
        BY <1>1, <2>2, <2>4, <3>1
      <4>2. PICK i \in DOMAIN fromUnit : fromUnit[i].id = Job.id /\ fromUnit[i].says = "ready"
        BY <2>1, <4>1
      <4>3. Asks(Job) /\ toUnit' = toUnit
        BY <2>1, <4>1
      <4>4. Job.op = "status"
        BY <2>2, <4>2, <4>3, Numbers DEF Asks, LinkInv, KindInv
      <4>5. command < fromUnit[i].id
        BY <2>2, <3>1, <4>2, <4>4 DEF JobOK
      <4> QED BY <1>5, <4>2, <4>3, <4>5 DEF LinkInv, ReadyInv
    <3>2. CASE Job.by # "gcode"
      <4>1. outcome["gcode"] = "ready"
        BY <1>1, <2>2, <2>4, <3>2
      <4>2. Job.op # "command"
        BY <2>2, <3>2 DEF JobOK
      <4>3. CASE toUnit' = toUnit
        BY <4>1, <4>3 DEF LinkInv, ReadyInv
      <4>4. CASE Asks(Job) /\ Sent
        BY <2>2, <4>1, <4>2, <4>4, Sending DEF Pushed, LinkInv, ReadyInv
      <4> QED BY <2>1, <4>3, <4>4
    <3> QED BY <3>1, <3>2
  <2> QED BY <2>2, <2>3, <2>4 DEF LinkInv, ReadyInv
<1>7. CASE AttemptStep
  <2>1. /\ jobs # <<>> /\ Asks(Job) /\ moving' = moving /\ command' = command /\ fromUnit' = fromUnit
        /\ outcome' = outcome /\ (toUnit' = toUnit \/ Sent)
        /\ 1 \in DOMAIN jobs /\ Job = jobs[1]
    BY <1>7, Queues DEF AttemptStep, greenlets, device, unit, LinkInv
  <2>2. ASSUME outcome["gcode"] = "ready", NEW j \in DOMAIN toUnit' PROVE toUnit'[j].op # "command"
    <3>1. jobs[1].op # "command"
      BY <2>1, <2>2, CommandJob
    <3>2. CASE toUnit' = toUnit
      BY <2>2, <3>2 DEF LinkInv, ReadyInv
    <3>3. CASE Sent
      BY <2>1, <2>2, <3>1, <3>3, Sending DEF Pushed, LinkInv, ReadyInv
    <3> QED BY <2>1, <3>2, <3>3
  <2>3. \A i \in DOMAIN fromUnit' :
          fromUnit'[i].says = "ready" /\ command' < fromUnit'[i].id => ~moving'
    BY <2>1 DEF LinkInv, ReadyInv
  <2>4. outcome'["gcode"] = "ready" =>
          ~moving' /\ \A j \in DOMAIN toUnit' : toUnit'[j].op # "command"
    BY <2>1, <2>2 DEF LinkInv, ReadyInv
  <2> QED BY <2>3, <2>4 DEF ReadyInv
<1>8. CASE UnitStep
  <2>1. Acted
    BY <1>8, Acting DEF LinkInv
  <2>2. /\ command' = command /\ outcome' = outcome /\ 1 \in DOMAIN toUnit
        /\ \A j \in DOMAIN toUnit' : j + 1 \in DOMAIN toUnit /\ toUnit'[j] = toUnit[j + 1]
    BY <2>1 DEF Acted, Dropped
  <2>3. moving' = moving \/ toUnit[1].op = "command"
    BY <2>1 DEF Acted
  <2>4. \A i \in DOMAIN fromUnit' : fromUnit'[i].says = "ready" =>
          \/ \E k \in DOMAIN fromUnit : fromUnit'[i] = fromUnit[k]
          \/ ~moving /\ moving' = moving
    <3>1. CASE fromUnit' = fromUnit
      BY <3>1
    <3>2. ASSUME NEW says \in {"ok", "rejected"}, Told(says)
          PROVE  \A i \in DOMAIN fromUnit' : fromUnit'[i].says = "ready" =>
                   \E k \in DOMAIN fromUnit : fromUnit'[i] = fromUnit[k]
      BY <3>2 DEF Told, Pushed
    <3>3. ASSUME NEW says \in States, Told(says), moving => says = "busy", moving' = moving
          PROVE  \A i \in DOMAIN fromUnit' : fromUnit'[i].says = "ready" =>
                   \/ \E k \in DOMAIN fromUnit : fromUnit'[i] = fromUnit[k]
                   \/ ~moving /\ moving' = moving
      BY <3>3 DEF Told, Pushed
    <3> QED BY <2>1, <3>1, <3>2, <3>3 DEF Acted
  <2>5. ASSUME NEW i \in DOMAIN fromUnit', fromUnit'[i].says = "ready", command < fromUnit'[i].id
        PROVE  ~moving'
    BY <1>5, <2>2, <2>3, <2>4, <2>5 DEF LinkInv, ReadyInv
  <2>6. ASSUME outcome["gcode"] = "ready"
        PROVE  ~moving' /\ \A j \in DOMAIN toUnit' : toUnit'[j].op # "command"
    BY <2>2, <2>3, <2>6 DEF LinkInv, ReadyInv
  <2> QED BY <2>2, <2>5, <2>6 DEF ReadyInv
<1> QED BY <1>2, <1>3, <1>4, <1>6, <1>7, <1>8

(***************************************************************************)
(* The invariant holds.                                                    *)
(***************************************************************************)
LEMMA LinkInit ==
  ASSUME Init
  PROVE  LinkInv
<1> USE LinkAssumption DEF Init
<1>1. TypeOK
  <2>1. QueueTypes
    BY EmptySeq DEF QueueTypes
  <2>2. GreenletTypes
    BY DEF GreenletTypes
  <2>3. WorkerTypes
    <3>1. attempt \in 0..Retries
      OBVIOUS
    <3>2. reading \in BOOLEAN /\ port \in BOOLEAN
      OBVIOUS
    <3> QED BY <3>1, <3>2 DEF WorkerTypes
  <2>4. DeviceTypes
    <3>1. nextId \in 1..(MaxRequests + 1) /\ command \in 0..MaxRequests
      OBVIOUS
    <3>2. opened \in BOOLEAN /\ connected \in BOOLEAN /\ unknown \in BOOLEAN
      OBVIOUS
    <3> QED BY <3>1, <3>2 DEF DeviceTypes
  <2>5. VerdictType /\ UnitTypes
    BY DEF VerdictType, UnitTypes
  <2> QED BY <2>1, <2>2, <2>3, <2>4, <2>5, TypesAre DEF Types
<1>2. DOMAIN jobs = {} /\ DOMAIN toUnit = {} /\ DOMAIN fromUnit = {}
  OBVIOUS
<1>3. QueueInv
  BY <1>2 DEF QueueInv, StatesOf, Greenlets
<1>4. OrderInv
  BY <1>2 DEF OrderInv
<1>5. KindInv /\ JudgeInv
  BY <1>2 DEF KindInv, JudgeInv, Greenlets
<1>6. OnceInv /\ ReadyInv
  BY <1>2 DEF OnceInv, ReadyInv, Greenlets
<1> QED BY <1>1, <1>3, <1>4, <1>5, <1>6 DEF LinkInv

LEMMA LinkKept ==
  ASSUME LinkInv, [Next]_vars
  PROVE  LinkInv'
<1>1. SubmitStep \/ RestStep \/ FinishStep \/ AttemptStep \/ UnitStep \/ MotionStep
  BY Steps DEF LinkInv
<1>2. TypeOK'
  BY TypesKept DEF LinkInv
<1>3. QueueInv'
  BY <1>1, QueueSubmit, QueueRest, QueueFinish, QueueOthers
<1>4. OrderInv'
  BY <1>1, OrderSubmit, OrderFinish, OrderAttempt, OrderUnit, OrderOthers
<1>5. KindInv'
  BY <1>1, KindSubmit, KindOthers
<1>6. JudgeInv'
  BY <1>1, JudgeSubmit, JudgeRest, JudgeOthers
<1>7. OnceInv'
  BY <1>1, OnceSubmit, OnceRest, OnceFinish, OnceAttempt, OnceUnit, OnceMotion
<1>8. ReadyInv'
  BY <1>1, ReadyKept
<1> QED BY <1>2, <1>3, <1>4, <1>5, <1>6, <1>7, <1>8 DEF LinkInv

LEMMA LinkHolds == Spec => []LinkInv
<1>1. Init => LinkInv
  BY LinkInit
<1>2. LinkInv /\ [Next]_vars => LinkInv'
  BY LinkKept
<1> QED BY <1>1, <1>2, PTL DEF Spec

(***************************************************************************)
(* Theorems.                                                               *)
(***************************************************************************)
\* Greenlets, queue, port and line are always in the states AceDevice,
\* _ReactorSerialTransport and SerialTransport give them.
THEOREM TypesCorrect == Spec => []TypeOK
<1>1. LinkInv => TypeOK
  BY DEF LinkInv
<1> QED BY <1>1, LinkHolds, PTL

\* However many requests, retries and late replies there are: a ready that ends
\* wait_ready, or a recovery, is from after the last physical command, so the
\* motor stands still (_read_matching, request_once).
THEOREM ReadyHolds == Spec => []ReadyIsFresh
<1>1. LinkInv => ReadyIsFresh
  BY DEF LinkInv, ReadyInv, ReadyIsFresh
<1> QED BY <1>1, LinkHolds, PTL

LEMMA StepKeepsPromise ==
  ASSUME LinkInv, [Next]_vars
  PROVE  [OneShotPromise!Next]_<<verdict, times>>
<1>1. SubmitStep \/ RestStep \/ FinishStep \/ AttemptStep \/ UnitStep \/ MotionStep
  BY Steps DEF LinkInv
<1>2. DOMAIN verdict = Ids /\ DOMAIN times = Ids
  BY DEF LinkInv, TypeOK
<1>3. CASE SubmitStep
  <2>1. PICK g \in Greenlets, job \in JobType, here \in Places : Submitted(g, job, here)
    BY <1>3, Submission DEF LinkInv
  <2>2. CASE job.op = "command"
    <3>1. /\ ~unknown /\ at["gcode"] # "commanding" /\ nextId \in Ids
          /\ verdict' = [verdict EXCEPT ![nextId] = "waiting"] /\ times' = times
      BY <2>1, <2>2 DEF Submitted, Asks
    <3>2. verdict[nextId] = "none"
      BY <3>1, Numbers DEF LinkInv, KindInv
    <3>3. \A d \in Ids : verdict[d] \notin {"waiting", "doubt"}
      BY <3>1 DEF LinkInv, JudgeInv
    <3>4. OneShotPromise!Issue(nextId)
      BY <3>1, <3>2, <3>3 DEF OneShotPromise!Issue, OneShotPromise!Judge, OneShotPromise!Open
    <3> QED BY <3>1, <3>4 DEF OneShotPromise!Next
  <2>3. CASE job.op # "command"
    BY <2>1, <2>3 DEF Submitted
  <2> QED BY <2>2, <2>3
<1>4. CASE RestStep
  <2>1. PICK g \in Greenlets, here \in {"idle", "accepted", "down"} : Rested(g, here)
    BY <1>4, RestEffect
  <2>2. times' = times
    BY <2>1 DEF Rested
  <2>3. ASSUME Judges(here) PROVE [OneShotPromise!Next]_<<verdict, times>>
    <3>1. CASE at["gcode"] = "commanding" /\ outcome["gcode"] = "ok" /\ Judged("ok")
      <4>1. OneShotPromise!Confirm(command) /\ command \in Ids
        BY <2>2, <3>1 DEF LinkInv, JudgeInv, OnceInv, Judged, OneShotPromise!Confirm, OneShotPromise!Judge
      <4> QED BY <4>1 DEF OneShotPromise!Next
    <3>2. CASE at["gcode"] = "commanding" /\ outcome["gcode"] = "rejected" /\ Judged("refused")
      <4>1. OneShotPromise!Refuse(command) /\ command \in Ids
        BY <2>2, <3>2 DEF LinkInv, JudgeInv, OnceInv, Judged, OneShotPromise!Refuse, OneShotPromise!Judge
      <4> QED BY <4>1 DEF OneShotPromise!Next
    <3>3. CASE at["gcode"] \in {"asking", "commanding"} /\ Judged("doubt")
      <4>1. OneShotPromise!Doubt(command) /\ command \in Ids
        BY <2>2, <3>3 DEF LinkInv, JudgeInv, Judged, OneShotPromise!Doubt, OneShotPromise!Judge
      <4> QED BY <4>1 DEF OneShotPromise!Next
    <3>4. CASE verdict' = [c \in Ids |-> IF verdict[c] = "doubt" THEN "settled" ELSE verdict[c]]
      <4>1. CASE \E c \in Ids : verdict[c] = "doubt"
        BY <2>2, <3>4, <4>1 DEF OneShotPromise!Next, OneShotPromise!Settle
      <4>2. CASE ~\E c \in Ids : verdict[c] = "doubt"
        <5>1. verdict' = verdict
          BY <3>4, <4>2 DEF LinkInv, TypeOK
        <5> QED BY <2>2, <5>1
      <4> QED BY <4>1, <4>2
    <3> QED BY <2>3, <3>1, <3>2, <3>3, <3>4 DEF Judges
  <2> QED BY <2>1, <2>2, <2>3 DEF Rested
<1>5. CASE UnitStep
  <2>1. verdict' = verdict /\ 1 \in DOMAIN toUnit /\ toUnit[1].id \in Ids
        /\ \/ times' = times
           \/ toUnit[1].op = "command" /\ times' = [times EXCEPT ![toUnit[1].id] = @ + 1]
    BY <1>5, Acting DEF Acted, LinkInv, FrameType
  <2>2. CASE times' = times
    BY <2>1, <2>2
  <2>3. CASE toUnit[1].op = "command" /\ times' = [times EXCEPT ![toUnit[1].id] = @ + 1]
    <3>1. verdict[toUnit[1].id] \in {"waiting", "doubt"} /\ times[toUnit[1].id] = 0
      BY <2>1, <2>3 DEF LinkInv, OnceInv
    <3>2. OneShotPromise!Happen(toUnit[1].id)
      BY <1>2, <2>1, <2>3, <3>1 DEF OneShotPromise!Happen, OneShotPromise!Open
    <3> QED BY <2>1, <3>2 DEF OneShotPromise!Next
  <2> QED BY <2>1, <2>2, <2>3
<1>6. CASE FinishStep
  BY <1>6, Finishing DEF FinishStep, Finished, LinkInv
<1>7. CASE AttemptStep \/ MotionStep
  BY <1>7 DEF AttemptStep, MotionStep, device, unit
<1> QED BY <1>1, <1>3, <1>4, <1>5, <1>6, <1>7

\* The link keeps the promise of OneShot for every number of requests and
\* retries and every length of the line: a physical command is carried out at
\* most once, an answer is true, and a command in doubt stops all others until
\* ACE_RECONNECT has found the unit ready, after which it cannot happen any more
\* (request_once, _assert_physical, _mark_physical_unknown).
THEOREM LinkImplementsOneShot == Spec => KeepsOneShot
<1>1. Init => OneShotPromise!Init
  BY DEF Init, OneShotPromise!Init
<1>2. LinkInv /\ [Next]_vars => [OneShotPromise!Next]_<<verdict, times>>
  BY StepKeepsPromise
<1> QED BY <1>1, <1>2, LinkHolds, PTL DEF Spec, KeepsOneShot, OneShotPromise!Spec
=============================================================================
