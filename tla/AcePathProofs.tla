---------------------------- MODULE AcePathProofs ----------------------------
(***************************************************************************)
(* Proofs about AcePath, for every number of tools and units and every     *)
(* bound: types and the record, who may command what, what the driver      *)
(* believes of the path, and that it implements SharedPath.                *)
(*                                                                         *)
(* The first inductive invariant is TypeOK /\ RecordFollowsStep.  TypeOK   *)
(* alone is not inductive: that a step commands a motor of an existing     *)
(* tool depends on target and old being tools whenever the step uses them, *)
(* and RecordFollowsStep is what says so.                                  *)
(***************************************************************************)
EXTENDS AcePath, TLAPS

IInv == TypeOK /\ RecordFollowsStep

UnitTypes ==
  /\ connected \in [Devices -> BOOLEAN]
  /\ uncertain \in [Devices -> BOOLEAN]
  /\ motion \in [Devices -> Motions]
  /\ helping \in SUBSET Tools

\* Every motion a step asks for is a motion.
LEMMA MotionTypes ==
  /\ Still \in Motions
  /\ \A t \in Tools : Moving("feed", t) \in Motions /\ Moving("retract", t) \in Motions
BY DEF Still, Moving, Motions

\* A physical command, whatever becomes of it, keeps the units' types.
LEMMA CommandTypes ==
  ASSUME UnitTypes, NEW d, NEW m, NEW h \in SUBSET Tools,
         d \in Devices => m \in Motions,
         Accepted(d, m, h) \/ Failed(d, m, h)
  PROVE  UnitTypes'
<1>1. CASE Accepted(d, m, h)
  BY <1>1 DEF Accepted, Takes, link, UnitTypes
<1>2. CASE Refused(d)
  BY <1>2 DEF Refused, unit, UnitTypes
<1>3. CASE Rejected(d)
  BY <1>3 DEF Rejected, UnitTypes
<1>4. CASE Lost(d, m, h)
  BY <1>4 DEF Lost, Takes, UnitTypes
<1> QED
  BY <1>1, <1>2, <1>3, <1>4 DEF Failed

\* So does stopping a unit and ignoring the answer.
LEMMA StopTypes ==
  ASSUME UnitTypes, NEW d, BestEffortStop(d)
  PROVE  UnitTypes'
<1>1. helping \in SUBSET Tools
  BY DEF UnitTypes
<1> QED
  BY <1>1, MotionTypes, CommandTypes DEF BestEffortStop

\* So does waiting for a unit.
LEMMA WaitTypes ==
  ASSUME UnitTypes, NEW d, WaitDone(d) \/ WaitFailed(d)
  PROVE  UnitTypes'
BY DEF WaitDone, WaitFailed, UnitTypes

USE DEF PathStates, Steps, UnloadSteps, LoadSteps, HandoverSteps, ManualSteps,
        MoveStep, WaitStep, DoneStep, Goto, GotoCounting, Begin, Finish, Keep,
        LosePath, Abandon, claim, ctl, link, unit

-----------------------------------------------------------------------------
\* The initial state satisfies the inductive invariant.
LEMMA InitIInv == Init => IInv
BY ToolsAssumption DEF Init, IInv, TypeOK, RecordFollowsStep, Still, Motions, Parked, AtNozzle

\* The steps of an unload.
LEMMA UnloadingIInv ==
  ASSUME IInv, Unloading
  PROVE  IInv'
<1> USE DEF IInv, TypeOK, RecordFollowsStep
<1>1. CASE Release
  <2>1. old \in Tools /\ UnitTypes /\ helping \ {old} \in SUBSET Tools
    BY <1>1 DEF Release, UnitTypes
  <2>2. CASE UNCHANGED unit
    BY <1>1, <2>1, <2>2 DEF Release
  <2>3. CASE ~UNCHANGED unit
    <3>1. DeviceOf[old] \in Devices => motion[DeviceOf[old]] \in Motions
      OBVIOUS
    <3>2. UnitTypes'
      BY <1>1, <2>1, <2>3, <3>1, CommandTypes DEF Release
    <3> QED
      BY <1>1, <2>1, <3>2 DEF Release, UnitTypes
  <2> QED
    BY <2>2, <2>3
<1>2. CASE Verify
  BY <1>2 DEF Verify
<1>3. CASE Cut
  BY <1>3 DEF Cut
<1>4. CASE Pull
  <2>1. old \in Tools /\ UnitTypes
    BY <1>4 DEF Pull, UnitTypes
  <2>2. UnitTypes'
    BY <1>4, <2>1, StopTypes DEF Pull, UnitTypes
  <2>3. pos' \in [Tools -> Parked..AtNozzle]
    BY <1>4, <2>1 DEF Pull, Parked, AtHub, AtNozzle
  <2>4. tries' \in Nat /\ step' \in Steps /\ path' \in PathStates
        /\ UNCHANGED <<owner, assist, target, old>>
    BY <1>4 DEF Pull
  <2>5. RecordFollowsStep'
    BY <1>4, <2>1 DEF Pull
  <2> QED
    BY <2>2, <2>3, <2>4, <2>5 DEF UnitTypes
<1>5. CASE RetractStep
  <2>1. old \in Tools /\ UnitTypes
    BY <1>5 DEF RetractStep, UnitTypes
  <2>2. UnitTypes'
    BY <1>5, <2>1, MotionTypes, CommandTypes DEF RetractStep
  <2> QED
    BY <1>5, <2>1, <2>2 DEF RetractStep, UnitTypes
<1>6. CASE RetractWait
  <2>1. UnitTypes'
    BY <1>6, WaitTypes DEF RetractWait, UnitTypes
  <2> QED
    BY <1>6, <2>1 DEF RetractWait, UnitTypes
<1>7. CASE Park
  <2>1. old \in Tools /\ UnitTypes
    BY <1>7 DEF Park, UnitTypes
  <2>2. UnitTypes'
    BY <1>7, <2>1, MotionTypes, CommandTypes DEF Park
  <2> QED
    BY <1>7, <2>1, <2>2 DEF Park, UnitTypes
<1>8. CASE ParkStop
  <2>1. UnitTypes'
    <3>1. CASE UNCHANGED unit
      BY <3>1 DEF UnitTypes
    <3>2. CASE ~UNCHANGED unit
      BY <1>8, <3>2, MotionTypes, CommandTypes DEF ParkStop, UnitTypes
    <3> QED
      BY <3>1, <3>2
  <2> QED
    BY <1>8, <2>1 DEF ParkStop, UnitTypes
<1>9. CASE ParkWait
  <2>1. UnitTypes'
    BY <1>9, WaitTypes DEF ParkWait, UnitTypes
  <2> QED
    BY <1>9, <2>1 DEF ParkWait, UnitTypes
<1>10. CASE Cleared
  <2>1. UnitTypes'
    BY <1>10, StopTypes DEF Cleared, UnitTypes
  <2> QED
    BY <1>10, <2>1 DEF Cleared, UnitTypes
<1>11. CASE Disown
  BY <1>11, ToolsAssumption DEF Disown
<1> QED
  BY <1>1, <1>2, <1>3, <1>4, <1>5, <1>6, <1>7, <1>8, <1>9, <1>10, <1>11 DEF Unloading

\* The steps of a load.
LEMMA LoadingIInv ==
  ASSUME IInv, Loading
  PROVE  IInv'
<1> USE DEF IInv, TypeOK, RecordFollowsStep
<1>1. CASE Prepare
  <2>1. CASE UNCHANGED unit
    BY <1>1, <2>1 DEF Prepare
  <2>2. CASE ~UNCHANGED unit
    <3>1. UnitTypes /\ helping \ {assist} \in SUBSET Tools
      BY DEF UnitTypes
    <3>2. DeviceOf[assist] \in Devices => motion[DeviceOf[assist]] \in Motions
      OBVIOUS
    <3>3. UnitTypes'
      BY <1>1, <2>2, <3>1, <3>2, CommandTypes DEF Prepare
    <3> QED
      BY <1>1, <3>3 DEF Prepare, UnitTypes
  <2> QED
    BY <2>1, <2>2
<1>2. CASE Inspect
  BY <1>2 DEF Inspect
<1>3. CASE Feed
  <2>1. target \in Tools /\ UnitTypes
    BY <1>3 DEF Feed, UnitTypes
  <2>2. UnitTypes'
    <3>1. CASE UNCHANGED unit
      BY <2>1, <3>1 DEF UnitTypes
    <3>2. CASE ~UNCHANGED unit
      BY <1>3, <2>1, <3>2, MotionTypes, CommandTypes, StopTypes DEF Feed
    <3> QED
      BY <3>1, <3>2
  <2> QED
    BY <1>3, <2>1, <2>2 DEF Feed, UnitTypes
<1>4. CASE FeedStop
  <2>1. UnitTypes'
    <3>1. CASE UNCHANGED unit
      BY <3>1 DEF UnitTypes
    <3>2. CASE ~UNCHANGED unit
      BY <1>4, <3>2, MotionTypes, CommandTypes DEF FeedStop, UnitTypes
    <3> QED
      BY <3>1, <3>2
  <2> QED
    BY <1>4, <2>1 DEF FeedStop, UnitTypes
<1>5. CASE FeedWait
  <2>1. UnitTypes'
    BY <1>5, WaitTypes DEF FeedWait, UnitTypes
  <2> QED
    BY <1>5, <2>1 DEF FeedWait, UnitTypes
<1>6. CASE FeedAbort
  <2>1. UnitTypes'
    BY <1>6, StopTypes DEF FeedAbort, UnitTypes
  <2> QED
    BY <1>6, <2>1 DEF FeedAbort, UnitTypes
<1>7. CASE Route
  BY <1>7 DEF Route
<1>8. CASE AssistTarget
  <2>1. target \in Tools /\ UnitTypes /\ helping \cup {target} \in SUBSET Tools
    BY <1>8 DEF AssistTarget, UnitTypes
  <2>2. DeviceOf[target] \in Devices => motion[DeviceOf[target]] \in Motions
    OBVIOUS
  <2>3. UnitTypes'
    BY <1>8, <2>1, <2>2, CommandTypes DEF AssistTarget
  <2> QED
    BY <1>8, <2>1, <2>3 DEF AssistTarget, UnitTypes
<1>9. CASE Handover
  BY <1>9 DEF Handover, Parked, AtNozzle
<1>10. CASE Undo
  <2>1. UnitTypes /\ helping \ {target} \in SUBSET Tools
    BY DEF UnitTypes
  <2>2. DeviceOf[target] \in Devices => motion[DeviceOf[target]] \in Motions
    OBVIOUS
  <2>3. UnitTypes'
    BY <1>10, <2>1, <2>2, CommandTypes DEF Undo
  <2> QED
    BY <1>10, <2>3 DEF Undo, UnitTypes
<1>11. CASE Loaded
  BY <1>11 DEF Loaded
<1>12. CASE Own
  BY <1>12, ToolsAssumption DEF Own
<1> QED
  BY <1>1, <1>2, <1>3, <1>4, <1>5, <1>6, <1>7, <1>8, <1>9, <1>10, <1>11, <1>12 DEF Loading

\* The other steps of a transaction.
LEMMA TransactionIInv ==
  ASSUME IInv, Transaction
  PROVE  IInv'
<1> USE DEF IInv, TypeOK, RecordFollowsStep
<1>1. CASE PreHook
  BY <1>1 DEF PreHook
<1>2. CASE PostHook \/ PauseOnError
  BY <1>2 DEF PostHook, PauseOnError
<1>3. CASE Manual
  <2>1. PICK a \in {"feed", "retract"} : ManualMove(a) \/ ManualWait(a) \/ ManualDone(a)
    BY <1>3 DEF Manual
  <2>2. CASE ManualMove(a)
    <3>1. target \in Tools /\ UnitTypes
      BY <2>1, <2>2 DEF ManualMove, UnitTypes
    <3>2. Moving(a, target) \in Motions
      BY <2>1, <3>1, MotionTypes
    <3>3. UnitTypes'
      <4>1. CASE UNCHANGED unit
        BY <3>1, <4>1 DEF UnitTypes
      <4>2. CASE ~UNCHANGED unit
        BY <2>2, <3>1, <3>2, <4>2, CommandTypes DEF ManualMove
      <4> QED
        BY <4>1, <4>2
    <3> QED
      BY <2>1, <2>2, <3>1, <3>3 DEF ManualMove, UnitTypes
  <2>3. CASE ManualWait(a)
    <3>1. UnitTypes'
      BY <2>3, WaitTypes DEF ManualWait, UnitTypes
    <3> QED
      BY <2>1, <2>3, <3>1 DEF ManualWait, UnitTypes
  <2>4. CASE ManualDone(a)
    <3>1. target \in Tools
      BY <2>1, <2>4 DEF ManualDone
    <3>2. UnitTypes'
      BY <2>4, StopTypes DEF ManualDone, UnitTypes
    <3>3. /\ path' \in PathStates /\ owner' \in Tools \cup {NoTool}
          /\ path' = "empty" => owner' = NoTool
          /\ path' = "nozzle" => owner' # NoTool
          /\ UNCHANGED assist
      BY <2>4, <3>1, ToolsAssumption DEF ManualDone
    <3> QED
      BY <2>1, <2>4, <3>1, <3>2, <3>3 DEF ManualDone, UnitTypes
  <2> QED
    BY <2>1, <2>2, <2>3, <2>4
<1>4. CASE AssistOn
  <2>1. target \in Tools /\ UnitTypes /\ helping \cup {target} \in SUBSET Tools
    BY <1>4 DEF AssistOn, UnitTypes
  <2>2. DeviceOf[target] \in Devices => motion[DeviceOf[target]] \in Motions
    OBVIOUS
  <2>3. UnitTypes'
    BY <1>4, <2>1, <2>2, CommandTypes DEF AssistOn
  <2> QED
    BY <1>4, <2>1, <2>3 DEF AssistOn, UnitTypes
<1> QED
  BY <1>1, <1>2, <1>3, <1>4, UnloadingIInv, LoadingIInv DEF Transaction

\* The commands that start a transaction or are one.
LEMMA CommandIInv ==
  ASSUME IInv, Command
  PROVE  IInv'
<1> USE DEF IInv, TypeOK, RecordFollowsStep
<1>1. CASE UnloadBegin
  BY <1>1 DEF UnloadBegin
<1>2. ASSUME NEW t \in Tools, ChangeBegin(t)
      PROVE  IInv'
  BY <1>2 DEF ChangeBegin
<1>3. ASSUME NEW t \in Tools, AssistBegin(t)
      PROVE  IInv'
  <2>1. CASE UNCHANGED unit
    BY <1>3, <2>1 DEF AssistBegin
  <2>2. CASE ~UNCHANGED unit
    <3>1. UnitTypes /\ helping \ {assist} \in SUBSET Tools
      BY DEF UnitTypes
    <3>2. DeviceOf[assist] \in Devices => motion[DeviceOf[assist]] \in Motions
      OBVIOUS
    <3>3. UnitTypes'
      BY <1>3, <2>2, <3>1, <3>2, CommandTypes DEF AssistBegin
    <3> QED
      BY <1>3, <3>3 DEF AssistBegin, UnitTypes
  <2> QED
    BY <2>1, <2>2
<1>4. ASSUME NEW t \in Tools, AssistOff(t)
      PROVE  IInv'
  <2>1. UnitTypes /\ helping \ {t} \in SUBSET Tools
    BY DEF UnitTypes
  <2>2. DeviceOf[t] \in Devices => motion[DeviceOf[t]] \in Motions
    OBVIOUS
  <2>3. UnitTypes'
    BY <1>4, <2>1, <2>2, CommandTypes DEF AssistOff
  <2> QED
    BY <1>4, <2>3 DEF AssistOff, UnitTypes
<1>5. ASSUME NEW t \in Tools, NEW a \in {"feed", "retract"}, ManualBegin(a, t)
      PROVE  IInv'
  BY <1>5 DEF ManualBegin
<1>6. ASSUME NEW ds \in ReconnectTargets, Reconnect(ds)
      PROVE  IInv'
  <2>1. connected' \in [Devices -> BOOLEAN] /\ uncertain' \in [Devices -> BOOLEAN]
    BY <1>6 DEF Reconnect
  <2>2. path' \in PathStates /\ owner' \in Tools \cup {NoTool} /\ assist' = assist
    BY <1>6 DEF Reconnect, Reconcile
  <2>3. /\ path' = "empty" => owner' = NoTool
        /\ path' = "nozzle" => owner' # NoTool
    BY <1>6 DEF Reconnect, Reconcile
  <2> QED
    BY <1>6, <2>1, <2>2, <2>3 DEF Reconnect
<1>7. ASSUME NEW d \in Devices, Dry(d)
      PROVE  IInv'
  <2>1. UnitTypes /\ helping \in SUBSET Tools
    BY DEF UnitTypes
  <2>2. UnitTypes'
    BY <1>7, <2>1, CommandTypes DEF Dry
  <2> QED
    BY <1>7, <2>2 DEF Dry, UnitTypes
<1> QED
  BY <1>1, <1>2, <1>3, <1>4, <1>5, <1>6, <1>7 DEF Command

\* What happens outside the transactions.
LEMMA EnvironmentIInv ==
  ASSUME IInv, Environment
  PROVE  IInv'
<1> USE DEF IInv, TypeOK, RecordFollowsStep
<1>1. ASSUME NEW d \in Devices, Poll(d)
      PROVE  IInv'
  BY <1>1 DEF Poll
<1>2. ASSUME NEW d \in Devices, MotorStep(d)
      PROVE  IInv'
  <2>1. motion[d].dir # "still" => motion[d].tool \in Tools
    BY DEF Motions, Still
  <2>2. pos' \in [Tools -> Parked..AtNozzle]
    BY <1>2, <2>1 DEF MotorStep, Parked, AtNozzle
  <2> QED
    BY <1>2, <2>2 DEF MotorStep
<1>3. ASSUME NEW d \in Devices, MotorDone(d)
      PROVE  IInv'
  BY <1>3, MotionTypes DEF MotorDone
<1>4. ASSUME NEW t \in Tools, PullOut(t)
      PROVE  IInv'
  BY <1>4 DEF PullOut, Parked, AtNozzle
<1>5. CASE Restart
  <2>1. connected' \in [Devices -> BOOLEAN] /\ uncertain' \in [Devices -> BOOLEAN]
    BY <1>5 DEF Restart
  <2>2. path' \in PathStates /\ owner' \in Tools \cup {NoTool} /\ assist' = NoTool
    BY <1>5 DEF Restart, Reconcile
  <2>3. /\ path' = "empty" => owner' = NoTool
        /\ path' = "nozzle" => owner' # NoTool
    BY <1>5 DEF Restart, Reconcile
  <2> QED
    BY <1>5, <2>1, <2>2, <2>3 DEF Restart
<1> QED
  BY <1>1, <1>2, <1>3, <1>4, <1>5 DEF Environment

\* IInv is inductive.
LEMMA NextIInv ==
  ASSUME IInv, [Next]_vars
  PROVE  IInv'
<1>1. CASE UNCHANGED vars
  BY <1>1 DEF vars, IInv, TypeOK, RecordFollowsStep
<1> QED
  BY <1>1, TransactionIInv, CommandIInv, EnvironmentIInv DEF Next

\* Every reachable state is of the declared types, and inside a transaction the
\* record follows the step (change_tool, _unload_tool, _load_tool, feed, retract).
THEOREM Invariance == Spec => []IInv
BY InitIInv, NextIInv, PTL DEF Spec

THEOREM TypeCorrect == Spec => []TypeOK
BY Invariance, PTL DEF IInv

THEOREM RecordIsKept == Spec => []RecordFollowsStep
BY Invariance, PTL DEF IInv

-----------------------------------------------------------------------------
(***************************************************************************)
(* What a single step may do to the units.                                 *)
(***************************************************************************)
\* A unit's motion changes only to the one it was commanded.
LEMMA CommandedMotion ==
  ASSUME TypeOK, NEW d, NEW m, NEW h, Accepted(d, m, h) \/ Failed(d, m, h),
         NEW e \in Devices
  PROVE  motion'[e] = motion[e] \/ (e = d /\ motion'[e] = m)
BY DEF TypeOK, Accepted, Failed, Refused, Rejected, Lost, Takes

\* So a stop leaves a unit as it is or still.
LEMMA StopMotion ==
  ASSUME TypeOK, NEW d, BestEffortStop(d), NEW e \in Devices
  PROVE  motion'[e] \in {motion[e], Still}
BY CommandedMotion DEF BestEffortStop

NewFeed(e) == motion'[e].dir = "feed" /\ motion'[e] # motion[e]

\* Only two steps command a feed: a window of the search and a manual feed.
LEMMA FeedingSteps ==
  ASSUME IInv, Next, NEW e \in Devices, NewFeed(e)
  PROVE  \/ Feed /\ motion'[e] = Moving("feed", target)
         \/ ManualMove("feed") /\ motion'[e] = Moving("feed", target)
<1> USE DEF NewFeed
<1>0. TypeOK /\ Still.dir = "still" /\ \A t : Moving("retract", t).dir = "retract"
  BY DEF IInv, Still, Moving
<1>1. CASE Unloading
  <2>1. CASE UNCHANGED motion
    BY <2>1
  <2>2. CASE RetractStep \/ Park
    BY <1>0, <2>2, CommandedMotion DEF RetractStep, Park
  <2>3. CASE (ParkStop \/ Cleared \/ Pull) /\ ~UNCHANGED motion
    BY <1>0, <2>3, CommandedMotion, StopMotion DEF ParkStop, Cleared, Pull
  <2>4. CASE Release /\ ~UNCHANGED motion
    BY <1>0, <2>4, CommandedMotion DEF Release
  <2> QED
    BY <1>1, <2>1, <2>2, <2>3, <2>4
       DEF Unloading, Verify, Cut, RetractWait, WaitDone, WaitFailed, ParkWait, Disown
<1>2. CASE Loading
  <2>1. CASE UNCHANGED motion
    BY <2>1
  <2>2. CASE Feed /\ ~UNCHANGED motion
    BY <1>0, <2>2, CommandedMotion, StopMotion DEF Feed
  <2>3. CASE (FeedStop \/ FeedAbort) /\ ~UNCHANGED motion
    BY <1>0, <2>3, CommandedMotion, StopMotion DEF FeedStop, FeedAbort
  <2>4. CASE (Prepare \/ AssistTarget \/ Undo) /\ ~UNCHANGED motion
    BY <1>0, <2>4, CommandedMotion DEF Prepare, AssistTarget, Undo
  <2> QED
    BY <1>2, <2>1, <2>2, <2>3, <2>4
       DEF Loading, Inspect, FeedWait, WaitDone, WaitFailed, Route, Handover, Loaded, Own
<1>3. CASE Manual
  <2>1. PICK a \in {"feed", "retract"} : ManualMove(a) \/ ManualWait(a) \/ ManualDone(a)
    BY <1>3 DEF Manual
  <2>2. CASE ManualMove(a) /\ ~UNCHANGED motion
    BY <1>0, <2>1, <2>2, CommandedMotion DEF ManualMove
  <2>3. CASE ManualDone(a) /\ ~UNCHANGED motion
    BY <1>0, <2>3, StopMotion DEF ManualDone
  <2> QED
    BY <2>1, <2>2, <2>3 DEF ManualWait, WaitDone, WaitFailed
<1>4. CASE AssistOn
  BY <1>0, <1>4, CommandedMotion DEF AssistOn
<1>5. CASE PreHook \/ PostHook \/ PauseOnError
  BY <1>5 DEF PreHook, PostHook, PauseOnError
<1>6. CASE Command
  <2>1. ASSUME NEW t \in Tools, AssistBegin(t), ~UNCHANGED motion
        PROVE  FALSE
    BY <1>0, <2>1, CommandedMotion DEF AssistBegin
  <2>2. ASSUME NEW t \in Tools, AssistOff(t)
        PROVE  FALSE
    BY <1>0, <2>2, CommandedMotion DEF AssistOff
  <2>3. ASSUME NEW f \in Devices, Dry(f)
        PROVE  FALSE
    BY <1>0, <2>3, CommandedMotion DEF Dry
  <2> QED
    BY <1>6, <2>1, <2>2, <2>3 DEF Command, UnloadBegin, ChangeBegin, ManualBegin, Reconnect
<1>7. CASE Environment
  <2>1. ASSUME NEW d \in Devices, MotorDone(d)
        PROVE  FALSE
    BY <1>0, <2>1 DEF MotorDone, TypeOK
  <2> QED
    BY <1>7, <2>1 DEF Environment, Poll, MotorStep, PullOut, Restart
<1> QED
  BY <1>1, <1>2, <1>3, <1>4, <1>5, <1>6, <1>7 DEF Next, Transaction

\* change_tool and feed command a feed only where no other tool owns the path.
THEOREM FeedsAreUncontested == Spec => FedToolIsUncontested
<1>1. ASSUME IInv, [Next]_vars, NEW e \in Devices, NewFeed(e)
      PROVE  \/ path = "changing" /\ owner = NoTool
             \/ step = "feed_move" /\ owner \in {NoTool, motion'[e].tool}
  <2>1. Next
    BY <1>1 DEF vars, NewFeed
  <2>2. CASE Feed
    BY <1>1, <2>2 DEF Feed, IInv, RecordFollowsStep
  <2>3. CASE ManualMove("feed") /\ motion'[e] = Moving("feed", target)
    BY <1>1, <2>3 DEF ManualMove, IInv, RecordFollowsStep, Moving
  <2> QED
    BY <1>1, <2>1, <2>2, <2>3, FeedingSteps
<1>2. IInv /\ [Next]_vars =>
        \A d \in Devices :
          motion'[d].dir = "feed" /\ motion'[d] # motion[d]
            => \/ path = "changing" /\ owner = NoTool
               \/ step = "feed_move" /\ owner \in {NoTool, motion'[d].tool}
  BY <1>1 DEF NewFeed
<1> QED
  BY <1>2, Invariance, PTL DEF Spec, FedToolIsUncontested

-----------------------------------------------------------------------------
(***************************************************************************)
(* A unit with an unresolved physical action.                              *)
(***************************************************************************)
AssistKept(e) == \A t \in Tools : DeviceOf[t] = e => (t \in helping) = (t \in helping')

LeftAlone(e) ==
  /\ motion'[e] \in {motion[e], Still}
  /\ AssistKept(e)
  /\ uncertain'[e]

\* A command for the slot x reaches only x's unit, and only when that unit is
\* not uncertain.
LEMMA UncertainRefuses ==
  ASSUME TypeOK, NEW x, NEW m, NEW h,
         h \in {helping, helping \ {x}, helping \cup {x}},
         Accepted(DeviceOf[x], m, h) \/ Failed(DeviceOf[x], m, h),
         NEW e \in Devices, uncertain[e]
  PROVE  LeftAlone(e)
<1> DEFINE d == DeviceOf[x]
<1>1. CASE Refused(d)
  BY <1>1 DEF Refused, LeftAlone, AssistKept
<1>2. CASE ~Refused(d)
  <2>1. MayCommand(d) /\ e # d
    BY <1>2 DEF Accepted, Failed, Rejected, Lost, MayCommand
  <2>2. motion'[e] = motion[e]
    BY <2>1, CommandedMotion
  <2>3. AssistKept(e)
    BY <2>1 DEF Accepted, Failed, Refused, Rejected, Lost, Takes, AssistKept
  <2>4. uncertain'[e]
    BY <2>1 DEF Accepted, Failed, Refused, Rejected, Lost, TypeOK
  <2> QED
    BY <2>2, <2>3, <2>4 DEF LeftAlone
<1> QED
  BY <1>1, <1>2

LEMMA UncertainStop ==
  ASSUME TypeOK, NEW x, BestEffortStop(DeviceOf[x]), NEW e \in Devices, uncertain[e]
  PROVE  LeftAlone(e)
BY UncertainRefuses DEF BestEffortStop

LEMMA UncertainWait ==
  ASSUME TypeOK, NEW d, WaitDone(d) \/ WaitFailed(d), NEW e \in Devices, uncertain[e]
  PROVE  LeftAlone(e)
BY DEF TypeOK, WaitDone, WaitFailed, LeftAlone, AssistKept

LEMMA UncertainUnchanged ==
  ASSUME UNCHANGED <<uncertain, motion, helping>>, NEW e \in Devices, uncertain[e]
  PROVE  LeftAlone(e)
BY DEF LeftAlone, AssistKept

\* A transaction's steps leave an uncertain unit alone.
LEMMA UncertainTransaction ==
  ASSUME TypeOK, Transaction, NEW e \in Devices, uncertain[e]
  PROVE  LeftAlone(e)
<1>1. CASE Unloading
  <2>1. CASE UNCHANGED unit
    BY <2>1, UncertainUnchanged
  <2>2. CASE (Release \/ RetractStep \/ Park \/ ParkStop) /\ ~UNCHANGED unit
    BY <2>2, UncertainRefuses DEF Release, RetractStep, Park, ParkStop
  <2>3. CASE (Pull \/ Cleared) /\ ~UNCHANGED unit
    BY <2>3, UncertainStop DEF Pull, Cleared
  <2>4. CASE RetractWait \/ ParkWait
    BY <2>4, UncertainWait DEF RetractWait, ParkWait
  <2> QED
    BY <1>1, <2>1, <2>2, <2>3, <2>4 DEF Unloading, Verify, Cut, Disown
<1>2. CASE Loading
  <2>1. CASE UNCHANGED unit
    BY <2>1, UncertainUnchanged
  <2>2. CASE (Prepare \/ FeedStop \/ AssistTarget \/ Undo) /\ ~UNCHANGED unit
    BY <2>2, UncertainRefuses DEF Prepare, FeedStop, AssistTarget, Undo
  <2>3. CASE (Feed \/ FeedAbort) /\ ~UNCHANGED unit
    BY <2>3, UncertainRefuses, UncertainStop DEF Feed, FeedAbort
  <2>4. CASE FeedWait
    BY <2>4, UncertainWait DEF FeedWait
  <2> QED
    BY <1>2, <2>1, <2>2, <2>3, <2>4 DEF Loading, Inspect, Route, Handover, Loaded, Own
<1>3. CASE Manual
  <2>1. PICK a \in {"feed", "retract"} : ManualMove(a) \/ ManualWait(a) \/ ManualDone(a)
    BY <1>3 DEF Manual
  <2>2. CASE UNCHANGED unit
    BY <2>2, UncertainUnchanged
  <2>3. CASE ~UNCHANGED unit
    BY <2>1, <2>3, UncertainRefuses, UncertainWait, UncertainStop
       DEF ManualMove, ManualWait, ManualDone
  <2> QED
    BY <2>2, <2>3
<1>4. CASE AssistOn
  BY <1>4, UncertainRefuses DEF AssistOn
<1>5. CASE PreHook \/ PostHook \/ PauseOnError
  BY <1>5, UncertainUnchanged DEF PreHook, PostHook, PauseOnError
<1> QED
  BY <1>1, <1>2, <1>3, <1>4, <1>5 DEF Transaction

\* Of everything else only ACE_RECONNECT, ending with the path reconciled, and a
\* restart lift the uncertainty.
LEMMA UncertainOtherwise ==
  ASSUME TypeOK, Command \/ Environment, NEW e \in Devices, uncertain[e]
  PROVE  /\ motion'[e] \in {motion[e], Still}
         /\ AssistKept(e)
         /\ ~uncertain'[e] => Restart \/ path' \in {"empty", "nozzle"}
<1>1. CASE UNCHANGED <<uncertain, motion, helping>>
  BY <1>1 DEF AssistKept
<1>2. ASSUME NEW t \in Tools, AssistBegin(t), ~UNCHANGED unit
      PROVE  LeftAlone(e)
  BY <1>2, UncertainRefuses DEF AssistBegin
<1>3. ASSUME NEW t \in Tools, AssistOff(t)
      PROVE  LeftAlone(e)
  BY <1>3, UncertainRefuses DEF AssistOff
<1>4. ASSUME NEW ds \in ReconnectTargets, Reconnect(ds)
      PROVE  /\ UNCHANGED <<motion, helping>>
             /\ ~uncertain'[e] => path' \in {"empty", "nozzle"}
  BY <1>4 DEF Reconnect, Reconcile, TypeOK
<1>5. ASSUME NEW d \in Devices, MotorDone(d)
      PROVE  motion'[e] \in {motion[e], Still} /\ UNCHANGED <<uncertain, helping>>
  BY <1>5 DEF MotorDone, TypeOK
<1>6. CASE Restart
  BY <1>6 DEF Restart, AssistKept
<1>7. ASSUME NEW d \in Devices, Dry(d)
      PROVE  LeftAlone(e)
  <2>1. motion'[e] = motion[e] /\ helping' = helping
    <3>1. motion' = [motion EXCEPT ![d] = motion[d]] \/ motion' = motion
      BY <1>7 DEF Dry, Accepted, Failed, Refused, Rejected, Lost, Takes
    <3>2. helping' = helping
      BY <1>7 DEF Dry, Accepted, Failed, Refused, Rejected, Lost, Takes
    <3> QED
      BY <3>1, <3>2 DEF TypeOK
  <2>2. uncertain'[e]
    BY <1>7 DEF Dry, Accepted, Failed, Refused, Rejected, Lost, TypeOK
  <2> QED
    BY <2>1, <2>2 DEF LeftAlone, AssistKept
<1> QED
  BY <1>1, <1>2, <1>3, <1>4, <1>5, <1>6, <1>7
     DEF Command, Environment, UnloadBegin, ChangeBegin, ManualBegin,
         Poll, MotorStep, PullOut, LeftAlone, AssistKept

\* AceDevice._assert_physical and reconnect: no step but a recovery touches a
\* unit whose last physical action is unresolved.
THEOREM UncertaintyHolds == Spec => UncertaintyIsHeld
<1>1. ASSUME IInv, [Next]_vars, NEW d \in Devices, uncertain[d]
      PROVE  /\ motion'[d] \in {motion[d], Still}
             /\ \A t \in Tools : DeviceOf[t] = d => (t \in helping) = (t \in helping')
             /\ ~uncertain'[d] => Restart \/ path' \in {"empty", "nozzle"}
  <2>1. CASE UNCHANGED vars
    BY <1>1, <2>1 DEF vars
  <2>2. CASE Transaction
    BY <1>1, <2>2, UncertainTransaction DEF IInv, LeftAlone, AssistKept
  <2>3. CASE Command \/ Environment
    BY <1>1, <2>3, UncertainOtherwise DEF IInv, AssistKept
  <2> QED
    BY <1>1, <2>1, <2>2, <2>3 DEF Next
<1>2. IInv /\ [Next]_vars =>
        \A d \in Devices : uncertain[d] =>
          /\ motion'[d] \in {motion[d], Still}
          /\ \A t \in Tools : DeviceOf[t] = d => (t \in helping) = (t \in helping')
          /\ ~uncertain'[d] => Restart \/ path' \in {"empty", "nozzle"}
  BY <1>1
<1> QED
  BY <1>2, Invariance, PTL DEF Spec, UncertaintyIsHeld

-----------------------------------------------------------------------------
(***************************************************************************)
(* AssistsInTurn: from the moment a change has disabled the assisted slot  *)
(* until it enables its own, and while an enable by hand waits, no slot is *)
(* on record as assisting.                                                 *)
(***************************************************************************)
DisabledSteps == {"inspect", "feed", "feed_stop", "feed_wait", "feed_abort",
                  "route", "assist", "assist_on"}

DisabledFirst == step \in DisabledSteps => assist = NoTool

\* A command leaves the slots assisted as it asks, or as they were.
LEMMA CommandAssists ==
  ASSUME NEW d, NEW m, NEW h, Accepted(d, m, h) \/ Failed(d, m, h)
  PROVE  helping' \in {h, helping}
BY DEF Accepted, Failed, Refused, Rejected, Lost, Takes, unit

LEMMA StopAssists ==
  ASSUME NEW d, BestEffortStop(d)
  PROVE  helping' = helping
BY CommandAssists DEF BestEffortStop

LEMMA WaitAssists ==
  ASSUME NEW d, WaitDone(d) \/ WaitFailed(d)
  PROVE  helping' = helping
BY DEF WaitDone, WaitFailed

\* A transaction adds an assisted slot at two steps only.
LEMMA TransactionAssists ==
  ASSUME Transaction
  PROVE  helping' \subseteq helping \/ AssistTarget \/ AssistOn
<1>1. CASE Unloading
  <2>1. CASE Release
    BY <2>1, CommandAssists DEF Release, unit
  <2>2. CASE RetractStep \/ Park \/ ParkStop
    BY <2>2, CommandAssists DEF RetractStep, Park, ParkStop, unit
  <2>3. CASE Pull \/ Cleared
    BY <2>3, StopAssists DEF Pull, Cleared, unit
  <2>4. CASE RetractWait \/ ParkWait
    BY <2>4, WaitAssists DEF RetractWait, ParkWait
  <2> QED
    BY <1>1, <2>1, <2>2, <2>3, <2>4 DEF Unloading, Verify, Cut, Disown, unit
<1>2. CASE Loading
  <2>1. CASE Prepare \/ Undo
    BY <2>1, CommandAssists DEF Prepare, Undo, unit
  <2>2. CASE Feed \/ FeedStop \/ FeedAbort
    BY <2>2, CommandAssists, StopAssists DEF Feed, FeedStop, FeedAbort, unit
  <2>3. CASE FeedWait
    BY <2>3, WaitAssists DEF FeedWait
  <2> QED
    BY <1>2, <2>1, <2>2, <2>3 DEF Loading, Inspect, Route, Handover, Loaded, Own, unit
<1>3. CASE Manual
  BY <1>3, CommandAssists, WaitAssists, StopAssists
     DEF Manual, ManualMove, ManualWait, ManualDone, unit
<1>4. CASE PreHook \/ PostHook \/ PauseOnError
  BY <1>4 DEF PreHook, PostHook, PauseOnError, unit
<1> QED
  BY <1>1, <1>2, <1>3, <1>4 DEF Transaction

LEMMA OtherAssists ==
  ASSUME Command \/ Environment
  PROVE  helping' \subseteq helping
<1>1. ASSUME NEW t \in Tools, AssistBegin(t) \/ AssistOff(t)
      PROVE  helping' \subseteq helping
  BY <1>1, CommandAssists DEF AssistBegin, AssistOff, unit
<1>2. ASSUME NEW d \in Devices, Dry(d)
      PROVE  helping' \subseteq helping
  BY <1>2, CommandAssists DEF Dry
<1>3. CASE Environment
  BY <1>3 DEF Environment, Poll, MotorStep, MotorDone, PullOut, Restart, unit
<1> QED
  BY <1>1, <1>2, <1>3
     DEF Command, UnloadBegin, ChangeBegin, ManualBegin, Reconnect, unit

LEMMA DisabledFirstInit == Init => DisabledFirst
BY DEF Init, DisabledFirst

\* The record of the assisted slot changes only where a step ends up outside
\* DisabledSteps, or to none.
LEMMA DisabledFirstUnloading ==
  ASSUME Unloading
  PROVE  step' \notin DisabledSteps
BY DEF Unloading, Release, Verify, Cut, Pull, RetractStep, RetractWait, Park, ParkStop,
       ParkWait, Cleared, Disown, Abandon, Goto, GotoCounting, DisabledSteps

LEMMA DisabledFirstLoading ==
  ASSUME DisabledFirst, Loading
  PROVE  DisabledFirst'
<1>1. CASE Prepare
  BY <1>1 DEF Prepare, Keep, claim, Goto, DisabledFirst, DisabledSteps
<1>2. CASE AssistTarget \/ Undo \/ Handover \/ Loaded \/ Own
  BY <1>2 DEF AssistTarget, Undo, Handover, Loaded, Own, Goto, DisabledFirst, DisabledSteps
<1>3. CASE Inspect \/ Feed \/ FeedStop \/ FeedWait \/ FeedAbort \/ Route
  <2>1. step \in DisabledSteps /\ assist' = assist
    BY <1>3 DEF Inspect, Feed, FeedStop, FeedWait, FeedAbort, Route, Abandon, LosePath,
                Keep, claim, DisabledSteps
  <2> QED
    BY <2>1 DEF DisabledFirst
<1> QED
  BY <1>1, <1>2, <1>3 DEF Loading

LEMMA DisabledFirstNext ==
  ASSUME DisabledFirst, [Next]_vars
  PROVE  DisabledFirst'
<1>1. CASE Unloading
  BY <1>1, DisabledFirstUnloading DEF DisabledFirst
<1>2. CASE Loading
  BY <1>2, DisabledFirstLoading
<1>3. CASE PreHook \/ PostHook \/ PauseOnError \/ AssistOn
  BY <1>3 DEF PreHook, PostHook, PauseOnError, AssistOn, Finish, Begin, Goto,
              DisabledFirst, DisabledSteps
<1>4. CASE Manual
  BY <1>4 DEF Manual, ManualMove, ManualWait, ManualDone, Finish, Begin, Goto,
              WaitStep, DoneStep, DisabledFirst, DisabledSteps
<1>5. ASSUME NEW t \in Tools, AssistBegin(t)
      PROVE  DisabledFirst'
  BY <1>5 DEF AssistBegin, Keep, claim, Begin, ctl, DisabledFirst, DisabledSteps
<1>6. CASE UNCHANGED <<step, assist>>
  BY <1>6 DEF DisabledFirst
<1>7. CASE UnloadBegin \/ (\E t \in Tools : ChangeBegin(t)) \/ Restart
  BY <1>7 DEF UnloadBegin, ChangeBegin, Restart, Finish, Begin, DisabledFirst, DisabledSteps
<1>8. ASSUME NEW t \in Tools, AssistOff(t)
      PROVE  DisabledFirst'
  BY <1>8 DEF AssistOff, ctl, DisabledFirst, DisabledSteps
<1>9. ASSUME NEW t \in Tools, NEW a \in {"feed", "retract"}, ManualBegin(a, t)
      PROVE  DisabledFirst'
  BY <1>9 DEF ManualBegin, Begin, MoveStep, DisabledFirst, DisabledSteps
<1>10. ASSUME NEW ds \in ReconnectTargets, Reconnect(ds)
       PROVE  UNCHANGED <<step, assist>>
  BY <1>10 DEF Reconnect, Keep, claim, ctl
<1>11. ASSUME NEW d \in Devices, Dry(d) \/ Poll(d) \/ MotorStep(d) \/ MotorDone(d)
       PROVE  UNCHANGED <<step, assist>>
  BY <1>11 DEF Dry, Poll, MotorStep, MotorDone, Keep, claim, ctl
<1>12. ASSUME NEW t \in Tools, PullOut(t)
       PROVE  UNCHANGED <<step, assist>>
  BY <1>12 DEF PullOut, claim, ctl
<1>13. CASE UNCHANGED vars
  BY <1>13 DEF vars, DisabledFirst
<1>14. CASE Command
  BY <1>14, <1>5, <1>6, <1>7, <1>8, <1>9, <1>10, <1>11 DEF Command
<1>15. CASE Environment
  BY <1>15, <1>6, <1>7, <1>11, <1>12 DEF Environment
<1> QED
  BY <1>1, <1>2, <1>3, <1>4, <1>13, <1>14, <1>15 DEF Next, Transaction

\* A slot is made to assist only when none is on record as assisting.
THEOREM AssistsAreInTurn == Spec => AssistsInTurn
<1>1. ASSUME DisabledFirst, [Next]_vars
      PROVE  [\A t \in helping' \ helping : assist = NoTool /\ target = t]_vars
  <2>1. CASE AssistTarget \/ AssistOn
    <3>1. helping' \in {helping \cup {target}, helping} /\ assist = NoTool
      BY <1>1, <2>1, CommandAssists
         DEF AssistTarget, AssistOn, DisabledFirst, DisabledSteps
    <3> QED
      BY <3>1
  <2>2. CASE UNCHANGED vars
    BY <2>2
  <2> QED
    BY <1>1, <2>1, <2>2, TransactionAssists, OtherAssists DEF Next
<1> QED
  BY <1>1, DisabledFirstInit, DisabledFirstNext, PTL DEF Spec, AssistsInTurn

-----------------------------------------------------------------------------
(***************************************************************************)
(* What the driver believes of the shared path is true, and one motor at a *)
(* time moves filament.                                                    *)
(*                                                                         *)
(* Three assumptions delimit the claim: the total-hub sensor is installed, *)
(* ACE_RECONNECT is used for all units at once, and Klipper is not         *)
(* restarted while a motor runs.  The inductive invariant is IInv with     *)
(* PathInv: the driver never reads a sensor to decide what the path holds  *)
(* while a motor it has lost track of could still change the answer.       *)
(***************************************************************************)
USE DEF PathStates, Steps, UnloadSteps, LoadSteps, HandoverSteps, ManualSteps,
        MoveStep, WaitStep, DoneStep, Goto, GotoCounting, Begin, Finish, Keep,
        LosePath, Abandon, claim, ctl, link, unit,
        UnloadMoving, LoadMoving, ManualMoving, ManualMoved

Watched == HubSensor /\ ~SingleReconnect /\ Restarts # "prompt"

Inv == IInv /\ PathInv

Calm == \A d \in Devices : motion[d] = Still

Slower == \A d \in Devices : motion'[d] \in {motion[d], Still}

-----------------------------------------------------------------------------
(***************************************************************************)
(* Motors.                                                                 *)
(***************************************************************************)
\* Where no step waits for a motor and the path is not unknown, none runs.
LEMMA CalmSteps ==
  ASSUME MotionInv, path # "unknown",
         step \notin UnloadMoving \cup LoadMoving \cup ManualMoving
  PROVE  Calm
BY DEF MotionInv, Calm

\* A transaction that still owns its outcome runs with the path not unknown.
LEMMA KnownInTransaction ==
  ASSUME MotionInv, step \notin {"idle", "pause", "assist_on"}
  PROVE  path # "unknown"
BY DEF MotionInv

\* Once the awaited unit reports ready, no motor runs.
LEMMA WaitCalms ==
  ASSUME MotionInv, NEW x, step \in UnloadMoving => x = old,
         step \in LoadMoving \cup ManualMoving => x = target,
         step \in UnloadMoving \cup LoadMoving \cup ManualMoving,
         motion[DeviceOf[x]] = Still
  PROVE  Calm
BY DEF MotionInv, Calm

\* Steps that only slow motors down keep MotionInv when they keep its accounts.
LEMMA SlowerKeeps ==
  ASSUME MotionInv, TypeOK, Slower,
         path' = "unknown" => step' \in {"idle", "pause", "assist_on"},
         \A d \in Devices : motion'[d] # Still =>
           /\ owner' \in {NoTool, motion[d].tool}
           /\ path' # "unknown" => \/ step' \in UnloadMoving /\ motion[d].tool = old'
                                   \/ step' \in LoadMoving \cup ManualMoving
                                      /\ motion[d].tool = target'
  PROVE  MotionInv'
<1>1. \A d \in Devices : motion'[d] # Still => motion[d] # Still /\ motion'[d] = motion[d]
  BY DEF Slower
<1> QED
  BY <1>1 DEF MotionInv, OneMover

\* A motion commanded while no motor runs is the only one.
LEMMA StartKeeps ==
  ASSUME TypeOK, Calm, NEW t \in Tools, NEW a \in {"feed", "retract"}, NEW h,
         Accepted(DeviceOf[t], Moving(a, t), h) \/ Failed(DeviceOf[t], Moving(a, t), h),
         owner' \in {NoTool, t},
         path' = "unknown" => step' \in {"idle", "pause", "assist_on"},
         path' # "unknown" => \/ step' \in UnloadMoving /\ t = old'
                              \/ step' \in LoadMoving \cup ManualMoving /\ t = target'
                              \/ motion' = motion
  PROVE  MotionInv'
<1>1. DeviceOf[t] \in Devices
  BY ToolsAssumption
<1>2. \A e \in Devices : motion'[e] # Still =>
        e = DeviceOf[t] /\ motion'[e] = Moving(a, t) /\ motion' # motion
  BY <1>1, CommandedMotion DEF Calm
<1>3. Moving(a, t).tool = t
  BY DEF Moving
<1> QED
  BY <1>1, <1>2, <1>3 DEF MotionInv, OneMover

\* A command that does not set a motor going only slows motors down.
LEMMA CommandSlows ==
  ASSUME TypeOK, NEW d, NEW m, NEW h, m \in {motion[d], Still},
         Accepted(d, m, h) \/ Failed(d, m, h)
  PROVE  Slower
BY CommandedMotion DEF Slower

LEMMA StopSlows ==
  ASSUME TypeOK, NEW d, BestEffortStop(d)
  PROVE  Slower
BY StopMotion DEF Slower

\* The unload's steps.
LEMMA UnloadingMotion ==
  ASSUME Inv, Unloading
  PROVE  MotionInv'
<1> USE DEF Inv, IInv, RecordFollowsStep, PathInv
<1>0. /\ TypeOK /\ MotionInv /\ old \in Tools /\ owner = old /\ path # "unknown"
      /\ step \notin UnloadMoving => Calm
  <2>1. step \in UnloadSteps
    BY DEF Unloading, Release, Verify, Cut, Pull, RetractStep, RetractWait, Park,
           ParkStop, ParkWait, Cleared, Disown
  <2> QED
    BY <2>1, KnownInTransaction, CalmSteps
<1>1. CASE Verify \/ Cut \/ Disown \/ (Pull /\ UNCHANGED unit)
  <2>1. Calm /\ Slower
    BY <1>0, <1>1 DEF Verify, Cut, Disown, Pull, Slower
  <2> QED
    BY <1>0, <1>1, <2>1, SlowerKeeps DEF Calm, Slower, Verify, Cut, Disown, Pull
<1>2. CASE Release
  <2>1. Calm /\ Slower
    <3>1. CASE UNCHANGED unit
      BY <1>0, <1>2, <3>1 DEF Release, Slower
    <3>2. CASE ~UNCHANGED unit
      BY <1>0, <1>2, <3>2, CommandSlows DEF Release
    <3> QED
      BY <3>1, <3>2
  <2> QED
    BY <1>0, <1>2, <2>1, SlowerKeeps DEF Calm, Slower, Release
<1>3. CASE (Pull \/ Cleared) /\ ~UNCHANGED unit
  <2>1. Calm /\ Slower
    BY <1>0, <1>3, StopSlows DEF Pull, Cleared
  <2> QED
    BY <1>0, <1>3, <2>1, SlowerKeeps DEF Calm, Slower, Pull, Cleared
<1>4. CASE Cleared /\ UNCHANGED unit
  <2>1. Calm /\ Slower
    BY <1>0, <1>4 DEF Cleared, Slower
  <2> QED
    BY <1>0, <1>4, <2>1, SlowerKeeps DEF Calm, Slower, Cleared
<1>5. CASE RetractStep
  <2>1. Calm
    BY <1>0, <1>5 DEF RetractStep
  <2>2. step' \in UnloadMoving \/ (path' = "unknown" /\ step' = "pause")
    BY <1>5 DEF RetractStep
  <2> QED
    BY <1>0, <1>5, <2>1, <2>2, StartKeeps DEF RetractStep
<1>6. CASE Park
  <2>1. Calm
    BY <1>0, <1>6 DEF Park
  <2>2. step' \in UnloadMoving \/ (path' = "unknown" /\ step' = "pause")
    BY <1>6 DEF Park
  <2> QED
    BY <1>0, <1>6, <2>1, <2>2, StartKeeps DEF Park
<1>7. CASE ParkStop
  <2>1. Slower
    <3>1. CASE UNCHANGED unit
      BY <3>1 DEF Slower
    <3>2. CASE ~UNCHANGED unit
      BY <1>0, <1>7, <3>2, CommandSlows DEF ParkStop
    <3> QED
      BY <3>1, <3>2
  <2>2. \A d \in Devices : motion[d] # Still => motion[d].tool = old
    BY <1>0, <1>7 DEF ParkStop, MotionInv
  <2> QED
    BY <1>0, <1>7, <2>1, <2>2, SlowerKeeps DEF Slower, ParkStop
<1>8. CASE RetractWait \/ ParkWait
  <2>1. Slower
    BY <1>8 DEF RetractWait, ParkWait, WaitDone, WaitFailed, Slower
  <2>2. WaitDone(DeviceOf[old]) => Calm
    BY <1>0, <1>8, WaitCalms DEF RetractWait, ParkWait, WaitDone
  <2>3. \A d \in Devices : motion[d] # Still => motion[d].tool = old
    BY <1>0, <1>8 DEF RetractWait, ParkWait, MotionInv
  <2> QED
    BY <1>0, <1>8, <2>1, <2>2, <2>3, SlowerKeeps DEF Calm, Slower, RetractWait, ParkWait
<1> QED
  BY <1>1, <1>2, <1>3, <1>4, <1>5, <1>6, <1>7, <1>8 DEF Unloading

\* The load's steps.
LEMMA LoadingMotion ==
  ASSUME Inv, Loading
  PROVE  MotionInv'
<1> USE DEF Inv, IInv, RecordFollowsStep, PathInv
<1>0. /\ TypeOK /\ MotionInv /\ target \in Tools /\ owner = NoTool /\ path # "unknown"
      /\ step \notin LoadMoving => Calm
  <2>1. step \in LoadSteps
    BY DEF Loading, Prepare, Inspect, Feed, FeedStop, FeedWait, FeedAbort, Route,
           AssistTarget, Handover, Undo, Loaded, Own
  <2> QED
    BY <2>1, KnownInTransaction, CalmSteps
<1>1. CASE Inspect \/ Route \/ Handover \/ Loaded \/ Own
  <2>1. Calm /\ Slower
    BY <1>0, <1>1 DEF Inspect, Route, Handover, Loaded, Own, Slower
  <2> QED
    BY <1>0, <1>1, <2>1, SlowerKeeps
       DEF Calm, Slower, Inspect, Route, Handover, Loaded, Own
<1>2. CASE Prepare
  <2>1. Calm /\ Slower
    <3>1. CASE UNCHANGED unit
      BY <1>0, <1>2, <3>1 DEF Prepare, Slower
    <3>2. CASE ~UNCHANGED unit
      BY <1>0, <1>2, <3>2, CommandSlows DEF Prepare
    <3> QED
      BY <3>1, <3>2
  <2> QED
    BY <1>0, <1>2, <2>1, SlowerKeeps DEF Calm, Slower, Prepare
<1>3. CASE AssistTarget \/ Undo
  <2>1. Calm /\ Slower
    BY <1>0, <1>3, CommandSlows DEF AssistTarget, Undo
  <2> QED
    BY <1>0, <1>3, <2>1, SlowerKeeps DEF Calm, Slower, AssistTarget, Undo
<1>4. CASE Feed
  <2>1. Calm
    BY <1>0, <1>4 DEF Feed
  <2>2. CASE UNCHANGED unit
    BY <1>0, <1>4, <2>1, <2>2, SlowerKeeps DEF Calm, Slower, Feed
  <2>3. CASE BestEffortStop(DeviceOf[target]) /\ Abandon
    <3>1. Slower
      BY <1>0, <2>3, StopSlows
    <3> QED
      BY <1>0, <2>1, <2>3, <3>1, SlowerKeeps DEF Calm, Slower
  <2>4. CASE \E h : \/ Accepted(DeviceOf[target], Moving("feed", target), h)
                    \/ Failed(DeviceOf[target], Moving("feed", target), h)
    <3>1. CASE Abandon
      BY <1>0, <1>4, <2>1, <2>4, <3>1, StartKeeps
    <3>2. CASE step' \in LoadMoving /\ Keep /\ UNCHANGED target
      BY <1>0, <1>4, <2>1, <2>4, <3>2, StartKeeps
    <3> QED
      BY <1>4, <2>2, <2>3, <3>1, <3>2 DEF Feed
  <2> QED
    BY <1>4, <2>2, <2>3, <2>4 DEF Feed
<1>5. CASE FeedStop \/ FeedAbort
  <2>1. Slower
    <3>1. CASE UNCHANGED unit
      BY <3>1 DEF Slower
    <3>2. CASE ~UNCHANGED unit
      BY <1>0, <1>5, <3>2, CommandSlows, StopSlows DEF FeedStop, FeedAbort
    <3> QED
      BY <3>1, <3>2
  <2>2. \A d \in Devices : motion[d] # Still => motion[d].tool = target
    BY <1>0, <1>5 DEF FeedStop, FeedAbort, MotionInv
  <2> QED
    BY <1>0, <1>5, <2>1, <2>2, SlowerKeeps DEF Slower, FeedStop, FeedAbort
<1>6. CASE FeedWait
  <2>1. Slower
    BY <1>6 DEF FeedWait, WaitDone, WaitFailed, Slower
  <2>2. WaitDone(DeviceOf[target]) => Calm
    BY <1>0, <1>6, WaitCalms DEF FeedWait, WaitDone
  <2>3. \A d \in Devices : motion[d] # Still => motion[d].tool = target
    BY <1>0, <1>6 DEF FeedWait, MotionInv
  <2> QED
    BY <1>0, <1>6, <2>1, <2>2, <2>3, SlowerKeeps DEF Calm, Slower, FeedWait
<1> QED
  BY <1>1, <1>2, <1>3, <1>4, <1>5, <1>6 DEF Loading

\* The rest of the transactions.
LEMMA TransactionMotion ==
  ASSUME Inv, Transaction
  PROVE  MotionInv'
<1> USE DEF Inv, IInv, RecordFollowsStep, PathInv
<1>0. TypeOK /\ MotionInv
  OBVIOUS
<1>1. CASE PreHook \/ PostHook \/ PauseOnError
  <2>1. Slower /\ (path # "unknown" => Calm)
    BY <1>0, <1>1, CalmSteps DEF PreHook, PostHook, PauseOnError, Slower
  <2>2. step # "pause" => path # "unknown"
    BY <1>0, <1>1, KnownInTransaction DEF PreHook, PostHook, PauseOnError
  <2> QED
    BY <1>0, <1>1, <2>1, <2>2, SlowerKeeps
       DEF Calm, Slower, PreHook, PostHook, PauseOnError, MotionInv
<1>2. CASE Manual
  <2>1. PICK a \in {"feed", "retract"} : ManualMove(a) \/ ManualWait(a) \/ ManualDone(a)
    BY <1>2 DEF Manual
  <2>2. /\ target \in Tools /\ owner \in {NoTool, target} /\ path # "unknown"
        /\ step \notin ManualMoving => Calm
    <3>1. step \in ManualSteps
      BY <2>1 DEF ManualMove, ManualWait, ManualDone
    <3> QED
      BY <1>0, <3>1, KnownInTransaction, CalmSteps
  <2>3. CASE ManualMove(a) /\ UNCHANGED unit
    <3>1. Calm /\ Slower
      BY <2>1, <2>2, <2>3 DEF ManualMove, Slower
    <3> QED
      BY <1>0, <2>1, <2>2, <2>3, <3>1, SlowerKeeps DEF Calm, Slower, ManualMove
  <2>4. CASE ManualMove(a) /\ ~UNCHANGED unit
    <3>1. Calm
      BY <2>1, <2>2, <2>4 DEF ManualMove
    <3>2. \/ step' \in ManualMoving /\ UNCHANGED <<path, owner, target>>
          \/ path' = "unknown" /\ step' = "idle" /\ UNCHANGED owner
      BY <2>1, <2>4 DEF ManualMove
    <3> QED
      BY <1>0, <2>1, <2>2, <2>4, <3>1, <3>2, StartKeeps DEF ManualMove
  <2>5. CASE ManualWait(a)
    <3>1. Slower
      BY <2>5 DEF ManualWait, WaitDone, WaitFailed, Slower
    <3>2. WaitDone(DeviceOf[target]) => Calm
      BY <1>0, <2>1, <2>5, WaitCalms DEF ManualWait, WaitDone
    <3>3. \A d \in Devices : motion[d] # Still => motion[d].tool = target
      BY <1>0, <2>1, <2>2, <2>5 DEF ManualWait, MotionInv
    <3> QED
      BY <1>0, <2>1, <2>2, <2>5, <3>1, <3>2, <3>3, SlowerKeeps DEF Calm, Slower, ManualWait
  <2>6. CASE ManualDone(a)
    <3>1. Calm /\ Slower
      BY <1>0, <2>1, <2>2, <2>6, StopSlows DEF ManualDone, Slower
    <3> QED
      BY <1>0, <2>1, <2>6, <3>1, SlowerKeeps DEF Calm, Slower, ManualDone
  <2> QED
    BY <2>1, <2>3, <2>4, <2>5, <2>6
<1>3. CASE AssistOn
  <2>1. Slower /\ (path # "unknown" => Calm)
    BY <1>0, <1>3, CommandSlows, CalmSteps DEF AssistOn
  <2> QED
    BY <1>0, <1>3, <2>1, SlowerKeeps DEF Calm, Slower, AssistOn, MotionInv
<1> QED
  BY <1>1, <1>2, <1>3, UnloadingMotion, LoadingMotion DEF Transaction

\* Commands and the environment.  A recovery decides only while no motor runs.
LEMMA OtherMotion ==
  ASSUME Watched, Inv, Command \/ Environment
  PROVE  MotionInv'
<1> USE DEF Inv, IInv, RecordFollowsStep, PathInv
<1>0. TypeOK /\ MotionInv
  OBVIOUS
<1>1. CASE UnloadBegin \/ (\E t \in Tools : ChangeBegin(t))
      \/ (\E t \in Tools, a \in {"feed", "retract"} : ManualBegin(a, t))
  <2>1. Calm /\ Slower
    BY <1>0, <1>1, CalmSteps DEF UnloadBegin, ChangeBegin, ManualBegin, Toolchanging, Slower
  <2> QED
    BY <1>0, <1>1, <2>1, SlowerKeeps
       DEF Calm, Slower, UnloadBegin, ChangeBegin, ManualBegin, Toolchanging
<1>2. ASSUME NEW t \in Tools, AssistBegin(t) \/ AssistOff(t)
      PROVE  MotionInv'
  <2>1. Slower
    <3>1. CASE UNCHANGED unit
      BY <3>1 DEF Slower
    <3>2. CASE ~UNCHANGED unit
      BY <1>0, <1>2, <3>2, CommandSlows DEF AssistBegin, AssistOff
    <3> QED
      BY <3>1, <3>2
  <2>2. path # "unknown" => Calm
    BY <1>0, <1>2, CalmSteps DEF AssistBegin, AssistOff
  <2> QED
    BY <1>0, <1>2, <2>1, <2>2, SlowerKeeps DEF Calm, Slower, AssistBegin, AssistOff, MotionInv
<1>3. ASSUME NEW ds \in ReconnectTargets, Reconnect(ds)
      PROVE  MotionInv'
  <2>1. ds = Devices
    BY <1>3 DEF Watched, ReconnectTargets
  <2>2. Calm \/ Keep
    BY <1>3, <2>1 DEF Reconnect, Calm
  <2>3. Slower
    BY <1>3 DEF Reconnect, Slower
  <2>4. path # "unknown" => Calm
    BY <1>0, <1>3, CalmSteps DEF Reconnect
  <2> QED
    BY <1>0, <1>3, <2>2, <2>3, <2>4, SlowerKeeps DEF Calm, Slower, Reconnect, MotionInv
<1>4. CASE Restart
  <2>1. Calm /\ Slower
    BY <1>4, SwitchAssumption DEF Restart, Watched, Calm, Slower
  <2> QED
    BY <1>0, <1>4, <2>1, SlowerKeeps DEF Calm, Slower, Restart
<1>5. ASSUME NEW d \in Devices, Poll(d) \/ MotorStep(d) \/ MotorDone(d)
      PROVE  MotionInv'
  <2>1. Slower
    BY <1>0, <1>5 DEF Poll, MotorStep, MotorDone, TypeOK, Slower
  <2> QED
    BY <1>0, <1>5, <2>1, SlowerKeeps DEF Slower, Poll, MotorStep, MotorDone, MotionInv
<1>6. ASSUME NEW t \in Tools, PullOut(t)
      PROVE  MotionInv'
  BY <1>0, <1>6 DEF PullOut, MotionInv, OneMover
<1>7. ASSUME NEW d \in Devices, Dry(d)
      PROVE  MotionInv'
  <2>1. Slower
    BY <1>0, <1>7, CommandSlows DEF Dry
  <2>2. path # "unknown" => Calm
    BY <1>0, <1>7, CalmSteps DEF Dry
  <2> QED
    BY <1>0, <1>7, <2>1, <2>2, SlowerKeeps DEF Calm, Slower, Dry, MotionInv
<1> QED
  BY <1>1, <1>2, <1>3, <1>4, <1>5, <1>6, <1>7 DEF Command, Environment

-----------------------------------------------------------------------------
(***************************************************************************)
(* Filament.                                                               *)
(***************************************************************************)
\* With the total hub observed, clear sensors mean an empty shared path.
LEMMA ClearIsEmpty ==
  ASSUME Watched, TypeOK, AllClear
  PROVE  InPath = {}
BY DEF Watched, AllClear, Hub, InPath

\* If only t can be in the path, the upper sensor sees t.
LEMMA UpperSees ==
  ASSUME TypeOK, Upper, NEW t, InPath \subseteq {t}
  PROVE  t \in Tools /\ pos[t] >= AtUpper
BY DEF TypeOK, Upper, InPath, AtUpper, AtHub, Parked, AtNozzle

\* Steps that move no filament.
LEMMA StillPath ==
  ASSUME UNCHANGED pos
  PROVE  InPath' = InPath
BY DEF InPath

\* The steps of an unload leave at most the old tool in the path.
LEMMA UnloadingFilament ==
  ASSUME Watched, Inv, Unloading
  PROVE  FilamentInv'
<1> USE DEF Inv, IInv, RecordFollowsStep, PathInv
<1>0. /\ TypeOK /\ old \in Tools /\ owner = old /\ InPath \subseteq {old}
      /\ step \in UnloadSteps /\ old # NoTool
  <2>1. step \in UnloadSteps
    BY DEF Unloading, Release, Verify, Cut, Pull, RetractStep, RetractWait, Park,
           ParkStop, ParkWait, Cleared, Disown
  <2> QED
    BY <2>1, ToolsAssumption DEF FilamentInv
<1>1. CASE Pull
  <2>1. InPath' \subseteq {old}
    BY <1>0, <1>1 DEF Pull, InPath, TypeOK, Parked, AtHub, AtNozzle
  <2> QED
    BY <1>0, <1>1, <2>1 DEF Pull, FilamentInv
<1>2. CASE Cleared
  BY <1>0, <1>2, StillPath, ClearIsEmpty DEF Cleared, FilamentInv
<1>3. CASE Release
  BY <1>0, <1>3, StillPath DEF Release, FilamentInv
<1>4. CASE Verify \/ Cut \/ RetractStep \/ RetractWait \/ Park \/ ParkStop \/ ParkWait
  <2>1. UNCHANGED <<pos, owner>>
    BY <1>4 DEF Verify, Cut, RetractStep, RetractWait, Park, ParkStop, ParkWait
  <2>2. step' \in UnloadSteps \cup {"pause"}
    BY <1>4 DEF Verify, Cut, RetractStep, RetractWait, Park, ParkStop, ParkWait
  <2>3. path' \in {"changing", "unknown"} \/ path' = path
    BY <1>4 DEF Verify, Cut, RetractStep, RetractWait, Park, ParkStop, ParkWait
  <2> QED
    BY <1>0, <2>1, <2>2, <2>3, StillPath DEF FilamentInv
<1>5. CASE Disown
  BY <1>0, <1>5, StillPath DEF Disown, FilamentInv
<1> QED
  BY <1>1, <1>2, <1>3, <1>4, <1>5 DEF Unloading

\* The steps of a load put at most the target in the path.
LEMMA LoadingFilament ==
  ASSUME Watched, Inv, Loading
  PROVE  FilamentInv'
<1> USE DEF Inv, IInv, RecordFollowsStep, PathInv
<1>0. /\ TypeOK /\ target \in Tools /\ owner = NoTool /\ step \in LoadSteps
      /\ target # NoTool
      /\ step \notin {"prepare", "inspect"} => InPath \subseteq {target}
  <2>1. step \in LoadSteps
    BY DEF Loading, Prepare, Inspect, Feed, FeedStop, FeedWait, FeedAbort, Route,
           AssistTarget, Handover, Undo, Loaded, Own
  <2> QED
    BY <2>1, ToolsAssumption DEF FilamentInv
<1>1. CASE Prepare
  BY <1>0, <1>1, StillPath DEF Prepare, FilamentInv
<1>2. CASE Inspect
  BY <1>0, <1>2, StillPath, ClearIsEmpty DEF Inspect, FilamentInv
<1>3. CASE Handover
  <2>1. InPath' \subseteq {target}
    BY <1>0, <1>3 DEF Handover, InPath, TypeOK
  <2>2. TypeOK'
    BY LoadingIInv
  <2>3. step' = "loaded" => pos'[target] >= AtUpper
    <3>1. step' = "loaded" => Upper'
      BY <1>3 DEF Handover
    <3>2. Upper' => \E t \in Tools : pos'[t] >= AtUpper /\ t \in InPath'
      BY <2>2 DEF Upper, InPath, TypeOK, AtUpper, AtHub, Parked, AtNozzle
    <3> QED
      BY <2>1, <3>1, <3>2
  <2> QED
    BY <1>0, <1>3, <2>1, <2>3 DEF Handover, FilamentInv
<1>4. CASE Loaded \/ Own
  BY <1>0, <1>4, StillPath DEF Loaded, Own, FilamentInv
<1>5. CASE Feed \/ FeedStop \/ FeedWait \/ FeedAbort \/ Route \/ AssistTarget \/ Undo
  <2>1. UNCHANGED <<pos, owner, target>>
    BY <1>5 DEF Feed, FeedStop, FeedWait, FeedAbort, Route, AssistTarget, Undo
  <2>2. step' \in {"pause", "feed_stop", "feed_wait", "feed_abort", "feed", "route",
                   "assist", "handover"}
    BY <1>5 DEF Feed, FeedStop, FeedWait, FeedAbort, Route, AssistTarget, Undo
  <2>3. path' \in {"changing", "unknown"}
    BY <1>5 DEF Feed, FeedStop, FeedWait, FeedAbort, Route, AssistTarget, Undo
  <2> QED
    BY <1>0, <1>5, <2>1, <2>2, <2>3, StillPath
       DEF FilamentInv, Feed, FeedStop, FeedWait, FeedAbort, Route, AssistTarget, Undo
<1> QED
  BY <1>1, <1>2, <1>3, <1>4, <1>5 DEF Loading

\* The rest of the transactions.
LEMMA TransactionFilament ==
  ASSUME Watched, Inv, Transaction
  PROVE  FilamentInv'
<1> USE DEF Inv, IInv, RecordFollowsStep, PathInv
<1>0. TypeOK
  OBVIOUS
<1>1. CASE PreHook \/ PostHook \/ PauseOnError \/ AssistOn
  BY <1>0, <1>1, StillPath DEF PreHook, PostHook, PauseOnError, AssistOn, FilamentInv
<1>2. CASE Manual
  <2>1. PICK a \in {"feed", "retract"} : ManualMove(a) \/ ManualWait(a) \/ ManualDone(a)
    BY <1>2 DEF Manual
  <2>2. /\ target \in Tools /\ owner \in {NoTool, target} /\ target # NoTool
        /\ InPath \subseteq {target}
    <3>1. step \in ManualSteps
      BY <2>1 DEF ManualMove, ManualWait, ManualDone
    <3> QED
      BY <3>1, ToolsAssumption DEF FilamentInv
  <2>3. CASE ManualMove(a) \/ ManualWait(a)
    BY <2>1, <2>2, <2>3, StillPath DEF ManualMove, ManualWait, FilamentInv
  <2>4. CASE ManualDone(a)
    <3>1. Upper => pos[target] >= AtUpper
      BY <1>0, <2>2, UpperSees
    <3>2. AllClear => InPath = {}
      BY <1>0, ClearIsEmpty
    <3> QED
      BY <2>1, <2>2, <2>4, <3>1, <3>2, StillPath DEF ManualDone, FilamentInv
  <2> QED
    BY <2>1, <2>3, <2>4
<1> QED
  BY <1>1, <1>2, UnloadingFilament, LoadingFilament DEF Transaction

\* What a recovery concludes from the sensors is so.
LEMMA ReconcileFilament ==
  ASSUME Watched, Inv, Reconcile, UNCHANGED pos, step' = "idle"
  PROVE  FilamentInv'
<1> USE DEF Inv, IInv, PathInv
<1>1. CASE AllClear /\ path' = "empty" /\ owner' = NoTool
  BY <1>1, StillPath, ClearIsEmpty DEF FilamentInv
<1>2. CASE Upper /\ owner # NoTool /\ path' = "nozzle" /\ UNCHANGED owner
  BY <1>2, StillPath, UpperSees DEF FilamentInv
<1>3. CASE path' = "unknown" /\ UNCHANGED owner
  BY <1>3, StillPath DEF FilamentInv
<1> QED
  BY <1>1, <1>2, <1>3 DEF Reconcile

\* Commands and the environment.
LEMMA OtherFilament ==
  ASSUME Watched, Inv, Command \/ Environment
  PROVE  FilamentInv'
<1> USE DEF Inv, IInv, RecordFollowsStep, PathInv
<1>0. TypeOK
  OBVIOUS
<1>1. CASE UnloadBegin \/ (\E t \in Tools : ChangeBegin(t))
  BY <1>0, <1>1, StillPath DEF UnloadBegin, ChangeBegin, FilamentInv
<1>2. ASSUME NEW t \in Tools, AssistBegin(t) \/ AssistOff(t)
      PROVE  FilamentInv'
  <2>1. UNCHANGED <<pos, path, owner>> /\ step = "idle" /\ step' \in {"idle", "assist_on"}
    BY <1>2 DEF AssistBegin, AssistOff
  <2> QED
    BY <2>1, StillPath DEF FilamentInv
<1>3. ASSUME NEW t \in Tools, NEW a \in {"feed", "retract"}, ManualBegin(a, t)
      PROVE  FilamentInv'
  BY <1>0, <1>3, StillPath, ToolsAssumption DEF ManualBegin, Toolchanging, FilamentInv
<1>4. ASSUME NEW ds \in ReconnectTargets, Reconnect(ds)
      PROVE  FilamentInv'
  <2>1. UNCHANGED pos /\ step = "idle" /\ step' = "idle"
    BY <1>4 DEF Reconnect
  <2>2. Keep \/ Reconcile
    BY <1>4 DEF Reconnect
  <2> QED
    BY <2>1, <2>2, ReconcileFilament, StillPath DEF FilamentInv
<1>5. CASE Restart
  BY <1>5, ReconcileFilament DEF Restart
<1>6. ASSUME NEW d \in Devices, Poll(d) \/ MotorDone(d)
      PROVE  FilamentInv'
  BY <1>6, StillPath DEF Poll, MotorDone, FilamentInv
<1>7. ASSUME NEW d \in Devices, MotorStep(d)
      PROVE  FilamentInv'
  <2> DEFINE t == motion[d].tool
  <2>1. motion[d] # Still /\ t \in Tools /\ owner \in {NoTool, t} /\ t # NoTool
    BY <1>0, <1>7, ToolsAssumption DEF MotorStep, TypeOK, Motions, Still, MotionInv
  <2>2. InPath' \subseteq InPath \cup {t}
    BY <1>0, <1>7, <2>1 DEF MotorStep, InPath, TypeOK
  <2>3. path = "unknown" => step \in {"idle", "pause", "assist_on"}
    BY DEF MotionInv
  <2>4. path # "unknown" =>
          \/ step \in UnloadMoving /\ t = old
          \/ step \in LoadMoving \cup ManualMoving /\ t = target
    BY <1>7, <2>1 DEF MotionInv
  <2>5. UNCHANGED <<path, owner, step, target, old>>
    BY <1>7 DEF MotorStep
  <2> QED
    BY <2>1, <2>2, <2>3, <2>4, <2>5 DEF FilamentInv
<1>8. ASSUME NEW t \in Tools, PullOut(t)
      PROVE  FilamentInv'
  <2>1. InPath' \subseteq InPath
    BY <1>0, <1>8 DEF PullOut, InPath, TypeOK, Parked, AtHub
  <2> QED
    BY <1>8, <2>1 DEF PullOut, FilamentInv
<1>9. ASSUME NEW d \in Devices, Dry(d)
      PROVE  FilamentInv'
  BY <1>9, StillPath DEF Dry, FilamentInv
<1> QED
  BY <1>1, <1>2, <1>3, <1>4, <1>5, <1>6, <1>7, <1>8, <1>9 DEF Command, Environment

-----------------------------------------------------------------------------
(***************************************************************************)
(* The theorems.                                                           *)
(***************************************************************************)
LEMMA InitInv == Init => Inv
<1> SUFFICES ASSUME Init PROVE PathInv
  BY InitIInv DEF Inv
<1>1. InPath = {}
  BY DEF Init, InPath, Parked, AtHub
<1> QED
  BY <1>1 DEF Init, PathInv, MotionInv, OneMover, FilamentInv

LEMMA NextInv ==
  ASSUME Watched, Inv, [Next]_vars
  PROVE  Inv'
<1>1. IInv'
  BY NextIInv DEF Inv
<1>2. CASE UNCHANGED vars
  BY <1>2 DEF vars, Inv, IInv, TypeOK, RecordFollowsStep, PathInv, MotionInv, OneMover,
              FilamentInv, InPath
<1>3. CASE Next
  BY <1>1, <1>3, TransactionMotion, OtherMotion, TransactionFilament, OtherFilament
     DEF Next, Inv, PathInv
<1> QED
  BY <1>2, <1>3

\* The motors and the filament are always accounted for.
THEOREM PathAccounted ==
  ASSUME Watched PROVE Spec => [](Inv /\ PathInv)
<1>1. Init => Inv
  BY InitInv
<1>2. Inv /\ [Next]_vars => Inv'
  BY NextInv
<1>3. Inv => PathInv
  BY DEF Inv
<1> QED
  BY <1>1, <1>2, <1>3, PTL DEF Spec

\* One owner of motion: the motors of two units never run together.
THEOREM MoversAreOne ==
  ASSUME Watched PROVE Spec => []OneMover
<1>1. Inv => OneMover
  BY DEF Inv, PathInv, MotionInv
<1> QED
  BY <1>1, PathAccounted, PTL

\* Inv makes every definite belief true.
LEMMA InvMakesTrue ==
  ASSUME Inv
  PROVE  BeliefIsTrue
<1> USE DEF Inv, PathInv
<1>1. Belief = "empty" => InPath = {}
  BY ToolsAssumption DEF Belief, FilamentInv, IInv, TypeOK
<1>2. ASSUME Belief \in Tools
      PROVE  InPath = {Belief} /\ pos[Belief] >= AtUpper
  <2>1. Belief = owner /\ owner # NoTool /\ path = "nozzle" /\ step \notin ManualSteps
    BY <1>2, ToolsAssumption DEF Belief
  <2>2. InPath \subseteq {owner} /\ pos[owner] >= AtUpper
    BY <2>1 DEF FilamentInv
  <2>3. owner \in InPath
    BY <1>2, <2>1, <2>2 DEF InPath, IInv, TypeOK, AtUpper, AtHub, Parked, AtNozzle
  <2> QED
    BY <2>1, <2>2, <2>3
<1> QED
  BY <1>1, <1>2 DEF BeliefIsTrue

\* path_state and current_tool, where they are definite, are true.
THEOREM BeliefHolds ==
  ASSUME Watched PROVE Spec => []BeliefIsTrue
<1>1. Inv => BeliefIsTrue
  BY InvMakesTrue
<1> QED
  BY <1>1, PathAccounted, PTL

\* No unit is told to feed a tool into another tool's filament.
THEOREM FeedsIntoNone ==
  ASSUME Watched PROVE Spec => NeverFedIntoAnother
<1>1. ASSUME Inv, [Next]_vars, NEW d \in Devices, NewFeed(d)
      PROVE  InPath \subseteq {motion'[d].tool}
  <2>1. Next /\ IInv
    BY <1>1 DEF vars, NewFeed, Inv
  <2>2. PICK a \in {"feed"} :
          (Feed \/ ManualMove(a)) /\ motion'[d] = Moving("feed", target)
    BY <1>1, <2>1, FeedingSteps
  <2>3. step \in HandoverSteps \cup ManualSteps
    BY <2>2 DEF Feed, ManualMove
  <2> QED
    BY <1>1, <2>2, <2>3 DEF Inv, PathInv, FilamentInv, Moving
<1>2. Inv /\ [Next]_vars =>
        \A d \in Devices :
          motion'[d].dir = "feed" /\ motion'[d] # motion[d]
            => InPath \subseteq {motion'[d].tool}
  BY <1>1 DEF NewFeed
<1> QED
  BY <1>2, PathAccounted, PTL DEF Spec, NeverFedIntoAnother

\* A new owner is recorded only with its own filament on the upper sensor.
THEOREM OwnersAreEarned ==
  ASSUME Watched PROVE Spec => OwnershipIsEarned
<1>1. ASSUME Inv, [Next]_vars, owner' \notin {owner, NoTool}
      PROVE  path' = "nozzle" /\ pos[owner'] >= AtUpper
  <2> USE DEF Inv, IInv, PathInv
  <2>1. CASE Own
    BY <1>1, <2>1 DEF Own, RecordFollowsStep, FilamentInv
  <2>2. ASSUME NEW a \in {"feed", "retract"}, ManualDone(a)
        PROVE  path' = "nozzle" /\ pos[owner'] >= AtUpper
    <3>1. Upper /\ owner' = target /\ path' = "nozzle" /\ step \in ManualSteps
      BY <1>1, <2>2 DEF ManualDone
    <3> QED
      BY <1>1, <3>1, UpperSees DEF FilamentInv
  <2>3. CASE Unloading
    BY <1>1, <2>3 DEF Unloading, Release, Verify, Cut, Pull, RetractStep, RetractWait,
         Park, ParkStop, ParkWait, Cleared, Disown
  <2>4. CASE Loading /\ ~Own
    BY <1>1, <2>4 DEF Loading, Prepare, Inspect, Feed, FeedStop, FeedWait, FeedAbort,
         Route, AssistTarget, Handover, Undo, Loaded
  <2>5. CASE Transaction /\ ~Unloading /\ ~Loading
    BY <1>1, <2>2, <2>5 DEF Transaction, PreHook, PostHook, PauseOnError, Manual,
         ManualMove, ManualWait, AssistOn
  <2>6. CASE Command \/ Environment
    BY <1>1, <2>6 DEF Command, UnloadBegin, ChangeBegin, AssistBegin, AssistOff, Dry, ManualBegin,
         Reconnect, Reconcile, Environment, Poll, MotorStep, MotorDone, PullOut, Restart
  <2> QED
    BY <1>1, <2>1, <2>3, <2>4, <2>5, <2>6 DEF Next, vars, Transaction
<1>2. Inv /\ [Next]_vars =>
        (owner' \notin {owner, NoTool} => path' = "nozzle" /\ pos[owner'] >= AtUpper)
  BY <1>1
<1> QED
  BY <1>2, PathAccounted, PTL DEF Spec, OwnershipIsEarned

-----------------------------------------------------------------------------
(***************************************************************************)
(* AcePath implements SharedPath.                                          *)
(***************************************************************************)
Definite == Belief # "unsure"

\* What the variables say when the belief is definite.
LEMMA DefiniteMeans ==
  ASSUME Definite
  PROVE  /\ step \notin ManualSteps
         /\ path = "empty" \/ (path = "nozzle" /\ owner # NoTool)
         /\ Belief = IF path = "empty" THEN "empty" ELSE owner
BY DEF Definite, Belief

\* Filament moves only under an unsure belief that stays unsure.
LEMMA MovesAreUnsure ==
  ASSUME Inv, Next, ~UNCHANGED pos
  PROVE  ~Definite /\ ~Definite'
<1> USE DEF Inv, IInv, RecordFollowsStep, PathInv, Definite, Belief
<1>1. CASE Pull
  BY <1>1 DEF Pull
<1>2. CASE Handover
  BY <1>2 DEF Handover
<1>3. ASSUME NEW d \in Devices, MotorStep(d)
      PROVE  ~Definite /\ ~Definite'
  <2>1. Belief' = Belief
    BY <1>3 DEF MotorStep
  <2>2. motion[d] # Still
    BY <1>3 DEF MotorStep, Still
  <2>3. path = "unknown" \/ step \in UnloadMoving \cup LoadMoving \cup ManualMoving
    BY <2>2 DEF MotionInv
  <2> QED
    BY <2>1, <2>3
<1>4. ASSUME NEW t \in Tools, PullOut(t)
      PROVE  ~Definite /\ ~Definite'
  BY <1>4 DEF PullOut
<1>5. CASE Unloading /\ ~Pull
  BY <1>5 DEF Unloading, Release, Verify, Cut, RetractStep, RetractWait,
       Park, ParkStop, ParkWait, Cleared, Disown
<1>6. CASE Loading /\ ~Handover
  BY <1>6 DEF Loading, Prepare, Inspect, Feed, FeedStop, FeedWait, FeedAbort,
       Route, AssistTarget, Undo, Loaded, Own
<1>7. CASE Transaction /\ ~Unloading /\ ~Loading
  BY <1>7 DEF Transaction, PreHook, PostHook, PauseOnError, Manual,
       ManualMove, ManualWait, ManualDone, AssistOn
<1>8. CASE Command
  BY <1>8 DEF Command, UnloadBegin, ChangeBegin, AssistBegin, AssistOff, Dry, ManualBegin, Reconnect
<1> QED
  BY <1>1, <1>2, <1>3, <1>4, <1>5, <1>6, <1>7, <1>8
     DEF Next, Transaction, Environment, Poll, MotorDone, Restart

\* A definite belief is given up before another is taken.
LEMMA BeliefsAreGivenUp ==
  ASSUME Watched, Inv, Next, Definite, Definite'
  PROVE  Belief' = Belief
<1> USE DEF Inv, IInv, RecordFollowsStep, PathInv
<1>0. /\ step \notin ManualSteps
      /\ path = "empty" \/ (path = "nozzle" /\ owner # NoTool)
      /\ Belief = IF path = "empty" THEN "empty" ELSE owner
      /\ path' = "empty" \/ (path' = "nozzle" /\ owner' # NoTool)
      /\ Belief' = IF path' = "empty" THEN "empty" ELSE owner'
  BY DefiniteMeans DEF Definite, Belief
<1> SUFFICES path' = path /\ (path = "nozzle" => owner' = owner)
  BY <1>0
<1>1. CASE Unloading
  BY <1>0, <1>1 DEF Unloading, Release, Verify, Cut, Pull, RetractStep, RetractWait,
       Park, ParkStop, ParkWait, Cleared, Disown
<1>2. CASE Loading
  BY <1>0, <1>2, ToolsAssumption DEF Loading, Prepare, Inspect, Feed, FeedStop, FeedWait,
       FeedAbort, Route, AssistTarget, Handover, Undo, Loaded, Own
<1>3. CASE Transaction /\ ~Unloading /\ ~Loading
  BY <1>0, <1>3 DEF Transaction, PreHook, PostHook, PauseOnError, Manual,
       ManualMove, ManualWait, ManualDone, AssistOn
<1>4. CASE Restart
  <2>1. BeliefIsTrue /\ (AllClear => InPath = {}) /\ (Upper => InPath # {})
    BY InvMakesTrue, ClearIsEmpty DEF Upper, InPath, AtUpper, AtHub, TypeOK, Parked, AtNozzle
  <2>2. path = "empty" => InPath = {}
    BY <1>0, <2>1 DEF BeliefIsTrue
  <2>3. path = "nozzle" => InPath = {owner}
    BY <1>0, <2>1 DEF BeliefIsTrue, TypeOK
  <2> QED
    BY <1>0, <1>4, <2>1, <2>2, <2>3 DEF Restart, Reconcile
<1>5. ASSUME NEW ds \in ReconnectTargets, Reconnect(ds)
      PROVE  Keep
  <2>1. \A d \in Devices : ~uncertain[d]
    BY DEF Definite, Belief
  <2>2. ds \subseteq Devices
    BY <1>5 DEF ReconnectTargets
  <2> QED
    BY <1>0, <1>5, <2>1, <2>2 DEF Reconnect
<1>6. CASE Command \/ (Environment /\ ~Restart)
  BY <1>0, <1>5, <1>6 DEF Command, UnloadBegin, ChangeBegin, AssistBegin, AssistOff,
       Dry, ManualBegin, Environment, Poll, MotorStep, MotorDone, PullOut
<1> QED
  BY <1>1, <1>2, <1>3, <1>4, <1>6 DEF Next, Transaction

\* The driver keeps SharedPath's promise: each of its steps is a doubt, a
\* movement under doubt, a confirmation of what is so, or nothing at all.
THEOREM Implements ==
  ASSUME Watched PROVE Spec => ImplementsSharedPath
<1>1. Init => Promise!Init
  BY ToolsAssumption DEF Init, Promise!Init, Belief, InPath, Parked, AtHub
<1>2. Inv => BeliefIsTrue
  BY InvMakesTrue
<1>3. Inv' => BeliefIsTrue'
  BY <1>2, PTL
<1>4. ASSUME Inv, Inv', [Next]_vars
      PROVE  [Promise!Next]_(Promise!vars)
  <2>1. CASE UNCHANGED vars
    BY <2>1 DEF vars, Promise!vars, Belief, InPath
  <2>2. CASE Next
    <3>1. BeliefIsTrue'
      BY <1>4, <1>3
    <3>2. Belief' \in Tools \cup {"empty", "unsure"} /\ InPath' \in SUBSET Tools
      BY <1>4 DEF Inv, IInv, TypeOK, Belief, InPath
    <3>3. CASE ~UNCHANGED pos
      <4>1. Belief = "unsure" /\ Belief' = "unsure"
        BY <1>4, <2>2, <3>3, MovesAreUnsure DEF Definite
      <4> QED
        BY <3>2, <4>1 DEF Promise!Next, Promise!Move
    <3>4. CASE UNCHANGED pos /\ Belief' = "unsure"
      BY <3>4, StillPath DEF Promise!Next, Promise!Doubt
    <3>5. CASE UNCHANGED pos /\ Belief = "unsure" /\ Belief' # "unsure"
      <4>1. InPath' = InPath
        BY <3>5, StillPath
      <4> QED
        BY <3>1, <3>2, <3>5, <4>1, ToolsAssumption
           DEF BeliefIsTrue, Promise!Next, Promise!Confirm, Promise!True
    <3>6. CASE UNCHANGED pos /\ Belief # "unsure" /\ Belief' # "unsure"
      BY <1>4, <2>2, <3>6, StillPath, BeliefsAreGivenUp DEF Definite, Promise!vars
    <3> QED
      BY <3>3, <3>4, <3>5, <3>6
  <2> QED
    BY <1>4, <2>1, <2>2
<1>5. Inv /\ Inv' /\ [Next]_vars => [Promise!Next]_(Promise!vars)
  BY <1>4
<1>6. Spec => []Inv
  BY PathAccounted, PTL
<1> QED
  BY <1>1, <1>5, <1>6, PTL DEF Spec, ImplementsSharedPath, Promise!Spec
=============================================================================
