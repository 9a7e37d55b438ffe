-------------------------- MODULE EncoderGuardProofs --------------------------
(***************************************************************************)
(* The encoder guard's invariants, and that monitor mode is read-only, for *)
(* every number of segments, set of measures and limit of attempts.        *)
(***************************************************************************)
EXTENDS EncoderReadOnly, SequenceTheorems, WellFoundedInduction,
        TLAPS

(***************************************************************************)
(* The invariant.  MovesKnown: by hand, filament moves on a known path.    *)
(***************************************************************************)
FlagsOK ==
  /\ owned \in BOOLEAN /\ assist \in BOOLEAN /\ watched \in BOOLEAN
  /\ motionFault \in BOOLEAN /\ runtimeFault \in BOOLEAN

RoundOK == round \in [active : BOOLEAN, measured : Seq(Measures)] /\ made \in Seq(Measures)

MovesKnown == step = "moving" => path \in {"empty", "nozzle"}

RoundInv == RoundOK /\ RoundsDoNotMix

HoldInv == MovesKnown /\ CalibrationIsStill /\ FaultHoldsPath

GuardInv == FlagsOK /\ RoundInv /\ HoldInv

LEMMA GuardInit == Init => GuardInv
<1> SUFFICES ASSUME Init PROVE GuardInv
  OBVIOUS
<1>1. FlagsOK
  BY DEF Init, FlagsOK
<1>2. RoundInv
  BY DEF Init, RoundInv, RoundOK, RoundsDoNotMix
<1>3. HoldInv
  BY DEF Init, HoldInv, MovesKnown, CalibrationIsStill, FaultHoldsPath
<1> QED BY <1>1, <1>2, <1>3 DEF GuardInv

LEMMA FlagsStep == FlagsOK /\ [Next]_vars => FlagsOK'
<1> SUFFICES ASSUME FlagsOK, [Next]_vars PROVE FlagsOK'
  OBVIOUS
<1> USE DEF FlagsOK, claim, faults
<1>1. CASE FirstCount
  BY <1>1 DEF FirstCount
<1>2. CASE ChangeBegin
  BY <1>2 DEF ChangeBegin, Toolchanging, NotRefused, Armed, EncoderArmed, Goto
<1>3. CASE ChangeFails
  BY <1>3 DEF ChangeFails, Fails, Goto
<1>4. CASE FeedStart
  BY <1>4 DEF FeedStart, MotionStart, Start, Fails, Goto, NotRefused, Armed, EncoderArmed
<1>5. CASE FeedEnd
  BY <1>5 DEF FeedEnd, Ends, Fails, Goto, AceMeasures, FaultOf
<1>6. CASE ExtrudeStart
  BY <1>6 DEF ExtrudeStart, MotionStart, Start, Fails, Goto, ExtruderNotRefused, EncoderArmed
<1>7. CASE ExtrudeEnd
  BY <1>7 DEF ExtrudeEnd, Ends, Fails, Goto, ExtruderMeasures, FaultOf
<1>8. CASE PullStart
  BY <1>8 DEF PullStart, MotionStart, Start, Fails, Goto, ExtruderNotRefused, EncoderArmed
<1>9. CASE PullEnd
  BY <1>9 DEF PullEnd, Ends, Fails, Goto, ExtruderMeasures, FaultOf
<1>10. CASE RetractStart
  BY <1>10 DEF RetractStart, MotionStart, Start, Fails, Goto, NotRefused, Armed, EncoderArmed
<1>11. CASE RetractEnd
  BY <1>11 DEF RetractEnd, Ends, Fails, Goto, AceMeasures, FaultOf
<1>12. CASE ParkStart
  BY <1>12 DEF ParkStart, MotionStart, Start, Fails, Goto, NotRefused, Armed, EncoderArmed
<1>13. CASE ParkBlind
  BY <1>13 DEF ParkBlind, Goto
<1>14. CASE ParkEnd
  BY <1>14 DEF ParkEnd, Ends, Fails, Goto, AceMeasures, FaultOf
<1>15. CASE ManualStart
  BY <1>15 DEF ManualStart, Start, NotRefused, Armed, EncoderArmed
<1>16. CASE ManualEnd
  BY <1>16 DEF ManualEnd, Ends, Fails, Goto, AceMeasures, FaultOf
<1>17. CASE AssistOn
  BY <1>17 DEF AssistOn
<1>18. CASE AssistOff
  BY <1>18 DEF AssistOff
<1>19. CASE ReconnectFails
  BY <1>19 DEF ReconnectFails
<1>20. CASE Reconnect
  BY <1>20 DEF Reconnect, Recovered, MustReconcile, Reconcile
<1>21. CASE CalibrationStart
  BY <1>21 DEF CalibrationStart, Calibratable
<1>22. CASE CalibrationTooFew
  BY <1>22 DEF CalibrationTooFew, Calibratable
<1>23. CASE CalibrationCancel
  BY <1>23 DEF CalibrationCancel
<1>24. ASSUME NEW m \in Measures, CalibrationSegment(m) PROVE FlagsOK'
  BY <1>24 DEF CalibrationSegment, Measure, Calibratable
<1>25. ASSUME NEW m \in Measures, CalibrationRejected(m) PROVE FlagsOK'
  BY <1>25 DEF CalibrationRejected, LastSegment, Measure, Calibratable
<1>26. ASSUME NEW m \in Measures, CalibrationSaved(m) PROVE FlagsOK'
  BY <1>26 DEF CalibrationSaved, LastSegment, Measure, Calibratable
<1>27. ASSUME NEW m \in Measures, CalibrationUnsaved(m) PROVE FlagsOK'
  BY <1>27 DEF CalibrationUnsaved, LastSegment, Measure, Calibratable
<1>28. CASE Restart
  BY <1>28 DEF Restart, Reconcile, Goto
<1>29. CASE UNCHANGED vars
  BY <1>29 DEF vars
<1> QED BY <1>1, <1>2, <1>3, <1>4, <1>5, <1>6, <1>7, <1>8, <1>9, <1>10, <1>11, <1>12,
     <1>13, <1>14, <1>15, <1>16, <1>17, <1>18, <1>19, <1>20, <1>21, <1>22, <1>23, <1>24,
     <1>25, <1>26, <1>27, <1>28, <1>29 DEF Next, Step

LEMMA OneMore ==
  ASSUME RoundOK, NEW m \in Measures
  PROVE  All(m) \in Seq(Measures) /\ Len(All(m)) = Len(round.measured) + 1
BY DEF RoundOK, All

(***************************************************************************)
(* The sum of a round is a natural number.  By induction on how far it is  *)
(* summed, in the form: a set of naturals has a least element.             *)
(***************************************************************************)
LEMMA LeastExists ==
  ASSUME NEW T \in SUBSET Nat, T # {}
  PROVE  \E x \in T : \A y \in T : x <= y
<1> DEFINE R == {ss \in Nat \X Nat : ss[1] < ss[2]}
<1>1. IsWellFoundedOn(R, Nat)
  BY NatLessThanWellFounded DEF OpToRel
<1>2. PICK x \in T : \A y \in T : <<y, x>> \notin R
  <2> HIDE DEF R
  <2> QED BY <1>1, WFMin
<1>3. ASSUME NEW y \in T PROVE x <= y
  <2>1. <<y, x>> \in Nat \X Nat /\ <<y, x>>[1] = y /\ <<y, x>>[2] = x
    OBVIOUS
  <2>2. ~(y < x)
    BY <1>2, <2>1
  <2> QED BY <2>2
<1> QED BY <1>3

\* The sums of the first elements of s, as far as n.
SumsUpTo(s, n, f) == f = [i \in 0..n |-> IF i = 0 THEN 0 ELSE f[i - 1] + s[i]]

LEMMA SumsExist ==
  ASSUME NEW s \in Seq(Nat)
  PROVE  \E f : SumsUpTo(s, Len(s), f)
<1> DEFINE T == {n \in 0..Len(s) : ~\E f : SumsUpTo(s, n, f)}
<1>1. T \subseteq Nat /\ Len(s) \in Nat
  OBVIOUS
<1>2. ASSUME T # {}
      PROVE  FALSE
  <2>1. PICK n \in T : \A m \in T : n <= m
    BY <1>1, <1>2, LeastExists
  <2>2. n \in 0..Len(s) /\ ~\E f : SumsUpTo(s, n, f)
    OBVIOUS
  <2>3. CASE n = 0
    <3>1. SumsUpTo(s, 0, [i \in 0..0 |-> 0])
      BY DEF SumsUpTo
    <3> QED
      BY <2>2, <2>3, <3>1
  <2>4. CASE n # 0
    <3>1. n - 1 \in 0..Len(s) /\ n - 1 \notin T
      BY <1>1, <2>1, <2>2, <2>4
    <3>2. PICK g : SumsUpTo(s, n - 1, g)
      BY <3>1
    <3> DEFINE f == [i \in 0..n |-> IF i = n THEN g[n - 1] + s[n] ELSE g[i]]
    <3>3. \A i \in 0..n : i # n => i \in 0..(n - 1) /\ (i # 0 => i - 1 \in 0..(n - 1))
      BY <2>2, <2>4
    <3>4. \A i \in 0..(n - 1) : g[i] = IF i = 0 THEN 0 ELSE g[i - 1] + s[i]
      BY <3>2 DEF SumsUpTo
    <3>5. \A i \in 0..n : f[i] = IF i = 0 THEN 0 ELSE f[i - 1] + s[i]
      <4> TAKE i \in 0..n
      <4>1. CASE i = n
        BY <2>2, <2>4, <4>1
      <4>2. CASE i # n
        BY <2>2, <3>3, <3>4, <4>2
      <4> QED
        BY <4>1, <4>2
    <3>6. SumsUpTo(s, n, f)
      <4>1. f = [i \in 0..n |-> f[i]]
        OBVIOUS
      <4> HIDE DEF f
      <4> QED
        BY <3>5, <4>1 DEF SumsUpTo
    <3> QED
      BY <2>2, <3>6
  <2> QED
    BY <2>3, <2>4
<1> QED
  BY <1>1, <1>2

LEMMA SumIsNat ==
  ASSUME NEW s \in Seq(Nat)
  PROVE  Sum(s) \in Nat
<1> DEFINE g == CHOOSE f : SumsUpTo(s, Len(s), f)
           T == {i \in 0..Len(s) : g[i] \notin Nat}
<1>1. SumsUpTo(s, Len(s), g)
  BY SumsExist
<1>2. Sum(s) = g[Len(s)]
  BY DEF Sum, SumsUpTo
<1> HIDE DEF g
<1>3. \A i \in 0..Len(s) : g[i] = IF i = 0 THEN 0 ELSE g[i - 1] + s[i]
  BY <1>1 DEF SumsUpTo
<1>4. T \subseteq Nat /\ Len(s) \in Nat
  OBVIOUS
<1>5. ASSUME T # {}
      PROVE  FALSE
  <2>1. PICK n \in T : \A m \in T : n <= m
    BY <1>4, <1>5, LeastExists
  <2>2. n \in 0..Len(s) /\ g[n] \notin Nat /\ n # 0
    BY <1>3
  <2>3. n - 1 \in 0..Len(s) /\ n - 1 \notin T
    BY <1>4, <2>1, <2>2
  <2>4. g[n - 1] \in Nat /\ s[n] \in Nat
    BY <1>4, <2>2, <2>3
  <2> QED
    BY <1>3, <2>2, <2>4
<1>6. Len(s) \in 0..Len(s)
  BY <1>4
<1> QED
  BY <1>2, <1>5, <1>6

(***************************************************************************)
(* The types, but for the flags and the round.                             *)
(***************************************************************************)
MotionOK ==
  /\ mode \in Modes
  /\ path \in {"empty", "nozzle", "changing", "unknown"}
  /\ step \in Steps /\ tries \in 0..Attempts
  /\ answer \in Answers

LEMMA MotionStep == MotionOK /\ [Next]_vars => MotionOK'
<1> SUFFICES ASSUME MotionOK, [Next]_vars PROVE MotionOK'
  OBVIOUS
<1>0. mode' = mode
  BY DEF Next, vars
<1>a. Attempts \in Nat /\ 0 \in 0..Attempts
  BY RoundAssumption
<1>b. tries < Attempts => tries + 1 \in 0..Attempts
  BY <1>a DEF MotionOK
<1> USE <1>0, <1>a, <1>b DEF MotionOK, Steps, Answers, claim, Goto, Quiet
<1>1. CASE FirstCount
  BY <1>1 DEF FirstCount
<1>2. CASE ChangeBegin
  BY <1>2 DEF ChangeBegin, Toolchanging, NotRefused, Armed, EncoderArmed, Goto
<1>3. CASE ChangeFails
  BY <1>3 DEF ChangeFails, Fails, Goto
<1>4. CASE FeedStart
  BY <1>4 DEF FeedStart, MotionStart, Start, Fails, Goto, NotRefused, Armed, EncoderArmed
<1>5. CASE FeedEnd
  BY <1>5 DEF FeedEnd, Ends, Fails, Goto, AceMeasures, FaultOf
<1>6. CASE ExtrudeStart
  BY <1>6 DEF ExtrudeStart, MotionStart, Start, Fails, Goto, ExtruderNotRefused, EncoderArmed
<1>7. CASE ExtrudeEnd
  BY <1>7 DEF ExtrudeEnd, Ends, Fails, Goto, ExtruderMeasures, FaultOf
<1>8. CASE PullStart
  BY <1>8 DEF PullStart, MotionStart, Start, Fails, Goto, ExtruderNotRefused, EncoderArmed
<1>9. CASE PullEnd
  BY <1>9 DEF PullEnd, Ends, Fails, Goto, ExtruderMeasures, FaultOf
<1>10. CASE RetractStart
  BY <1>10 DEF RetractStart, MotionStart, Start, Fails, Goto, NotRefused, Armed, EncoderArmed
<1>11. CASE RetractEnd
  BY <1>11 DEF RetractEnd, Ends, Fails, Goto, AceMeasures, FaultOf
<1>12. CASE ParkStart
  BY <1>12 DEF ParkStart, MotionStart, Start, Fails, Goto, NotRefused, Armed, EncoderArmed
<1>13. CASE ParkBlind
  BY <1>13 DEF ParkBlind, Goto
<1>14. CASE ParkEnd
  BY <1>14 DEF ParkEnd, Ends, Fails, Goto, AceMeasures, FaultOf
<1>15. CASE ManualStart
  BY <1>15 DEF ManualStart, Start, NotRefused, Armed, EncoderArmed
<1>16. CASE ManualEnd
  BY <1>16 DEF ManualEnd, Ends, Fails, Goto, AceMeasures, FaultOf
<1>17. CASE AssistOn
  BY <1>17 DEF AssistOn
<1>18. CASE AssistOff
  BY <1>18 DEF AssistOff
<1>19. CASE ReconnectFails
  BY <1>19 DEF ReconnectFails
<1>20. CASE Reconnect
  BY <1>20 DEF Reconnect, Recovered, MustReconcile, Reconcile
<1>21. CASE CalibrationStart
  BY <1>21 DEF CalibrationStart, Calibratable
<1>22. CASE CalibrationTooFew
  BY <1>22 DEF CalibrationTooFew, Calibratable
<1>23. CASE CalibrationCancel
  BY <1>23 DEF CalibrationCancel
<1>24. ASSUME NEW m \in Measures, CalibrationSegment(m) PROVE MotionOK'
  BY <1>24 DEF CalibrationSegment, Measure, Calibratable
<1>25. ASSUME NEW m \in Measures, CalibrationRejected(m) PROVE MotionOK'
  BY <1>25 DEF CalibrationRejected, LastSegment, Measure, Calibratable
<1>26. ASSUME NEW m \in Measures, CalibrationSaved(m) PROVE MotionOK'
  BY <1>26 DEF CalibrationSaved, LastSegment, Measure, Calibratable
<1>27. ASSUME NEW m \in Measures, CalibrationUnsaved(m) PROVE MotionOK'
  BY <1>27 DEF CalibrationUnsaved, LastSegment, Measure, Calibratable
<1>28. CASE Restart
  BY <1>28 DEF Restart, Reconcile, Goto
<1>29. CASE UNCHANGED vars
  BY <1>29 DEF vars
<1> QED BY <1>1, <1>2, <1>3, <1>4, <1>5, <1>6, <1>7, <1>8, <1>9, <1>10, <1>11, <1>12,
     <1>13, <1>14, <1>15, <1>16, <1>17, <1>18, <1>19, <1>20, <1>21, <1>22, <1>23, <1>24,
     <1>25, <1>26, <1>27, <1>28, <1>29 DEF Next, Step

GaugeOK == available \in BOOLEAN /\ resolution \in Nat /\ saved \in Nat

LEMMA GaugeStep == RoundOK /\ GaugeOK /\ [Next]_vars => GaugeOK'
<1> SUFFICES ASSUME RoundOK, GaugeOK, [Next]_vars PROVE GaugeOK'
  OBVIOUS
<1>0. ASSUME NEW m \in Measures PROVE Sum(All(m)) \in Nat
  <2>1. All(m) \in Seq(Measures)
    BY OneMore
  <2>2. Measures \subseteq Nat
    BY RoundAssumption
  <2>3. All(m) \in Seq(Nat)
    BY <2>1, <2>2, SeqMonotonic
  <2> QED BY <2>3, SumIsNat
<1> USE DEF GaugeOK, gauge
<1>1. CASE FirstCount
  BY <1>1 DEF FirstCount
<1>2. CASE ChangeBegin
  BY <1>2 DEF ChangeBegin, Toolchanging, NotRefused, Armed, EncoderArmed, Goto
<1>3. CASE ChangeFails
  BY <1>3 DEF ChangeFails, Fails, Goto
<1>4. CASE FeedStart
  BY <1>4 DEF FeedStart, MotionStart, Start, Fails, Goto, NotRefused, Armed, EncoderArmed
<1>5. CASE FeedEnd
  BY <1>5 DEF FeedEnd, Ends, Fails, Goto, AceMeasures, FaultOf
<1>6. CASE ExtrudeStart
  BY <1>6 DEF ExtrudeStart, MotionStart, Start, Fails, Goto, ExtruderNotRefused, EncoderArmed
<1>7. CASE ExtrudeEnd
  BY <1>7 DEF ExtrudeEnd, Ends, Fails, Goto, ExtruderMeasures, FaultOf
<1>8. CASE PullStart
  BY <1>8 DEF PullStart, MotionStart, Start, Fails, Goto, ExtruderNotRefused, EncoderArmed
<1>9. CASE PullEnd
  BY <1>9 DEF PullEnd, Ends, Fails, Goto, ExtruderMeasures, FaultOf
<1>10. CASE RetractStart
  BY <1>10 DEF RetractStart, MotionStart, Start, Fails, Goto, NotRefused, Armed, EncoderArmed
<1>11. CASE RetractEnd
  BY <1>11 DEF RetractEnd, Ends, Fails, Goto, AceMeasures, FaultOf
<1>12. CASE ParkStart
  BY <1>12 DEF ParkStart, MotionStart, Start, Fails, Goto, NotRefused, Armed, EncoderArmed
<1>13. CASE ParkBlind
  BY <1>13 DEF ParkBlind, Goto
<1>14. CASE ParkEnd
  BY <1>14 DEF ParkEnd, Ends, Fails, Goto, AceMeasures, FaultOf
<1>15. CASE ManualStart
  BY <1>15 DEF ManualStart, Start, NotRefused, Armed, EncoderArmed
<1>16. CASE ManualEnd
  BY <1>16 DEF ManualEnd, Ends, Fails, Goto, AceMeasures, FaultOf
<1>17. CASE AssistOn
  BY <1>17 DEF AssistOn
<1>18. CASE AssistOff
  BY <1>18 DEF AssistOff
<1>19. CASE ReconnectFails
  BY <1>19 DEF ReconnectFails
<1>20. CASE Reconnect
  BY <1>20 DEF Reconnect, Recovered, MustReconcile, Reconcile
<1>21. CASE CalibrationStart
  BY <1>21 DEF CalibrationStart, Calibratable
<1>22. CASE CalibrationTooFew
  BY <1>22 DEF CalibrationTooFew, Calibratable
<1>23. CASE CalibrationCancel
  BY <1>23 DEF CalibrationCancel
<1>24. ASSUME NEW m \in Measures, CalibrationSegment(m) PROVE GaugeOK'
  BY <1>24 DEF CalibrationSegment, Measure, Calibratable
<1>25. ASSUME NEW m \in Measures, CalibrationRejected(m) PROVE GaugeOK'
  BY <1>25 DEF CalibrationRejected, LastSegment, Measure, Calibratable
<1>26. ASSUME NEW m \in Measures, CalibrationSaved(m) PROVE GaugeOK'
  BY <1>26, <1>0 DEF CalibrationSaved, LastSegment, Measure, Calibratable
<1>27. ASSUME NEW m \in Measures, CalibrationUnsaved(m) PROVE GaugeOK'
  BY <1>27, <1>0 DEF CalibrationUnsaved, LastSegment, Measure, Calibratable
<1>28. CASE Restart
  BY <1>28 DEF Restart, Reconcile, Goto
<1>29. CASE UNCHANGED vars
  BY <1>29 DEF vars
<1> QED BY <1>1, <1>2, <1>3, <1>4, <1>5, <1>6, <1>7, <1>8, <1>9, <1>10, <1>11, <1>12,
     <1>13, <1>14, <1>15, <1>16, <1>17, <1>18, <1>19, <1>20, <1>21, <1>22, <1>23, <1>24,
     <1>25, <1>26, <1>27, <1>28, <1>29 DEF Next, Step

LEMMA MotionInit == Init => MotionOK /\ GaugeOK
<1> SUFFICES ASSUME Init PROVE MotionOK /\ GaugeOK
  OBVIOUS
<1>1. 0 \in 0..Attempts
  BY RoundAssumption
<1>2. MotionOK
  BY <1>1 DEF Init, MotionOK, Steps, Answers
<1>3. GaugeOK
  BY DEF Init, GaugeOK
<1> QED BY <1>2, <1>3

LEMMA RoundStep == RoundInv /\ [Next]_vars => RoundInv'
<1> SUFFICES ASSUME RoundInv, [Next]_vars PROVE RoundInv'
  OBVIOUS
<1> USE RoundAssumption DEF RoundInv, RoundOK, RoundsDoNotMix, rounds, gauge, Quiet
<1>1. CASE FirstCount
  BY <1>1 DEF FirstCount
<1>2. CASE ChangeBegin
  BY <1>2 DEF ChangeBegin, Toolchanging, NotRefused, Armed, EncoderArmed, Goto
<1>3. CASE ChangeFails
  BY <1>3 DEF ChangeFails, Fails, Goto
<1>4. CASE FeedStart
  BY <1>4 DEF FeedStart, MotionStart, Start, Fails, Goto, NotRefused, Armed, EncoderArmed
<1>5. CASE FeedEnd
  BY <1>5 DEF FeedEnd, Ends, Fails, Goto, AceMeasures, FaultOf
<1>6. CASE ExtrudeStart
  BY <1>6 DEF ExtrudeStart, MotionStart, Start, Fails, Goto, ExtruderNotRefused, EncoderArmed
<1>7. CASE ExtrudeEnd
  BY <1>7 DEF ExtrudeEnd, Ends, Fails, Goto, ExtruderMeasures, FaultOf
<1>8. CASE PullStart
  BY <1>8 DEF PullStart, MotionStart, Start, Fails, Goto, ExtruderNotRefused, EncoderArmed
<1>9. CASE PullEnd
  BY <1>9 DEF PullEnd, Ends, Fails, Goto, ExtruderMeasures, FaultOf
<1>10. CASE RetractStart
  BY <1>10 DEF RetractStart, MotionStart, Start, Fails, Goto, NotRefused, Armed, EncoderArmed
<1>11. CASE RetractEnd
  BY <1>11 DEF RetractEnd, Ends, Fails, Goto, AceMeasures, FaultOf
<1>12. CASE ParkStart
  BY <1>12 DEF ParkStart, MotionStart, Start, Fails, Goto, NotRefused, Armed, EncoderArmed
<1>13. CASE ParkBlind
  BY <1>13 DEF ParkBlind, Goto
<1>14. CASE ParkEnd
  BY <1>14 DEF ParkEnd, Ends, Fails, Goto, AceMeasures, FaultOf
<1>15. CASE ManualStart
  BY <1>15 DEF ManualStart, Start, NotRefused, Armed, EncoderArmed
<1>16. CASE ManualEnd
  BY <1>16 DEF ManualEnd, Ends, Fails, Goto, AceMeasures, FaultOf
<1>17. CASE AssistOn
  BY <1>17 DEF AssistOn
<1>18. CASE AssistOff
  BY <1>18 DEF AssistOff
<1>19. CASE ReconnectFails
  BY <1>19 DEF ReconnectFails
<1>20. CASE Reconnect
  BY <1>20 DEF Reconnect, Recovered, MustReconcile, Reconcile
<1>21. CASE CalibrationStart
  BY <1>21 DEF CalibrationStart, Calibratable
<1>22. CASE CalibrationTooFew
  BY <1>22 DEF CalibrationTooFew, Calibratable
<1>23. CASE CalibrationCancel
  BY <1>23 DEF CalibrationCancel
<1>24. ASSUME NEW m \in Measures, CalibrationSegment(m) PROVE RoundInv'
  BY <1>24, OneMore DEF All, CalibrationSegment, Measure, Calibratable
<1>25. ASSUME NEW m \in Measures, CalibrationRejected(m) PROVE RoundInv'
  BY <1>25, OneMore DEF All, CalibrationRejected, LastSegment, Measure, Calibratable
<1>26. ASSUME NEW m \in Measures, CalibrationSaved(m) PROVE RoundInv'
  BY <1>26, OneMore DEF All, CalibrationSaved, LastSegment, Measure, Calibratable
<1>27. ASSUME NEW m \in Measures, CalibrationUnsaved(m) PROVE RoundInv'
  BY <1>27, OneMore DEF All, CalibrationUnsaved, LastSegment, Measure, Calibratable
<1>28. CASE Restart
  BY <1>28 DEF Restart, Reconcile, Goto
<1>29. CASE UNCHANGED vars
  BY <1>29 DEF vars
<1> QED BY <1>1, <1>2, <1>3, <1>4, <1>5, <1>6, <1>7, <1>8, <1>9, <1>10, <1>11, <1>12,
     <1>13, <1>14, <1>15, <1>16, <1>17, <1>18, <1>19, <1>20, <1>21, <1>22, <1>23, <1>24,
     <1>25, <1>26, <1>27, <1>28, <1>29 DEF Next, Step

LEMMA HoldStep == GuardInv /\ [Next]_vars => HoldInv'
<1> SUFFICES ASSUME GuardInv, [Next]_vars PROVE HoldInv'
  OBVIOUS
<1>0. mode' = mode
  BY DEF Next, vars
<1> USE <1>0 DEF GuardInv, FlagsOK, RoundInv, RoundOK, HoldInv, MovesKnown, CalibrationIsStill,
      FaultHoldsPath, FaultShown, claim, faults, gauge, rounds
<1>1. CASE FirstCount
  BY <1>1 DEF FirstCount
<1>2. CASE ChangeBegin
  BY <1>2 DEF ChangeBegin, Toolchanging, NotRefused, Armed, EncoderArmed, Goto
<1>3. CASE ChangeFails
  BY <1>3 DEF ChangeFails, Fails, Goto
<1>4. CASE FeedStart
  BY <1>4 DEF FeedStart, MotionStart, Start, Fails, Goto, NotRefused, Armed, EncoderArmed
<1>5. CASE FeedEnd
  <2>0. step = "feeding" /\ round' = round
    BY <1>5 DEF FeedEnd
  <2>1. CASE ~watched
    <3>1. step' \in {"extrude", "feed"} /\ UNCHANGED claim /\ UNCHANGED faults
      BY <1>5, <2>1 DEF FeedEnd, Ends, Goto
    <3> QED BY <2>0, <3>1
  <2>2. CASE watched
    <3>1. PICK pulses \in Pulses :
            /\ AceMeasures(FaultOf(pulses, FALSE))
            /\ IF FaultOf(pulses, FALSE) /\ mode = "protect"
               THEN Fails("encoder") ELSE step' \in {"extrude", "feed"} /\ UNCHANGED claim
      BY <1>5, <2>2 DEF FeedEnd, Ends, Goto
    <3>2. CASE FaultOf(pulses, FALSE) /\ mode = "protect"
      <4>1. path' = "unknown" /\ step' = "idle" /\ assist' = assist
        BY <3>1, <3>2 DEF Fails, Goto
      <4> QED BY <2>0, <4>1
    <3>3. CASE mode # "protect"
      <4>1. step' \in {"extrude", "feed"} /\ UNCHANGED claim
        BY <3>1, <3>3
      <4> QED BY <2>0, <3>3, <4>1
    <3>4. CASE mode = "protect" /\ ~FaultOf(pulses, FALSE)
      <4>1. step' \in {"extrude", "feed"} /\ UNCHANGED claim
        BY <3>1, <3>4
      <4>2. ~motionFault' /\ ~runtimeFault'
        BY <2>0, <3>1, <3>4 DEF AceMeasures
      <4> QED BY <2>0, <4>1, <4>2
    <3> QED BY <3>2, <3>3, <3>4
  <2> QED BY <2>1, <2>2
<1>6. CASE ExtrudeStart
  BY <1>6 DEF ExtrudeStart, MotionStart, Start, Fails, Goto, ExtruderNotRefused, EncoderArmed
<1>7. CASE ExtrudeEnd
  <2>0. step = "extruding" /\ round' = round
    BY <1>7 DEF ExtrudeEnd
  <2>1. CASE ~watched
    <3>1. step' = "idle" /\ path' = "nozzle" /\ UNCHANGED faults
      BY <1>7, <2>1 DEF ExtrudeEnd, Ends, Goto
    <3> QED BY <2>0, <3>1
  <2>2. CASE watched
    <3>1. PICK pulses \in Pulses :
            /\ ExtruderMeasures(FaultOf(pulses, TRUE))
            /\ IF FaultOf(pulses, TRUE) /\ mode = "protect"
               THEN Fails("encoder") ELSE step' = "idle" /\ path' = "nozzle"
      BY <1>7, <2>2 DEF ExtrudeEnd, Ends, Goto
    <3>2. CASE FaultOf(pulses, TRUE) /\ mode = "protect"
      <4>1. path' = "unknown" /\ step' = "idle" /\ assist' = assist
        BY <3>1, <3>2 DEF Fails, Goto
      <4> QED BY <2>0, <4>1
    <3>3. CASE mode # "protect"
      <4>1. step' = "idle" /\ path' = "nozzle"
        BY <3>1, <3>3
      <4> QED BY <2>0, <3>3, <4>1
    <3>4. CASE mode = "protect" /\ ~FaultOf(pulses, TRUE)
      <4>1. step' = "idle" /\ path' = "nozzle"
        BY <3>1, <3>4
      <4>2. ~motionFault' /\ ~runtimeFault'
        BY <2>0, <3>1, <3>4 DEF ExtruderMeasures
      <4> QED BY <2>0, <4>1, <4>2
    <3> QED BY <3>2, <3>3, <3>4
  <2> QED BY <2>1, <2>2
<1>8. CASE PullStart
  BY <1>8 DEF PullStart, MotionStart, Start, Fails, Goto, ExtruderNotRefused, EncoderArmed
<1>9. CASE PullEnd
  <2>0. step = "pulling" /\ round' = round
    BY <1>9 DEF PullEnd
  <2>1. CASE ~watched
    <3>1. step' = "retract" /\ UNCHANGED claim /\ UNCHANGED faults
      BY <1>9, <2>1 DEF PullEnd, Ends, Goto
    <3> QED BY <2>0, <3>1
  <2>2. CASE watched
    <3>1. PICK pulses \in Pulses :
            /\ ExtruderMeasures(FaultOf(pulses, TRUE))
            /\ IF FaultOf(pulses, TRUE) /\ mode = "protect"
               THEN Fails("encoder") ELSE step' = "retract" /\ UNCHANGED claim
      BY <1>9, <2>2 DEF PullEnd, Ends, Goto
    <3>2. CASE FaultOf(pulses, TRUE) /\ mode = "protect"
      <4>1. path' = "unknown" /\ step' = "idle" /\ assist' = assist
        BY <3>1, <3>2 DEF Fails, Goto
      <4> QED BY <2>0, <4>1
    <3>3. CASE mode # "protect"
      <4>1. step' = "retract" /\ UNCHANGED claim
        BY <3>1, <3>3
      <4> QED BY <2>0, <3>3, <4>1
    <3>4. CASE mode = "protect" /\ ~FaultOf(pulses, TRUE)
      <4>1. step' = "retract" /\ UNCHANGED claim
        BY <3>1, <3>4
      <4>2. ~motionFault' /\ ~runtimeFault'
        BY <2>0, <3>1, <3>4 DEF ExtruderMeasures
      <4> QED BY <2>0, <4>1, <4>2
    <3> QED BY <3>2, <3>3, <3>4
  <2> QED BY <2>1, <2>2
<1>10. CASE RetractStart
  BY <1>10 DEF RetractStart, MotionStart, Start, Fails, Goto, NotRefused, Armed, EncoderArmed
<1>11. CASE RetractEnd
  <2>0. step = "retracting" /\ round' = round
    BY <1>11 DEF RetractEnd
  <2>1. CASE ~watched
    <3>1. step' \in {"park", "pull", "retract"} /\ UNCHANGED claim /\ UNCHANGED faults
      BY <1>11, <2>1 DEF RetractEnd, Ends, Goto
    <3> QED BY <2>0, <3>1
  <2>2. CASE watched
    <3>1. PICK pulses \in Pulses :
            /\ AceMeasures(FaultOf(pulses, FALSE))
            /\ IF FaultOf(pulses, FALSE) /\ mode = "protect"
               THEN Fails("encoder") ELSE step' \in {"park", "pull", "retract"} /\ UNCHANGED claim
      BY <1>11, <2>2 DEF RetractEnd, Ends, Goto
    <3>2. CASE FaultOf(pulses, FALSE) /\ mode = "protect"
      <4>1. path' = "unknown" /\ step' = "idle" /\ assist' = assist
        BY <3>1, <3>2 DEF Fails, Goto
      <4> QED BY <2>0, <4>1
    <3>3. CASE mode # "protect"
      <4>1. step' \in {"park", "pull", "retract"} /\ UNCHANGED claim
        BY <3>1, <3>3
      <4> QED BY <2>0, <3>3, <4>1
    <3>4. CASE mode = "protect" /\ ~FaultOf(pulses, FALSE)
      <4>1. step' \in {"park", "pull", "retract"} /\ UNCHANGED claim
        BY <3>1, <3>4
      <4>2. ~motionFault' /\ ~runtimeFault'
        BY <2>0, <3>1, <3>4 DEF AceMeasures
      <4> QED BY <2>0, <4>1, <4>2
    <3> QED BY <3>2, <3>3, <3>4
  <2> QED BY <2>1, <2>2
<1>12. CASE ParkStart
  BY <1>12 DEF ParkStart, MotionStart, Start, Fails, Goto, NotRefused, Armed, EncoderArmed
<1>13. CASE ParkBlind
  BY <1>13 DEF ParkBlind, Goto
<1>14. CASE ParkEnd
  <2>0. step = "parking" /\ round' = round
    BY <1>14 DEF ParkEnd
  <2>1. CASE ~watched
    <3>1. step' \in {"idle", "feed"} /\ UNCHANGED assist /\ UNCHANGED faults
      BY <1>14, <2>1 DEF ParkEnd, Ends, Goto
    <3> QED BY <2>0, <3>1
  <2>2. CASE watched
    <3>1. PICK pulses \in Pulses :
            /\ AceMeasures(FaultOf(pulses, FALSE))
            /\ IF FaultOf(pulses, FALSE) /\ mode = "protect"
               THEN Fails("encoder") ELSE step' \in {"idle", "feed"} /\ UNCHANGED assist
      BY <1>14, <2>2 DEF ParkEnd, Ends, Goto
    <3>2. CASE FaultOf(pulses, FALSE) /\ mode = "protect"
      <4>1. path' = "unknown" /\ step' = "idle" /\ assist' = assist
        BY <3>1, <3>2 DEF Fails, Goto
      <4> QED BY <2>0, <4>1
    <3>3. CASE mode # "protect"
      <4>1. step' \in {"idle", "feed"} /\ UNCHANGED assist
        BY <3>1, <3>3
      <4> QED BY <2>0, <3>3, <4>1
    <3>4. CASE mode = "protect" /\ ~FaultOf(pulses, FALSE)
      <4>1. step' \in {"idle", "feed"} /\ UNCHANGED assist
        BY <3>1, <3>4
      <4>2. ~motionFault' /\ ~runtimeFault'
        BY <2>0, <3>1, <3>4 DEF AceMeasures
      <4> QED BY <2>0, <4>1, <4>2
    <3> QED BY <3>2, <3>3, <3>4
  <2> QED BY <2>1, <2>2
<1>15. CASE ManualStart
  BY <1>15 DEF ManualStart, Start, NotRefused, Armed, EncoderArmed
<1>16. CASE ManualEnd
  BY <1>16 DEF ManualEnd, Ends, Fails, Goto, AceMeasures, FaultOf
<1>17. CASE AssistOn
  BY <1>17 DEF AssistOn
<1>18. CASE AssistOff
  BY <1>18 DEF AssistOff
<1>19. CASE ReconnectFails
  BY <1>19 DEF ReconnectFails
<1>20. CASE Reconnect
  BY <1>20 DEF Reconnect, Recovered, MustReconcile, Reconcile
<1>21. CASE CalibrationStart
  BY <1>21 DEF CalibrationStart, Calibratable
<1>22. CASE CalibrationTooFew
  BY <1>22 DEF CalibrationTooFew, Calibratable
<1>23. CASE CalibrationCancel
  BY <1>23 DEF CalibrationCancel
<1>24. ASSUME NEW m \in Measures, CalibrationSegment(m) PROVE HoldInv'
  BY <1>24 DEF CalibrationSegment, Measure, Calibratable
<1>25. ASSUME NEW m \in Measures, CalibrationRejected(m) PROVE HoldInv'
  BY <1>25 DEF CalibrationRejected, LastSegment, Measure, Calibratable
<1>26. ASSUME NEW m \in Measures, CalibrationSaved(m) PROVE HoldInv'
  BY <1>26 DEF CalibrationSaved, LastSegment, Measure, Calibratable
<1>27. ASSUME NEW m \in Measures, CalibrationUnsaved(m) PROVE HoldInv'
  BY <1>27 DEF CalibrationUnsaved, LastSegment, Measure, Calibratable
<1>28. CASE Restart
  BY <1>28 DEF Restart, Reconcile, Goto
<1>29. CASE UNCHANGED vars
  BY <1>29 DEF vars
<1> QED BY <1>1, <1>2, <1>3, <1>4, <1>5, <1>6, <1>7, <1>8, <1>9, <1>10, <1>11, <1>12,
     <1>13, <1>14, <1>15, <1>16, <1>17, <1>18, <1>19, <1>20, <1>21, <1>22, <1>23, <1>24,
     <1>25, <1>26, <1>27, <1>28, <1>29 DEF Next, Step

LEMMA GuardStep == GuardInv /\ [Next]_vars => GuardInv'
BY FlagsStep, RoundStep, HoldStep DEF GuardInv

LEMMA GuardHolds == Spec => []GuardInv
BY GuardInit, GuardStep, PTL DEF Spec

(***************************************************************************)
(* The theorems.                                                           *)
(***************************************************************************)
\* Every variable has its type: the path has one of its four states, a motion's
\* windows and turns stay within the bound, a resolution is a natural number
\* (AceEncoder, encoder_resolution of the state store).
THEOREM TypesCorrect == Spec => []TypeOK
<1> DEFINE Types == MotionOK /\ GaugeOK
<1>1. Init => Types
  BY MotionInit
<1>2. Types /\ GuardInv /\ [Next]_vars => Types'
  BY MotionStep, GaugeStep DEF GuardInv, RoundInv
<1>3. Types /\ GuardInv => TypeOK
  BY DEF TypeOK, MotionOK, GaugeOK, GuardInv, FlagsOK, RoundInv, RoundOK
<1> HIDE DEF Types
<1> QED BY <1>1, <1>2, <1>3, GuardHolds, PTL DEF Spec

\* No motion and no feed assist during a calibration round
\* (_assert_encoder_calibration_allowed, get_toolchange_readiness).
THEOREM StillCalibration == Spec => []CalibrationIsStill
<1>1. GuardInv => CalibrationIsStill
  BY DEF GuardInv, HoldInv
<1> QED BY <1>1, GuardHolds, PTL

\* In protect mode a fault on the manager's record keeps the path unknown, and no
\* step of a change follows a fault (_finish_ace_motion, _finish_encoder_tracking).
THEOREM FaultsHold == Spec => []FaultHoldsPath
<1>1. GuardInv => FaultHoldsPath
  BY DEF GuardInv, HoldInv
<1> QED BY <1>1, GuardHolds, PTL

\* A calibration round holds the segments measured since it was started and no
\* other, and the resolution it answers with is made of exactly SEGMENTS= of them
\* (start_calibration, finish_calibration).
THEOREM RoundsApart == Spec => []RoundsDoNotMix
<1>1. GuardInv => RoundsDoNotMix
  BY DEF GuardInv, RoundInv
<1> QED BY <1>1, GuardHolds, PTL

LEMMA SameSum ==
  ASSUME NEW s
  PROVE  Off!Sum(s) = Sum(s)
BY DEF Sum, Off!Sum

LEMMA SameWithin ==
  ASSUME NEW s, NEW percent
  PROVE  Off!Within(s, percent) <=> Within(s, percent)
BY SameSum DEF Within, Off!Within

LEMMA OffStep ==
  ASSUME mode = "monitor", [Next]_vars
  PROVE  [Off!Next]_(Off!vars)
<1>0. mode' = "monitor"
  BY DEF Next, vars
<1> USE DEF claim, faults, gauge, rounds, Off!claim, Off!faults, Off!gauge, Off!rounds
<1>1. FirstCount => Off!FirstCount
  BY DEF FirstCount, Quiet, Off!FirstCount, Off!Quiet
<1>2. ChangeBegin => Off!ChangeBegin
  BY DEF ChangeBegin, Toolchanging, NotRefused, Goto, Quiet, Off!ChangeBegin,
     Off!Toolchanging, Off!NotRefused, Off!Goto, Off!Quiet
<1>3. ChangeFails => Off!ChangeFails
  BY DEF ChangeFails, Fails, Goto, Off!ChangeFails, Off!Fails, Off!Goto
<1>4. FeedStart => Off!FeedStart
  BY DEF FeedStart, MotionStart, Start, NotRefused, Quiet, Off!FeedStart,
     Off!MotionStart, Off!Start, Off!NotRefused, Off!Quiet
<1>5. FeedEnd => Off!FeedEnd
  BY DEF FeedEnd, Ends, Goto, Quiet, Off!FeedEnd, Off!Ends, Off!Goto, Off!Quiet
<1>6. ExtrudeStart => Off!ExtrudeStart
  BY DEF ExtrudeStart, MotionStart, Start, ExtruderNotRefused, Quiet, Off!ExtrudeStart,
     Off!MotionStart, Off!Start, Off!ExtruderNotRefused, Off!Quiet
<1>7. ExtrudeEnd => Off!ExtrudeEnd
  BY DEF ExtrudeEnd, Ends, Goto, Quiet, Off!ExtrudeEnd, Off!Ends, Off!Goto,
     Off!Quiet
<1>8. PullStart => Off!PullStart
  BY DEF PullStart, MotionStart, Start, ExtruderNotRefused, Quiet, Off!PullStart,
     Off!MotionStart, Off!Start, Off!ExtruderNotRefused, Off!Quiet
<1>9. PullEnd => Off!PullEnd
  BY DEF PullEnd, Ends, Goto, Quiet, Off!PullEnd, Off!Ends, Off!Goto, Off!Quiet
<1>10. RetractStart => Off!RetractStart
  BY DEF RetractStart, MotionStart, Start, NotRefused, Quiet, Off!RetractStart,
     Off!MotionStart, Off!Start, Off!NotRefused, Off!Quiet
<1>11. RetractEnd => Off!RetractEnd
  BY DEF RetractEnd, Ends, Goto, Quiet, Off!RetractEnd, Off!Ends, Off!Goto,
     Off!Quiet
<1>12. ParkStart => Off!ParkStart
  BY DEF ParkStart, MotionStart, Start, NotRefused, Quiet, Off!ParkStart,
     Off!MotionStart, Off!Start, Off!NotRefused, Off!Quiet
<1>13. ParkBlind => Off!ParkBlind
  BY DEF ParkBlind, Goto, Quiet, Off!ParkBlind, Off!Goto, Off!Quiet
<1>14. ParkEnd => Off!ParkEnd
  BY DEF ParkEnd, Ends, Goto, Quiet, Off!ParkEnd, Off!Ends, Off!Goto, Off!Quiet
<1>15. ManualStart => Off!ManualStart
  BY DEF ManualStart, Start, NotRefused, Quiet, Off!ManualStart, Off!Start,
     Off!NotRefused, Off!Quiet
<1>16. ManualEnd => Off!ManualEnd
  BY DEF ManualEnd, Ends, Goto, Quiet, Off!ManualEnd, Off!Ends, Off!Goto,
     Off!Quiet
<1>17. AssistOn => Off!AssistOn
  BY DEF AssistOn, Quiet, Off!AssistOn, Off!Quiet
<1>18. AssistOff => Off!AssistOff
  BY DEF AssistOff, Quiet, Off!AssistOff, Off!Quiet
<1>19. ReconnectFails => Off!ReconnectFails
  BY DEF ReconnectFails, Off!ReconnectFails
<1>20. Reconnect => Off!Reconnect
  BY DEF Reconnect, Recovered, MustReconcile, Reconcile, Off!Reconnect,
     Off!Recovered, Off!MustReconcile, Off!Reconcile
<1>21. CalibrationStart => Off!CalibrationStart
  BY DEF CalibrationStart, Calibratable, Quiet, Off!CalibrationStart,
     Off!Calibratable, Off!Quiet
<1>22. CalibrationTooFew => Off!CalibrationTooFew
  BY DEF CalibrationTooFew, Calibratable, Off!CalibrationTooFew, Off!Calibratable
<1>23. CalibrationCancel => Off!CalibrationCancel
  BY DEF CalibrationCancel, Quiet, Off!CalibrationCancel, Off!Quiet
<1>24. \A m \in Measures : CalibrationSegment(m) => Off!CalibrationSegment(m)
  BY DEF CalibrationSegment, Measure, Calibratable, All, Off!CalibrationSegment,
     Off!Measure, Off!Calibratable, Off!All
<1>25. \A m \in Measures : CalibrationRejected(m) => Off!CalibrationRejected(m)
  BY SameSum, SameWithin DEF CalibrationRejected, LastSegment, Measure, Calibratable, All,
     Off!CalibrationRejected, Off!LastSegment, Off!Measure, Off!Calibratable, Off!All
<1>26. \A m \in Measures : CalibrationSaved(m) => Off!CalibrationSaved(m)
  BY SameSum, SameWithin DEF CalibrationSaved, LastSegment, Measure, Calibratable, All,
     Off!CalibrationSaved, Off!LastSegment, Off!Measure, Off!Calibratable, Off!All
<1>27. \A m \in Measures : CalibrationUnsaved(m) => Off!CalibrationUnsaved(m)
  BY SameSum, SameWithin DEF CalibrationUnsaved, LastSegment, Measure, Calibratable, All,
     Off!CalibrationUnsaved, Off!LastSegment, Off!Measure, Off!Calibratable, Off!All
<1>28. Restart => Off!Restart
  BY DEF Restart, Reconcile, Goto, Quiet, Off!Restart, Off!Reconcile, Off!Goto,
     Off!Quiet
<1>29. UNCHANGED vars => UNCHANGED Off!vars
  BY DEF vars, Off!vars
<1> QED BY <1>0, <1>1, <1>2, <1>3, <1>4, <1>5, <1>6, <1>7, <1>8, <1>9, <1>10, <1>11, <1>12,
     <1>13, <1>14, <1>15, <1>16, <1>17, <1>18, <1>19, <1>20, <1>21, <1>22, <1>23, <1>24,
     <1>25, <1>26, <1>27, <1>28, <1>29 DEF Next, Step, Off!Next, Off!Step

\* Monitor mode only records: with the encoder's token and faults hidden, every
\* step of the driver is a step it takes with the encoder off
\* (_start_ace_motion, _finish_ace_motion, get_toolchange_readiness).
THEOREM ReadOnly == Spec => MonitorIsReadOnly
<1>1. Init => (mode = "monitor" => Off!Init)
  BY DEF Init, Off!Init
<1>2. [Next]_vars => [mode = "monitor" => [Off!Next]_(Off!vars)]_vars
  BY OffStep
<1> QED BY <1>1, <1>2, PTL DEF Spec, MonitorIsReadOnly
=============================================================================
