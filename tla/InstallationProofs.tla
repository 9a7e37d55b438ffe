-------------------------- MODULE InstallationProofs --------------------------
(***************************************************************************)
(* The installer keeps its promises, for every set of units, every list of *)
(* devices, every old configuration, and any number of runs, edits and     *)
(* power losses.                                                           *)
(*                                                                         *)
(* The argument has six parts, each an invariant of its own that rests on  *)
(* the ones before it:                                                     *)
(*   TodoInv, TurnInv    the steps to come are in one fixed order, and     *)
(*                       what was put on the list is done or still on it;  *)
(*   FitInv              files, saved files and snapshots hold what their  *)
(*                       paths can hold, and no foreign authorisation;     *)
(*   UndoInv             the log, read backwards, gives the files the run  *)
(*                       began with;                                       *)
(*   SnapInv             what the snapshot leaves out was not changed;     *)
(*   PhaseInv, RetireInv what is put away is in ace.cfg, here, in what the *)
(*                       log saved and in the snapshot;                    *)
(*   CleanInv            the records say what is there: whenever nothing   *)
(*                       runs, and of each link as far as a run has got.   *)
(***************************************************************************)
EXTENDS Installation, SequenceTheorems, TLAPS

(***************************************************************************)
(* Lists, and the steps of a script.  Every step has a rank, and a script  *)
(* only ever has steps of ascending rank before it.                        *)
(***************************************************************************)
IsSeq(s) == s \in Seq(Range(s))

LEMMA Listed ==
  ASSUME NEW s, IsSeq(s)
  PROVE  Len(s) \in Nat /\ DOMAIN s = 1..Len(s)
BY LenProperties DEF IsSeq

LEMMA EmptyList == IsSeq(<<>>) /\ DOMAIN <<>> = {} /\ Range(<<>>) = {}
BY EmptySeq DEF IsSeq, Range

LEMMA Pushed ==
  ASSUME NEW s, IsSeq(s), NEW e
  PROVE  LET t == Append(s, e) IN
         /\ IsSeq(t) /\ Len(t) = Len(s) + 1 /\ t[Len(t)] = e
         /\ \A i \in DOMAIN s : t[i] = s[i]
<1> DEFINE R == Range(s) \cup {e}
           t == Append(s, e)
<1>1. s \in Seq(R) /\ e \in R
  BY SeqMonotonic DEF IsSeq
<1>2. t \in Seq(R) /\ Len(t) = Len(s) + 1 /\ t[Len(s) + 1] = e
      /\ \A i \in 1..Len(s) : t[i] = s[i]
  BY <1>1, AppendProperties
<1>3. IsSeq(t)
  BY <1>2, SeqOfRange DEF IsSeq
<1> QED
  BY <1>2, <1>3, Listed

LEMMA Dropped ==
  ASSUME NEW s, IsSeq(s), s # <<>>
  PROVE  LET t == SubSeq(s, 1, Len(s) - 1) IN
         /\ IsSeq(t) /\ Len(t) = Len(s) - 1 /\ Len(s) \in DOMAIN s
         /\ DOMAIN t = DOMAIN s \ {Len(s)}
         /\ \A i \in DOMAIN t : t[i] = s[i]
<1> DEFINE t == SubSeq(s, 1, Len(s) - 1)
<1>1. Len(s) \in Nat /\ DOMAIN s = 1..Len(s) /\ Len(s) # 0
  BY Listed, EmptySeq DEF IsSeq
<1>2. \A i \in 1..(Len(s) - 1) : s[i] \in Range(s)
  BY <1>1 DEF Range
<1>3. /\ t \in Seq(Range(s))
      /\ Len(t) = IF 1 <= Len(s) - 1 THEN Len(s) - 1 - 1 + 1 ELSE 0
      /\ \A i \in 1..(Len(s) - 1 - 1 + 1) : t[i] = s[1 + i - 1]
  <2> HIDE DEF t
  <2> QED
    BY <1>1, <1>2, SubSeqProperties DEF t
<1>4. IsSeq(t)
  BY <1>3, SeqOfRange DEF IsSeq
<1>5. Len(t) = Len(s) - 1
  BY <1>1, <1>3
<1>6. DOMAIN t = 1..(Len(s) - 1)
  BY <1>4, <1>5, Listed
<1> QED
  BY <1>1, <1>3, <1>4, <1>5, <1>6

(***************************************************************************)
(* The steps to come.                                                      *)
(***************************************************************************)
InstallSet ==
  {<<"install_link", "package">>, <<"link", "package">>,
   <<"record", "package">>, <<"record_backup", "package">>,
   <<"install_link", "page">>, <<"link", "page">>,
   <<"record", "page">>, <<"record_backup", "page">>,
   <<"check", "fluidd">>, <<"apply", "fluidd">>, <<"note", "fluidd">>,
   <<"create", "ace.cfg">>, <<"upgrade", "ace.cfg">>, <<"archive", "ace_machine.cfg">>,
   <<"merge", "ace.cfg">>, <<"archive", "ace_hardware.cfg">>,
   <<"ensure", "printer.cfg">>, <<"ensure", "moonraker.conf">>}

UninstallSet ==
  {<<"unpatch", "fluidd">>, <<"unlink", "page">>, <<"give_back", "page">>,
   <<"unlink", "package">>, <<"give_back", "package">>,
   <<"remove", "printer.cfg">>, <<"remove", "moonraker.conf">>,
   <<"clean", "manifest">>, <<"clean", "fluidd-source.path">>, <<"clean", "backups">>}

StepSet == InstallSet \cup UninstallSet

Place(n, p) ==
  CASE n = "install_link" -> IF p = "package" THEN 1 ELSE 5
    [] n = "link" -> IF p = "package" THEN 2 ELSE 6
    [] n \in {"record", "record_backup"} -> IF p = "package" THEN 3 ELSE 7
    [] n = "check" -> 4
    [] n = "apply" -> 8
    [] n = "note" -> 9
    [] n = "create" -> 10
    [] n = "upgrade" -> 11
    [] n = "archive" -> IF p = "ace_machine.cfg" THEN 12 ELSE 14
    [] n = "merge" -> 13
    [] n = "ensure" -> IF p = "printer.cfg" THEN 15 ELSE 16
    [] n = "unpatch" -> 21
    [] n = "unlink" -> IF p = "page" THEN 22 ELSE 24
    [] n = "give_back" -> IF p = "page" THEN 23 ELSE 25
    [] n = "remove" -> IF p = "printer.cfg" THEN 26 ELSE 27
    [] n = "clean" -> IF p = "manifest" THEN 28 ELSE IF p = "fluidd-source.path" THEN 29 ELSE 30
    [] OTHER -> 40

Rank == [s \in StepSet |-> Place(s[1], s[2])]

Ascending(s) == \A i, j \in DOMAIN s : i < j => Rank[s[i]] < Rank[s[j]]

LEMMA RankIsNat == \A s \in StepSet : Rank[s] \in Nat
BY DEF Rank, Place

LEMMA RankValues ==
  /\ Rank[<<"install_link", "package">>] = 1 /\ Rank[<<"install_link", "page">>] = 5
  /\ Rank[<<"link", "package">>] = 2 /\ Rank[<<"link", "page">>] = 6
  /\ Rank[<<"record", "package">>] = 3 /\ Rank[<<"record", "page">>] = 7
  /\ Rank[<<"record_backup", "package">>] = 3 /\ Rank[<<"record_backup", "page">>] = 7
  /\ Rank[<<"check", "fluidd">>] = 4 /\ Rank[<<"apply", "fluidd">>] = 8 /\ Rank[<<"note", "fluidd">>] = 9
  /\ Rank[<<"create", "ace.cfg">>] = 10 /\ Rank[<<"upgrade", "ace.cfg">>] = 11
  /\ Rank[<<"archive", "ace_machine.cfg">>] = 12 /\ Rank[<<"merge", "ace.cfg">>] = 13
  /\ Rank[<<"archive", "ace_hardware.cfg">>] = 14
  /\ Rank[<<"ensure", "printer.cfg">>] = 15 /\ Rank[<<"ensure", "moonraker.conf">>] = 16
  /\ Rank[<<"unpatch", "fluidd">>] = 21
  /\ Rank[<<"unlink", "page">>] = 22 /\ Rank[<<"give_back", "page">>] = 23
  /\ Rank[<<"unlink", "package">>] = 24 /\ Rank[<<"give_back", "package">>] = 25
  /\ Rank[<<"remove", "printer.cfg">>] = 26 /\ Rank[<<"remove", "moonraker.conf">>] = 27
  /\ Rank[<<"clean", "manifest">>] = 28 /\ Rank[<<"clean", "fluidd-source.path">>] = 29
  /\ Rank[<<"clean", "backups">>] = 30
BY DEF Rank, Place, StepSet, InstallSet, UninstallSet

Precedes(s, t) == \A a \in Range(s), b \in Range(t) : Rank[a] < Rank[b]

LEMMA Joined ==
  ASSUME NEW S, NEW s \in Seq(S), NEW t \in Seq(S), Ascending(s), Ascending(t), Precedes(s, t)
  PROVE  s \o t \in Seq(S) /\ Ascending(s \o t) /\ Range(s \o t) = Range(s) \cup Range(t)
<1> DEFINE u == s \o t
<1>1. /\ u \in Seq(S) /\ Len(u) = Len(s) + Len(t)
      /\ \A i \in 1 .. Len(s) + Len(t) : u[i] = IF i <= Len(s) THEN s[i] ELSE t[i - Len(s)]
  BY ConcatProperties
<1>2. Range(u) = Range(s) \cup Range(t)
  BY RangeConcatenation
<1>3. Len(s) \in Nat /\ DOMAIN s = 1..Len(s) /\ Len(t) \in Nat /\ DOMAIN t = 1..Len(t)
      /\ DOMAIN u = 1..Len(u)
  BY <1>1, LenProperties
<1>4. ASSUME NEW i \in DOMAIN u, NEW j \in DOMAIN u, i < j
      PROVE  Rank[u[i]] < Rank[u[j]]
  <2>1. CASE j <= Len(s)
    BY <1>1, <1>3, <1>4, <2>1 DEF Ascending
  <2>2. CASE i > Len(s)
    <3>1. i - Len(s) \in DOMAIN t /\ j - Len(s) \in DOMAIN t /\ i - Len(s) < j - Len(s)
      BY <1>1, <1>3, <1>4, <2>2
    <3>2. Rank[t[i - Len(s)]] < Rank[t[j - Len(s)]]
      BY <3>1 DEF Ascending
    <3> QED
      BY <1>1, <1>3, <1>4, <2>2, <3>2
  <2>3. CASE i <= Len(s) /\ ~(j <= Len(s))
    <3>1. i \in DOMAIN s /\ j - Len(s) \in DOMAIN t
      BY <1>1, <1>3, <1>4, <2>3
    <3>2. Rank[s[i]] < Rank[t[j - Len(s)]]
      BY <3>1 DEF Range, Precedes
    <3> QED
      BY <1>1, <1>3, <1>4, <2>3, <3>2
  <2> QED
    BY <1>1, <1>3, <2>1, <2>2, <2>3
<1> HIDE DEF u
<1> QED
  BY <1>1, <1>2, <1>4 DEF u, Ascending


LEMMA OneStep ==
  ASSUME NEW a \in StepSet
  PROVE  <<a>> \in Seq(StepSet) /\ Ascending(<<a>>) /\ Range(<<a>>) = {a}
BY DEF Ascending, Range

LEMMA NoStep ==
  <<>> \in Seq(StepSet) /\ Ascending(<<>>) /\ Range(<<>>) = {}
BY EmptyList, EmptySeq DEF Ascending

LEMMA TwoSteps ==
  ASSUME NEW a \in StepSet, NEW b \in StepSet, Rank[a] < Rank[b]
  PROVE  <<a, b>> \in Seq(StepSet) /\ Ascending(<<a, b>>) /\ Range(<<a, b>>) = {a, b}
<1>1. <<a, b>> \in Seq(StepSet)
  OBVIOUS
<1>2. Ascending(<<a, b>>)
  BY DEF Ascending
<1>3. Range(<<a, b>>) = {a, b}
  BY DEF Range
<1> QED
  BY <1>1, <1>2, <1>3

LEMMA Taken ==
  ASSUME NEW s \in Seq(StepSet), Ascending(s), s # <<>>
  PROVE  /\ Tail(s) \in Seq(StepSet) /\ Ascending(Tail(s))
         /\ Head(s) \in Range(s) /\ Range(Tail(s)) = Range(s) \ {Head(s)}
         /\ \A b \in Range(Tail(s)) : Rank[Head(s)] < Rank[b]
<1>1. /\ Tail(s) \in Seq(StepSet) /\ Len(Tail(s)) = Len(s) - 1
      /\ \A i \in 1..Len(Tail(s)) : Tail(s)[i] = s[i + 1]
  BY HeadTailProperties
<1>2. /\ Len(s) \in Nat /\ DOMAIN s = 1..Len(s) /\ Len(s) # 0
      /\ DOMAIN Tail(s) = 1..(Len(s) - 1) /\ Head(s) = s[1]
  BY <1>1, LenProperties, EmptySeq
<1>3. Ascending(Tail(s))
  BY <1>1, <1>2 DEF Ascending
<1>4. \A i \in DOMAIN Tail(s) : Tail(s)[i] = s[i + 1] /\ i + 1 \in DOMAIN s /\ Rank[s[1]] < Rank[s[i + 1]]
  BY <1>1, <1>2 DEF Ascending
<1>5. \A b \in Range(Tail(s)) : b \in Range(s) /\ Rank[Head(s)] < Rank[b]
  BY <1>2, <1>4 DEF Range
<1>6. \A b \in Range(s) : b = Head(s) \/ b \in Range(Tail(s))
  <2> TAKE b \in Range(s)
  <2>1. PICK i \in DOMAIN s : b = s[i]
    BY DEF Range
  <2>2. CASE i = 1
    BY <1>2, <2>1, <2>2
  <2>3. CASE i # 1
    <3>1. i - 1 \in DOMAIN Tail(s) /\ (i - 1) + 1 = i
      BY <1>2, <2>1, <2>3
    <3>2. Tail(s)[i - 1] = b
      BY <1>1, <1>2, <2>1, <3>1
    <3> QED
      BY <3>1, <3>2 DEF Range
  <2> QED
    BY <2>2, <2>3
<1>7. Head(s) \in Range(s)
  BY <1>2 DEF Range
<1>8. Head(s) \notin Range(Tail(s))
  BY <1>5, RankIsNat
<1> QED
  BY <1>1, <1>3, <1>5, <1>6, <1>7, <1>8

(***************************************************************************)
(* The steps to come: what taking one leaves, and what the scripts begin   *)
(* with.                                                                   *)
(***************************************************************************)
Pending == Range(todo)

TodoInv ==
  /\ todo \in Seq(StepSet) /\ Ascending(todo)
  /\ op = "install" => Pending \subseteq InstallSet
  /\ op = "uninstall" => Pending \subseteq UninstallSet
  /\ op \notin {"install", "uninstall"} => todo = <<>>
  /\ \A l \in Links :
       /\ <<"install_link", l>> \in Pending =>
            \A n \in {"link", "record", "record_backup"} : <<n, l>> \notin Pending
       /\ <<"unlink", l>> \in Pending => <<"give_back", l>> \notin Pending

Last7 == <<<<"create", "ace.cfg">>, <<"upgrade", "ace.cfg">>, <<"archive", "ace_machine.cfg">>,
        <<"merge", "ace.cfg">>, <<"archive", "ace_hardware.cfg">>,
        <<"ensure", "printer.cfg">>, <<"ensure", "moonraker.conf">>>>

Native4 == << <<"check", "fluidd">>, <<"install_link", "page">>,
                        <<"apply", "fluidd">>, <<"note", "fluidd">> >>

LEMMA SequenceOf ==
  ASSUME NEW S, NEW a \in S, NEW b \in S, NEW c \in S, NEW d \in S,
         NEW e \in S, NEW f \in S, NEW g \in S, NEW h \in S
  PROVE  /\ <<a, b, c, d, e, f, g, h>> \in Seq(S)
         /\ <<a, b, c, d, e, f, g>> \in Seq(S)
         /\ <<a, b, c, d>> \in Seq(S)
OBVIOUS

LEMMA Last7Is ==
  /\ Last7 \in Seq(StepSet) /\ Ascending(Last7)
  /\ Range(Last7) = {<<"create", "ace.cfg">>, <<"upgrade", "ace.cfg">>, <<"archive", "ace_machine.cfg">>,
        <<"merge", "ace.cfg">>, <<"archive", "ace_hardware.cfg">>,
        <<"ensure", "printer.cfg">>, <<"ensure", "moonraker.conf">>}
<1>1. Last7 \in Seq(StepSet)
  BY SequenceOf DEF Last7, StepSet, InstallSet
<1>2. DOMAIN Last7 = 1..7
  BY DEF Last7
<1>3. /\ Rank[Last7[1]] = 10 /\ Rank[Last7[2]] = 11 /\ Rank[Last7[3]] = 12
      /\ Rank[Last7[4]] = 13 /\ Rank[Last7[5]] = 14 /\ Rank[Last7[6]] = 15
      /\ Rank[Last7[7]] = 16
  BY RankValues DEF Last7
<1>4. Ascending(Last7)
  BY <1>2, <1>3 DEF Ascending
<1>5. Range(Last7) = {Last7[1], Last7[2], Last7[3], Last7[4], Last7[5], Last7[6], Last7[7]}
  <2> HIDE DEF Last7
  <2> QED
    BY <1>2 DEF Range
<1> QED
  BY <1>1, <1>4, <1>5 DEF Last7

LEMMA Native4Is ==
  /\ Native4 \in Seq(StepSet) /\ Ascending(Native4)
  /\ Range(Native4) = {<<"check", "fluidd">>, <<"install_link", "page">>,
                        <<"apply", "fluidd">>, <<"note", "fluidd">>}
<1>1. Native4 \in Seq(StepSet)
  BY SequenceOf DEF Native4, StepSet, InstallSet
<1>2. DOMAIN Native4 = 1..4
  BY DEF Native4
<1>3. Rank[Native4[1]] = 4 /\ Rank[Native4[2]] = 5 /\ Rank[Native4[3]] = 8 /\ Rank[Native4[4]] = 9
  BY RankValues DEF Native4
<1>4. Ascending(Native4)
  BY <1>2, <1>3 DEF Ascending
<1>5. Range(Native4) = {Native4[1], Native4[2], Native4[3], Native4[4]}
  <2> HIDE DEF Native4
  <2> QED
    BY <1>2 DEF Range
<1> QED
  BY <1>1, <1>4, <1>5 DEF Native4

\* What a run is given a Fluidd tree for.
OverlayRange(tree) ==
  CASE tree = "this" -> Range(Native4)
    [] tree = "other" -> {<<"note", "fluidd">>}
    [] OTHER -> {}

LEMMA OverlayStepsAre ==
  ASSUME NEW tree \in Sources
  PROVE  /\ OverlaySteps(tree) \in Seq(StepSet) /\ Ascending(OverlaySteps(tree))
         /\ Range(OverlaySteps(tree)) = OverlayRange(tree)
         /\ OverlayRange(tree) \subseteq Range(Native4)
<1>1. CASE tree = "this"
  <2>1. OverlaySteps(tree) = Native4 /\ OverlayRange(tree) = Range(Native4)
    BY <1>1 DEF OverlaySteps, OverlayRange, Native4
  <2> QED
    BY <2>1, Native4Is
<1>2. CASE tree = "other"
  <2> DEFINE n == <<"note", "fluidd">>
  <2>1. n \in StepSet
    BY DEF StepSet, InstallSet
  <2>2. OverlaySteps(tree) = <<n>> /\ OverlayRange(tree) = {n}
    BY <1>2 DEF OverlaySteps, OverlayRange
  <2>3. n \in Range(Native4)
    BY Native4Is
  <2> HIDE DEF n
  <2> QED
    BY <2>1, <2>2, <2>3, OneStep
<1>3. CASE tree = "none"
  <2>1. OverlaySteps(tree) = <<>> /\ OverlayRange(tree) = {}
    BY <1>3 DEF OverlaySteps, OverlayRange
  <2> QED
    BY <2>1, NoStep
<1> QED
  BY <1>1, <1>2, <1>3 DEF Sources

LEMMA InstallStepsAre ==
  ASSUME NEW tree \in Sources
  PROVE  LET s == InstallSteps(tree) IN
         /\ s \in Seq(StepSet) /\ Ascending(s)
         /\ Range(s) = {<<"install_link", "package">>} \cup Range(Last7) \cup OverlayRange(tree)
<1> DEFINE a == <<"install_link", "package">>
           m == OverlaySteps(tree)
<1>1. a \in StepSet /\ Rank[a] = 1
  <2>1. a \in StepSet
    BY DEF StepSet, InstallSet
  <2>2. Rank[a] = 1
    BY RankValues
  <2> QED
    BY <2>1, <2>2
<1>2. <<a>> \in Seq(StepSet) /\ Ascending(<<a>>) /\ Range(<<a>>) = {a}
  BY <1>1, OneStep
<1>3. m \in Seq(StepSet) /\ Ascending(m) /\ Range(m) = OverlayRange(tree)
      /\ OverlayRange(tree) \subseteq Range(Native4)
  BY OverlayStepsAre
<1>4. \A b \in Range(Native4) : Rank[b] > 1 /\ Rank[b] < 10
  <2>1. /\ Rank[<<"check", "fluidd">>] = 4 /\ Rank[<<"install_link", "page">>] = 5
        /\ Rank[<<"apply", "fluidd">>] = 8 /\ Rank[<<"note", "fluidd">>] = 9
    BY RankValues
  <2> QED
    <3>1. Range(Native4) = {<<"check", "fluidd">>, <<"install_link", "page">>,
                            <<"apply", "fluidd">>, <<"note", "fluidd">>}
      BY Native4Is
    <3> QED
      BY <2>1, <3>1
<1>5. \A b \in Range(Last7) : Rank[b] > 9
  <2>1. /\ Rank[<<"create", "ace.cfg">>] = 10 /\ Rank[<<"upgrade", "ace.cfg">>] = 11
        /\ Rank[<<"archive", "ace_machine.cfg">>] = 12 /\ Rank[<<"merge", "ace.cfg">>] = 13
        /\ Rank[<<"archive", "ace_hardware.cfg">>] = 14
        /\ Rank[<<"ensure", "printer.cfg">>] = 15 /\ Rank[<<"ensure", "moonraker.conf">>] = 16
    BY RankValues
  <2> QED
    <3>1. Range(Last7) = {<<"create", "ace.cfg">>, <<"upgrade", "ace.cfg">>,
            <<"archive", "ace_machine.cfg">>, <<"merge", "ace.cfg">>,
            <<"archive", "ace_hardware.cfg">>,
            <<"ensure", "printer.cfg">>, <<"ensure", "moonraker.conf">>}
      BY Last7Is
    <3> QED
      BY <2>1, <3>1
<1>6. /\ <<a>> \o m \in Seq(StepSet) /\ Ascending(<<a>> \o m)
      /\ Range(<<a>> \o m) = {a} \cup Range(m)
  <2>1. Precedes(<<a>>, m)
    BY <1>1, <1>2, <1>3, <1>4 DEF Precedes
  <2> DEFINE s == <<a>>
  <2> HIDE DEF a, m, s
  <2>2. s \in Seq(StepSet) /\ Ascending(s) /\ Range(s) = {a} /\ Precedes(s, m)
    BY <1>2, <2>1 DEF s
  <2>3. s \o m \in Seq(StepSet) /\ Ascending(s \o m) /\ Range(s \o m) = Range(s) \cup Range(m)
    BY <1>3, <2>2, Joined
  <2> QED
    BY <2>2, <2>3 DEF s
<1>7. Precedes(<<a>> \o m, Last7)
  <2>1. \A x \in Range(<<a>> \o m) : x = a \/ x \in Range(Native4)
    BY <1>3, <1>6
  <2>2. \A b \in Range(Native4) \cup Range(Last7) : Rank[b] \in Nat
    BY RankIsNat, Native4Is, Last7Is DEF StepSet, InstallSet
  <2> QED
    BY <1>1, <1>4, <1>5, <2>1, <2>2 DEF Precedes
<1>8. /\ (<<a>> \o m) \o Last7 \in Seq(StepSet) /\ Ascending((<<a>> \o m) \o Last7)
      /\ Range((<<a>> \o m) \o Last7) = ({a} \cup Range(m)) \cup Range(Last7)
  <2> DEFINE s == <<a>> \o m
  <2> HIDE DEF a, m, s
  <2>1. s \in Seq(StepSet) /\ Ascending(s) /\ Range(s) = {a} \cup Range(m) /\ Precedes(s, Last7)
    BY <1>6, <1>7 DEF s
  <2>2. /\ s \o Last7 \in Seq(StepSet) /\ Ascending(s \o Last7)
        /\ Range(s \o Last7) = Range(s) \cup Range(Last7)
    BY <2>1, Joined, Last7Is
  <2> QED
    BY <2>1, <2>2 DEF s
<1>9. InstallSteps(tree) = (<<a>> \o m) \o Last7
  BY DEF InstallSteps, Last7
<1> QED
  BY <1>3, <1>8, <1>9

UninstallList == {<<"unpatch", "fluidd">>, <<"unlink", "page">>, <<"unlink", "package">>,
     <<"remove", "printer.cfg">>, <<"remove", "moonraker.conf">>,
     <<"clean", "manifest">>, <<"clean", "fluidd-source.path">>, <<"clean", "backups">>}

LEMMA UninstallStepsAre ==
  /\ UninstallSteps \in Seq(StepSet) /\ Ascending(UninstallSteps)
  /\ Range(UninstallSteps) = UninstallList
<1> DEFINE s == UninstallSteps
<1>1. s \in Seq(StepSet)
  BY SequenceOf DEF UninstallSteps, StepSet, UninstallSet
<1>2. DOMAIN s = 1..8
  BY DEF UninstallSteps
<1>3. /\ Rank[s[1]] = 21 /\ Rank[s[2]] = 22 /\ Rank[s[3]] = 24 /\ Rank[s[4]] = 26
      /\ Rank[s[5]] = 27 /\ Rank[s[6]] = 28 /\ Rank[s[7]] = 29 /\ Rank[s[8]] = 30
  BY RankValues DEF UninstallSteps
<1>4. Ascending(s)
  <2> HIDE DEF s
  <2> QED
    BY <1>2, <1>3 DEF Ascending
<1>5. Range(s) = {s[1], s[2], s[3], s[4], s[5], s[6], s[7], s[8]}
  <2> HIDE DEF s
  <2> QED
    BY <1>2 DEF Range
<1> QED
  BY <1>1, <1>4, <1>5 DEF UninstallSteps, UninstallList

LEMMA StepTaken ==
  ASSUME TodoInv, NEW n, NEW p, Step(n, p)
  PROVE  /\ Tail(todo) \in Seq(StepSet) /\ Ascending(Tail(todo))
         /\ <<n, p>> \in Pending /\ Range(Tail(todo)) = Pending \ {<<n, p>>}
         /\ \A b \in Pending : b = <<n, p>> \/ Rank[<<n, p>>] < Rank[b]
<1>1. Rank[Head(todo)] = Rank[<<n, p>>] /\ Head(todo) = <<n, p>> /\ todo # <<>>
  BY DEF Step
<1>2. todo \in Seq(StepSet) /\ Ascending(todo)
  BY DEF TodoInv
<1> QED
  BY <1>1, <1>2, Taken DEF Pending

LEMMA ThenNothing ==
  ASSUME TodoInv, NEW n, NEW p, Step(n, p), Then(<<>>)
  PROVE  /\ <<n, p>> \in Pending /\ Pending' = Pending \ {<<n, p>>}
         /\ todo' \in Seq(StepSet) /\ Ascending(todo')
<1>1. todo' = Tail(todo)
  BY StepTaken, ConcatEmptySeq DEF Then
<1> QED
  BY <1>1, StepTaken DEF Pending

LEMMA ThenMore ==
  ASSUME TodoInv, NEW n, NEW p, Step(n, p), NEW more \in Seq(StepSet), Then(more), Ascending(more),
         \A a \in Range(more), b \in Pending : b = <<n, p>> \/ Rank[a] < Rank[b]
  PROVE  /\ <<n, p>> \in Pending /\ Pending' = Range(more) \cup (Pending \ {<<n, p>>})
         /\ todo' \in Seq(StepSet) /\ Ascending(todo')
<1>1. todo' = more \o Tail(todo)
  BY DEF Then
<1> QED
  <2>1. /\ Tail(todo) \in Seq(StepSet) /\ Ascending(Tail(todo))
        /\ <<n, p>> \in Pending /\ Range(Tail(todo)) = Pending \ {<<n, p>>}
    BY StepTaken
  <2>2. Precedes(more, Tail(todo))
    BY <2>1 DEF Precedes
  <2>3. /\ more \o Tail(todo) \in Seq(StepSet) /\ Ascending(more \o Tail(todo))
        /\ Range(more \o Tail(todo)) = Range(more) \cup Range(Tail(todo))
    BY <2>1, <2>2, Joined
  <2> QED
    BY <1>1, <2>1, <2>3 DEF Pending

(***************************************************************************)
(* A step that brings others brings them before all that is left.          *)
(***************************************************************************)
LEMMA RankTells ==
  /\ \A c \in InstallSet :
       /\ Rank[c] = 2 => c = <<"link", "package">>
       /\ Rank[c] = 3 => c = <<"record", "package">> \/ c = <<"record_backup", "package">>
       /\ Rank[c] = 6 => c = <<"link", "page">>
       /\ Rank[c] = 7 => c = <<"record", "page">> \/ c = <<"record_backup", "page">>
  /\ \A c \in UninstallSet :
       /\ Rank[c] = 23 => c = <<"give_back", "page">>
       /\ Rank[c] = 25 => c = <<"give_back", "package">>
<1>1. ASSUME NEW c \in InstallSet
      PROVE  /\ Rank[c] = 2 => c = <<"link", "package">>
             /\ Rank[c] = 3 => c = <<"record", "package">> \/ c = <<"record_backup", "package">>
  BY RankValues DEF InstallSet
<1>2. ASSUME NEW c \in InstallSet
      PROVE  /\ Rank[c] = 6 => c = <<"link", "page">>
             /\ Rank[c] = 7 => c = <<"record", "page">> \/ c = <<"record_backup", "page">>
  BY RankValues DEF InstallSet
<1>3. ASSUME NEW c \in UninstallSet
      PROVE  /\ Rank[c] = 23 => c = <<"give_back", "page">>
             /\ Rank[c] = 25 => c = <<"give_back", "package">>
  BY RankValues DEF UninstallSet
<1> QED
  BY <1>1, <1>2, <1>3

LEMMA LinkingRanks ==
  ASSUME NEW l \in Links, NEW kind \in {"record", "record_backup"}
  PROVE  /\ Rank[<<"link", l>>] < Rank[<<kind, l>>] /\ Rank[<<"link", l>>] \in Nat /\ Rank[<<kind, l>>] \in Nat
         /\ l = "package" => Rank[<<"install_link", l>>] = 1 /\ Rank[<<kind, l>>] = 3
         /\ l = "page" => Rank[<<"install_link", l>>] = 5 /\ Rank[<<kind, l>>] = 7
BY RankValues DEF Links

LEMMA AfterLinking ==
  ASSUME NEW l \in Links, NEW kind \in {"record", "record_backup"}, NEW S \in SUBSET InstallSet,
         <<"link", l>> \notin S, <<"record", l>> \notin S, <<"record_backup", l>> \notin S,
         \A c \in S : c = <<"install_link", l>> \/ Rank[<<"install_link", l>>] < Rank[c]
  PROVE  \A c \in S : c = <<"install_link", l>> \/ Rank[<<kind, l>>] < Rank[c]
<1> SUFFICES ASSUME NEW c \in S, c # <<"install_link", l>>
             PROVE  Rank[<<kind, l>>] < Rank[c]
  OBVIOUS
<1>1. c \in InstallSet /\ Rank[<<"install_link", l>>] < Rank[c] /\ Rank[c] \in Nat
  BY RankIsNat DEF StepSet
<1>2. CASE l = "package"
  BY <1>1, <1>2, LinkingRanks, RankTells
<1>3. CASE l = "page"
  BY <1>1, <1>3, LinkingRanks, RankTells
<1> QED
  BY <1>2, <1>3 DEF Links

LEMMA AfterUnlinking ==
  ASSUME NEW l \in Links, NEW S \in SUBSET UninstallSet, <<"give_back", l>> \notin S,
         \A c \in S : c = <<"unlink", l>> \/ Rank[<<"unlink", l>>] < Rank[c]
  PROVE  \A c \in S : c = <<"unlink", l>> \/ Rank[<<"give_back", l>>] < Rank[c]
<1> SUFFICES ASSUME NEW c \in S, c # <<"unlink", l>>
             PROVE  Rank[<<"give_back", l>>] < Rank[c]
  OBVIOUS
<1>1. c \in UninstallSet /\ Rank[<<"unlink", l>>] < Rank[c] /\ Rank[c] \in Nat
  BY RankIsNat DEF StepSet
<1>2. CASE l = "package"
  BY <1>1, <1>2, RankValues, RankTells
<1>3. CASE l = "page"
  BY <1>1, <1>3, RankValues, RankTells
<1> QED
  BY <1>2, <1>3 DEF Links

LEMMA WhoseStep ==
  ASSUME TodoInv, NEW n, NEW p, Step(n, p)
  PROVE  /\ <<n, p>> \in InstallSet => op = "install"
         /\ <<n, p>> \in UninstallSet => op = "uninstall"
<1>1. InstallSet \cap UninstallSet = {}
  BY DEF InstallSet, UninstallSet
<1>2. <<n, p>> \in Pending /\ op \in {"install", "uninstall"}
  BY StepTaken DEF Step
<1> QED
  BY <1>1, <1>2 DEF TodoInv

LEMMA InstallLinkTakes ==
  ASSUME TodoInv, NEW l \in Links, Step("install_link", l), NEW kind \in {"record", "record_backup"},
         Then(<< <<"link", l>>, <<kind, l>> >>)
  PROVE  /\ Pending' = {<<"link", l>>, <<kind, l>>} \cup (Pending \ {<<"install_link", l>>})
         /\ todo' \in Seq(StepSet) /\ Ascending(todo')
<1> DEFINE a == <<"link", l>>
           b == <<kind, l>>
           h == <<"install_link", l>>
<1>1. /\ op = "install" /\ Pending \subseteq InstallSet /\ h \in Pending
      /\ \A c \in Pending : c = h \/ Rank[<<"install_link", l>>] < Rank[c]
  BY StepTaken, WhoseStep DEF TodoInv, InstallSet, Links
<1>2. \A n \in {"link", "record", "record_backup"} : <<n, l>> \notin Pending
  BY <1>1 DEF TodoInv
<1>3. <<"link", l>> \notin Pending /\ <<"record", l>> \notin Pending
      /\ <<"record_backup", l>> \notin Pending
  BY <1>2
<1>4. \A c \in Pending : c = h \/ Rank[<<kind, l>>] < Rank[c]
  BY <1>1, <1>3, AfterLinking
<1>5. /\ Rank[a] = Rank[<<"link", l>>] /\ Rank[b] = Rank[<<kind, l>>]
      /\ Rank[<<"link", l>>] < Rank[<<kind, l>>] /\ Rank[<<"link", l>>] \in Nat /\ Rank[<<kind, l>>] \in Nat
  BY LinkingRanks
<1>6. a \in InstallSet /\ b \in InstallSet /\ a \in StepSet /\ b \in StepSet
  BY DEF StepSet, InstallSet, Links
<1>7. <<a, b>> \in Seq(StepSet) /\ Ascending(<<a, b>>) /\ Range(<<a, b>>) = {a, b}
  BY <1>5, <1>6, TwoSteps
<1>8. \A x \in Range(<<a, b>>), c \in Pending : c = h \/ Rank[x] < Rank[c]
  <2>1. \A c \in Pending : Rank[c] \in Nat
    BY <1>1, RankIsNat DEF StepSet
  <2>2. \A x \in Range(<<a, b>>) : x = a \/ x = b
    BY <1>7
  <2>3. \A c \in Pending : c = h \/ Rank[<<"link", l>>] < Rank[c]
    BY <1>4, <1>5, <2>1
  <2> HIDE DEF a, b, h
  <2> QED
    BY <1>4, <1>5, <2>2, <2>3
<1>9. Pending' = Range(<<a, b>>) \cup (Pending \ {h}) /\ todo' \in Seq(StepSet) /\ Ascending(todo')
  <2> DEFINE m == <<a, b>>
  <2>1. m \in Seq(StepSet) /\ Ascending(m) /\ Then(m)
        /\ \A x \in Range(m), c \in Pending : c = <<"install_link", l>> \/ Rank[x] < Rank[c]
    BY <1>7, <1>8
  <2> HIDE DEF m, a, b
  <2> QED
    BY <2>1, ThenMore DEF m
<1> QED
  BY <1>7, <1>9

LEMMA UnlinkTakes ==
  ASSUME TodoInv, NEW l \in Links, Step("unlink", l), Then(<< <<"give_back", l>> >>)
  PROVE  /\ Pending' = {<<"give_back", l>>} \cup (Pending \ {<<"unlink", l>>})
         /\ todo' \in Seq(StepSet) /\ Ascending(todo')
<1> DEFINE b == <<"give_back", l>>
           h == <<"unlink", l>>
<1>1. /\ op = "uninstall" /\ Pending \subseteq UninstallSet /\ h \in Pending
      /\ \A c \in Pending : c = h \/ Rank[<<"unlink", l>>] < Rank[c]
  BY StepTaken, WhoseStep DEF TodoInv, UninstallSet, Links
<1>2. b \notin Pending
  BY <1>1 DEF TodoInv
<1>4. \A c \in Pending : c = h \/ Rank[<<"give_back", l>>] < Rank[c]
  BY <1>1, <1>2, AfterUnlinking
<1>5. b \in StepSet
  BY DEF StepSet, UninstallSet, Links
<1>6. <<b>> \in Seq(StepSet) /\ Ascending(<<b>>) /\ Range(<<b>>) = {b}
  BY <1>5, OneStep
<1>7. Pending' = Range(<<b>>) \cup (Pending \ {h}) /\ todo' \in Seq(StepSet) /\ Ascending(todo')
  <2> DEFINE m == <<b>>
  <2>1. m \in Seq(StepSet) /\ Ascending(m) /\ Then(m)
        /\ \A x \in Range(m), c \in Pending : c = <<"unlink", l>> \/ Rank[x] < Rank[c]
    BY <1>4, <1>6
  <2> HIDE DEF m, b
  <2> QED
    BY <2>1, ThenMore DEF m
<1> QED
  BY <1>6, <1>7

OpInv ==
  /\ op \in {"none", "install", "uninstall", "rollback", "restore"}
  /\ IsSeq(log)
  /\ op \in {"none", "restore"} => log = <<>>
  /\ op # "none" => outcome = "none"
  /\ op = "restore" => snapshot # Missing
  /\ source \in Sources
  /\ half # {} => op = "rollback" /\ log # <<>> /\ half = Last.paths

LEMMA ChangeTodo ==
  ASSUME TodoInv, Change
  PROVE  TodoInv'
<1>1. op' = op
  BY DEF Change
<1>2. ASSUME NEW n, NEW p, Step(n, p), Then(<<>>)
      PROVE  TodoInv'
  <2>1. Pending' \subseteq Pending /\ todo' \in Seq(StepSet) /\ Ascending(todo')
    BY <1>2, ThenNothing
  <2>2. op \in {"install", "uninstall"}
    BY <1>2 DEF Step
  <2> QED
    BY <1>1, <2>1, <2>2 DEF TodoInv
<1>3. ASSUME NEW l \in Links, InstallLink(l) \/ Link(l) \/ Record(l) \/ Unlink(l) \/ GiveBack(l)
      PROVE  TodoInv'
  <2>1. ASSUME NEW kind \in {"record", "record_backup"}, Step("install_link", l),
               Then(<< <<"link", l>>, <<kind, l>> >>)
        PROVE  TodoInv'
    <3>1. /\ Pending' = {<<"link", l>>, <<kind, l>>} \cup (Pending \ {<<"install_link", l>>})
          /\ todo' \in Seq(StepSet) /\ Ascending(todo')
      BY <2>1, InstallLinkTakes
    <3>2. op = "install"
      BY <2>1, WhoseStep DEF InstallSet, Links
    <3>3. {<<"link", l>>, <<kind, l>>} \subseteq InstallSet
      BY DEF InstallSet, Links
    <3>4. \A k \in Links : <<"install_link", k>> \in Pending' =>
            \A n \in {"link", "record", "record_backup"} : <<n, k>> \notin Pending'
      BY <3>1 DEF TodoInv
    <3>5. \A k \in Links : <<"unlink", k>> \in Pending' => <<"give_back", k>> \notin Pending'
      BY <3>1 DEF TodoInv
    <3> QED
      BY <1>1, <3>1, <3>2, <3>3, <3>4, <3>5 DEF TodoInv
  <2>2. ASSUME Step("unlink", l), Then(<< <<"give_back", l>> >>)
        PROVE  TodoInv'
    <3>1. /\ Pending' = {<<"give_back", l>>} \cup (Pending \ {<<"unlink", l>>})
          /\ todo' \in Seq(StepSet) /\ Ascending(todo')
      BY <2>2, UnlinkTakes
    <3>2. op = "uninstall"
      BY <2>2, WhoseStep DEF UninstallSet, Links
    <3>3. <<"give_back", l>> \in UninstallSet
      BY DEF UninstallSet, Links
    <3>4. \A k \in Links : <<"unlink", k>> \in Pending' => <<"give_back", k>> \notin Pending'
      BY <3>1 DEF TodoInv
    <3>5. \A k \in Links : <<"install_link", k>> \in Pending' =>
            \A n \in {"link", "record", "record_backup"} : <<n, k>> \notin Pending'
      BY <3>1 DEF TodoInv
    <3> QED
      BY <1>1, <3>1, <3>2, <3>3, <3>4, <3>5 DEF TodoInv
  <2>3. CASE InstallLink(l)
    BY <1>2, <2>1, <2>3 DEF InstallLink
  <2>4. CASE Unlink(l)
    BY <1>2, <2>2, <2>4 DEF Unlink
  <2>5. CASE Link(l) \/ Record(l) \/ GiveBack(l)
    BY <1>2, <2>5 DEF Link, Record, GiveBack
  <2> QED
    BY <1>3, <2>3, <2>4, <2>5
<1>4. CASE Check \/ Apply \/ Note \/ Create \/ Upgrade \/ ArchiveMachine \/ Merge \/ ArchiveHardware
  BY <1>2, <1>4 DEF Check, Apply, Note, Create, Upgrade, ArchiveMachine, Merge, ArchiveHardware
<1>5. CASE (\E c \in Marked : Ensure(c) \/ RemoveBlock(c)) \/ Unpatch \/ Clean
  BY <1>2, <1>5 DEF Ensure, RemoveBlock, Unpatch, Clean
<1> QED
  BY <1>3, <1>4, <1>5 DEF Change

LEMMA NextTodo ==
  ASSUME TodoInv, [Next]_vars
  PROVE  TodoInv'
<1>1. CASE Change
  BY <1>1, ChangeTodo
<1>2. ASSUME NEW units \in Devices, NEW tree \in Sources, Install(units, tree)
      PROVE  TodoInv'
  <2>1. op' = "install" /\ todo' = InstallSteps(tree)
    BY <1>2 DEF Install, Begin
  <2>2. /\ todo' \in Seq(StepSet) /\ Ascending(todo')
        /\ Range(todo') = {<<"install_link", "package">>} \cup Range(Last7) \cup OverlayRange(tree)
        /\ OverlayRange(tree) \subseteq Range(Native4)
    BY <2>1, InstallStepsAre, OverlayStepsAre
  <2>3. Pending' \subseteq InstallSet
    BY <2>2, Last7Is, Native4Is DEF Pending, InstallSet, Links
  <2>4. \A k \in Links, n \in {"link", "record", "record_backup", "give_back"} :
           <<n, k>> \notin Pending'
    BY <2>2, Last7Is, Native4Is DEF Pending, Links
  <2> QED
    BY <2>1, <2>2, <2>3, <2>4 DEF TodoInv
<1>3. CASE \E tree \in Sources : Uninstall(tree)
  <2>1. op' = "uninstall" /\ todo' = UninstallSteps
    BY <1>3 DEF Uninstall, Begin
  <2>2. todo' \in Seq(StepSet) /\ Ascending(todo') /\ Pending' = UninstallList
    BY <2>1, UninstallStepsAre DEF Pending
  <2>3. Pending' \subseteq UninstallSet
    BY <2>2 DEF UninstallList, UninstallSet, Links
  <2>4. \A k \in Links, n \in {"link", "record", "record_backup", "give_back"} :
           <<n, k>> \notin Pending'
    BY <2>2 DEF UninstallList
  <2> QED
    BY <2>1, <2>2, <2>3, <2>4 DEF TodoInv
<1>4. ASSUME todo' = <<>>
      PROVE  TodoInv'
  BY <1>4, NoStep DEF TodoInv, Pending
<1>5. CASE Commit \/ Fail \/ RolledBack \/ Kill \/ BeginRestore \/ Restored \/ RestoreStops
  BY <1>4, <1>5 DEF Commit, Fail, RolledBack, Kill, BeginRestore, Restored, RestoreStops, Finish, Begin
<1>6. CASE RollbackRemove \/ RollbackCopy
  <2>1. todo = <<>>
    BY <1>6 DEF RollbackRemove, RollbackCopy, TodoInv
  <2> QED
    BY <1>4, <1>6, <2>1 DEF RollbackRemove, RollbackCopy
<1>7. CASE RestoreNext \/ Person \/ UNCHANGED vars
  <2>1. UNCHANGED <<op, todo>>
    BY <1>7 DEF RestoreNext, Person, ReplaceLink, EditMarked, Allow, Edit, vars
  <2> QED
    BY <2>1 DEF TodoInv, Pending
<1> QED
  BY <1>1, <1>2, <1>3, <1>5, <1>6, <1>7 DEF Next

(***************************************************************************)
(* What a path can hold.  A configuration in ace.cfg authorises only the   *)
(* units in A.                                                             *)
(***************************************************************************)
Config == [topology : Topologies, macros : BOOLEAN]

LinkFits(p, v) ==
  /\ p \in Links => v \in {"none", "own", "newer", "ours"}
  /\ p \in Marked => v \in [own : BOOLEAN, block : BOOLEAN]
  /\ p = "manifest" => v \in [Links -> {"no", "-", "kept"}]
  /\ p = "backups" => v \in [Links -> {"none", "own", "newer"}]
  /\ p = "fluidd-source.path" => v \in Sources
  /\ p = "legacy" => v \subseteq {Legacy}

ConfigFits(p, v, allowed) ==
  /\ p = "ace.cfg" /\ v # Missing => v \in Config /\ Trusted(v.topology) \subseteq allowed
  /\ p = "ace_hardware.cfg" /\ v # Missing => v = Legacy /\ Trusted(v) \subseteq allowed

Fits(p, v, allowed) == LinkFits(p, v) /\ ConfigFits(p, v, allowed)

Tree(f) == f = [p \in Paths |-> f[p]]

TreeFits(f, allowed) == Tree(f) /\ \A p \in Paths : Fits(p, f[p], allowed)

LogFits(lg, allowed) ==
  \A i \in DOMAIN lg : /\ lg[i].paths \subseteq Paths
                       /\ \A p \in lg[i].paths : Fits(p, lg[i].files[p], allowed)

\* A unit that is not the one of the template
Real(t) == \E i \in DOMAIN t : t[i].unit # Blank

FitInv ==
  /\ TreeFits(files, trusted)
  /\ LogFits(log, trusted)
  /\ snapshot # Missing => TreeFits(snapshot.files, trusted)
  /\ op = "install" => /\ generated \in Topologies \ {<<>>}
                       /\ Real(generated) /\ Trusted(generated) \subseteq trusted
                       /\ <<"create", "ace.cfg">> \notin Pending => files["ace.cfg"] # Missing
  /\ trusted \subseteq Unit

LEMMA TopologyIs ==
  ASSUME NEW t \in Topologies
  PROVE  /\ Len(t) \in Nat /\ DOMAIN t = 1..Len(t)
         /\ \A i \in DOMAIN t : t[i] \in [unit : Unit, physical : BOOLEAN]
<1> DEFINE Device == [unit : Unit, physical : BOOLEAN]
<1>1. t \in Seq(Device)
  BY DEF Topologies
<1> HIDE DEF Device
<1>2. Len(t) \in Nat /\ DOMAIN t = 1..Len(t) /\ \A i \in 1..Len(t) : t[i] \in Device
  BY <1>1, LenProperties, ElementOfSeq
<1> QED
  BY <1>2 DEF Device

LEMMA IsTopology ==
  ASSUME NEW n \in Nat, NEW t, t = [i \in 1..n |-> t[i]],
         \A i \in 1..n : t[i] \in [unit : Unit, physical : BOOLEAN]
  PROVE  t \in Topologies
<1> DEFINE Device == [unit : Unit, physical : BOOLEAN]
<1>1. t \in [1..n -> Device]
  <2> HIDE DEF Device
  <2> QED
    BY DEF Device
<1>2. t \in Seq(Device)
  <2> HIDE DEF Device
  <2> QED
    BY <1>1, SeqDef
<1> QED
  BY <1>2 DEF Topologies

LEMMA TrustedAreUnits ==
  ASSUME NEW t \in Topologies
  PROVE  Trusted(t) \subseteq Unit
BY TopologyIs DEF Trusted

\* The template authorises nobody.
LEMMA TemplateIs == Template \in Topologies /\ Template # <<>> /\ Trusted(Template) = {}
<1>1. Blank \in Unit
  BY InstallationAssumption
<1>2. /\ DOMAIN Template = 1..1 /\ Template = [i \in 1..1 |-> Template[i]]
      /\ Template[1] = [unit |-> Blank, physical |-> FALSE]
  BY DEF Template
<1> HIDE DEF Template
<1>3. \A i \in 1..1 : Template[i] \in [unit : Unit, physical : BOOLEAN] /\ ~Template[i].physical
  <2> DEFINE d == [unit |-> Blank, physical |-> FALSE]
  <2>1. d \in [unit : Unit, physical : BOOLEAN] /\ d.physical = FALSE
    BY <1>1
  <2>2. \A i \in 1..1 : Template[i] = d
    BY <1>2
  <2> HIDE DEF d
  <2> QED
    BY <2>1, <2>2
<1>4. Template \in Topologies
  BY <1>2, <1>3, IsTopology
<1>5. Template # <<>>
  BY <1>2, EmptyList
<1>6. Trusted(Template) = {}
  BY <1>2, <1>3 DEF Trusted
<1> QED
  BY <1>4, <1>5, <1>6

\* preserve_device_settings authorises only units that were.
LEMMA PreserveTrusts ==
  ASSUME NEW units \in Devices, NEW t \in Topologies
  PROVE  /\ Preserve(units, t) \in Topologies \ {<<>>}
         /\ Trusted(Preserve(units, t)) \subseteq Trusted(t)
         /\ Real(Preserve(units, t))
<1> DEFINE r == Preserve(units, t)
<1>1. units \in Seq(Unit) /\ units # <<>> /\ \A i \in DOMAIN units : units[i] # Blank
  BY InstallationAssumption
<1>2. Len(units) \in Nat \ {0} /\ DOMAIN units = 1..Len(units)
      /\ \A i \in 1..Len(units) : units[i] \in Unit
  BY <1>1, LenProperties, ElementOfSeq, EmptySeq
<1>3. /\ r = [i \in 1..Len(units) |-> r[i]]
      /\ \A i \in 1..Len(units) :
           /\ r[i] = [unit |-> units[i],
                      physical |-> \E j \in DOMAIN t : t[j].unit = units[i] /\ t[j].physical]
           /\ r[i].unit = units[i] /\ r[i].physical \in BOOLEAN
           /\ r[i].physical => \E j \in DOMAIN t : t[j].unit = units[i] /\ t[j].physical
  BY <1>2 DEF Preserve
<1>4. \A i \in 1..Len(units) : r[i] \in [unit : Unit, physical : BOOLEAN]
  BY <1>2, <1>3
<1>5. r \in Topologies
  <2> HIDE DEF r
  <2> QED
    BY <1>2, <1>3, <1>4, IsTopology
<1>6. DOMAIN r = 1..Len(units)
  BY <1>3
<1>7. r # <<>>
  <2>1. 1 \in DOMAIN r
    BY <1>2, <1>6
  <2> QED
    BY <2>1, EmptyList
<1>8. Trusted(r) \subseteq Trusted(t)
  <2> HIDE DEF r
  <2> QED
    BY <1>3, <1>6 DEF Trusted
<1>9. Real(r)
  <2>1. 1 \in DOMAIN units /\ 1 \in DOMAIN r /\ r[1].unit = units[1]
    BY <1>2, <1>3, <1>6
  <2> HIDE DEF r
  <2> QED
    BY <1>1, <2>1 DEF Real
<1> QED
  BY <1>5, <1>7, <1>8, <1>9

LEMMA PathsAre ==
  /\ Links \subseteq Paths /\ Marked \subseteq Paths /\ State \subseteq Paths /\ Configs \subseteq Paths
  /\ Links = {"package", "page"}
BY DEF Paths, Links

LEMMA FitsLonger ==
  ASSUME NEW p, NEW v, NEW A, NEW B, A \subseteq B, Fits(p, v, A)
  PROVE  Fits(p, v, B)
BY DEF Fits, ConfigFits

LEMMA TreeFitsLonger ==
  ASSUME NEW f, NEW A, NEW B, A \subseteq B, TreeFits(f, A)
  PROVE  TreeFits(f, B)
BY FitsLonger DEF TreeFits

LEMMA LogFitsLonger ==
  ASSUME NEW lg, NEW A, NEW B, A \subseteq B, LogFits(lg, A)
  PROVE  LogFits(lg, B)
BY FitsLonger DEF LogFits

LEMMA PutFits ==
  ASSUME NEW f, NEW A, TreeFits(f, A), NEW p \in Paths, NEW v, Fits(p, v, A)
  PROVE  TreeFits([f EXCEPT ![p] = v], A)
<1> DEFINE g == [f EXCEPT ![p] = v]
<1>1. Tree(f) /\ \A q \in Paths : Fits(q, f[q], A)
  BY DEF TreeFits
<1>2. Tree(g) /\ g[p] = v /\ \A q \in Paths \ {p} : g[q] = f[q]
  BY <1>1 DEF Tree
<1> HIDE DEF g
<1>3. \A q \in Paths : Fits(q, g[q], A)
  BY <1>1, <1>2
<1> QED
  BY <1>2, <1>3 DEF TreeFits, g

Entry(S) == [paths |-> S, files |-> [p \in S |-> files[p]]]

LEMMA SavedIs ==
  ASSUME NEW lg, IsSeq(lg), NEW S
  PROVE  LET r == Saved(lg, S) IN
         /\ IsSeq(r)
         /\ \/ r = lg /\ \E i \in DOMAIN lg : lg[i].paths = S
            \/ /\ \A i \in DOMAIN lg : lg[i].paths # S
               /\ DOMAIN r = DOMAIN lg \cup {Len(lg) + 1} /\ r[Len(lg) + 1] = Entry(S)
               /\ \A i \in DOMAIN lg : r[i] = lg[i] /\ i < Len(lg) + 1
<1>1. CASE \E i \in DOMAIN lg : lg[i].paths = S
  BY <1>1 DEF Saved
<1>2. CASE \A i \in DOMAIN lg : lg[i].paths # S
  <2> DEFINE r == Append(lg, Entry(S))
  <2>1. Saved(lg, S) = r
    BY <1>2 DEF Saved, Entry
  <2>2. IsSeq(r) /\ Len(r) = Len(lg) + 1 /\ r[Len(r)] = Entry(S) /\ \A i \in DOMAIN lg : r[i] = lg[i]
    BY Pushed
  <2>3. Len(lg) \in Nat /\ DOMAIN lg = 1..Len(lg) /\ DOMAIN r = 1..Len(r)
    BY <2>2, Listed
  <2> HIDE DEF r
  <2>4. DOMAIN r = DOMAIN lg \cup {Len(lg) + 1} /\ \A i \in DOMAIN lg : i < Len(lg) + 1
    BY <2>2, <2>3
  <2> QED
    BY <1>2, <2>1, <2>2, <2>4
<1> QED
  BY <1>1, <1>2

LEMMA EntryIs ==
  ASSUME NEW S
  PROVE  Entry(S).paths = S /\ \A p \in S : Entry(S).files[p] = files[p]
BY DEF Entry

LEMMA SavedFits ==
  ASSUME NEW lg, IsSeq(lg), NEW A, LogFits(lg, A), TreeFits(files, A), NEW S \in SUBSET Paths
  PROVE  LogFits(Saved(lg, S), A)
<1> DEFINE r == Saved(lg, S)
<1>1. CASE r = lg
  BY <1>1
<1>2. CASE /\ DOMAIN r = DOMAIN lg \cup {Len(lg) + 1} /\ r[Len(lg) + 1] = Entry(S)
           /\ \A i \in DOMAIN lg : r[i] = lg[i]
  <2>1. \A p \in S : Fits(p, files[p], A)
    BY DEF TreeFits
  <2>2. \A i \in DOMAIN r : i \in DOMAIN lg \/ r[i] = Entry(S)
    BY <1>2
  <2> HIDE DEF r
  <2> QED
    BY <1>2, <2>1, <2>2, EntryIs DEF LogFits, r
<1>3. \/ r = lg
      \/ /\ DOMAIN r = DOMAIN lg \cup {Len(lg) + 1} /\ r[Len(lg) + 1] = Entry(S)
         /\ \A i \in DOMAIN lg : r[i] = lg[i] /\ i < Len(lg) + 1
  BY SavedIs
<1> HIDE DEF r
<1> QED
  BY <1>1, <1>2, <1>3 DEF r

(***************************************************************************)
(* Each step of an installation leaves a tree that fits.                   *)
(***************************************************************************)
LEMMA InstallOrder ==
  ASSUME TodoInv
  PROVE  /\ Step("upgrade", "ace.cfg") => <<"create", "ace.cfg">> \notin Pending
         /\ Step("archive", "ace_machine.cfg") =>
              {<<"create", "ace.cfg">>, <<"upgrade", "ace.cfg">>} \cap Pending = {}
         /\ Step("merge", "ace.cfg") =>
              {<<"create", "ace.cfg">>, <<"upgrade", "ace.cfg">>} \cap Pending = {}
         /\ Step("archive", "ace_hardware.cfg") =>
              {<<"create", "ace.cfg">>, <<"upgrade", "ace.cfg">>, <<"merge", "ace.cfg">>}
                \cap Pending = {}
<1>1. /\ Rank[<<"create", "ace.cfg">>] = 10 /\ Rank[<<"upgrade", "ace.cfg">>] = 11
      /\ Rank[<<"archive", "ace_machine.cfg">>] = 12 /\ Rank[<<"merge", "ace.cfg">>] = 13
      /\ Rank[<<"archive", "ace_hardware.cfg">>] = 14
  BY RankValues
<1>2. \A n, p : Step(n, p) => \A b \in Pending : b = <<n, p>> \/ Rank[<<n, p>>] < Rank[b]
  BY StepTaken
<1>3. Step("upgrade", "ace.cfg") => <<"create", "ace.cfg">> \notin Pending
  BY <1>1, <1>2
<1>4. Step("archive", "ace_machine.cfg") =>
              <<"create", "ace.cfg">> \notin Pending /\ <<"upgrade", "ace.cfg">> \notin Pending
  BY <1>1, <1>2
<1>5. Step("merge", "ace.cfg") =>
              <<"create", "ace.cfg">> \notin Pending /\ <<"upgrade", "ace.cfg">> \notin Pending
  BY <1>1, <1>2
<1>6. Step("archive", "ace_hardware.cfg") =>
         /\ <<"create", "ace.cfg">> \notin Pending /\ <<"upgrade", "ace.cfg">> \notin Pending
         /\ <<"merge", "ace.cfg">> \notin Pending
  BY <1>1, <1>2
<1> QED
  BY <1>3, <1>4, <1>5, <1>6

LEMMA EntryOf ==
  ASSUME FitInv
  PROVE  /\ files["manifest"] \in [Links -> {"no", "-", "kept"}]
         /\ files["backups"] \in [Links -> {"none", "own", "newer"}]
         /\ files["fluidd-source.path"] \in Sources
         /\ files["legacy"] \subseteq {Legacy}
         /\ \A l \in Links : files[l] \in {"none", "own", "newer", "ours"}
         /\ \A c \in Marked : files[c] \in [own : BOOLEAN, block : BOOLEAN]
         /\ files["ace.cfg"] # Missing => /\ files["ace.cfg"] \in Config
                                          /\ Trusted(files["ace.cfg"].topology) \subseteq trusted
         /\ files["ace_hardware.cfg"] # Missing => /\ files["ace_hardware.cfg"] = Legacy
                                                   /\ Legacy \in Topologies
                                                   /\ Trusted(Legacy) \subseteq trusted
<1>1. \A p \in Paths : Fits(p, files[p], trusted)
  BY DEF FitInv, TreeFits
<1>2. \A p \in Links \cup Marked \cup {"manifest", "backups", "fluidd-source.path", "legacy"} :
         LinkFits(p, files[p])
  BY <1>1 DEF Fits, Paths, State
<1>3. ConfigFits("ace.cfg", files["ace.cfg"], trusted)
      /\ ConfigFits("ace_hardware.cfg", files["ace_hardware.cfg"], trusted)
  BY <1>1 DEF Fits, Paths, Configs
<1>4. files["ace_hardware.cfg"] # Missing => Legacy \in Topologies
  BY <1>3, InstallationAssumption DEF ConfigFits
<1>5. \A l \in Links : files[l] \in {"none", "own", "newer", "ours"}
  BY <1>2 DEF LinkFits
<1>6. \A c \in Marked : files[c] \in [own : BOOLEAN, block : BOOLEAN]
  BY <1>2 DEF LinkFits
<1>7. /\ files["manifest"] \in [Links -> {"no", "-", "kept"}]
      /\ files["backups"] \in [Links -> {"none", "own", "newer"}]
      /\ files["fluidd-source.path"] \in Sources
      /\ files["legacy"] \subseteq {Legacy}
  BY <1>2 DEF LinkFits
<1> QED
  BY <1>3, <1>4, <1>5, <1>6, <1>7 DEF ConfigFits

\* What Fits asks of a path of each kind.
LEMMA FitsLink ==
  ASSUME NEW l \in Links, NEW v \in {"none", "own", "newer", "ours"}, NEW A
  PROVE  Fits(l, v, A)
BY DEF Fits, LinkFits, ConfigFits, Links, Marked

LEMMA FitsMarked ==
  ASSUME NEW c \in Marked, NEW v \in [own : BOOLEAN, block : BOOLEAN], NEW A
  PROVE  Fits(c, v, A)
BY DEF Fits, LinkFits, ConfigFits, Links, Marked

LEMMA FitsState ==
  ASSUME NEW v, NEW A
  PROVE  /\ v \in [Links -> {"no", "-", "kept"}] => Fits("manifest", v, A)
         /\ v \in [Links -> {"none", "own", "newer"}] => Fits("backups", v, A)
         /\ v \in Sources => Fits("fluidd-source.path", v, A)
         /\ v \subseteq {Legacy} => Fits("legacy", v, A)
BY DEF Fits, LinkFits, ConfigFits, Links, Marked

LEMMA FitsConfig ==
  ASSUME NEW v, NEW A
  PROVE  /\ v \in Config /\ Trusted(v.topology) \subseteq A => Fits("ace.cfg", v, A)
         /\ Fits("ace.cfg", Missing, A) /\ Fits("ace_hardware.cfg", Missing, A)
         /\ Fits("ace_machine.cfg", v, A) /\ Fits("ace_machine.cfg.legacy", v, A)
BY DEF Fits, LinkFits, ConfigFits, Links, Marked

LEMMA GoneFits ==
  ASSUME NEW p \in Paths, NEW A
  PROVE  Fits(p, Gone(p), A)
<1>1. CASE p \in Links
  <2>1. Gone(p) = "none"
    BY <1>1 DEF Gone, Links, Marked
  <2> QED
    BY <1>1, <2>1, FitsLink
<1>2. CASE p \in Marked
  <2>1. Gone(p) = [own |-> FALSE, block |-> FALSE]
    BY <1>2 DEF Gone, Links, Marked
  <2> QED
    BY <1>2, <2>1, FitsMarked
<1>3. CASE p \in State
  <2>1. /\ Gone("manifest") = [l \in Links |-> "no"] /\ Gone("backups") = [l \in Links |-> "none"]
        /\ Gone("fluidd-source.path") = "none" /\ Gone("legacy") = {}
    BY DEF Gone, Links, Marked
  <2>2. /\ [l \in Links |-> "no"] \in [Links -> {"no", "-", "kept"}]
        /\ [l \in Links |-> "none"] \in [Links -> {"none", "own", "newer"}]
        /\ "none" \in Sources /\ {} \subseteq {Legacy}
    BY DEF Sources
  <2>3. /\ Fits("manifest", Gone("manifest"), A) /\ Fits("backups", Gone("backups"), A)
        /\ Fits("fluidd-source.path", Gone("fluidd-source.path"), A) /\ Fits("legacy", Gone("legacy"), A)
    BY <2>1, <2>2, FitsState
  <2> QED
    BY <1>3, <2>3 DEF State
<1>4. CASE p \in Configs
  <2>1. Gone(p) = Missing
    BY <1>4 DEF Gone, Configs, Links, Marked
  <2> QED
    BY <1>4, <2>1, FitsConfig DEF Configs
<1> QED
  BY <1>1, <1>2, <1>3, <1>4 DEF Paths

Untouched == UNCHANGED <<op, generated, snapshot, trusted>>

AceStays ==
  /\ files["ace.cfg"] # Missing => files'["ace.cfg"] # Missing
  /\ <<"create", "ace.cfg">> \in Pending =>
       <<"create", "ace.cfg">> \in Pending' \/ files'["ace.cfg"] # Missing

\* It is enough that what a step writes fits, and that what it saves are paths.
LEMMA FitsAgain ==
  ASSUME FitInv, OpInv, Untouched, TreeFits(files', trusted), LogFits(log', trusted),
         AceStays
  PROVE  FitInv'
BY DEF FitInv, Untouched, AceStays

LEMMA SavesFit ==
  ASSUME FitInv, OpInv, NEW S \in SUBSET Paths, Prepare(S)
  PROVE  LogFits(log', trusted)
BY SavedFits DEF FitInv, OpInv, Prepare

LEMMA LinkChangeFits ==
  ASSUME FitInv, OpInv, TodoInv, Untouched, NEW l \in Links,
         InstallLink(l) \/ Link(l) \/ Record(l) \/ Unlink(l) \/ GiveBack(l)
  PROVE  TreeFits(files', trusted) /\ LogFits(log', trusted)
<1>1. l \in Paths /\ {l} \in SUBSET Paths /\ State \in SUBSET Paths
      /\ "manifest" \in Paths /\ "backups" \in Paths
  BY PathsAre DEF State
<1>2. TreeFits(files, trusted) /\ LogFits(log, trusted)
  BY DEF FitInv
<1>3. ASSUME NEW v \in {"none", "own", "newer", "ours"}, Put(l, v)
      PROVE  TreeFits(files', trusted)
  BY <1>1, <1>2, <1>3, FitsLink, PutFits DEF Put
<1>4. CASE InstallLink(l)
  <2>1. CASE UNCHANGED <<files, log>>
    BY <1>2, <2>1
  <2>2. CASE ~UNCHANGED <<files, log>>
    <3>1. /\ files[l] \notin {"none", "ours"} /\ Prepare(State)
          /\ files' = IF files["backups"][l] = "none"
                      THEN [files EXCEPT !["backups"][l] = files[l]] ELSE files
      BY <1>4, <2>2 DEF InstallLink
    <3>2. files[l] \in {"own", "newer"}
      BY <3>1, EntryOf
    <3> DEFINE b == [files["backups"] EXCEPT ![l] = files[l]]
    <3>3. Fits("backups", b, trusted)
      <4>1. b \in [Links -> {"none", "own", "newer"}]
        BY <3>2, EntryOf
      <4> QED
        BY <4>1, FitsState
    <3>4. files' \in {files, [files EXCEPT !["backups"] = b]}
      BY <3>1, <3>2
    <3> HIDE DEF b
    <3>5. TreeFits([files EXCEPT !["backups"] = b], trusted)
      BY <1>1, <1>2, <3>3, PutFits
    <3> QED
      BY <1>1, <1>2, <3>1, <3>4, <3>5, SavesFit
  <2> QED
    BY <2>1, <2>2
<1>5. CASE Link(l)
  BY <1>1, <1>3, <1>5, SavesFit DEF Link
<1>6. CASE Record(l)
  <2> DEFINE m(k) == [files["manifest"] EXCEPT ![l] = k]
  <2>1. /\ Prepare(State)
        /\ files' \in {files, [files EXCEPT !["manifest"] = m("-")], [files EXCEPT !["manifest"] = m("kept")]}
    BY <1>6 DEF Record
  <2>2. ASSUME NEW k \in {"-", "kept"}
        PROVE  TreeFits([files EXCEPT !["manifest"] = m(k)], trusted)
    <3>1. m(k) \in [Links -> {"no", "-", "kept"}]
      BY EntryOf
    <3>2. Fits("manifest", m(k), trusted)
      BY <3>1, FitsState
    <3> HIDE DEF m
    <3> QED
      BY <1>1, <1>2, <3>2, PutFits
  <2> HIDE DEF m
  <2>3. TreeFits(files', trusted)
    BY <1>2, <2>1, <2>2
  <2> QED
    BY <1>1, <2>1, <2>3, SavesFit
<1>7. CASE Unlink(l)
  <2>1. CASE UNCHANGED <<files, log>>
    BY <1>2, <2>1
  <2>2. CASE Prepare({l}) /\ Put(l, "none")
    BY <1>1, <1>3, <2>2, SavesFit
  <2> QED
    BY <1>7, <2>1, <2>2 DEF Unlink
<1>8. CASE GiveBack(l)
  <2>1. files["backups"][l] \in {"none", "own", "newer"} /\ Put(l, files["backups"][l]) /\ log' = log
    BY <1>8, EntryOf DEF GiveBack
  <2> QED
    BY <1>2, <1>3, <2>1
<1> QED
  BY <1>4, <1>5, <1>6, <1>7, <1>8

LEMMA MarkedChangeFits ==
  ASSUME FitInv, OpInv, TodoInv, Untouched, NEW c \in Marked,
         Ensure(c) \/ RemoveBlock(c) \/ (c = "fluidd" /\ (Apply \/ Unpatch)) \/ Check
  PROVE  TreeFits(files', trusted) /\ LogFits(log', trusted)
<1>1. c \in Paths /\ {c} \in SUBSET Paths /\ files[c] \in [own : BOOLEAN, block : BOOLEAN]
  BY PathsAre, EntryOf
<1>2. TreeFits(files, trusted) /\ LogFits(log, trusted)
  BY DEF FitInv
<1>3. CASE UNCHANGED <<files, log>>
  BY <1>2, <1>3
<1>4. ASSUME NEW v \in [own : BOOLEAN, block : BOOLEAN], Put(c, v), Prepare({c})
      PROVE  TreeFits(files', trusted) /\ LogFits(log', trusted)
  BY <1>1, <1>2, <1>4, FitsMarked, PutFits, SavesFit DEF Put
<1>5. /\ [own |-> FALSE, block |-> TRUE] \in [own : BOOLEAN, block : BOOLEAN]
      /\ [files[c] EXCEPT !.block = TRUE] \in [own : BOOLEAN, block : BOOLEAN]
      /\ [files[c] EXCEPT !.block = FALSE] \in [own : BOOLEAN, block : BOOLEAN]
  BY <1>1
<1>6. CASE Ensure(c)
  BY <1>4, <1>5, <1>6 DEF Ensure
<1>7. CASE RemoveBlock(c)
  BY <1>4, <1>5, <1>7 DEF RemoveBlock
<1>8. CASE c = "fluidd" /\ (Apply \/ Unpatch)
  BY <1>3, <1>4, <1>5, <1>8 DEF Apply, Unpatch
<1>9. CASE Check
  BY <1>3, <1>9 DEF Check
<1> QED
  BY <1>6, <1>7, <1>8, <1>9

LEMMA ConfigChangeFits ==
  ASSUME FitInv, OpInv, TodoInv, Untouched,
         Create \/ Upgrade \/ ArchiveMachine \/ Merge \/ ArchiveHardware
  PROVE  TreeFits(files', trusted) /\ LogFits(log', trusted)
<1>1. Configs \subseteq Paths /\ "legacy" \in Paths /\ {"ace.cfg", "ace_machine.cfg", "ace_machine.cfg.legacy", "ace_hardware.cfg"} = Configs
  BY PathsAre DEF State, Configs
<1>2. TreeFits(files, trusted) /\ LogFits(log, trusted) /\ IsSeq(log)
  BY DEF FitInv, OpInv
<1>3. CASE UNCHANGED <<files, log>>
  BY <1>2, <1>3
<1>4. ASSUME NEW v \in Config, Trusted(v.topology) \subseteq trusted,
             files' = [files EXCEPT !["ace.cfg"] = v], Prepare({"ace.cfg"})
      PROVE  TreeFits(files', trusted) /\ LogFits(log', trusted)
  BY <1>1, <1>2, <1>4, FitsConfig, PutFits, SavesFit
<1>5. CASE Create
  <2> DEFINE v == [topology |-> Template, macros |-> FALSE]
  <2>2. v \in Config /\ v.topology = Template
    BY TemplateIs DEF Config
  <2>3. Trusted(v.topology) \subseteq trusted
    BY <2>2, TemplateIs
  <2>4. CASE files["ace.cfg"] = Missing
    BY <1>4, <1>5, <2>2, <2>3, <2>4 DEF Create, Put
  <2> QED
    BY <1>3, <1>5, <2>4 DEF Create
<1>6. ASSUME Upgrade \/ Merge
      PROVE  op = "install" /\ files["ace.cfg"] \in Config
             /\ Trusted(files["ace.cfg"].topology) \subseteq trusted
             /\ generated \in Topologies /\ Trusted(generated) \subseteq trusted
  <2>1. op = "install"
    BY <1>6, WhoseStep DEF Upgrade, Merge, InstallSet
  <2>2. <<"create", "ace.cfg">> \notin Pending
    BY <1>6, InstallOrder DEF Upgrade, Merge
  <2> QED
    BY <2>1, <2>2, EntryOf DEF FitInv
<1>7. CASE Upgrade
  <2> DEFINE t == IF Embedded THEN files["ace.cfg"].topology ELSE Template
             v == [topology |-> t,
                   macros |-> files["ace.cfg"].macros \/ files["ace_machine.cfg"] # Missing]
  <2>1. t \in Topologies /\ Trusted(t) \subseteq trusted
    BY <1>6, <1>7, TemplateIs DEF Config
  <2>2. v \in Config /\ v.topology = t
    <3>1. (files["ace.cfg"].macros \/ files["ace_machine.cfg"] # Missing) \in BOOLEAN
      OBVIOUS
    <3> HIDE DEF t
    <3> QED
      BY <2>1, <3>1 DEF Config
  <2>3. files' = [files EXCEPT !["ace.cfg"] = v] /\ Prepare({"ace.cfg"})
    BY <1>7 DEF Upgrade, Put
  <2> HIDE DEF v, t
  <2> QED
    BY <1>4, <2>1, <2>2, <2>3
<1>8. CASE Merge
  <2> DEFINE v == [files["ace.cfg"] EXCEPT !.topology = generated]
  <2>1. v \in Config /\ v.topology = generated
    BY <1>6, <1>8 DEF Config
  <2>2. files' = [files EXCEPT !["ace.cfg"] = v] /\ Prepare({"ace.cfg"})
    BY <1>8 DEF Merge
  <2> HIDE DEF v
  <2> QED
    BY <1>4, <1>6, <1>8, <2>1, <2>2
<1>9. ASSUME NEW S \in SUBSET Paths, NEW T \in SUBSET Paths, log' = Saved(Saved(log, S), T)
      PROVE  LogFits(log', trusted)
  <2>1. IsSeq(Saved(log, S)) /\ LogFits(Saved(log, S), trusted)
    BY <1>2, SavedIs, SavedFits
  <2> QED
    BY <1>2, <1>9, <2>1, SavedFits
<1>10. CASE ArchiveMachine
  <2>1. CASE files["ace_machine.cfg"] # Missing
    <3> DEFINE f == [files EXCEPT !["ace_machine.cfg"] = Missing]
               g == [f EXCEPT !["ace_machine.cfg.legacy"] = files["ace_machine.cfg"]]
    <3>1. /\ log' = Saved(Saved(log, {"ace_machine.cfg"}), {"ace_machine.cfg.legacy"})
          /\ files' = g
      BY <1>10, <2>1 DEF ArchiveMachine
    <3>2. TreeFits(f, trusted)
      BY <1>1, <1>2, FitsConfig, PutFits
    <3>3. TreeFits(g, trusted)
      <4> HIDE DEF f
      <4> QED
        BY <1>1, <3>2, FitsConfig, PutFits
    <3> QED
      BY <1>1, <1>9, <3>1, <3>3
  <2> QED
    BY <1>3, <1>10, <2>1 DEF ArchiveMachine
<1>11. CASE ArchiveHardware
  <2>1. CASE files["ace_hardware.cfg"] # Missing
    <3> DEFINE f == [files EXCEPT !["ace_hardware.cfg"] = Missing]
               v == files["legacy"] \cup {files["ace_hardware.cfg"]}
               g == [f EXCEPT !["legacy"] = v]
    <3>1. /\ log' = Saved(Saved(log, {"ace_hardware.cfg"}), {"legacy"})
          /\ files' = [files EXCEPT !["ace_hardware.cfg"] = Missing,
                                    !["legacy"] = @ \cup {files["ace_hardware.cfg"]}]
      BY <1>11, <2>1 DEF ArchiveHardware
    <3>2. files' = g
      BY <3>1
    <3>3. TreeFits(f, trusted)
      BY <1>1, <1>2, FitsConfig, PutFits
    <3>4. v \subseteq {Legacy}
      BY <2>1, EntryOf
    <3>5. TreeFits(g, trusted)
      <4> HIDE DEF f, v
      <4> QED
        BY <1>1, <3>3, <3>4, FitsState, PutFits
    <3> QED
      BY <1>1, <1>9, <3>1, <3>2, <3>5
  <2> QED
    BY <1>3, <1>11, <2>1 DEF ArchiveHardware
<1> QED
  BY <1>5, <1>7, <1>8, <1>10, <1>11

LEMMA StateChangeFits ==
  ASSUME FitInv, OpInv, TodoInv, Untouched, Note \/ Clean
  PROVE  TreeFits(files', trusted) /\ LogFits(log', trusted)
<1>1. State \subseteq Paths /\ {"fluidd-source.path", "manifest", "backups"} \subseteq State
  BY PathsAre DEF State
<1>2. TreeFits(files, trusted)
  BY DEF FitInv
<1>3. ASSUME NEW p \in State, NEW v, Fits(p, v, trusted), Put(p, v), Prepare({p})
      PROVE  TreeFits(files', trusted) /\ LogFits(log', trusted)
  BY <1>1, <1>2, <1>3, PutFits, SavesFit DEF Put
<1>4. CASE Note
  <2>1. Fits("fluidd-source.path", source, trusted)
    BY FitsState DEF OpInv
  <2> QED
    BY <1>1, <1>3, <1>4, <2>1 DEF Note
<1>5. CASE Clean
  <2>1. PICK p \in State \ {"legacy"} : Prepare({p}) /\ Put(p, Gone(p))
    BY <1>5 DEF Clean
  <2>2. Fits(p, Gone(p), trusted)
    BY <1>1, GoneFits
  <2> QED
    BY <1>3, <2>1, <2>2
<1> QED
  BY <1>4, <1>5

LEMMA AnyAceStays ==
  ASSUME FitInv, OpInv, TodoInv, Change
  PROVE  AceStays
<1> DEFINE c == <<"create", "ace.cfg">>
<1>1. Tree(files) /\ "ace.cfg" \in Paths
  BY PathsAre DEF FitInv, TreeFits, Configs
<1>2. ASSUME NEW n, NEW p, Step(n, p), Then(<<>>), <<n, p>> # c
      PROVE  c \in Pending => c \in Pending'
  BY <1>2, ThenNothing
<1>3. Missing \notin Config
  BY InstallationAssumption DEF Config
<1>4. CASE Create
  <2> DEFINE v == [topology |-> Template, macros |-> FALSE]
  <2>1. v \in Config
    BY TemplateIs DEF Config
  <2>2. (files["ace.cfg"] # Missing /\ files' = files) \/ files' = [files EXCEPT !["ace.cfg"] = v]
    BY <1>4 DEF Create, Put
  <2> HIDE DEF v
  <2>3. files'["ace.cfg"] # Missing
    BY <1>1, <1>3, <2>1, <2>2 DEF Tree
  <2> QED
    BY <2>3 DEF AceStays
<1>5. CASE Upgrade \/ Merge
  <2>1. op = "install"
    BY <1>5, WhoseStep DEF Upgrade, Merge, InstallSet
  <2>2. c \notin Pending /\ files["ace.cfg"] \in Config
    <3>1. c \notin Pending
      BY <1>5, InstallOrder DEF Upgrade, Merge
    <3> QED
      BY <2>1, <3>1, EntryOf DEF FitInv
  <2>3. generated \in Topologies
    BY <2>1 DEF FitInv
  <2>4. /\ \A t \in Topologies, b \in BOOLEAN : [topology |-> t, macros |-> b] \in Config
        /\ [files["ace.cfg"] EXCEPT !.topology = generated] \in Config
        /\ files["ace.cfg"].topology \in Topologies
    BY <2>2, <2>3 DEF Config
  <2>5. \/ files'["ace.cfg"] = [files["ace.cfg"] EXCEPT !.topology = generated]
        \/ \E t \in {Template, files["ace.cfg"].topology}, b \in BOOLEAN :
             files'["ace.cfg"] = [topology |-> t, macros |-> b]
    <3>1. CASE Merge
      BY <1>1, <3>1 DEF Merge, Tree
    <3>2. CASE Upgrade
      <4> DEFINE t == IF Embedded THEN files["ace.cfg"].topology ELSE Template
                 b == files["ace.cfg"].macros \/ files["ace_machine.cfg"] # Missing
      <4>1. files'["ace.cfg"] = [topology |-> t, macros |-> b]
        BY <1>1, <3>2 DEF Upgrade, Put, Tree
      <4>2. t \in {Template, files["ace.cfg"].topology} /\ b \in BOOLEAN
        OBVIOUS
      <4> HIDE DEF t, b
      <4> QED
        BY <4>1, <4>2
    <3> QED
      BY <1>5, <3>1, <3>2
  <2>6. files'["ace.cfg"] \in Config
    BY <2>4, <2>5, TemplateIs
  <2> QED
    BY <1>3, <2>2, <2>6 DEF AceStays
<1>6. ASSUME files'["ace.cfg"] = files["ace.cfg"], c \in Pending => c \in Pending'
      PROVE  AceStays
  BY <1>6 DEF AceStays
<1>7. CASE ArchiveMachine \/ ArchiveHardware
  <2>1. files'["ace.cfg"] = files["ace.cfg"]
    BY <1>1, <1>7 DEF ArchiveMachine, ArchiveHardware, Tree
  <2> QED
    BY <1>2, <1>6, <1>7, <2>1 DEF ArchiveMachine, ArchiveHardware
<1>8. ASSUME NEW l \in Links, InstallLink(l) \/ Link(l) \/ Record(l) \/ Unlink(l) \/ GiveBack(l)
      PROVE  AceStays
  <2>1. files'["ace.cfg"] = files["ace.cfg"]
    BY <1>1, <1>8 DEF InstallLink, Link, Record, Unlink, GiveBack, Put, Links, Tree
  <2>2. CASE Step("install_link", l) /\ \E kind \in {"record", "record_backup"} :
               Then(<< <<"link", l>>, <<kind, l>> >>)
    BY <1>6, <2>1, <2>2, InstallLinkTakes
  <2>3. CASE Step("unlink", l) /\ Then(<< <<"give_back", l>> >>)
    BY <1>6, <2>1, <2>3, UnlinkTakes
  <2>4. CASE Then(<<>>)
    <3>1. \E n \in {"install_link", "link", "record", "record_backup", "unlink", "give_back"} : Step(n, l)
      BY <1>8 DEF InstallLink, Link, Record, Unlink, GiveBack
    <3> QED
      BY <1>2, <1>6, <2>1, <2>4, <3>1
  <2> QED
    <3>1. CASE InstallLink(l)
      BY <2>2, <2>4, <3>1 DEF InstallLink
    <3>2. CASE Unlink(l)
      BY <2>3, <2>4, <3>2 DEF Unlink
    <3>3. CASE Link(l) \/ Record(l) \/ GiveBack(l)
      BY <2>4, <3>3 DEF Link, Record, GiveBack
    <3> QED
      BY <1>8, <3>1, <3>2, <3>3
<1>9. CASE Check \/ Apply \/ Note \/ Unpatch
  <2>1. files'["ace.cfg"] = files["ace.cfg"]
    BY <1>1, <1>9 DEF Check, Apply, Note, Unpatch, Put, Tree
  <2> QED
    BY <1>2, <1>6, <1>9, <2>1 DEF Check, Apply, Note, Unpatch
<1>10. ASSUME NEW m \in Marked, Ensure(m) \/ RemoveBlock(m)
       PROVE  AceStays
  <2>1. files'["ace.cfg"] = files["ace.cfg"]
    BY <1>1, <1>10 DEF Ensure, RemoveBlock, Put, Marked, Tree
  <2> QED
    BY <1>2, <1>6, <1>10, <2>1 DEF Ensure, RemoveBlock
<1>11. CASE Clean
  <2>1. files'["ace.cfg"] = files["ace.cfg"]
    BY <1>1, <1>11 DEF Clean, Put, State, Tree
  <2> QED
    BY <1>2, <1>6, <1>11, <2>1 DEF Clean
<1> QED
  BY <1>4, <1>5, <1>7, <1>8, <1>9, <1>10, <1>11 DEF Change

LEMMA ChangeFits ==
  ASSUME FitInv, OpInv, TodoInv, Change
  PROVE  FitInv'
<1>1. Untouched
  BY DEF Change, Untouched, ghosts
<1>2. TreeFits(files', trusted) /\ LogFits(log', trusted)
  <2>1. CASE \E l \in Links : InstallLink(l) \/ Link(l) \/ Record(l) \/ Unlink(l) \/ GiveBack(l)
    BY <1>1, <2>1, LinkChangeFits
  <2>2. CASE (\E c \in Marked : Ensure(c) \/ RemoveBlock(c)) \/ Apply \/ Unpatch \/ Check
    <3>1. "fluidd" \in Marked
      BY DEF Marked
    <3> QED
      BY <1>1, <2>2, <3>1, MarkedChangeFits
  <2>3. CASE Create \/ Upgrade \/ ArchiveMachine \/ Merge \/ ArchiveHardware
    BY <1>1, <2>3, ConfigChangeFits
  <2>4. CASE Note \/ Clean
    BY <1>1, <2>4, StateChangeFits
  <2> QED
    BY <2>1, <2>2, <2>3, <2>4 DEF Change
<1> QED
  BY <1>1, <1>2, AnyAceStays, FitsAgain

LEMMA InitFit == Init => FitInv
<1> SUFFICES ASSUME Init PROVE FitInv
  OBVIOUS
<1>1. PICK found \in Found : files = [p \in Paths |-> At(found, p)]
  BY DEF Init
<1>2. Tree(files) /\ \A p \in Paths : files[p] = At(found, p)
  BY <1>1 DEF Tree
<1>3. files["ace_hardware.cfg"] \in {Legacy, Missing}
  BY <1>2, PathsAre DEF At, Gone, Configs, Links, Marked
<1>4. /\ trusted = IF files["ace_hardware.cfg"] = Missing THEN {} ELSE Trusted(Legacy)
      /\ log = <<>> /\ snapshot = Missing /\ op = "none"
  BY DEF Init
<1>5. ASSUME NEW p \in Paths
      PROVE  Fits(p, files[p], trusted)
  <2>1. CASE files[p] = Gone(p)
    BY <2>1, GoneFits
  <2>2. CASE p = "page" /\ files[p] = "own"
    BY <2>2, FitsLink DEF Links
  <2>3. CASE p = "printer.cfg" /\ files[p] = [own |-> TRUE, block |-> FALSE]
    BY <2>3, FitsMarked DEF Marked
  <2>4. CASE p = "ace.cfg" /\ files[p] = [topology |-> <<>>, macros |-> FALSE]
    <3>1. <<>> \in Topologies /\ Trusted(<<>>) = {}
      BY EmptySeq, EmptyList DEF Topologies, Trusted
    <3>2. files[p] \in Config /\ files[p].topology = <<>>
      BY <2>4, <3>1 DEF Config
    <3>3. Trusted(files[p].topology) = {}
      BY <3>1, <3>2
    <3> QED
      BY <2>4, <3>2, <3>3, FitsConfig
  <2>5. CASE p = "ace_hardware.cfg" /\ files[p] = Legacy
    BY <1>4, <2>5 DEF Fits, LinkFits, ConfigFits, Links, Marked
  <2>6. CASE p = "ace_machine.cfg"
    BY <2>6, FitsConfig
  <2>7. \/ files[p] = Gone(p) \/ p = "ace_machine.cfg"
        \/ p = "page" /\ files[p] = "own"
        \/ p = "printer.cfg" /\ files[p] = [own |-> TRUE, block |-> FALSE]
        \/ p = "ace.cfg" /\ files[p] = [topology |-> <<>>, macros |-> FALSE]
        \/ p = "ace_hardware.cfg" /\ files[p] = Legacy
    <3> HIDE DEF Gone
    <3> QED
      BY <1>2 DEF At
  <2> QED
    BY <2>1, <2>2, <2>3, <2>4, <2>5, <2>6, <2>7
<1>6. trusted \subseteq Unit
  <2>1. CASE files["ace_hardware.cfg"] = Missing
    BY <1>4, <2>1
  <2>2. CASE files["ace_hardware.cfg"] # Missing
    BY <1>3, <1>4, <2>2, InstallationAssumption, TrustedAreUnits
  <2> QED
    BY <2>1, <2>2
<1>7. LogFits(log, trusted)
  BY <1>4, EmptyList DEF LogFits
<1> QED
  BY <1>2, <1>4, <1>5, <1>6, <1>7 DEF FitInv, TreeFits

(***************************************************************************)
(* Every step of the system keeps the types and the authorisations.        *)
(***************************************************************************)
\* A change saves at most two sets of paths.
LEMMA ChangeLogs ==
  ASSUME Change
  PROVE  /\ op \in {"install", "uninstall"}
         /\ \/ log' = log
            \/ \E S \in SUBSET Paths : log' = Saved(log, S)
            \/ \E S, T \in SUBSET Paths : log' = Saved(Saved(log, S), T)
<1> DEFINE G == \/ log' = log
                \/ \E S \in SUBSET Paths : log' = Saved(log, S)
                \/ \E S, T \in SUBSET Paths : log' = Saved(Saved(log, S), T)
           R == op \in {"install", "uninstall"}
<1>1. \A S \in SUBSET Paths : Prepare(S) => G
  BY DEF Prepare
<1>2. State \in SUBSET Paths /\ \A p \in Paths : {p} \in SUBSET Paths
  BY PathsAre
<1>3. \A n, p : Step(n, p) => R
  BY DEF Step
<1>4. ASSUME NEW l \in Links, InstallLink(l) \/ Link(l) \/ Record(l) \/ Unlink(l) \/ GiveBack(l)
      PROVE  R /\ G
  <2>1. {l} \in SUBSET Paths
    BY <1>2, PathsAre
  <2>2. (log' = log \/ Prepare(State) \/ Prepare({l}))
    BY <1>4 DEF InstallLink, Link, Record, Unlink, GiveBack
  <2>3. R
    BY <1>3, <1>4 DEF InstallLink, Link, Record, Unlink, GiveBack
  <2> QED
    BY <1>1, <1>2, <2>1, <2>2, <2>3
<1>5. CASE Check \/ Apply \/ Note \/ Create \/ Upgrade \/ Merge \/ Unpatch
  <2>1. "fluidd" \in Paths /\ "fluidd-source.path" \in Paths /\ "ace.cfg" \in Paths
    BY PathsAre DEF Marked, State, Configs
  <2>2. log' = log \/ \E p \in Paths : Prepare({p})
    BY <1>5, <2>1 DEF Check, Apply, Note, Create, Upgrade, Merge, Unpatch
  <2>3. R
    BY <1>3, <1>5 DEF Check, Apply, Note, Create, Upgrade, Merge, Unpatch
  <2> QED
    BY <1>1, <1>2, <2>2, <2>3
<1>6. CASE ArchiveMachine \/ ArchiveHardware
  <2>1. {"ace_machine.cfg"} \in SUBSET Paths /\ {"ace_machine.cfg.legacy"} \in SUBSET Paths
        /\ {"ace_hardware.cfg"} \in SUBSET Paths /\ {"legacy"} \in SUBSET Paths
    BY PathsAre DEF State, Configs
  <2>2. \/ log' = log
        \/ log' = Saved(Saved(log, {"ace_machine.cfg"}), {"ace_machine.cfg.legacy"})
        \/ log' = Saved(Saved(log, {"ace_hardware.cfg"}), {"legacy"})
    BY <1>6 DEF ArchiveMachine, ArchiveHardware
  <2>3. R
    BY <1>3, <1>6 DEF ArchiveMachine, ArchiveHardware
  <2> QED
    BY <2>1, <2>2, <2>3
<1>7. CASE (\E c \in Marked : Ensure(c) \/ RemoveBlock(c)) \/ Clean
  <2>1. \E p \in Paths : Prepare({p})
    BY <1>7, PathsAre DEF Ensure, RemoveBlock, Clean
  <2>2. R
    BY <1>3, <1>7 DEF Ensure, RemoveBlock, Clean
  <2> QED
    BY <1>1, <1>2, <2>1, <2>2
<1> QED
  BY <1>4, <1>5, <1>6, <1>7 DEF Change

LEMMA NextOp ==
  ASSUME TodoInv, OpInv, [Next]_vars
  PROVE  OpInv'
<1>1. CASE Change
  <2>1. IsSeq(log')
    <3>1. \A lg, S : IsSeq(lg) => IsSeq(Saved(lg, S))
      BY SavedIs
    <3>2. IsSeq(log)
      BY DEF OpInv
    <3> QED
      BY <1>1, <3>1, <3>2, ChangeLogs
  <2>2. UNCHANGED <<op, outcome, snapshot, source, half>>
    BY <1>1 DEF Change
  <2> QED
    BY <1>1, <2>1, <2>2, ChangeLogs DEF OpInv
<1>2. ASSUME NEW how, Finish(how) PROVE OpInv'
  BY <1>2, EmptyList DEF Finish, OpInv, Sources
<1>3. ASSUME NEW name \in {"install", "uninstall", "restore"}, NEW steps, Begin(name, steps),
             name = "restore" => snapshot' # Missing, source' \in Sources
      PROVE  OpInv'
  BY <1>3, EmptyList DEF Begin, OpInv
<1>4. CASE Commit \/ RolledBack \/ Kill \/ Restored \/ RestoreStops
  BY <1>2, <1>4 DEF Commit, RolledBack, Kill, Restored, RestoreStops
<1>5. CASE \E tree \in Sources, units \in Devices : Install(units, tree)
  BY <1>3, <1>5 DEF Install
<1>6. CASE (\E tree \in Sources : Uninstall(tree)) \/ BeginRestore
  BY <1>3, <1>6 DEF Uninstall, BeginRestore, OpInv
<1>7. CASE Fail
  BY <1>7 DEF Fail, OpInv, Last
<1>8. CASE RollbackRemove
  BY <1>8 DEF RollbackRemove, OpInv, Last
<1>14. CASE RollbackCopy
  <2>1. log' = SubSeq(log, 1, Len(log) - 1) /\ UNCHANGED <<op, outcome, snapshot, source>>
        /\ op = "rollback" /\ half' = {} /\ log # <<>>
    BY <1>14 DEF RollbackCopy, OpInv
  <2>2. IsSeq(log')
    BY <2>1, Dropped DEF OpInv
  <2> QED
    BY <2>1, <2>2 DEF OpInv
<1>9. CASE RestoreNext \/ UNCHANGED vars
  BY <1>9 DEF RestoreNext, OpInv, Last, vars
<1>10. CASE Person
  <2>1. op = "none" /\ outcome' = "none" /\ UNCHANGED <<op, log, source, half>>
    BY <1>10 DEF Person, ReplaceLink, EditMarked, Allow, Edit
  <2> QED
    BY <2>1 DEF OpInv
<1> QED
  BY <1>1, <1>4, <1>5, <1>6, <1>7, <1>8, <1>9, <1>10, <1>14 DEF Next

LEMMA InitOp == Init => TodoInv /\ OpInv
<1> SUFFICES ASSUME Init PROVE TodoInv /\ OpInv
  OBVIOUS
<1>1. op = "none" /\ todo = <<>> /\ log = <<>> /\ half = {} /\ source = "none"
  BY DEF Init
<1>2. TodoInv
  BY <1>1, NoStep DEF TodoInv, Pending
<1> QED
  BY <1>1, <1>2, EmptyList DEF OpInv, Sources

LEMMA ConfiguredFits ==
  ASSUME FitInv, ~LockedOut
  PROVE  Configured \in Topologies /\ Trusted(Configured) \subseteq trusted
<1>1. CASE files["ace_hardware.cfg"] # Missing
  <2>1. Configured = Legacy
    BY <1>1, EntryOf DEF Configured, LockedOut
  <2> QED
    BY <1>1, <2>1, EntryOf
<1>2. CASE files["ace_hardware.cfg"] = Missing /\ Embedded
  <2>1. files["ace.cfg"] \in Config /\ Configured = files["ace.cfg"].topology
    BY <1>2, EntryOf DEF Embedded, Configured
  <2> QED
    BY <1>2, <2>1, EntryOf DEF Embedded, Config
<1>3. CASE files["ace_hardware.cfg"] = Missing /\ ~Embedded
  <2>1. Configured = <<>>
    BY <1>3 DEF Configured
  <2> QED
    BY <2>1, EmptySeq, EmptyList DEF Topologies, Trusted
<1> QED
  BY <1>1, <1>2, <1>3

\* Taking paths from a tree, or a saved part of one, that fits.
LEMMA TakenFits ==
  ASSUME NEW A, TreeFits(files, A), NEW S, NEW g,
         \A p \in S \cap Paths : Fits(p, g[p], A),
         files' = [p \in Paths |-> IF p \in S THEN g[p] ELSE files[p]]
  PROVE  TreeFits(files', A)
BY DEF TreeFits, Tree

\* physical_actions_enabled of one unit, the other way round
LEMMA Switched ==
  ASSUME NEW t \in Topologies, NEW i \in DOMAIN t
  PROVE  LET u == [t EXCEPT ![i].physical = ~@] IN
         u \in Topologies /\ u # <<>> /\ Trusted(u) \subseteq Trusted(t) \cup {t[i].unit}
         /\ DOMAIN u = DOMAIN t /\ \A j \in DOMAIN t : u[j].unit = t[j].unit
<1> DEFINE u == [t EXCEPT ![i].physical = ~@]
<1>1. Len(t) \in Nat /\ DOMAIN t = 1..Len(t)
      /\ \A j \in DOMAIN t : t[j] \in [unit : Unit, physical : BOOLEAN]
  BY TopologyIs
<1>2. DOMAIN u = DOMAIN t /\ u = [j \in DOMAIN t |-> u[j]]
  OBVIOUS
<1>3. u[i] = [t[i] EXCEPT !.physical = ~@] /\ \A j \in DOMAIN t : j # i => u[j] = t[j]
  OBVIOUS
<1>4. [t[i] EXCEPT !.physical = ~@] \in [unit : Unit, physical : BOOLEAN]
      /\ [t[i] EXCEPT !.physical = ~@].unit = t[i].unit
  BY <1>1
<1> HIDE DEF u
<1>5. \A j \in DOMAIN t : /\ u[j] \in [unit : Unit, physical : BOOLEAN] /\ u[j].unit = t[j].unit
                          /\ j # i => u[j] = t[j]
  BY <1>1, <1>3, <1>4
<1>6. u \in Topologies
  BY <1>1, <1>2, <1>5, IsTopology
<1>7. u # <<>>
  BY <1>2, EmptyList
<1>8. Trusted(u) \subseteq Trusted(t) \cup {t[i].unit}
  BY <1>1, <1>2, <1>5 DEF Trusted
<1> QED
  BY <1>2, <1>5, <1>6, <1>7, <1>8 DEF u

LEMMA PersonFits ==
  ASSUME FitInv, OpInv, TodoInv, Person
  PROVE  FitInv'
<1>1. /\ op = "none" /\ UNCHANGED <<op, log, snapshot>>
      /\ TreeFits(files, trusted) /\ LogFits(log, trusted)
  BY DEF Person, ReplaceLink, EditMarked, Allow, Edit, FitInv
<1>2. ASSUME TreeFits(files', trusted), trusted' = trusted
      PROVE  FitInv'
  BY <1>1, <1>2 DEF FitInv
<1>3. CASE \E l \in Links, content \in {"none", "newer"} : ReplaceLink(l, content)
  <2>1. PICK l \in Links, content \in {"none", "newer"} : ReplaceLink(l, content)
    BY <1>3
  <2>2. Fits(l, content, trusted) /\ l \in Paths
    BY FitsLink, PathsAre
  <2>3. TreeFits(files', trusted)
    BY <1>1, <2>1, <2>2, PutFits DEF ReplaceLink, Put
  <2> QED
    BY <1>2, <2>1, <2>3 DEF ReplaceLink, FitInv
<1>4. CASE \E c \in Marked : EditMarked(c)
  <2>1. PICK c \in Marked : EditMarked(c)
    BY <1>4
  <2>2. files[c] \in [own : BOOLEAN, block : BOOLEAN] /\ c \in Paths
    BY EntryOf, PathsAre
  <2>3. [files[c] EXCEPT !.own = ~@] \in [own : BOOLEAN, block : BOOLEAN]
        /\ [own |-> FALSE, block |-> FALSE] \in [own : BOOLEAN, block : BOOLEAN]
    BY <2>2
  <2>4. \E v \in [own : BOOLEAN, block : BOOLEAN] : files' = [files EXCEPT ![c] = v]
    BY <2>1, <2>3 DEF EditMarked, Put
  <2>5. TreeFits(files', trusted)
    <3>1. PICK v \in [own : BOOLEAN, block : BOOLEAN] : files' = [files EXCEPT ![c] = v]
      BY <2>4
    <3>2. Fits(c, v, trusted)
      BY FitsMarked
    <3> QED
      BY <1>1, <2>2, <3>1, <3>2, PutFits
  <2> QED
    BY <1>2, <2>1, <2>5 DEF EditMarked, FitInv
<1>5. CASE \E i \in 1..Cardinality(Unit) : Allow(i)
  <2>1. PICK i \in 1..Cardinality(Unit) : Allow(i)
    BY <1>5
  <2> DEFINE c == files["ace.cfg"]
             t == c.topology
             u == [t EXCEPT ![i].physical = ~@]
             d == [c EXCEPT !.topology = u]
  <2>2. /\ c \in Config /\ t \in Topologies /\ Trusted(t) \subseteq trusted
        /\ i \in DOMAIN t /\ trusted' = trusted \cup {t[i].unit}
    BY <2>1, EntryOf DEF Allow, Config
  <2>3. t[i].unit \in Unit
    BY <2>2, TopologyIs
  <2>4. u \in Topologies /\ Trusted(u) \subseteq Trusted(t) \cup {t[i].unit}
    BY <2>2, Switched
  <2>5. u \in Topologies
    BY <2>4
  <2>6. Trusted(u) \subseteq trusted'
    <3> HIDE DEF u, t
    <3> QED
      BY <2>2, <2>4
  <2>7. d \in Config /\ d.topology = u
    <3> HIDE DEF u
    <3> QED
      BY <2>2, <2>5 DEF Config
  <2>8. files' = [files EXCEPT !["ace.cfg"] = d]
    BY <2>1 DEF Allow
  <2>9. Fits("ace.cfg", d, trusted') /\ "ace.cfg" \in Paths
    <3> HIDE DEF d, u
    <3> QED
      BY <2>6, <2>7, FitsConfig, PathsAre DEF Configs
  <2> HIDE DEF c, t, u, d
  <2>10. trusted \subseteq trusted' /\ trusted' \subseteq Unit
    BY <2>2, <2>3 DEF FitInv
  <2>11. TreeFits(files, trusted') /\ LogFits(log', trusted')
    BY <1>1, <2>10, TreeFitsLonger, LogFitsLonger
  <2>12. TreeFits(files', trusted')
    BY <2>8, <2>9, <2>11, PutFits
  <2>13. snapshot' # Missing => TreeFits(snapshot'.files, trusted')
    BY <1>1, <2>10, TreeFitsLonger DEF FitInv
  <2> QED
    BY <1>1, <2>2, <2>10, <2>11, <2>12, <2>13 DEF FitInv
<1> QED
  BY <1>3, <1>4, <1>5 DEF Person

LEMMA NextFit ==
  ASSUME FitInv, OpInv, TodoInv, [Next]_vars
  PROVE  FitInv'
<1>1. TreeFits(files, trusted) /\ LogFits(log, trusted)
  BY DEF FitInv
<1>2. LogFits(<<>>, trusted)
  BY EmptyList DEF LogFits
<1>3. ASSUME op' # "install", TreeFits(files', trusted), LogFits(log', trusted),
             UNCHANGED <<snapshot, trusted>>
      PROVE  FitInv'
  BY <1>3 DEF FitInv
<1>4. CASE Change
  BY <1>4, ChangeFits
<1>5. ASSUME NEW units \in Devices, NEW tree \in Sources, Install(units, tree)
      PROVE  FitInv'
  <2>1. /\ ~LockedOut /\ op' = "install" /\ todo' = InstallSteps(tree) /\ log' = <<>> /\ files' = files
        /\ trusted' = trusted
        /\ generated' = Preserve(units, Configured)
        /\ snapshot' = Snapshot(tree) \/ snapshot' = snapshot
    BY <1>5 DEF Install, Begin
  <2>2. generated' \in Topologies \ {<<>>} /\ Trusted(generated') \subseteq trusted /\ Real(generated')
    BY <2>1, ConfiguredFits, PreserveTrusts
  <2>3. <<"create", "ace.cfg">> \in Pending'
    BY <2>1, InstallStepsAre, Last7Is DEF Pending
  <2>4. snapshot' # Missing => TreeFits(snapshot'.files, trusted)
    BY <1>1, <2>1 DEF Snapshot, FitInv
  <2> QED
    BY <1>1, <1>2, <2>1, <2>2, <2>3, <2>4 DEF FitInv
<1>6. CASE \E tree \in Sources : Uninstall(tree)
  BY <1>1, <1>2, <1>3, <1>6 DEF Uninstall, Begin
<1>7. CASE Commit \/ RolledBack \/ Kill \/ Restored \/ RestoreStops
  BY <1>1, <1>2, <1>3, <1>7 DEF Commit, RolledBack, Kill, Restored, RestoreStops, Finish, ghosts
<1>8. CASE Fail
  BY <1>1, <1>3, <1>8 DEF Fail, ghosts
<1>9. CASE RollbackRemove
  <2>1. /\ files' = [p \in Paths |-> IF p \in Last.paths THEN Gone(p) ELSE files[p]]
        /\ UNCHANGED <<op, log, snapshot, trusted>> /\ op = "rollback"
    BY <1>9 DEF RollbackRemove, ghosts
  <2>2. Tree(files')
    BY <2>1 DEF Tree
  <2>3. \A p \in Paths : Fits(p, files'[p], trusted)
    BY <1>1, <2>1, GoneFits DEF TreeFits
  <2> QED
    BY <1>1, <1>3, <2>1, <2>2, <2>3 DEF TreeFits
<1>14. CASE RollbackCopy
  <2>1. /\ files' = [p \in Paths |-> IF p \in half THEN Last.files[p] ELSE files[p]]
        /\ log' = SubSeq(log, 1, Len(log) - 1) /\ log # <<>> /\ half = Last.paths
        /\ UNCHANGED <<op, snapshot, trusted>> /\ op = "rollback"
    BY <1>14 DEF RollbackCopy, OpInv, ghosts
  <2>2. /\ Len(log) \in DOMAIN log /\ DOMAIN log' \subseteq DOMAIN log
        /\ \A i \in DOMAIN log' : log'[i] = log[i]
    BY <2>1, Dropped DEF OpInv
  <2>3. LogFits(log', trusted)
    BY <1>1, <2>2 DEF LogFits
  <2>4. \A p \in half : Fits(p, Last.files[p], trusted)
    BY <1>1, <2>1, <2>2 DEF LogFits, Last
  <2>5. TreeFits(files', trusted)
    BY <1>1, <2>1, <2>4, TakenFits
  <2> QED
    BY <1>3, <2>1, <2>3, <2>5
<1>10. CASE BeginRestore
  BY <1>1, <1>2, <1>3, <1>10 DEF BeginRestore, Begin
<1>11. CASE RestoreNext
  <2>1. PICK i \in DOMAIN Order :
          files' = [p \in Paths |-> IF p \in Order[i] THEN snapshot.files[p] ELSE files[p]]
    BY <1>11 DEF RestoreNext
  <2>2. op = "restore" /\ UNCHANGED <<op, log, snapshot, trusted>>
    BY <1>11 DEF RestoreNext, ghosts
  <2>3. \A p \in Paths : Fits(p, snapshot.files[p], trusted)
    BY <2>2 DEF OpInv, FitInv, TreeFits
  <2>4. TreeFits(files', trusted)
    BY <1>1, <2>1, <2>3, TakenFits
  <2> QED
    BY <1>1, <1>3, <2>2, <2>4
<1>12. CASE Person
  BY <1>12, PersonFits
<1>13. CASE UNCHANGED vars
  BY <1>13 DEF vars, ghosts, FitInv, Pending
<1> QED
  BY <1>4, <1>5, <1>6, <1>7, <1>8, <1>9, <1>10, <1>11, <1>12, <1>13, <1>14 DEF Next

Base == TodoInv /\ OpInv /\ FitInv

LEMMA BaseHolds == Spec => []Base
<1>1. Init => Base
  BY InitOp, InitFit DEF Base
<1>2. Base /\ [Next]_vars => Base'
  BY NextTodo, NextOp, NextFit DEF Base
<1> QED
  BY <1>1, <1>2, PTL DEF Spec

\* Every variable has its type in every reachable state, and no list of steps and no
\* log is left over between runs: on_exit and commit_transaction close what
\* begin_transaction opened.
THEOREM TypesCorrect == Spec => []TypeOK
<1>1. Base => TypeOK
  <2> SUFFICES ASSUME Base PROVE TypeOK
    OBVIOUS
  <2>1. DOMAIN files = Paths
    BY DEF Base, FitInv, TreeFits, Tree
  <2>2. /\ op \in {"none", "install", "uninstall", "rollback", "restore"}
        /\ op = "none" => todo = <<>> /\ log = <<>> /\ half = {}
        /\ half # {} => op = "rollback" /\ log # <<>> /\ half = Last.paths
    BY DEF Base, OpInv, TodoInv
  <2>3. trusted \subseteq Unit
    BY DEF Base, FitInv
  <2> QED
    BY <2>1, <2>2, <2>3, EntryOf DEF Base, TypeOK, Config
<1> QED
  BY <1>1, BaseHolds, PTL

\* However units are exchanged and runs fail, roll back or are restored, a unit in
\* ace.cfg may act only if a person allowed that unit to: preserve_device_settings
\* goes by identity, not by place.
THEOREM TrustIsAPersons == Spec => []TrustsOnlyThePerson
<1>1. Base => TrustsOnlyThePerson
  BY EntryOf DEF Base, TrustsOnlyThePerson
<1> QED
  BY <1>1, BaseHolds, PTL

(***************************************************************************)
(* Rolling back.  The first entry of the log that names a path has what it *)
(* held when the run began; a path no entry names still holds it.          *)
(***************************************************************************)
Covered(lg, p) == \E i \in DOMAIN lg : p \in lg[i].paths

\* The first entry that saved p holds v.
SavedFirst(lg, p, v) ==
  \E i \in DOMAIN lg : /\ p \in lg[i].paths /\ lg[i].files[p] = v
                       /\ \A j \in DOMAIN lg : j < i => p \notin lg[j].paths

\* Rolling lg back turns f into the files the run began with.
Undoes(lg, f) ==
  \A p \in Paths : SavedFirst(lg, p, before[p]) \/ (~Covered(lg, p) /\ f[p] = before[p])

Running == op \in {"install", "uninstall", "rollback"}

UndoInv ==
  /\ Running => Tree(before) /\ Undoes(log, files)
  /\ \A l \in Links : <<"give_back", l>> \in Pending => Covered(log, l)
  /\ FailureChangesNothing

LEMMA SavedCovers ==
  ASSUME NEW lg, IsSeq(lg), NEW S
  PROVE  /\ \A p : Covered(Saved(lg, S), p) <=> Covered(lg, p) \/ p \in S
<1> DEFINE r == Saved(lg, S)
<1>1. \/ r = lg /\ \E i \in DOMAIN lg : lg[i].paths = S
      \/ /\ DOMAIN r = DOMAIN lg \cup {Len(lg) + 1} /\ r[Len(lg) + 1] = Entry(S)
         /\ \A i \in DOMAIN lg : r[i] = lg[i]
  <2> DEFINE A(t) == t = lg /\ \E i \in DOMAIN lg : lg[i].paths = S
             B(t) == /\ \A i \in DOMAIN lg : lg[i].paths # S
                     /\ DOMAIN t = DOMAIN lg \cup {Len(lg) + 1} /\ t[Len(lg) + 1] = Entry(S)
                     /\ \A i \in DOMAIN lg : t[i] = lg[i] /\ i < Len(lg) + 1
  <2>1. A(r) \/ B(r)
    BY SavedIs
  <2> HIDE DEF r
  <2> QED
    BY <2>1
<1> HIDE DEF r
<1>2. \A p : Covered(r, p) <=> Covered(lg, p) \/ p \in S
  BY <1>1, EntryIs DEF Covered
<1> QED
  BY <1>2 DEF r

LEMMA SavedUndoes ==
  ASSUME NEW lg, IsSeq(lg), Undoes(lg, files), NEW S \in SUBSET Paths
  PROVE  Undoes(Saved(lg, S), files)
<1> DEFINE r == Saved(lg, S)
<1>1. \/ r = lg
      \/ /\ DOMAIN r = DOMAIN lg \cup {Len(lg) + 1} /\ r[Len(lg) + 1] = Entry(S)
         /\ \A i \in DOMAIN lg : r[i] = lg[i] /\ i < Len(lg) + 1
  BY SavedIs
<1>2. DOMAIN lg \subseteq Nat /\ Len(lg) \in Nat
  BY Listed
<1>3. \A p : Covered(r, p) <=> Covered(lg, p) \/ p \in S
  BY SavedCovers
<1> HIDE DEF r
<1>4. SUFFICES ASSUME NEW p \in Paths, r # lg
               PROVE  SavedFirst(r, p, before[p]) \/ (~Covered(r, p) /\ files[p] = before[p])
  BY DEF Undoes, r
<1>5. /\ DOMAIN r = DOMAIN lg \cup {Len(lg) + 1} /\ r[Len(lg) + 1] = Entry(S)
      /\ \A i \in DOMAIN lg : r[i] = lg[i] /\ i < Len(lg) + 1
  BY <1>1, <1>4
<1>6. CASE SavedFirst(lg, p, before[p])
  <2>1. PICK i \in DOMAIN lg : /\ p \in lg[i].paths /\ lg[i].files[p] = before[p]
                               /\ \A j \in DOMAIN lg : j < i => p \notin lg[j].paths
    BY <1>6 DEF SavedFirst
  <2>2. \A j \in DOMAIN r : j < i => j \in DOMAIN lg
    BY <1>2, <1>5, <2>1
  <2>3. \A j \in DOMAIN r : j < i => p \notin r[j].paths
    BY <1>5, <2>1, <2>2
  <2> QED
    BY <1>5, <2>1, <2>3 DEF SavedFirst
<1>7. CASE ~Covered(lg, p) /\ files[p] = before[p]
  <2>1. CASE p \in S
    <3>1. Entry(S).paths = S /\ Entry(S).files[p] = before[p]
      BY <1>7, <2>1, EntryIs
    <3>2. \A j \in DOMAIN r : j < Len(lg) + 1 => j \in DOMAIN lg
      BY <1>2, <1>5
    <3>3. \A j \in DOMAIN r : j < Len(lg) + 1 => p \notin r[j].paths
      BY <1>5, <1>7, <3>2 DEF Covered
    <3> QED
      BY <1>5, <2>1, <3>1, <3>3 DEF SavedFirst
  <2>2. CASE p \notin S
    BY <1>3, <1>7, <2>2
  <2> QED
    BY <2>1, <2>2
<1> QED
  BY <1>6, <1>7 DEF Undoes

LEMMA UndoesChanged ==
  ASSUME NEW lg, NEW f, NEW g, Undoes(lg, f), \A p \in Paths : g[p] = f[p] \/ Covered(lg, p)
  PROVE  Undoes(lg, g)
BY DEF Undoes

\* Every path a change writes has been saved.
LEMMA ChangeCovers ==
  ASSUME Base, UndoInv, Change
  PROVE  /\ \A p \in Paths : files'[p] = files[p] \/ Covered(log', p)
         /\ \A p : Covered(log, p) => Covered(log', p)
         /\ Undoes(log', files)
<1>1. IsSeq(log) /\ Tree(files) /\ TodoInv
  BY DEF Base, OpInv, FitInv, TreeFits
<1>2. op \in {"install", "uninstall"} /\ Undoes(log, files)
  BY ChangeLogs DEF UndoInv, Running
<1>3. (\A p : Covered(log, p) => Covered(log', p)) /\ Undoes(log', files)
  <2>1. \A lg, S : IsSeq(lg) => IsSeq(Saved(lg, S)) /\ \A p : Covered(lg, p) => Covered(Saved(lg, S), p)
    BY SavedIs, SavedCovers
  <2>2. \A lg, S : IsSeq(lg) /\ Undoes(lg, files) /\ S \in SUBSET Paths => Undoes(Saved(lg, S), files)
    BY SavedUndoes
  <2> QED
    BY <1>1, <1>2, <2>1, <2>2, ChangeLogs
<1>4. ASSUME NEW S, Prepare(S)
      PROVE  \A p \in S : Covered(log', p)
  BY <1>1, <1>4, SavedCovers DEF Prepare
<1>5. ASSUME NEW S, NEW T, log' = Saved(Saved(log, S), T)
      PROVE  \A p \in S \cup T : Covered(log', p)
  <2>1. IsSeq(Saved(log, S)) /\ \A p \in S : Covered(Saved(log, S), p)
    BY <1>1, SavedIs, SavedCovers
  <2> QED
    BY <1>5, <2>1, SavedCovers
<1> DEFINE G == \A p \in Paths : files'[p] = files[p] \/ Covered(log', p)
<1>6. \A p, v : Put(p, v) /\ Covered(log', p) => G
  BY <1>1 DEF Put, Tree
<1>7. ASSUME NEW l \in Links, InstallLink(l) \/ Link(l) \/ Record(l) \/ Unlink(l) \/ GiveBack(l)
      PROVE  G
  <2>1. CASE InstallLink(l) \/ Record(l)
    <3>1. files' = files \/ (Prepare(State) /\ \E q \in State : \E v : files' = [files EXCEPT ![q] = v])
      <4>1. "backups" \in State /\ "manifest" \in State
        BY DEF State
      <4>2. CASE InstallLink(l)
        <5>1. CASE files' # files
          <6> DEFINE v == [files["backups"] EXCEPT ![l] = files[l]]
          <6>1. Prepare(State) /\ files' = [files EXCEPT !["backups"] = v]
            BY <4>2, <5>1 DEF InstallLink
          <6> QED
            BY <4>1, <6>1
        <5> QED
          BY <5>1
      <4>3. CASE Record(l)
        <5>1. Prepare(State)
              /\ \E k \in {"-", "kept"} : files' = files \/ files' = [files EXCEPT !["manifest"][l] = k]
          BY <4>3 DEF Record
        <5>2. PICK k \in {"-", "kept"} : files' = files \/ files' = [files EXCEPT !["manifest"][l] = k]
          BY <5>1
        <5> DEFINE v == [files["manifest"] EXCEPT ![l] = k]
        <5>3. files' = files \/ files' = [files EXCEPT !["manifest"] = v]
          BY <5>2
        <5> QED
          BY <4>1, <5>1, <5>3
      <4> QED
        BY <2>1, <4>2, <4>3
    <3> QED
      BY <1>1, <1>4, <3>1 DEF Tree
  <2>2. CASE Link(l) \/ Unlink(l)
    <3>1. files' = files \/ (Prepare({l}) /\ \E v : Put(l, v))
      BY <2>2 DEF Link, Unlink
    <3> QED
      BY <1>4, <1>6, <3>1
  <2>3. CASE GiveBack(l)
    <3>1. Covered(log, l)
      BY <1>1, <2>3, StepTaken DEF GiveBack, UndoInv
    <3> QED
      BY <1>3, <1>6, <2>3, <3>1 DEF GiveBack
  <2> QED
    BY <1>7, <2>1, <2>2, <2>3
<1>8. ASSUME Check \/ Apply \/ Note \/ Create \/ Upgrade \/ Merge \/ Unpatch
      PROVE  G
  <2>1. files' = files \/ \E p, v : Prepare({p}) /\ files' = [files EXCEPT ![p] = v]
    BY <1>8 DEF Check, Apply, Note, Create, Upgrade, Merge, Unpatch, Put
  <2> QED
    BY <1>4, <1>6, <2>1 DEF Put, G
<1>9. ASSUME ArchiveMachine
      PROVE  G
  <2>1. CASE files' = files
    BY <2>1 DEF G
  <2>2. CASE /\ log' = Saved(Saved(log, {"ace_machine.cfg"}), {"ace_machine.cfg.legacy"})
             /\ files' = [files EXCEPT !["ace_machine.cfg"] = Missing,
                                    !["ace_machine.cfg.legacy"] = files["ace_machine.cfg"]]
    <3>1. Covered(log', "ace_machine.cfg") /\ Covered(log', "ace_machine.cfg.legacy")
      BY <1>5, <2>2
    <3> QED
      BY <1>1, <2>2, <3>1 DEF Tree, G
  <2> QED
    BY <1>9, <2>1, <2>2 DEF ArchiveMachine
<1>10. ASSUME ArchiveHardware
      PROVE  G
  <2>1. CASE files' = files
    BY <2>1 DEF G
  <2>2. CASE /\ log' = Saved(Saved(log, {"ace_hardware.cfg"}), {"legacy"})
             /\ files' = [files EXCEPT !["ace_hardware.cfg"] = Missing,
                                    !["legacy"] = @ \cup {files["ace_hardware.cfg"]}]
    <3>1. Covered(log', "ace_hardware.cfg") /\ Covered(log', "legacy")
      BY <1>5, <2>2
    <3> QED
      BY <1>1, <2>2, <3>1 DEF Tree, G
  <2> QED
    BY <1>10, <2>1, <2>2 DEF ArchiveHardware
<1>11. ASSUME (\E c \in Marked : Ensure(c) \/ RemoveBlock(c)) \/ Clean
      PROVE  G
  <2>1. \E p, v : Prepare({p}) /\ Put(p, v)
    BY <1>11 DEF Ensure, RemoveBlock, Clean
  <2> QED
    BY <1>4, <1>6, <2>1 DEF G
<1>12. G
  BY <1>7, <1>8, <1>9, <1>10, <1>11 DEF Change
<1> QED
  BY <1>3, <1>12

\* What a step adds to the steps to come.
LEMMA GivesBackSaved ==
  ASSUME Base, UndoInv, Change, NEW l \in Links, <<"give_back", l>> \in Pending'
  PROVE  Covered(log', l)
<1> DEFINE b == <<"give_back", l>>
<1>1. TodoInv /\ IsSeq(log)
  BY DEF Base, OpInv
<1>2. CASE b \in Pending
  BY <1>2, ChangeCovers DEF UndoInv
<1>3. CASE b \notin Pending
  <2>1. ASSUME NEW n, NEW p, Step(n, p), Then(<<>>)
        PROVE  FALSE
    BY <1>1, <1>3, <2>1, ThenNothing
  <2>2. ASSUME NEW k \in Links, InstallLink(k) \/ Link(k) \/ Record(k) \/ Unlink(k) \/ GiveBack(k)
        PROVE  Covered(log', l)
    <3>1. ASSUME NEW kind \in {"record", "record_backup"}, Step("install_link", k),
                 Then(<< <<"link", k>>, <<kind, k>> >>)
          PROVE  FALSE
      BY <1>1, <1>3, <3>1, InstallLinkTakes
    <3>2. ASSUME Step("unlink", k), Then(<< <<"give_back", k>> >>)
          PROVE  k = l
      BY <1>1, <1>3, <3>2, UnlinkTakes
    <3>3. CASE Unlink(k)
      <4>1. Then(<< <<"give_back", k>> >>) /\ Step("unlink", k) /\ Prepare({k})
        BY <2>1, <3>3 DEF Unlink
      <4> QED
        BY <1>1, <3>2, <4>1, SavedCovers DEF Prepare
    <3>4. CASE InstallLink(k)
      BY <2>1, <3>1, <3>4 DEF InstallLink
    <3>5. CASE Link(k) \/ Record(k) \/ GiveBack(k)
      BY <2>1, <3>5 DEF Link, Record, GiveBack
    <3> QED
      BY <2>2, <3>3, <3>4, <3>5
  <2>3. CASE Check \/ Apply \/ Note \/ Create \/ Upgrade \/ ArchiveMachine \/ Merge \/ ArchiveHardware
    BY <2>1, <2>3 DEF Check, Apply, Note, Create, Upgrade, ArchiveMachine, Merge, ArchiveHardware
  <2>4. CASE (\E c \in Marked : Ensure(c) \/ RemoveBlock(c)) \/ Unpatch \/ Clean
    BY <2>1, <2>4 DEF Ensure, RemoveBlock, Unpatch, Clean
  <2> QED
    BY <2>2, <2>3, <2>4 DEF Change
<1> QED
  BY <1>2, <1>3

\* One entry less, its paths brought back.
LEMMA RollbackUndoes ==
  ASSUME IsSeq(log), log # <<>>, Undoes(log, files),
         files' = [p \in Paths |-> IF p \in Last.paths THEN Last.files[p] ELSE files[p]],
         log' = SubSeq(log, 1, Len(log) - 1), before' = before
  PROVE  Undoes(log, files)'
<1>1. /\ IsSeq(log') /\ Len(log) \in DOMAIN log /\ DOMAIN log' = DOMAIN log \ {Len(log)}
      /\ \A i \in DOMAIN log' : log'[i] = log[i]
      /\ \A i \in DOMAIN log : i \in Nat /\ i <= Len(log)
      /\ Last = log[Len(log)]
  BY Dropped, Listed DEF Last
<1>2. SUFFICES ASSUME NEW p \in Paths
               PROVE  SavedFirst(log', p, before[p]) \/ (~Covered(log', p) /\ files'[p] = before[p])
  BY DEF Undoes, SavedFirst, Covered
<1>3. CASE SavedFirst(log, p, before[p])
  <2>1. PICK i \in DOMAIN log : /\ p \in log[i].paths /\ log[i].files[p] = before[p]
                                /\ \A j \in DOMAIN log : j < i => p \notin log[j].paths
    BY <1>3 DEF SavedFirst
  <2>2. CASE i = Len(log)
    <3>1. \A j \in DOMAIN log' : j \in DOMAIN log /\ j < i
      BY <1>1, <2>2
    <3>2. ~Covered(log', p)
      BY <1>1, <2>1, <3>1 DEF Covered
    <3> QED
      BY <1>1, <2>1, <2>2, <3>2
  <2>3. CASE i # Len(log)
    BY <1>1, <2>1, <2>3 DEF SavedFirst
  <2> QED
    BY <2>2, <2>3
<1>4. CASE ~Covered(log, p) /\ files[p] = before[p]
  BY <1>1, <1>4 DEF Covered
<1> QED
  BY <1>3, <1>4 DEF Undoes

LEMMA NextUndo ==
  ASSUME Base, UndoInv, [Next]_vars
  PROVE  UndoInv'
<1>1. TodoInv /\ OpInv /\ Tree(files) /\ IsSeq(log)
  BY DEF Base, FitInv, TreeFits, OpInv
<1>2. \A l \in Links : op \in {"none", "rollback", "restore"} => <<"give_back", l>> \notin Pending
  BY <1>1, NoStep DEF TodoInv, Pending
<1>3. ASSUME todo' = <<>>, op' \notin {"install", "uninstall", "rollback"}, FailureChangesNothing'
      PROVE  UndoInv'
  BY <1>3, NoStep DEF UndoInv, Running, Pending
<1>4. ASSUME NEW how, Finish(how), how # "failed"
      PROVE  UndoInv'
  BY <1>3, <1>4 DEF Finish, FailureChangesNothing
<1>5. ASSUME op = "none", before' = files, files' = files, log' = <<>>, outcome' = "none",
             \A l \in Links : <<"give_back", l>> \notin Pending'
      PROVE  UndoInv'
  <2>1. Undoes(log, files)'
    BY <1>5, EmptyList DEF Undoes, Covered
  <2>2. Tree(before')
    BY <1>1, <1>5
  <2> QED
    BY <1>5, <2>1, <2>2 DEF UndoInv, FailureChangesNothing, Tree
<1>6. CASE Change
  <2>1. UNCHANGED <<op, before, outcome>> /\ op \in {"install", "uninstall"}
    BY <1>6, ChangeLogs DEF Change
  <2>2. Tree(before) /\ Undoes(log', files')
    BY <1>6, <2>1, ChangeCovers, UndoesChanged DEF UndoInv, Running
  <2>3. Tree(before)' /\ Undoes(log, files)'
    BY <2>1, <2>2 DEF Tree, Undoes, SavedFirst, Covered
  <2>4. \A l \in Links : <<"give_back", l>> \in Pending' => Covered(log', l)
    BY <1>6, GivesBackSaved
  <2>5. FailureChangesNothing'
    BY <1>1, <2>1 DEF OpInv, FailureChangesNothing
  <2> QED
    BY <2>3, <2>4, <2>5 DEF UndoInv, Covered
<1>7. ASSUME NEW units \in Devices, NEW tree \in Sources, Install(units, tree)
      PROVE  UndoInv'
  <2>1. todo' = InstallSteps(tree)
    BY <1>7 DEF Install, Begin
  <2>2. \A l \in Links : <<"give_back", l>> \notin Pending'
    BY <2>1, InstallStepsAre, OverlayStepsAre, Last7Is, Native4Is DEF Pending, Links
  <2> QED
    BY <1>5, <1>7, <2>2 DEF Install, Begin
<1>8. CASE \E tree \in Sources : Uninstall(tree)
  <2>1. \A l \in Links : <<"give_back", l>> \notin Pending'
    BY <1>8, UninstallStepsAre DEF Uninstall, Begin, Pending, UninstallList
  <2> QED
    BY <1>5, <1>8, <2>1 DEF Uninstall, Begin
<1>9. CASE BeginRestore
  <2>1. \A l \in Links : <<"give_back", l>> \notin Pending'
    BY <1>9, NoStep DEF BeginRestore, Begin, Pending
  <2> QED
    BY <1>5, <1>9, <2>1 DEF BeginRestore, Begin
<1>10. CASE Commit \/ Kill \/ Restored \/ RestoreStops
  BY <1>4, <1>10 DEF Commit, Ended, Kill, Restored, RestoreStops
<1>11. CASE Fail
  <2>1. UNCHANGED <<files, log, before, outcome>> /\ op \in {"install", "uninstall"} /\ todo' = <<>>
    BY <1>11 DEF Fail
  <2> QED
    BY <2>1, NoStep DEF UndoInv, Running, Undoes, SavedFirst, Covered, FailureChangesNothing, Tree, Pending
<1>12. CASE RollbackRemove \/ RollbackCopy \/ RolledBack
  <2>1. op = "rollback" /\ Tree(before) /\ Undoes(log, files)
    BY <1>12 DEF RollbackRemove, RollbackCopy, RolledBack, UndoInv, Running, OpInv
  <2>2. CASE RolledBack
    <3>1. \A p \in Paths : files[p] = before[p]
      BY <2>1, <2>2, EmptyList DEF RolledBack, Undoes, SavedFirst
    <3>2. files = before
      BY <1>1, <2>1, <3>1 DEF Tree
    <3>3. Finish("failed") /\ files' = files
      BY <2>2 DEF RolledBack
    <3>4. before' = before
      BY <3>3 DEF Finish
    <3>5. FailureChangesNothing'
      BY <3>2, <3>3, <3>4 DEF FailureChangesNothing
    <3> QED
      BY <1>3, <3>3, <3>5 DEF Finish
  <2>3. CASE RollbackRemove \/ RollbackCopy
    <3>1. UNCHANGED <<op, todo, before, outcome>> /\ Tree(files')
      BY <2>3 DEF RollbackRemove, RollbackCopy, Tree
    <3>2. ASSUME RollbackRemove
          PROVE  Undoes(log, files)'
      <4>1. log' = log /\ Len(log) \in DOMAIN log /\ Last = log[Len(log)]
            /\ files' = [p \in Paths |-> IF p \in Last.paths THEN Gone(p) ELSE files[p]]
        BY <1>1, <3>2, Dropped DEF RollbackRemove, Last
      <4>2. \A p \in Paths : files'[p] = files[p] \/ Covered(log, p)
        BY <4>1 DEF Covered
      <4>3. Undoes(log, files')
        BY <2>1, <4>2, UndoesChanged
      <4> QED
        BY <3>1, <4>1, <4>3 DEF Undoes, SavedFirst, Covered
    <3>3. ASSUME RollbackCopy
          PROVE  Undoes(log, files)'
      <4>1. half = Last.paths /\ log # <<>>
        BY <1>1, <3>3 DEF RollbackCopy, OpInv
      <4>2. files' = [p \in Paths |-> IF p \in Last.paths THEN Last.files[p] ELSE files[p]]
            /\ log' = SubSeq(log, 1, Len(log) - 1)
        BY <3>3, <4>1 DEF RollbackCopy
      <4> QED
        BY <1>1, <2>1, <3>1, <4>1, <4>2, RollbackUndoes
    <3>4. FailureChangesNothing'
      BY <1>1, <2>1, <3>1 DEF OpInv, FailureChangesNothing
    <3>5. Undoes(log, files)'
      BY <2>3, <3>2, <3>3
    <3> QED
      BY <1>2, <2>1, <3>1, <3>4, <3>5 DEF UndoInv, Tree, Pending
  <2> QED
    BY <1>12, <2>2, <2>3
<1>13. CASE RestoreNext
  <2>1. op = "restore" /\ UNCHANGED <<op, todo, before, outcome>>
    BY <1>13 DEF RestoreNext
  <2>2. todo' = <<>> /\ FailureChangesNothing'
    BY <1>1, <2>1 DEF TodoInv, OpInv, FailureChangesNothing
  <2> QED
    BY <1>3, <2>1, <2>2
<1>14. CASE Person
  <2>1. op = "none" /\ outcome' = "none" /\ UNCHANGED <<op, todo>>
    BY <1>14 DEF Person, ReplaceLink, EditMarked, Allow, Edit
  <2>2. todo' = <<>> /\ FailureChangesNothing'
    BY <1>1, <2>1 DEF TodoInv, FailureChangesNothing
  <2> QED
    BY <1>3, <2>1, <2>2
<1>15. CASE UNCHANGED vars
  BY <1>15 DEF vars, UndoInv, Running, Undoes, SavedFirst, Covered, FailureChangesNothing, Tree, Pending
<1> QED
  BY <1>6, <1>7, <1>8, <1>9, <1>10, <1>11, <1>12, <1>13, <1>14, <1>15 DEF Next

LEMMA UndoHolds == Spec => []UndoInv
<1>1. Init => UndoInv
  BY NoStep DEF Init, UndoInv, Running, FailureChangesNothing, Pending
<1>2. Base /\ UndoInv /\ [Next]_vars => UndoInv'
  BY NextUndo
<1> QED
  BY <1>1, <1>2, BaseHolds, PTL DEF Spec

\* A run of install.sh that fails at any step and is not killed leaves every file as
\* it was when it began: prepare_target saved each path before its first change.
THEOREM FailureIsUndone == Spec => []FailureChangesNothing
<1>1. UndoInv => FailureChangesNothing
  BY DEF UndoInv
<1> QED
  BY <1>1, UndoHolds, PTL

(***************************************************************************)
(* In turn.  A step of the script is still to come, or only later ones     *)
(* are.                                                                    *)
(***************************************************************************)
\* What the step c adds to the steps to come.
Adds(c, A) ==
  \/ A = {}
  \/ \E l \in Links :
       \/ c = <<"install_link", l>> /\ \E kind \in {"record", "record_backup"} :
            A = {<<"link", l>>, <<kind, l>>}
       \/ c = <<"unlink", l>> /\ A = {<<"give_back", l>>}

LEMMA ChangeSteps ==
  ASSUME TodoInv, Change
  PROVE  \E c \in Pending, A \in SUBSET StepSet :
           /\ \A b \in Pending : b = c \/ Rank[c] < Rank[b]
           /\ Pending' = A \cup (Pending \ {c}) /\ Adds(c, A)
<1> DEFINE G == \E c \in Pending, A \in SUBSET StepSet :
           /\ \A b \in Pending : b = c \/ Rank[c] < Rank[b]
           /\ Pending' = A \cup (Pending \ {c}) /\ Adds(c, A)
<1>1. ASSUME NEW c, c \in Pending, \A b \in Pending : b = c \/ Rank[c] < Rank[b],
             NEW A, A \subseteq StepSet, Pending' = A \cup (Pending \ {c}), Adds(c, A)
      PROVE  G
  BY <1>1
<1>2. ASSUME NEW n, NEW p, Step(n, p), Then(<<>>)
      PROVE  G
  <2> DEFINE c == <<n, p>>
  <2>1. c \in Pending /\ Pending' = Pending \ {c} /\ \A b \in Pending : b = c \/ Rank[<<n, p>>] < Rank[b]
    BY <1>2, ThenNothing, StepTaken
  <2>2. c \in Pending /\ Pending' = {} \cup (Pending \ {c}) /\ \A b \in Pending : b = c \/ Rank[c] < Rank[b]
    BY <2>1
  <2> HIDE DEF c, G
  <2>3. Adds(c, {})
    BY DEF Adds
  <2> QED
    BY <1>1, <2>2, <2>3
<1>3. ASSUME NEW l \in Links, InstallLink(l) \/ Link(l) \/ Record(l) \/ Unlink(l) \/ GiveBack(l)
      PROVE  G
  <2>1. ASSUME NEW kind \in {"record", "record_backup"}, Step("install_link", l),
               Then(<< <<"link", l>>, <<kind, l>> >>)
        PROVE  G
    <3> DEFINE c == <<"install_link", l>>
               A == {<<"link", l>>, <<kind, l>>}
    <3>1. c \in Pending /\ \A b \in Pending : b = c \/ Rank[<<"install_link", l>>] < Rank[b]
      BY <2>1, StepTaken
    <3>2. c \in Pending /\ \A b \in Pending : b = c \/ Rank[c] < Rank[b]
      BY <3>1
    <3>3. Pending' = A \cup (Pending \ {c})
      BY <2>1, InstallLinkTakes
    <3>4. A \subseteq StepSet
      BY DEF Links, StepSet, InstallSet
    <3>5. Adds(c, A)
      BY DEF Adds
    <3> HIDE DEF c, A, G
    <3> QED
      BY <1>1, <3>2, <3>3, <3>4, <3>5
  <2>2. ASSUME Step("unlink", l), Then(<< <<"give_back", l>> >>)
        PROVE  G
    <3> DEFINE c == <<"unlink", l>>
               A == {<<"give_back", l>>}
    <3>1. c \in Pending /\ \A b \in Pending : b = c \/ Rank[<<"unlink", l>>] < Rank[b]
      BY <2>2, StepTaken
    <3>2. c \in Pending /\ \A b \in Pending : b = c \/ Rank[c] < Rank[b]
      BY <3>1
    <3>3. Pending' = A \cup (Pending \ {c})
      BY <2>2, UnlinkTakes
    <3>4. A \subseteq StepSet
      BY DEF Links, StepSet, UninstallSet
    <3>5. Adds(c, A)
      BY DEF Adds
    <3> HIDE DEF c, A, G
    <3> QED
      BY <1>1, <3>2, <3>3, <3>4, <3>5
  <2> HIDE DEF G
  <2>3. CASE InstallLink(l)
    BY <1>2, <2>1, <2>3 DEF InstallLink
  <2>4. CASE Unlink(l)
    BY <1>2, <2>2, <2>4 DEF Unlink
  <2>5. CASE Link(l) \/ Record(l) \/ GiveBack(l)
    BY <1>2, <2>5 DEF Link, Record, GiveBack
  <2> QED
    BY <1>3, <2>3, <2>4, <2>5
<1> HIDE DEF G
<1>4. CASE Check \/ Apply \/ Note \/ Create \/ Upgrade \/ ArchiveMachine \/ Merge \/ ArchiveHardware
  <2>1. G
    BY <1>2, <1>4 DEF Check, Apply, Note, Create, Upgrade, ArchiveMachine, Merge, ArchiveHardware
  <2> QED
    BY <2>1 DEF G
<1>5. CASE (\E c \in Marked : Ensure(c) \/ RemoveBlock(c)) \/ Unpatch \/ Clean
  <2>1. G
    BY <1>2, <1>5 DEF Ensure, RemoveBlock, Unpatch, Clean
  <2> QED
    BY <2>1 DEF G
<1> QED
  BY <1>3, <1>4, <1>5 DEF Change, G

\* c is still to come, or only what comes after it is.
InTurn(c) == c \in Pending \/ \A b \in Pending : Rank[c] < Rank[b]

Promised(l) ==
  /\ <<"link", l>> \in Pending => <<"record", l>> \in Pending \/ <<"record_backup", l>> \in Pending
  /\ ~(<<"record", l>> \in Pending /\ <<"record_backup", l>> \in Pending)

TurnInv ==
  /\ op = "install" => \A c \in Range(Last7) : InTurn(c)
  /\ op = "uninstall" => \A c \in UninstallList : InTurn(c)
  /\ \A l \in Links : Promised(l)
  /\ <<"apply", "fluidd">> \in Pending => <<"note", "fluidd">> \in Pending

LEMMA AddsLater ==
  ASSUME NEW c \in StepSet, NEW A \in SUBSET StepSet, Adds(c, A)
  PROVE  /\ \A a \in A : Rank[c] < Rank[a]
         /\ A \cap (Range(Last7) \cup UninstallList) = {}
<1>1. CASE A = {}
  BY <1>1
<1>2. ASSUME NEW l \in Links, c = <<"install_link", l>>, NEW kind \in {"record", "record_backup"},
             A = {<<"link", l>>, <<kind, l>>}
      PROVE  /\ \A a \in A : Rank[c] < Rank[a]
             /\ A \cap (Range(Last7) \cup UninstallList) = {}
  <2>1. Rank[<<"install_link", l>>] < Rank[<<"link", l>>] /\ Rank[<<"install_link", l>>] < Rank[<<kind, l>>]
    BY RankValues DEF Links
  <2>2. A \cap (Range(Last7) \cup UninstallList) = {}
    BY <1>2, Last7Is DEF UninstallList
  <2>3. \A a \in A : a = <<"link", l>> \/ a = <<kind, l>>
    BY <1>2
  <2> QED
    BY <1>2, <2>1, <2>2, <2>3
<1>3. ASSUME NEW l \in Links, c = <<"unlink", l>>, A = {<<"give_back", l>>}
      PROVE  /\ \A a \in A : Rank[c] < Rank[a]
             /\ A \cap (Range(Last7) \cup UninstallList) = {}
  <2>1. Rank[<<"unlink", l>>] < Rank[<<"give_back", l>>]
    BY RankValues DEF Links
  <2>2. A \cap (Range(Last7) \cup UninstallList) = {}
    BY <1>3, Last7Is DEF UninstallList
  <2> QED
    BY <1>3, <2>1, <2>2
<1> QED
  BY <1>1, <1>2, <1>3 DEF Adds

LEMMA ChangeTurn ==
  ASSUME TodoInv, TurnInv, Change
  PROVE  TurnInv'
<1>1. PICK c \in Pending, A \in SUBSET StepSet :
           /\ \A b \in Pending : b = c \/ Rank[c] < Rank[b]
           /\ Pending' = A \cup (Pending \ {c}) /\ Adds(c, A)
  BY ChangeSteps
<1>2. op' = op /\ Pending \subseteq StepSet
  BY DEF Change, TodoInv, Pending, Range
<1>3. /\ \A a \in A : Rank[c] < Rank[a]
      /\ A \cap (Range(Last7) \cup UninstallList) = {}
  BY <1>1, <1>2, AddsLater
<1>4. \A b \in A \cup Pending : Rank[b] \in Nat
  BY <1>2, RankIsNat
<1>5. ASSUME NEW d \in StepSet, InTurn(d)
      PROVE  d \in Pending' \/ \A b \in Pending' : Rank[d] < Rank[b]
  <2>1. CASE d \in Pending
    BY <1>1, <1>3, <2>1
  <2>2. CASE \A b \in Pending : Rank[d] < Rank[b]
    <3>1. Rank[d] \in Nat /\ Rank[d] < Rank[c]
      BY <2>2, RankIsNat
    <3>2. \A b \in A : Rank[d] < Rank[b]
      BY <1>3, <1>4, <3>1
    <3> QED
      BY <1>1, <2>2, <3>2
  <2> QED
    BY <1>5, <2>1, <2>2 DEF InTurn
<1>6. Range(Last7) \subseteq StepSet /\ UninstallList \subseteq StepSet
  BY Last7Is DEF UninstallList, StepSet, InstallSet, UninstallSet
<1>7. ASSUME NEW l \in Links
      PROVE  Promised(l)'
  <2> DEFINE a == <<"link", l>>
             r == <<"record", l>>
             k == <<"record_backup", l>>
  <2>1. Rank[a] < Rank[r] /\ Rank[a] < Rank[k] /\ Rank[a] \in Nat /\ Rank[r] \in Nat /\ Rank[k] \in Nat
    <3>1. /\ Rank[<<"link", l>>] < Rank[<<"record", l>>] /\ Rank[<<"link", l>>] < Rank[<<"record_backup", l>>]
          /\ Rank[<<"link", l>>] \in Nat /\ Rank[<<"record", l>>] \in Nat /\ Rank[<<"record_backup", l>>] \in Nat
      BY LinkingRanks
    <3> QED
      BY <3>1
  <2>2. CASE c = <<"install_link", l>>
    <3>1. a \notin Pending /\ r \notin Pending /\ k \notin Pending
      BY <1>1, <2>2 DEF TodoInv
    <3>2. A = {} \/ A = {a, r} \/ A = {a, k}
      <4>1. \A m \in Links : c = <<"install_link", m>> => m = l
        BY <2>2
      <4>2. \A m \in Links : c # <<"unlink", m>>
        BY <2>2
      <4> QED
        BY <1>1, <4>1, <4>2 DEF Adds
    <3>3. a # r /\ a # k /\ r # k
      OBVIOUS
    <3> HIDE DEF a, r, k
    <3>4. (a \in Pending' => r \in Pending' \/ k \in Pending') /\ ~(r \in Pending' /\ k \in Pending')
      BY <1>1, <3>1, <3>2, <3>3
    <3> QED
      BY <3>4 DEF Promised, a, r, k
  <2>3. CASE c # <<"install_link", l>>
    <3>1. a \notin A /\ r \notin A /\ k \notin A
      BY <1>1, <2>3 DEF Adds
    <3>2. (a \in Pending => r \in Pending \/ k \in Pending) /\ ~(r \in Pending /\ k \in Pending)
      BY DEF TurnInv, Promised
    <3> HIDE DEF a, r, k
    <3>3. a \in Pending' => r \in Pending' \/ k \in Pending'
      <4> SUFFICES ASSUME a \in Pending' PROVE r \in Pending' \/ k \in Pending'
        OBVIOUS
      <4>1. a \in Pending /\ a # c
        BY <1>1, <3>1
      <4>2. Rank[c] < Rank[a] /\ Rank[c] \in Nat
        BY <1>1, <1>4, <4>1
      <4>3. c # r /\ c # k
        BY <2>1, <4>2
      <4> QED
        BY <1>1, <3>2, <4>1, <4>3
    <3>4. ~(r \in Pending' /\ k \in Pending')
      BY <1>1, <3>1, <3>2
    <3> QED
      BY <3>3, <3>4 DEF Promised, a, r, k
  <2> QED
    BY <2>2, <2>3
<1>8. <<"apply", "fluidd">> \in Pending' => <<"note", "fluidd">> \in Pending'
  <2> DEFINE a == <<"apply", "fluidd">>
             n == <<"note", "fluidd">>
  <2>1. Rank[a] = 8 /\ Rank[n] = 9
    <3>1. Rank[<<"apply", "fluidd">>] = 8 /\ Rank[<<"note", "fluidd">>] = 9
      BY RankValues
    <3> QED
      BY <3>1
  <2>2. a \notin A /\ (a \in Pending => n \in Pending)
    BY <1>1 DEF Adds, TurnInv
  <2> HIDE DEF a, n
  <2> SUFFICES ASSUME a \in Pending' PROVE n \in Pending'
    BY DEF a, n
  <2>3. a \in Pending /\ a # c
    BY <1>1, <2>2
  <2>4. Rank[c] < Rank[a] /\ Rank[c] \in Nat
    BY <1>1, <1>4, <2>3
  <2>5. c # n
    BY <2>1, <2>4
  <2> QED
    BY <1>1, <2>2, <2>3, <2>5
<1>9. op' = "install" => \A d \in Range(Last7) : InTurn(d)'
  BY <1>2, <1>5, <1>6 DEF TurnInv, InTurn
<1>10. op' = "uninstall" => \A d \in UninstallList : InTurn(d)'
  BY <1>2, <1>5, <1>6 DEF TurnInv, InTurn
<1> QED
  BY <1>7, <1>8, <1>9, <1>10 DEF TurnInv, UninstallList, Last7

LEMMA NextTurn ==
  ASSUME TodoInv, TurnInv, [Next]_vars
  PROVE  TurnInv'
<1>1. CASE Change
  BY <1>1, ChangeTurn
<1>2. ASSUME NEW units \in Devices, NEW tree \in Sources, Install(units, tree)
      PROVE  TurnInv'
  <2>1. op' = "install" /\ todo' = InstallSteps(tree)
    BY <1>2 DEF Install, Begin
  <2>2. Pending' = {<<"install_link", "package">>} \cup Range(Last7) \cup OverlayRange(tree)
    BY <2>1, InstallStepsAre DEF Pending
  <2>3. \A l \in Links : Promised(l)'
    BY <2>2, Last7Is, Native4Is, OverlayStepsAre DEF Promised
  <2>4. \A c \in Range(Last7) : c \in Pending'
    BY <2>2
  <2>5. <<"apply", "fluidd">> \in Pending' => <<"note", "fluidd">> \in Pending'
    BY <2>2, Last7Is, Native4Is DEF OverlayRange
  <2> QED
    BY <2>1, <2>3, <2>4, <2>5 DEF TurnInv, InTurn, Last7
<1>3. CASE \E tree \in Sources : Uninstall(tree)
  <2>1. op' = "uninstall" /\ Pending' = UninstallList
    BY <1>3, UninstallStepsAre DEF Uninstall, Begin, Pending
  <2>2. \A l \in Links : Promised(l)'
    BY <2>1 DEF Promised, UninstallList
  <2>3. <<"apply", "fluidd">> \notin Pending'
    BY <2>1 DEF UninstallList
  <2>4. \A c \in UninstallList : c \in Pending'
    BY <2>1
  <2> QED
    BY <2>1, <2>2, <2>3, <2>4 DEF TurnInv, InTurn, UninstallList
<1>4. ASSUME todo' = <<>>, op' \notin {"install", "uninstall"}
      PROVE  TurnInv'
  BY <1>4, NoStep DEF TurnInv, Promised, Pending
<1>5. CASE Commit \/ Fail \/ RolledBack \/ Kill \/ BeginRestore \/ Restored \/ RestoreStops
  BY <1>4, <1>5 DEF Commit, Fail, RolledBack, Kill, BeginRestore, Restored, RestoreStops, Finish, Begin
<1>6. CASE RollbackRemove \/ RollbackCopy
  <2>1. todo = <<>>
    BY <1>6 DEF RollbackRemove, RollbackCopy, TodoInv
  <2> QED
    BY <1>4, <1>6, <2>1 DEF RollbackRemove, RollbackCopy
<1>7. CASE RestoreNext \/ Person \/ UNCHANGED vars
  <2>1. UNCHANGED <<op, todo>>
    BY <1>7 DEF RestoreNext, Person, ReplaceLink, EditMarked, Allow, Edit, vars
  <2> QED
    BY <2>1 DEF TurnInv, Promised, InTurn, Pending, Last7
<1> QED
  BY <1>1, <1>2, <1>3, <1>5, <1>6, <1>7 DEF Next

(***************************************************************************)
(* Which steps touch the configuration, and which the native page.         *)
(***************************************************************************)
ConfigSteps == {<<"create", "ace.cfg">>, <<"upgrade", "ace.cfg">>, <<"archive", "ace_machine.cfg">>,
                <<"merge", "ace.cfg">>, <<"archive", "ace_hardware.cfg">>}

Core == {"ace.cfg", "ace_machine.cfg", "ace_machine.cfg.legacy", "ace_hardware.cfg", "legacy"}

ConfigChange == Create \/ Upgrade \/ ArchiveMachine \/ Merge \/ ArchiveHardware

\* A step that is not about the configuration leaves it alone; the archives it
\* saves at most with the rest of the state directory, before they are used.
Aside ==
  /\ \A p \in Core : files'[p] = files[p]
  /\ \E S \in SUBSET Paths :
       /\ log' = log \/ log' = Saved(log, S)
       /\ \/ S \cap Core = {}
          \/ S = State /\ op = "install" /\ <<"archive", "ace_hardware.cfg">> \in Pending
  /\ \A c \in ConfigSteps : c \in Pending' <=> c \in Pending

LEMMA StateSaved ==
  /\ State \in SUBSET Paths /\ State \cap Core = {"legacy"} /\ Core \subseteq Paths
  /\ Links \cap Core = {} /\ Marked \cap Core = {} /\ (State \ {"legacy"}) \cap Core = {}
BY PathsAre DEF State, Core, Links, Marked, Configs

LEMMA BeforeArchiving ==
  ASSUME TodoInv, TurnInv, NEW l \in Links, NEW n \in {"install_link", "record", "record_backup"},
         Step(n, l)
  PROVE  op = "install" /\ <<"archive", "ace_hardware.cfg">> \in Pending
<1>1. <<n, l>> \in InstallSet /\ <<n, l>> \in Pending
  BY StepTaken DEF InstallSet, Links
<1>2. op = "install"
  BY <1>1, WhoseStep
<1>3. InTurn(<<"archive", "ace_hardware.cfg">>)
  BY <1>2, Last7Is DEF TurnInv
<1>4. ~(Rank[<<"archive", "ace_hardware.cfg">>] < Rank[<<n, l>>])
  BY RankValues DEF Links
<1>5. ASSUME \A b \in Pending : Rank[<<"archive", "ace_hardware.cfg">>] < Rank[b]
      PROVE  FALSE
  <2> DEFINE a == <<"archive", "ace_hardware.cfg">>
             d == <<n, l>>
  <2>1. \A b \in Pending : Rank[a] < Rank[b]
    BY <1>5
  <2>2. ~(Rank[a] < Rank[d]) /\ d \in Pending
    BY <1>1, <1>4
  <2> HIDE DEF a, d
  <2> QED
    BY <2>1, <2>2
<1> QED
  BY <1>2, <1>3, <1>5 DEF InTurn

Kept == \A c \in ConfigSteps : c \in Pending' <=> c \in Pending

LEMMA ConfigStepsKept ==
  ASSUME TodoInv, Change, ~ConfigChange
  PROVE  Kept
<1>1. ASSUME NEW n \in {"install_link", "link", "record", "record_backup", "unlink", "give_back",
                        "check", "apply", "note", "ensure", "remove", "unpatch", "clean"},
             NEW p, Step(n, p), Then(<<>>)
      PROVE  Kept
  <2>1. Pending' = Pending \ {<<n, p>>}
    BY <1>1, ThenNothing
  <2>2. <<n, p>> \notin ConfigSteps
    BY DEF ConfigSteps
  <2> QED
    BY <2>1, <2>2 DEF Kept
<1>2. ASSUME NEW l \in Links, InstallLink(l) \/ Link(l) \/ Record(l) \/ Unlink(l) \/ GiveBack(l)
      PROVE  Kept
  <2>1. ASSUME NEW kind \in {"record", "record_backup"}, Step("install_link", l),
               Then(<< <<"link", l>>, <<kind, l>> >>)
        PROVE  Kept
    <3>1. Pending' = {<<"link", l>>, <<kind, l>>} \cup (Pending \ {<<"install_link", l>>})
      BY <2>1, InstallLinkTakes
    <3> QED
      BY <3>1 DEF Kept, ConfigSteps
  <2>2. ASSUME Step("unlink", l), Then(<< <<"give_back", l>> >>)
        PROVE  Kept
    <3>1. Pending' = {<<"give_back", l>>} \cup (Pending \ {<<"unlink", l>>})
      BY <2>2, UnlinkTakes
    <3> QED
      BY <3>1 DEF Kept, ConfigSteps
  <2>3. CASE InstallLink(l)
    BY <1>1, <2>1, <2>3 DEF InstallLink
  <2>4. CASE Unlink(l)
    BY <1>1, <2>2, <2>4 DEF Unlink
  <2>5. CASE Link(l) \/ Record(l) \/ GiveBack(l)
    BY <1>1, <2>5 DEF Link, Record, GiveBack
  <2> QED
    BY <1>2, <2>3, <2>4, <2>5
<1>3. CASE Check \/ Apply \/ Note \/ Unpatch
  BY <1>1, <1>3 DEF Check, Apply, Note, Unpatch
<1>4. CASE (\E c \in Marked : Ensure(c) \/ RemoveBlock(c)) \/ Clean
  BY <1>1, <1>4 DEF Ensure, RemoveBlock, Clean
<1> QED
  BY <1>2, <1>3, <1>4 DEF Change, ConfigChange

SavesAside ==
  \E S \in SUBSET Paths :
    /\ log' = log \/ log' = Saved(log, S)
    /\ \/ S \cap Core = {}
       \/ S = State /\ op = "install" /\ <<"archive", "ace_hardware.cfg">> \in Pending

LEMMA ConfigOrAside ==
  ASSUME TodoInv, TurnInv, FitInv, Change
  PROVE  ConfigChange \/ Aside
<1>1. Tree(files)
  BY DEF FitInv, TreeFits
<1> DEFINE G == (\A p \in Core : files'[p] = files[p]) /\ SavesAside
<1>2. ASSUME NEW p \in Paths \ Core, NEW v, files' = [files EXCEPT ![p] = v], Prepare({p})
      PROVE  G
  BY <1>1, <1>2 DEF Tree, Prepare, SavesAside
<1>3. ASSUME \A p \in Core : files'[p] = files[p], log' = log
      PROVE  G
  <2>1. {} \in SUBSET Paths
    OBVIOUS
  <2> QED
    BY <1>3, <2>1 DEF SavesAside
<1>4. ASSUME NEW l \in Links, NEW n \in {"install_link", "record", "record_backup"}, Step(n, l),
             \A p \in Core : files'[p] = files[p], Prepare(State)
      PROVE  G
  BY <1>4, StateSaved, BeforeArchiving DEF SavesAside, Prepare
<1>5. Links \subseteq Paths \ Core /\ Marked \subseteq Paths \ Core
      /\ State \ {"legacy"} \subseteq Paths \ Core
  BY PathsAre, StateSaved
<1>6. ASSUME NEW l \in Links, InstallLink(l) \/ Link(l) \/ Record(l) \/ Unlink(l) \/ GiveBack(l)
      PROVE  G
  <2>1. CASE InstallLink(l) \/ Record(l)
    <3>1. \A p \in Core : files'[p] = files[p]
      <4>1. CASE InstallLink(l)
        BY <1>1, <4>1, StateSaved DEF InstallLink, Core, Tree
      <4>2. CASE Record(l)
        <5>1. files' = files \/ \E k \in {"-", "kept"} : files' = [files EXCEPT !["manifest"][l] = k]
          BY <4>2 DEF Record
        <5> QED
          BY <1>1, <5>1, StateSaved DEF Core, Tree
      <4> QED
        BY <2>1, <4>1, <4>2
    <3>2. log' = log \/ Prepare(State)
      BY <2>1 DEF InstallLink, Record
    <3>3. \E n \in {"install_link", "record", "record_backup"} : Step(n, l)
      BY <2>1 DEF InstallLink, Record
    <3> HIDE DEF G
    <3> QED
      BY <1>3, <1>4, <3>1, <3>2, <3>3
  <2>2. CASE Link(l) \/ Unlink(l)
    <3>1. UNCHANGED <<files, log>> \/ \E v : Put(l, v) /\ Prepare({l})
      BY <2>2 DEF Link, Unlink
    <3> HIDE DEF G
    <3> QED
      BY <1>2, <1>3, <1>5, <3>1 DEF Put
  <2>3. CASE GiveBack(l)
    <3>1. files' = [files EXCEPT ![l] = files["backups"][l]] /\ log' = log
      BY <2>3 DEF GiveBack, Put
    <3>2. \A p \in Core : files'[p] = files[p]
      BY <1>1, <1>5, <3>1 DEF Tree
    <3> HIDE DEF G
    <3> QED
      BY <1>3, <3>1, <3>2
  <2> QED
    BY <1>6, <2>1, <2>2, <2>3
<1>7. ASSUME Check \/ Apply \/ Note \/ Unpatch
      PROVE  G
  <2>1. "fluidd" \in Paths \ Core /\ "fluidd-source.path" \in Paths \ Core
    BY <1>5 DEF Marked, State
  <2>2. UNCHANGED <<files, log>> \/ \E p \in Paths \ Core : \E v : Put(p, v) /\ Prepare({p})
    BY <1>7, <2>1 DEF Check, Apply, Note, Unpatch
  <2> HIDE DEF G
  <2> QED
    BY <1>2, <1>3, <2>2 DEF Put
<1>8. ASSUME (\E c \in Marked : Ensure(c) \/ RemoveBlock(c)) \/ Clean
      PROVE  G
  <2>1. \E p \in Paths \ Core : \E v : Put(p, v) /\ Prepare({p})
    BY <1>5, <1>8 DEF Ensure, RemoveBlock, Clean
  <2> HIDE DEF G
  <2> QED
    BY <1>2, <2>1 DEF Put
<1> HIDE DEF G
<1>9. ConfigChange \/ G
  BY <1>6, <1>7, <1>8 DEF Change, ConfigChange
<1>10. ~ConfigChange => Kept
  BY ConfigStepsKept
<1> QED
  BY <1>9, <1>10 DEF G, Aside, SavesAside, Kept

(***************************************************************************)
(* The pages of Fluidd, which only a run with its sources is about.        *)
(***************************************************************************)
Native == {"page", "fluidd"}

\* Nothing is to come that is about them; the note is in the state directory.
Foreign == \A c \in Pending : c[2] \in Native => c[1] = "note"

LEMMA NativeStays ==
  ASSUME TodoInv, OpInv, FitInv, Change, Foreign
  PROVE  /\ \A q \in Native : files'[q] = files[q]
         /\ \A q \in Native : Covered(log', q) => Covered(log, q)
         /\ Foreign'
<1>1. Tree(files) /\ IsSeq(log) /\ "page" \in Paths /\ "fluidd" \in Paths
  BY PathsAre DEF FitInv, TreeFits, OpInv, Marked
<1> DEFINE G == /\ \A q \in Native : files'[q] = files[q]
                /\ \A q \in Native : Covered(log', q) => Covered(log, q)
<1>2. ASSUME NEW n, NEW p, Step(n, p), n # "note"
      PROVE  p \notin Native
  <2>1. <<n, p>> \in Pending /\ <<n, p>>[1] = n /\ <<n, p>>[2] = p
    BY <1>2, StepTaken
  <2> QED
    BY <1>2, <2>1 DEF Foreign
<1>3. Foreign'
  <2>1. PICK c \in Pending, A \in SUBSET StepSet : Pending' = A \cup (Pending \ {c}) /\ Adds(c, A)
    BY ChangeSteps
  <2>2. \A a \in A : a[2] = c[2] /\ c[1] # "note"
    BY <2>1 DEF Adds
  <2>3. c[2] \in Native => c[1] = "note"
    BY <2>1 DEF Foreign
  <2> QED
    BY <2>1, <2>2, <2>3 DEF Foreign
<1>4. ASSUME NEW S, S \cap Native = {}, log' = log \/ log' = Saved(log, S)
      PROVE  \A q \in Native : Covered(log', q) => Covered(log, q)
  BY <1>1, <1>4, SavedCovers
<1>5. ASSUME NEW S, S \cap Native = {}, NEW T, T \cap Native = {}, log' = Saved(Saved(log, S), T)
      PROVE  \A q \in Native : Covered(log', q) => Covered(log, q)
  <2>1. IsSeq(Saved(log, S)) /\ \A q \in Native : Covered(Saved(log, S), q) => Covered(log, q)
    BY <1>1, <1>5, SavedIs, SavedCovers
  <2> QED
    BY <1>5, <2>1, SavedCovers
<1>6. ASSUME NEW n, NEW p, Step(n, p), n # "note", NEW v, files' = files \/ files' = [files EXCEPT ![p] = v],
             log' = log \/ Prepare({p})
      PROVE  G
  <2>1. p \notin Native
    BY <1>2, <1>6
  <2>2. \A q \in Native : files'[q] = files[q]
    BY <1>1, <1>6, <2>1 DEF Tree, Native
  <2>3. \A q \in Native : Covered(log', q) => Covered(log, q)
    BY <1>4, <1>6, <2>1 DEF Prepare
  <2> QED
    BY <2>2, <2>3
<1>7. ASSUME NEW l \in Links, InstallLink(l) \/ Link(l) \/ Record(l) \/ Unlink(l) \/ GiveBack(l)
      PROVE  G
  <2>1. CASE InstallLink(l) \/ Record(l)
    <3>1. \A q \in Native : files'[q] = files[q]
      BY <1>1, <2>1 DEF InstallLink, Record, Native, Tree
    <3>2. log' = log \/ Prepare(State)
      BY <2>1 DEF InstallLink, Record
    <3>3. State \cap Native = {}
      BY DEF State, Native
    <3>4. \A q \in Native : Covered(log', q) => Covered(log, q)
      BY <1>4, <3>2, <3>3 DEF Prepare
    <3> QED
      BY <3>1, <3>4
  <2>2. CASE Link(l) \/ Unlink(l) \/ GiveBack(l)
    <3>1. /\ \E n \in {"link", "unlink", "give_back"} : Step(n, l)
          /\ \E v : files' = files \/ files' = [files EXCEPT ![l] = v]
          /\ log' = log \/ Prepare({l})
      BY <2>2 DEF Link, Unlink, GiveBack, Put
    <3> HIDE DEF G
    <3> QED
      BY <1>6, <3>1
  <2> QED
    BY <1>7, <2>1, <2>2
<1>8. ASSUME Check \/ Apply \/ Unpatch
      PROVE  G
  <2>1. \E n \in {"check", "apply", "unpatch"} : Step(n, "fluidd")
    BY <1>8 DEF Check, Apply, Unpatch
  <2> QED
    BY <1>2, <2>1 DEF Native
<1>9. ASSUME Note \/ Create \/ Upgrade \/ Merge
      PROVE  G
  <2>1. \E p \in {"fluidd-source.path", "ace.cfg"} : \E v :
           (files' = files \/ files' = [files EXCEPT ![p] = v]) /\ (log' = log \/ Prepare({p}))
    BY <1>9 DEF Note, Put, Create, Upgrade, Merge
  <2>2. PICK p \in {"fluidd-source.path", "ace.cfg"} :
           (files' = files \/ \E v : files' = [files EXCEPT ![p] = v]) /\ (log' = log \/ Prepare({p}))
    BY <2>1
  <2>3. p \notin Native
    BY DEF Native
  <2>4. \A q \in Native : files'[q] = files[q]
    BY <1>1, <2>2, <2>3 DEF Tree, Native
  <2>5. \A q \in Native : Covered(log', q) => Covered(log, q)
    BY <1>4, <2>2, <2>3 DEF Prepare
  <2> QED
    BY <2>4, <2>5
<1>10. ASSUME ArchiveMachine \/ ArchiveHardware
       PROVE  G
  <2>1. \A q \in Native : files'[q] = files[q]
    BY <1>1, <1>10 DEF ArchiveMachine, ArchiveHardware, Native, Tree
  <2>2. \/ log' = log
        \/ log' = Saved(Saved(log, {"ace_machine.cfg"}), {"ace_machine.cfg.legacy"})
        \/ log' = Saved(Saved(log, {"ace_hardware.cfg"}), {"legacy"})
    BY <1>10 DEF ArchiveMachine, ArchiveHardware
  <2>3. \A p \in Core : {p} \cap Native = {}
    BY DEF Core, Native
  <2>4. \A q \in Native : Covered(log', q) => Covered(log, q)
    BY <1>5, <2>2, <2>3 DEF Core
  <2> QED
    BY <2>1, <2>4
<1>11. ASSUME NEW c \in Marked, Ensure(c) \/ RemoveBlock(c)
       PROVE  G
  <2>1. /\ \E n \in {"ensure", "remove"} : Step(n, c)
        /\ \E v : files' = [files EXCEPT ![c] = v]
        /\ Prepare({c})
    BY <1>11 DEF Ensure, RemoveBlock, Put
  <2> HIDE DEF G
  <2> QED
    BY <1>6, <2>1
<1>12. ASSUME Clean
       PROVE  G
  <2>1. \E p \in State : /\ Step("clean", p) /\ Prepare({p})
                         /\ \E v : files' = [files EXCEPT ![p] = v]
    BY <1>12 DEF Clean, Put
  <2> HIDE DEF G
  <2> QED
    BY <1>6, <2>1
<1> HIDE DEF G
<1>13. G
  BY <1>7, <1>8, <1>9, <1>10, <1>11, <1>12 DEF Change
<1> QED
  BY <1>3, <1>13 DEF G

(***************************************************************************)
(* The snapshot.  What it does not cover, an installation that made it     *)
(* does not touch.                                                         *)
(***************************************************************************)
SnapInv ==
  /\ op = "uninstall" => since
  /\ snapshot # Missing =>
       /\ snapshot.targets \in {Paths, Paths \ Native}
       /\ ~since /\ snapshot.targets # Paths =>
            /\ \A q \in Native : files[q] = snapshot.files[q] /\ ~Covered(log, q)
            /\ Foreign
  /\ RestoreUndoesInstall

LEMMA OrderIs ==
  /\ DOMAIN Order = 1..10
  /\ \A p \in Paths : \E i \in DOMAIN Order : p \in Order[i]
  /\ \A i \in DOMAIN Order : Order[i] \subseteq Paths
  /\ \A i \in DOMAIN Order : Order[i] \subseteq Paths \ Native \/ Order[i] \subseteq Native
<1>1. DOMAIN Order = 1..10
  BY DEF Order
<1>2. /\ Order[1] = State /\ Order[2] = {"package"} /\ Order[3] = {"ace.cfg"}
      /\ Order[4] = {"ace_hardware.cfg"} /\ Order[5] = {"ace_machine.cfg"}
      /\ Order[6] = {"ace_machine.cfg.legacy"} /\ Order[7] = {"printer.cfg"}
      /\ Order[8] = {"moonraker.conf"} /\ Order[9] = {"page"} /\ Order[10] = {"fluidd"}
  BY DEF Order
<1>3. ASSUME NEW p \in Paths
      PROVE  \E i \in DOMAIN Order : p \in Order[i]
  <2>1. \/ p \in State \/ p = "package" \/ p = "ace.cfg" \/ p = "ace_hardware.cfg" \/ p = "ace_machine.cfg"
        \/ p = "ace_machine.cfg.legacy" \/ p = "printer.cfg" \/ p = "moonraker.conf"
        \/ p = "page" \/ p = "fluidd"
    BY DEF Paths, Links, Marked, Configs
  <2>2. \E i \in 1..10 : p \in Order[i]
    <3> HIDE DEF Order
    <3> QED
      BY <1>2, <2>1
  <2> QED
    BY <1>1, <2>2
<1>4. ASSUME NEW i \in DOMAIN Order
      PROVE  /\ Order[i] \subseteq Paths
             /\ Order[i] \subseteq Paths \ Native \/ Order[i] \subseteq Native
  <2>1. i \in {1, 2, 3, 4, 5, 6, 7, 8, 9, 10}
    BY <1>1
  <2>2. State \subseteq Paths \ Native
    BY PathsAre DEF State, Native
  <2>3. /\ {"package"} \subseteq Paths \ Native /\ {"ace.cfg"} \subseteq Paths \ Native
        /\ {"ace_hardware.cfg"} \subseteq Paths \ Native /\ {"ace_machine.cfg"} \subseteq Paths \ Native
        /\ {"ace_machine.cfg.legacy"} \subseteq Paths \ Native
        /\ {"printer.cfg"} \subseteq Paths \ Native /\ {"moonraker.conf"} \subseteq Paths \ Native
        /\ {"page"} \subseteq Native /\ {"fluidd"} \subseteq Native /\ Native \subseteq Paths
    BY PathsAre DEF Links, Marked, Configs, Native
  <2> HIDE DEF Order
  <2> QED
    BY <1>2, <2>1, <2>2, <2>3
<1> QED
  BY <1>1, <1>3, <1>4

\* When no target differs, every path that was a target is as the snapshot has it.
LEMMA NothingDiffers ==
  ASSUME snapshot.targets \in {Paths, Paths \ Native}, \A i \in DOMAIN Order : ~Differs(Order[i])
  PROVE  \A p \in snapshot.targets : files[p] = snapshot.files[p]
<1> TAKE p \in snapshot.targets
<1>1. PICK i \in DOMAIN Order : p \in Order[i]
  BY OrderIs
<1>2. Order[i] \subseteq snapshot.targets
  BY <1>1, OrderIs
<1> QED
  BY <1>1, <1>2 DEF Differs

LEMMA NextSnap ==
  ASSUME Base, SnapInv, [Next]_vars
  PROVE  SnapInv'
<1>1. TodoInv /\ OpInv /\ FitInv /\ Tree(files) /\ IsSeq(log)
  BY DEF Base, FitInv, TreeFits, OpInv
<1> DEFINE Quiet == snapshot # Missing /\ ~since /\ snapshot.targets # Paths
<1>2. ASSUME UNCHANGED <<snapshot, since>>, op' # "uninstall", outcome' # "restored" \/ UNCHANGED <<files, outcome>>,
             Quiet => /\ \A q \in Native : files'[q] = files[q]
                      /\ \A q \in Native : Covered(log', q) => Covered(log, q)
                      /\ Foreign => Foreign'
      PROVE  SnapInv'
  BY <1>2 DEF SnapInv, RestoreUndoesInstall, Covered
<1>3. ASSUME log' = <<>>
      PROVE  \A q \in Native : Covered(log', q) => Covered(log, q)
  BY <1>3, EmptyList DEF Covered
<1>4. ASSUME todo' = <<>>
      PROVE  Foreign'
  BY <1>4, NoStep DEF Foreign, Pending
<1>5. CASE Change
  <2>1. UNCHANGED <<op, outcome, snapshot, since>>
    BY <1>5 DEF Change, ghosts
  <2>2. outcome' # "restored"
    BY <1>1, <1>5, <2>1, ChangeLogs DEF OpInv
  <2>3. CASE op = "uninstall"
    BY <2>1, <2>2, <2>3 DEF SnapInv, RestoreUndoesInstall
  <2>4. CASE op # "uninstall"
    BY <1>1, <1>2, <1>5, <2>1, <2>2, <2>4, NativeStays DEF SnapInv
  <2> QED
    BY <2>3, <2>4
<1>6. ASSUME NEW units \in Devices, NEW tree \in Sources, Install(units, tree)
      PROVE  SnapInv'
  <2>1. /\ op' = "install" /\ outcome' = "none" /\ log' = <<>> /\ files' = files
        /\ todo' = InstallSteps(tree)
        /\ \/ snapshot' = Snapshot(tree) /\ since' = FALSE
           \/ snapshot # Missing /\ since' = TRUE /\ UNCHANGED snapshot
    BY <1>6 DEF Install, Begin
  <2>2. CASE snapshot # Missing /\ since' = TRUE /\ UNCHANGED snapshot
    BY <2>1, <2>2 DEF SnapInv, RestoreUndoesInstall
  <2>3. CASE snapshot' = Snapshot(tree) /\ since' = FALSE
    <3>1. /\ snapshot'.targets = IF tree = "this" THEN Paths ELSE Paths \ Native
          /\ snapshot'.files = files
      BY <2>3 DEF Snapshot, Targets, Native
    <3>2. \A q \in Native : ~Covered(log', q)
      BY <2>1, EmptyList DEF Covered
    <3>3. tree # "this" => Foreign'
      <4>1. Pending' = {<<"install_link", "package">>} \cup Range(Last7) \cup OverlayRange(tree)
        BY <2>1, InstallStepsAre DEF Pending
      <4>2. tree # "this" => OverlayRange(tree) \subseteq {<<"note", "fluidd">>}
        BY DEF OverlayRange
      <4> QED
        BY <4>1, <4>2, Last7Is DEF Foreign, Native
    <3> QED
      BY <2>1, <2>3, <3>1, <3>2, <3>3 DEF SnapInv, RestoreUndoesInstall, Covered
  <2> QED
    BY <2>1, <2>2, <2>3
<1>7. CASE \E tree \in Sources : Uninstall(tree)
  BY <1>7 DEF Uninstall, Begin, SnapInv, RestoreUndoesInstall
<1>8. CASE Commit \/ RolledBack \/ Kill \/ RestoreStops
  <2>1. /\ UNCHANGED <<files, snapshot, since>> /\ op' = "none" /\ outcome' # "restored"
        /\ log' = <<>> /\ todo' = <<>>
    BY <1>8 DEF Commit, Ended, RolledBack, Kill, RestoreStops, Finish, ghosts
  <2> QED
    BY <1>2, <1>3, <1>4, <2>1
<1>9. CASE Fail
  <2>1. /\ UNCHANGED <<files, log, snapshot, since, outcome>> /\ op' = "rollback" /\ todo' = <<>>
    BY <1>9 DEF Fail, ghosts
  <2> QED
    BY <1>2, <1>4, <2>1
<1>10. CASE RollbackRemove \/ RollbackCopy
  <2>1. /\ UNCHANGED <<op, todo, outcome, snapshot, since>> /\ op = "rollback" /\ log # <<>>
        /\ log' = log \/ log' = SubSeq(log, 1, Len(log) - 1)
    BY <1>1, <1>10 DEF RollbackRemove, RollbackCopy, OpInv, ghosts
  <2> DEFINE S == Last.paths
  <2>2. \A p \in Paths \ S : files'[p] = files[p]
    BY <1>1, <1>10 DEF RollbackRemove, RollbackCopy, OpInv
  <2>3. /\ Len(log) \in DOMAIN log /\ S = log[Len(log)].paths
        /\ \A i \in DOMAIN log' : i \in DOMAIN log /\ log'[i] = log[i]
    BY <1>1, <2>1, Dropped DEF Last
  <2>4. \A q : Covered(log', q) => Covered(log, q)
    BY <2>3 DEF Covered
  <2>5. Native \subseteq Paths
    BY PathsAre DEF Links, Marked, Native
  <2>6. Quiet => \A q \in Native : q \notin S
    BY <2>3 DEF SnapInv, Covered
  <2> HIDE DEF S
  <2>7. Quiet => \A q \in Native : files'[q] = files[q]
    BY <2>2, <2>5, <2>6
  <2>8. outcome' # "restored" /\ Foreign'
    BY <1>1, <1>4, <2>1 DEF OpInv, TodoInv
  <2> HIDE DEF Quiet
  <2> QED
    BY <1>2, <2>1, <2>4, <2>7, <2>8
<1>11. CASE BeginRestore
  <2>1. /\ UNCHANGED <<files, snapshot, since>> /\ op' = "restore" /\ outcome' = "none"
        /\ log' = <<>> /\ todo' = <<>>
    BY <1>11 DEF BeginRestore, Begin
  <2> QED
    BY <1>2, <1>3, <1>4, <2>1
<1>12. CASE RestoreNext
  <2>1. /\ UNCHANGED <<op, todo, log, snapshot, since, outcome>> /\ op = "restore"
    BY <1>12 DEF RestoreNext, ghosts
  <2>2. PICK i \in DOMAIN Order :
       /\ Differs(Order[i])
       /\ files' = [p \in Paths |-> IF p \in Order[i] THEN snapshot.files[p] ELSE files[p]]
    BY <1>12 DEF RestoreNext
  <2>3. Quiet => Order[i] \cap Native = {}
    BY <2>2, OrderIs DEF Differs, SnapInv
  <2>4. Native \subseteq Paths
    BY PathsAre DEF Links, Marked, Native
  <2>5. Quiet => \A q \in Native : files'[q] = files[q]
    BY <2>2, <2>3, <2>4
  <2>6. outcome' # "restored" /\ (Foreign => Foreign')
    BY <1>1, <2>1 DEF OpInv, Foreign, Pending
  <2> HIDE DEF Quiet
  <2> QED
    BY <1>2, <2>1, <2>5, <2>6
<1>13. CASE Restored
  <2>1. /\ UNCHANGED <<files, snapshot, since>> /\ op' = "none" /\ log' = <<>> /\ todo' = <<>>
        /\ op = "restore" /\ \A i \in DOMAIN Order : ~Differs(Order[i])
    BY <1>13 DEF Restored, Finish
  <2>2. snapshot # Missing /\ snapshot.targets \in {Paths, Paths \ Native}
    BY <1>1, <2>1 DEF OpInv, SnapInv
  <2>3. \A p \in snapshot.targets : files[p] = snapshot.files[p]
    BY <2>1, <2>2, NothingDiffers
  <2>4. Tree(snapshot.files)
    BY <1>1, <2>2 DEF FitInv, TreeFits
  <2>5. ~since => files = snapshot.files
    <3>1. ~since => \A p \in Paths : files[p] = snapshot.files[p]
      BY <2>2, <2>3 DEF SnapInv
    <3> QED
      BY <1>1, <2>4, <3>1 DEF Tree
  <2>6. \A q \in Native : ~Covered(log', q)
    BY <2>1, EmptyList DEF Covered
  <2> QED
    BY <1>4, <2>1, <2>2, <2>5, <2>6 DEF SnapInv, RestoreUndoesInstall, Covered
<1>14. CASE Person
  <2>1. op = "none" /\ op' = op /\ since' = TRUE /\ outcome' = "none" /\ snapshot' = snapshot
    BY <1>14 DEF Person, ReplaceLink, EditMarked, Allow, Edit
  <2> QED
    BY <2>1 DEF SnapInv, RestoreUndoesInstall
<1>15. CASE UNCHANGED vars
  BY <1>15 DEF vars, ghosts, SnapInv, RestoreUndoesInstall, Covered, Foreign, Pending
<1> QED
  BY <1>5, <1>6, <1>7, <1>8, <1>9, <1>10, <1>11, <1>12, <1>13, <1>14, <1>15 DEF Next

LEMMA SnapHolds == Spec => []SnapInv
<1>1. Init => SnapInv
  BY DEF Init, SnapInv, RestoreUndoesInstall
<1>2. Base /\ SnapInv /\ [Next]_vars => SnapInv'
  BY NextSnap
<1> QED
  BY <1>1, <1>2, BaseHolds, PTL DEF Spec

\* Restoring the snapshot an installation made gives back every file, however that
\* installation ended and however often the restore had to start again:
\* collect_snapshot_targets names all that do_install can change.
THEOREM RestoreIsComplete == Spec => []RestoreUndoesInstall
<1>1. SnapInv => RestoreUndoesInstall
  BY DEF SnapInv
<1> QED
  BY <1>1, SnapHolds, PTL

(***************************************************************************)
(* Putting away.  A run changes ace.cfg before it archives what went into  *)
(* it, and the log has saved them in that order, so that neither going on  *)
(* nor rolling back loses the only copy at any point.                      *)
(***************************************************************************)
Nothing(q) == IF q = "legacy" THEN {} ELSE Missing

\* c, the content of ace.cfg, says what was put away at q.
Tells(c, q) ==
  /\ c # Missing
  /\ q = "ace_machine.cfg.legacy" => c.macros = TRUE
  /\ q = "legacy" => Real(c.topology)

Retired(f) == \A q \in Archives : f[q] # Nothing(q) => Tells(f["ace.cfg"], q)

\* q was saved, and later than ace.cfg.
AceFirst(lg, q) ==
  \E i \in DOMAIN lg : /\ q \in lg[i].paths
                       /\ \A j \in DOMAIN lg : "ace.cfg" \in lg[j].paths => j < i

ArchiveKept(lg, f, q) ==
  /\ \A i \in DOMAIN lg : q \in lg[i].paths => lg[i].files[q] = before[q]
  /\ \/ f[q] = before[q]
     \/ (before[q] = Nothing(q) \/ f[q] # Nothing(q)) /\ AceFirst(lg, q)

\* ace.cfg is saved alone, and nothing is saved twice under the same name.
Alone(lg) ==
  /\ \A i \in DOMAIN lg : "ace.cfg" \in lg[i].paths => lg[i].paths = {"ace.cfg"}
  /\ \A i, j \in DOMAIN lg : lg[i].paths = lg[j].paths => i = j

Has(lg, S) == \E i \in DOMAIN lg : lg[i].paths = S

PhaseInv ==
  op = "install" =>
    /\ <<"upgrade", "ace.cfg">> \notin Pending =>
         /\ files["ace_machine.cfg"] # Missing => files["ace.cfg"].macros = TRUE
         /\ Has(log, {"ace.cfg"})
    /\ <<"merge", "ace.cfg">> \notin Pending => Real(files["ace.cfg"].topology)
    /\ <<"archive", "ace_machine.cfg">> \in Pending =>
         /\ files["ace_machine.cfg.legacy"] = before["ace_machine.cfg.legacy"]
         /\ ~Covered(log, "ace_machine.cfg.legacy")
    /\ <<"archive", "ace_hardware.cfg">> \in Pending =>
         files["legacy"] = before["legacy"] /\ ~Has(log, {"legacy"})
    /\ <<"archive", "ace_hardware.cfg">> \notin Pending => files["ace_hardware.cfg"] = Missing

\* What the files are once a copy of the rollback that was begun is made, and what is
\* then left of the log.
Copied == [p \in Paths |-> IF p \in half THEN Last.files[p] ELSE files[p]]
Left   == IF half = {} THEN log ELSE SubSeq(log, 1, Len(log) - 1)

RetireInv ==
  /\ ~torn => Retired(Copied)
  /\ \A p \in half : files[p] = Gone(p)
  /\ op = "restore" => torn
  /\ snapshot # Missing /\ ~snapshot.torn => Retired(snapshot.files)
  /\ Running => /\ ~torn => Retired(before)
                /\ Alone(Left)
                /\ \A q \in Archives : ArchiveKept(Left, Copied, q)

\* The same, where no copy is being made.
RetireNow ==
  /\ ~torn => Retired(files)
  /\ Running => /\ ~torn => Retired(before)
                /\ Alone(log)
                /\ \A q \in Archives : ArchiveKept(log, files, q)

LEMMA NotHalf ==
  ASSUME Tree(files), half = {}
  PROVE  /\ Copied = files /\ Left = log
         /\ RetireInv => RetireNow
<1>1. Copied = [p \in Paths |-> files[p]] /\ Left = log
  BY DEF Copied, Left
<1>2. Copied = files
  BY <1>1 DEF Tree
<1> QED
  BY <1>1, <1>2 DEF RetireInv, RetireNow

\* What is there is what will be, but for the paths that were removed.
LEMMA RetiredBetween ==
  ASSUME Tree(files), RetireInv, "ace.cfg" \notin half, ~torn
  PROVE  Retired(files)
<1>1. "ace.cfg" \in Paths /\ Archives \subseteq Paths
  BY PathsAre DEF Archives, State, Configs
<1>2. \A q \in Archives : Nothing(q) = Gone(q)
  BY DEF Archives, Nothing, Gone, Links, Marked
<1>3. Copied["ace.cfg"] = files["ace.cfg"]
  BY <1>1 DEF Copied
<1>4. \A q \in Archives : files[q] # Nothing(q) => q \notin half /\ Copied[q] = files[q]
  BY <1>1, <1>2 DEF Copied, RetireInv
<1> QED
  BY <1>3, <1>4 DEF RetireInv, Retired

LEMMA SavedHas ==
  ASSUME NEW lg, IsSeq(lg), NEW S
  PROVE  /\ Has(Saved(lg, S), S)
         /\ \A T : Has(Saved(lg, S), T) <=> Has(lg, T) \/ T = S
<1> DEFINE r == Saved(lg, S)
<1>1. \/ r = lg /\ \E i \in DOMAIN lg : lg[i].paths = S
      \/ /\ DOMAIN r = DOMAIN lg \cup {Len(lg) + 1} /\ r[Len(lg) + 1] = Entry(S)
         /\ \A i \in DOMAIN lg : r[i] = lg[i]
  <2> DEFINE A(t) == t = lg /\ \E i \in DOMAIN lg : lg[i].paths = S
             B(t) == /\ \A i \in DOMAIN lg : lg[i].paths # S
                     /\ DOMAIN t = DOMAIN lg \cup {Len(lg) + 1} /\ t[Len(lg) + 1] = Entry(S)
                     /\ \A i \in DOMAIN lg : t[i] = lg[i] /\ i < Len(lg) + 1
  <2>1. A(r) \/ B(r)
    BY SavedIs
  <2> HIDE DEF r
  <2> QED
    BY <2>1
<1> HIDE DEF r
<1>2. \A T : Has(r, T) <=> Has(lg, T) \/ T = S
  BY <1>1, EntryIs DEF Has
<1> QED
  BY <1>2 DEF r

\* Saving S loses nothing that rolling back will need.
LEMMA SavedKept ==
  ASSUME NEW lg, IsSeq(lg), NEW S, Alone(lg), "ace.cfg" \in S => S = {"ace.cfg"},
         NEW q, ArchiveKept(lg, files, q), q \in S => files[q] = before[q],
         "ace.cfg" \in S => files[q] = before[q] \/ Has(lg, S)
  PROVE  /\ Alone(Saved(lg, S))
         /\ ArchiveKept(Saved(lg, S), files, q)
<1> DEFINE r == Saved(lg, S)
<1>1. \/ r = lg
      \/ /\ \A i \in DOMAIN lg : lg[i].paths # S
         /\ DOMAIN r = DOMAIN lg \cup {Len(lg) + 1} /\ r[Len(lg) + 1] = Entry(S)
         /\ \A i \in DOMAIN lg : r[i] = lg[i] /\ i < Len(lg) + 1
  BY SavedIs
<1>2. CASE r = lg
  BY <1>2
<1>3. DOMAIN lg \subseteq Nat /\ Len(lg) \in Nat
  BY Listed
<1> DEFINE n == Len(lg) + 1
<1>4. ASSUME /\ \A i \in DOMAIN lg : lg[i].paths # S
             /\ DOMAIN r = DOMAIN lg \cup {n} /\ r[n] = Entry(S)
             /\ \A i \in DOMAIN lg : r[i] = lg[i] /\ i < n
      PROVE  Alone(r) /\ ArchiveKept(r, files, q)
  <2> HIDE DEF r, n
  <2>1. r[n].paths = S /\ (q \in S => r[n].files[q] = files[q]) /\ n \in DOMAIN r
    BY <1>4, EntryIs
  <2>2. \A i \in DOMAIN r : i = n \/ (i \in DOMAIN lg /\ r[i] = lg[i] /\ lg[i].paths # S)
    BY <1>4
  <2>3. Alone(r)
    BY <2>1, <2>2 DEF Alone
  <2>4. \A i \in DOMAIN r : q \in r[i].paths => r[i].files[q] = before[q]
    BY <2>1, <2>2 DEF ArchiveKept
  <2>5. CASE files[q] = before[q]
    BY <2>3, <2>4, <2>5 DEF ArchiveKept
  <2>6. CASE files[q] # before[q]
    <3>1. "ace.cfg" \notin S
      BY <1>4, <2>6 DEF Has
    <3>2. AceFirst(r, q)
      <4>1. PICK i \in DOMAIN lg : /\ q \in lg[i].paths
                                   /\ \A j \in DOMAIN lg : "ace.cfg" \in lg[j].paths => j < i
        BY <2>6 DEF ArchiveKept, AceFirst
      <4>2. i \in DOMAIN r /\ q \in r[i].paths
        BY <1>4, <4>1
      <4>3. \A j \in DOMAIN r : "ace.cfg" \in r[j].paths => j < i
        BY <2>1, <2>2, <3>1, <4>1
      <4> QED
        BY <4>2, <4>3 DEF AceFirst
    <3> QED
      BY <2>3, <2>4, <2>6, <3>2 DEF ArchiveKept
  <2> QED
    BY <2>5, <2>6
<1> QED
  BY <1>1, <1>2, <1>4

\* An archive that is saved for the first time is saved later than ace.cfg.
LEMMA SavedLast ==
  ASSUME NEW lg, IsSeq(lg), NEW q, ~Has(lg, {q}), q # "ace.cfg", Alone(lg),
         \A i \in DOMAIN lg : q \in lg[i].paths => lg[i].files[q] = before[q],
         files[q] = before[q], NEW f, before[q] = Nothing(q) \/ f[q] # Nothing(q)
  PROVE  Alone(Saved(lg, {q})) /\ ArchiveKept(Saved(lg, {q}), f, q)
<1> DEFINE r == Saved(lg, {q})
<1> DEFINE n == Len(lg) + 1
<1>1. /\ DOMAIN r = DOMAIN lg \cup {n} /\ r[n] = Entry({q})
      /\ \A i \in DOMAIN lg : r[i] = lg[i] /\ i < n
  BY SavedIs DEF Has
<1> HIDE DEF r, n
<1>2. r[n].paths = {q} /\ r[n].files[q] = files[q] /\ n \in DOMAIN r
  BY <1>1, EntryIs
<1>3. \A i \in DOMAIN r : i = n \/ (i \in DOMAIN lg /\ r[i] = lg[i] /\ lg[i].paths # {q} /\ i < n)
  BY <1>1 DEF Has
<1>4. Alone(r)
  BY <1>2, <1>3 DEF Alone
<1>5. \A i \in DOMAIN r : q \in r[i].paths => r[i].files[q] = before[q]
  BY <1>2, <1>3
<1>6. AceFirst(r, q)
  BY <1>2, <1>3 DEF AceFirst
<1> QED
  BY <1>4, <1>5, <1>6 DEF ArchiveKept, r

LEMMA ArchiveKeptAgain ==
  ASSUME NEW lg, NEW f, NEW g, NEW q, ArchiveKept(lg, f, q), g[q] = f[q]
  PROVE  ArchiveKept(lg, g, q)
BY DEF ArchiveKept

\* The steps that are still to come when a step of the configuration is taken.
LEMMA StillToCome ==
  ASSUME TodoInv, TurnInv, op = "install"
  PROVE  /\ Step("create", "ace.cfg") =>
              {<<"upgrade", "ace.cfg">>, <<"archive", "ace_machine.cfg">>,
               <<"merge", "ace.cfg">>, <<"archive", "ace_hardware.cfg">>} \subseteq Pending
         /\ Step("upgrade", "ace.cfg") =>
              {<<"archive", "ace_machine.cfg">>, <<"merge", "ace.cfg">>,
               <<"archive", "ace_hardware.cfg">>} \subseteq Pending
         /\ Step("archive", "ace_machine.cfg") =>
              {<<"merge", "ace.cfg">>, <<"archive", "ace_hardware.cfg">>} \subseteq Pending
         /\ Step("merge", "ace.cfg") => <<"archive", "ace_hardware.cfg">> \in Pending
<1>1. ASSUME NEW c \in Range(Last7), NEW n, NEW p, Step(n, p), ~(Rank[c] < Rank[<<n, p>>])
      PROVE  c \in Pending
  <2> DEFINE d == <<n, p>>
  <2>1. d \in Pending /\ ~(Rank[c] < Rank[d])
    BY <1>1, StepTaken
  <2>2. InTurn(c)
    BY DEF TurnInv
  <2> HIDE DEF d
  <2> QED
    BY <2>1, <2>2 DEF InTurn
<1>2. /\ Rank[<<"create", "ace.cfg">>] = 10 /\ Rank[<<"upgrade", "ace.cfg">>] = 11
      /\ Rank[<<"archive", "ace_machine.cfg">>] = 12 /\ Rank[<<"merge", "ace.cfg">>] = 13
      /\ Rank[<<"archive", "ace_hardware.cfg">>] = 14
  BY RankValues
<1>3. {<<"upgrade", "ace.cfg">>, <<"archive", "ace_machine.cfg">>,
       <<"merge", "ace.cfg">>, <<"archive", "ace_hardware.cfg">>} \subseteq Range(Last7)
  BY Last7Is
<1> DEFINE u == <<"upgrade", "ace.cfg">>
           m == <<"archive", "ace_machine.cfg">>
           g == <<"merge", "ace.cfg">>
           h == <<"archive", "ace_hardware.cfg">>
<1>4. ASSUME NEW c \in {u, m, g, h}, NEW n, NEW p, Step(n, p), ~(Rank[c] < Rank[<<n, p>>])
      PROVE  c \in Pending
  BY <1>1, <1>3, <1>4
<1>5. Step("create", "ace.cfg") => u \in Pending /\ m \in Pending /\ g \in Pending /\ h \in Pending
  BY <1>2, <1>4
<1>6. Step("upgrade", "ace.cfg") => m \in Pending /\ g \in Pending /\ h \in Pending
  BY <1>2, <1>4
<1>7. Step("archive", "ace_machine.cfg") => g \in Pending /\ h \in Pending
  BY <1>2, <1>4
<1>8. Step("merge", "ace.cfg") => h \in Pending
  BY <1>2, <1>4
<1> QED
  BY <1>5, <1>6, <1>7, <1>8

Retires ==
  /\ ~torn => Retired(files')
  /\ Alone(log') /\ \A q \in Archives : ArchiveKept(log', files', q)

LEMMA RetiredSame ==
  ASSUME NEW f, NEW g, Retired(f), \A p \in Core : g[p] = f[p]
  PROVE  Retired(g)
BY DEF Retired, Core, Archives

LEMMA AsideRetires ==
  ASSUME Base, PhaseInv, RetireNow, op \in {"install", "uninstall"}, UNCHANGED <<op, before>>, Aside
  PROVE  Retires /\ PhaseInv'
<1>1. IsSeq(log) /\ Alone(log) /\ \A q \in Archives : ArchiveKept(log, files, q)
  BY DEF Base, OpInv, RetireNow, Running
<1>2. PICK S \in SUBSET Paths :
       /\ log' = log \/ log' = Saved(log, S)
       /\ \/ S \cap Core = {}
          \/ S = State /\ op = "install" /\ <<"archive", "ace_hardware.cfg">> \in Pending
  BY DEF Aside
<1>3. "ace.cfg" \notin S /\ "ace_machine.cfg.legacy" \notin S /\ S # {"legacy"}
      /\ ("legacy" \in S => files["legacy"] = before["legacy"])
  <2>1. CASE S \cap Core = {}
    BY <2>1 DEF Core
  <2>2. CASE S = State /\ op = "install" /\ <<"archive", "ace_hardware.cfg">> \in Pending
    BY <2>2 DEF State, PhaseInv
  <2> QED
    BY <1>2, <2>1, <2>2
<1>4. \A p \in Core : files'[p] = files[p]
  BY DEF Aside
<1>5. Alone(log') /\ \A q \in Archives : ArchiveKept(log', files, q)
  <2>1. CASE log' = log
    BY <1>1, <2>1
  <2>2. CASE log' = Saved(log, S)
    <3>1. ASSUME NEW q \in Archives
          PROVE  Alone(Saved(log, S)) /\ ArchiveKept(Saved(log, S), files, q)
      <4>1. q \in S => files[q] = before[q]
        BY <1>3 DEF Archives
      <4>2. "ace.cfg" \notin S
        BY <1>3
      <4> QED
        BY <1>1, <4>1, <4>2, SavedKept
    <3>2. "legacy" \in Archives
      BY DEF Archives
    <3> QED
      BY <2>2, <3>1, <3>2
  <2> QED
    BY <1>2, <2>1, <2>2
<1>6. \A q \in Archives : files'[q] = files[q]
  BY <1>4 DEF Archives, Core
<1>7. Retires
  <2>1. ~torn => Retired(files')
    BY <1>4, RetiredSame DEF RetireNow
  <2>2. \A q \in Archives : ArchiveKept(log', files', q)
    BY <1>5, <1>6, ArchiveKeptAgain
  <2> QED
    BY <1>5, <2>1, <2>2 DEF Retires
<1>8. /\ \A T : Has(log, T) => Has(log', T)
      /\ Has(log', {"legacy"}) => Has(log, {"legacy"})
      /\ Covered(log', "ace_machine.cfg.legacy") => Covered(log, "ace_machine.cfg.legacy")
  BY <1>1, <1>2, <1>3, SavedHas, SavedCovers
<1>9. PhaseInv'
  <2> DEFINE u == <<"upgrade", "ace.cfg">>
             m == <<"archive", "ace_machine.cfg">>
             g == <<"merge", "ace.cfg">>
             h == <<"archive", "ace_hardware.cfg">>
  <2>1. (u \in Pending' <=> u \in Pending) /\ (m \in Pending' <=> m \in Pending)
        /\ (g \in Pending' <=> g \in Pending) /\ (h \in Pending' <=> h \in Pending)
    BY DEF Aside, ConfigSteps
  <2>2. /\ files'["ace.cfg"] = files["ace.cfg"] /\ files'["ace_machine.cfg"] = files["ace_machine.cfg"]
        /\ files'["ace_machine.cfg.legacy"] = files["ace_machine.cfg.legacy"]
        /\ files'["ace_hardware.cfg"] = files["ace_hardware.cfg"] /\ files'["legacy"] = files["legacy"]
    BY <1>4 DEF Core
  <2>3. (Has(log, {"ace.cfg"}))' <=> Has(log', {"ace.cfg"})
    BY DEF Has
  <2>4. (Has(log, {"legacy"}))' <=> Has(log', {"legacy"})
    BY DEF Has
  <2>5. (Covered(log, "ace_machine.cfg.legacy"))' <=> Covered(log', "ace_machine.cfg.legacy")
    BY DEF Covered
  <2> QED
    BY <1>8, <2>1, <2>2, <2>3, <2>4, <2>5 DEF PhaseInv
<1> QED
  BY <1>7, <1>9

LEMMA ConfigRetires ==
  ASSUME Base, TurnInv, PhaseInv, RetireNow, UNCHANGED <<op, before>>, ConfigChange
  PROVE  Retires /\ PhaseInv'
<1> DEFINE u == <<"upgrade", "ace.cfg">>
           m == <<"archive", "ace_machine.cfg">>
           g == <<"merge", "ace.cfg">>
           h == <<"archive", "ace_hardware.cfg">>
           ml == "ace_machine.cfg.legacy"
<1>1. TodoInv /\ OpInv /\ FitInv /\ Tree(files) /\ IsSeq(log)
  BY DEF Base, FitInv, TreeFits, OpInv
<1>2. op = "install"
  BY <1>1, WhoseStep DEF ConfigChange, Create, Upgrade, ArchiveMachine, Merge, ArchiveHardware, InstallSet
<1>3. Alone(log) /\ \A q \in Archives : ArchiveKept(log, files, q)
  BY <1>2 DEF RetireNow, Running
<1>4. /\ u \notin Pending =>
           /\ files["ace_machine.cfg"] # Missing => files["ace.cfg"].macros = TRUE
           /\ Has(log, {"ace.cfg"})
      /\ g \notin Pending => Real(files["ace.cfg"].topology)
      /\ m \in Pending => files[ml] = before[ml] /\ ~Covered(log, ml)
      /\ h \in Pending => files["legacy"] = before["legacy"] /\ ~Has(log, {"legacy"})
      /\ h \notin Pending => files["ace_hardware.cfg"] = Missing
  BY <1>2 DEF PhaseInv
<1>5. ASSUME /\ u \notin Pending' =>
                  /\ files'["ace_machine.cfg"] # Missing => files'["ace.cfg"].macros = TRUE
                  /\ Has(log', {"ace.cfg"})
             /\ g \notin Pending' => Real(files'["ace.cfg"].topology)
             /\ m \in Pending' => files'[ml] = before[ml] /\ ~Covered(log', ml)
             /\ h \in Pending' => files'["legacy"] = before["legacy"] /\ ~Has(log', {"legacy"})
             /\ h \notin Pending' => files'["ace_hardware.cfg"] = Missing
      PROVE  PhaseInv'
  BY <1>5 DEF PhaseInv, Has, Covered
<1>6. Archives = {ml, "legacy"}
  BY DEF Archives
<1>7. Core \subseteq Paths
  BY StateSaved
<1>8. ASSUME NEW S, S = {"ace.cfg"} \/ (S \cap Core \subseteq {"ace_machine.cfg", "ace_hardware.cfg"} /\ S \subseteq Core),
             (m \in Pending /\ h \in Pending) \/ S # {"ace.cfg"} \/ Has(log, S)
      PROVE  Alone(Saved(log, S)) /\ \A q \in Archives : ArchiveKept(Saved(log, S), files, q)
  <2>1. ASSUME NEW q \in Archives
        PROVE  Alone(Saved(log, S)) /\ ArchiveKept(Saved(log, S), files, q)
    <3>1. q \notin S /\ ("ace.cfg" \in S => S = {"ace.cfg"})
      BY <1>6, <1>8 DEF Core
    <3>2. "ace.cfg" \in S => files[q] = before[q] \/ Has(log, S)
      BY <1>4, <1>6, <1>8, <3>1
    <3> QED
      BY <1>1, <1>3, <3>1, <3>2, SavedKept
  <2> QED
    BY <1>6, <2>1
<1> HIDE DEF u, m, g, h
<1>9. ASSUME \A p \in Core : p # "ace.cfg" => files'[p] = files[p],
             log' = Saved(log, {"ace.cfg"}), (m \in Pending /\ h \in Pending) \/ Has(log, {"ace.cfg"}),
             ~torn => Retired(files')
      PROVE  Retires
  <2>1. \A q \in Archives : files'[q] = files[q]
    BY <1>6, <1>9 DEF Core
  <2>2. Alone(log') /\ \A q \in Archives : ArchiveKept(log', files, q)
    BY <1>8, <1>9
  <2> QED
    BY <1>9, <2>1, <2>2, ArchiveKeptAgain DEF Retires
<1>10. ASSUME UNCHANGED <<files, log>>
       PROVE  Retires
  BY <1>3, <1>10 DEF Retires, RetireNow
<1>11. ~torn => /\ files[ml] # Missing => Tells(files["ace.cfg"], ml)
                /\ files["legacy"] # {} => Tells(files["ace.cfg"], "legacy")
  BY <1>6 DEF RetireNow, Retired, Nothing
<1>12. ASSUME ~torn => /\ files'[ml] # Missing => Tells(files'["ace.cfg"], ml)
                       /\ files'["legacy"] # {} => Tells(files'["ace.cfg"], "legacy")
       PROVE  ~torn => Retired(files')
  BY <1>6, <1>12 DEF Retired, Nothing
<1>13. /\ \A S, T : Has(Saved(log, S), T) <=> Has(log, T) \/ T = S
       /\ \A S, p : Covered(Saved(log, S), p) <=> Covered(log, p) \/ p \in S
  BY <1>1, SavedHas, SavedCovers
<1>14. ASSUME Upgrade \/ Merge \/ ArchiveMachine \/ ArchiveHardware
       PROVE  files["ace.cfg"] \in Config
  <2>1. <<"create", "ace.cfg">> \notin Pending
    BY <1>1, <1>14, InstallOrder DEF Upgrade, Merge, ArchiveMachine, ArchiveHardware
  <2> QED
    BY <1>1, <1>2, <2>1, EntryOf DEF FitInv
<1>15. Missing \notin Config
  BY InstallationAssumption DEF Config
<1>16. CASE Create
  <2>1. u \in Pending' /\ m \in Pending' /\ g \in Pending' /\ h \in Pending'
        /\ u \in Pending /\ m \in Pending /\ g \in Pending /\ h \in Pending
    <3>1. Pending' = Pending \ {<<"create", "ace.cfg">>}
      BY <1>1, <1>16, ThenNothing DEF Create
    <3>2. u \in Pending /\ m \in Pending /\ g \in Pending /\ h \in Pending
      BY <1>1, <1>2, <1>16, StillToCome DEF Create, u, m, g, h
    <3>3. <<"create", "ace.cfg">> \notin {u, m, g, h}
      BY DEF u, m, g, h
    <3> QED
      BY <3>1, <3>2, <3>3
  <2>2. CASE files["ace.cfg"] # Missing
    <3>1. UNCHANGED <<files, log>>
      BY <1>16, <2>2 DEF Create
    <3> QED
      BY <1>4, <1>5, <1>10, <2>1, <3>1
  <2>3. CASE files["ace.cfg"] = Missing
    <3> DEFINE v == [topology |-> Template, macros |-> FALSE]
    <3>1. files' = [files EXCEPT !["ace.cfg"] = v] /\ log' = Saved(log, {"ace.cfg"})
      BY <1>16, <2>3 DEF Create, Put, Prepare
    <3> HIDE DEF v
    <3>2. \A p \in Core : p # "ace.cfg" => files'[p] = files[p]
      BY <1>1, <1>7, <3>1 DEF Tree
    <3>3. files'[ml] = files[ml] /\ files'["legacy"] = files["legacy"]
      BY <3>2 DEF Core
    <3>4. ~torn => files[ml] = Missing /\ files["legacy"] = {}
      BY <1>11, <2>3 DEF Tells
    <3>5. ~torn => Retired(files')
      BY <1>12, <3>3, <3>4
    <3>6. Retires
      BY <1>9, <2>1, <3>1, <3>2, <3>5
    <3>7. ~Covered(log', ml) /\ ~Has(log', {"legacy"})
      BY <1>4, <1>13, <2>1, <3>1
    <3> QED
      BY <1>4, <1>5, <2>1, <3>3, <3>6, <3>7
  <2> QED
    BY <2>2, <2>3
<1>17. CASE Upgrade
  <2>1. m \in Pending' /\ g \in Pending' /\ h \in Pending' /\ m \in Pending /\ g \in Pending /\ h \in Pending
    <3>1. Pending' = Pending \ {u}
      BY <1>1, <1>17, ThenNothing DEF Upgrade, u
    <3>2. m \in Pending /\ g \in Pending /\ h \in Pending
      BY <1>1, <1>2, <1>17, StillToCome DEF Upgrade, m, g, h
    <3>3. u \notin {m, g, h}
      BY DEF u, m, g, h
    <3> QED
      BY <3>1, <3>2, <3>3
  <2> DEFINE c == files["ace.cfg"]
             d == [topology |-> IF Embedded THEN c.topology ELSE Template,
                   macros |-> c.macros \/ files["ace_machine.cfg"] # Missing]
  <2>2. files' = [files EXCEPT !["ace.cfg"] = d] /\ log' = Saved(log, {"ace.cfg"})
    BY <1>1, <1>17 DEF Upgrade, Put, Prepare, Tree
  <2>3. c \in Config
    BY <1>14, <1>17
  <2>4. /\ d \in Config /\ (Real(c.topology) => Real(d.topology))
        /\ (c.macros = TRUE => d.macros = TRUE)
        /\ files["ace_machine.cfg"] # Missing => d.macros = TRUE
    <3>1. c.topology \in Topologies /\ c.macros \in BOOLEAN /\ c # Missing
      BY <1>15, <2>3 DEF Config
    <3>2. Real(c.topology) => Embedded
      BY <3>1, EmptyList DEF Real, Embedded
    <3> DEFINE t == IF Embedded THEN c.topology ELSE Template
               k == c.macros \/ files["ace_machine.cfg"] # Missing
    <3>3. t \in Topologies /\ (Real(c.topology) => t = c.topology)
      BY <3>1, <3>2, TemplateIs
    <3>4. k \in BOOLEAN /\ (c.macros = TRUE => k = TRUE)
          /\ (files["ace_machine.cfg"] # Missing => k = TRUE)
      OBVIOUS
    <3>5. d = [topology |-> t, macros |-> k]
      OBVIOUS
    <3> HIDE DEF t, k
    <3> QED
      BY <3>3, <3>4, <3>5 DEF Config
  <2> HIDE DEF d
  <2>5. files'["ace.cfg"] = d /\ \A p \in Core : p # "ace.cfg" => files'[p] = files[p]
    BY <1>1, <1>7, <2>2 DEF Tree, Core
  <2>6. files'[ml] = files[ml] /\ files'["legacy"] = files["legacy"]
        /\ files'["ace_machine.cfg"] = files["ace_machine.cfg"]
    BY <2>5 DEF Core
  <2>7. ~torn => Retired(files')
    BY <1>11, <1>12, <1>15, <2>4, <2>5, <2>6 DEF Tells
  <2>8. Retires
    BY <1>9, <2>1, <2>2, <2>5, <2>7
  <2>9. ~Covered(log', ml) /\ ~Has(log', {"legacy"}) /\ Has(log', {"ace.cfg"})
    BY <1>4, <1>13, <2>1, <2>2
  <2> QED
    BY <1>4, <1>5, <2>1, <2>4, <2>5, <2>6, <2>8, <2>9
<1>18. CASE Merge
  <2>1. h \in Pending' /\ h \in Pending /\ (m \in Pending' => m \in Pending) /\ u \notin Pending
    <3>1. Pending' = Pending \ {g}
      BY <1>1, <1>18, ThenNothing DEF Merge, g
    <3>2. h \in Pending
      BY <1>1, <1>2, <1>18, StillToCome DEF Merge, h
    <3>3. u \notin Pending
      BY <1>1, <1>18, InstallOrder DEF Merge, u
    <3>4. g # h
      BY DEF g, h
    <3> QED
      BY <3>1, <3>2, <3>3, <3>4
  <2> DEFINE c == files["ace.cfg"]
             d == [c EXCEPT !.topology = generated]
  <2>2. files' = [files EXCEPT !["ace.cfg"] = d] /\ log' = Saved(log, {"ace.cfg"})
    BY <1>18 DEF Merge, Prepare
  <2>3. c \in Config /\ generated \in Topologies /\ Real(generated)
    BY <1>1, <1>2, <1>14, <1>18 DEF FitInv
  <2>4. d \in Config /\ Real(d.topology) /\ d.macros = c.macros
    BY <2>3 DEF Config
  <2> HIDE DEF d
  <2>5. files'["ace.cfg"] = d /\ \A p \in Core : p # "ace.cfg" => files'[p] = files[p]
    BY <1>1, <1>7, <2>2 DEF Tree, Core
  <2>6. files'[ml] = files[ml] /\ files'["legacy"] = files["legacy"]
        /\ files'["ace_machine.cfg"] = files["ace_machine.cfg"]
    BY <2>5 DEF Core
  <2>7. ~torn => Retired(files')
    BY <1>11, <1>12, <1>15, <2>4, <2>5, <2>6 DEF Tells
  <2>8. Has(log, {"ace.cfg"})
    BY <1>4, <2>1
  <2>9. Retires
    BY <1>9, <2>2, <2>5, <2>7, <2>8
  <2>10. /\ Covered(log', ml) => Covered(log, ml)
         /\ ~Has(log', {"legacy"}) /\ Has(log', {"ace.cfg"})
    BY <1>4, <1>13, <2>1, <2>2
  <2> QED
    BY <1>4, <1>5, <2>1, <2>4, <2>5, <2>6, <2>9, <2>10
<1>19. CASE ArchiveMachine
  <2>1. /\ m \in Pending /\ m \notin Pending' /\ u \notin Pending /\ g \in Pending'
        /\ h \in Pending /\ h \in Pending'
    <3>1. Pending' = Pending \ {m} /\ m \in Pending
      BY <1>1, <1>19, ThenNothing DEF ArchiveMachine, m
    <3>2. h \in Pending /\ g \in Pending
      BY <1>1, <1>2, <1>19, StillToCome DEF ArchiveMachine, g, h
    <3>3. u \notin Pending
      BY <1>1, <1>19, InstallOrder DEF ArchiveMachine, u
    <3>4. m # h /\ m # g
      BY DEF m, g, h
    <3> QED
      BY <3>1, <3>2, <3>3, <3>4
  <2>2. CASE files["ace_machine.cfg"] = Missing
    <3>1. UNCHANGED <<files, log>>
      BY <1>19, <2>2 DEF ArchiveMachine
    <3> QED
      BY <1>4, <1>5, <1>10, <2>1, <3>1
  <2>3. CASE files["ace_machine.cfg"] # Missing
    <3> DEFINE lg == Saved(log, {"ace_machine.cfg"})
    <3>1. /\ files[ml] = Missing /\ log' = Saved(lg, {ml})
          /\ files' = [files EXCEPT !["ace_machine.cfg"] = Missing, ![ml] = files["ace_machine.cfg"]]
      BY <1>19, <2>3 DEF ArchiveMachine
    <3>2. IsSeq(lg) /\ Alone(lg) /\ \A q \in Archives : ArchiveKept(lg, files, q)
      <4>1. {"ace_machine.cfg"} \subseteq Core /\ {"ace_machine.cfg"} # {"ace.cfg"}
        BY DEF Core
      <4> QED
        BY <1>1, <1>8, <4>1, SavedIs
    <3>3. /\ ~Covered(lg, ml) /\ ~Has(lg, {"legacy"}) /\ Has(lg, {"ace.cfg"})
      BY <1>4, <1>13, <2>1
    <3> HIDE DEF lg
    <3>4. ~Has(lg, {ml})
      BY <3>3 DEF Has, Covered
    <3>5. /\ files'[ml] = files["ace_machine.cfg"] /\ files'["legacy"] = files["legacy"]
          /\ files'["ace.cfg"] = files["ace.cfg"] /\ files'["ace_machine.cfg"] = Missing
      BY <1>1, <1>7, <3>1 DEF Tree, Core
    <3>6. Alone(log') /\ ArchiveKept(log', files', ml)
      <4>1. before[ml] = Nothing(ml) /\ files[ml] = before[ml] /\ ml # "ace.cfg"
        BY <1>4, <2>1, <3>1 DEF Nothing
      <4>2. \A i \in DOMAIN lg : ml \in lg[i].paths => lg[i].files[ml] = before[ml]
        BY <3>3 DEF Covered
      <4> QED
        BY <3>1, <3>2, <3>4, <4>1, <4>2, SavedLast
    <3>7. ArchiveKept(log', files', "legacy")
      <4>1. ArchiveKept(Saved(lg, {ml}), files, "legacy")
        <5>1. ArchiveKept(lg, files, "legacy")
          BY <1>6, <3>2
        <5>2. "legacy" \notin {ml} /\ "ace.cfg" \notin {ml}
          OBVIOUS
        <5> QED
          BY <3>2, <5>1, <5>2, SavedKept
      <4> QED
        BY <3>1, <3>5, <4>1, ArchiveKeptAgain
    <3>8. files["ace.cfg"] # Missing /\ files["ace.cfg"].macros = TRUE
      BY <1>4, <1>14, <1>15, <1>19, <2>1, <2>3
    <3>9. ~torn => Retired(files')
      BY <1>11, <1>12, <3>5, <3>8 DEF Tells
    <3>10. Retires
      BY <1>6, <3>6, <3>7, <3>9 DEF Retires
    <3>11. ~Has(log', {"legacy"}) /\ Has(log', {"ace.cfg"})
      BY <3>1, <3>2, <3>3, SavedHas
    <3> QED
      BY <1>4, <1>5, <2>1, <3>5, <3>10, <3>11
  <2> QED
    BY <2>2, <2>3
<1>20. CASE ArchiveHardware
  <2>1. /\ h \in Pending /\ h \notin Pending' /\ u \notin Pending /\ g \notin Pending
        /\ Pending' \subseteq Pending
    <3>1. Pending' = Pending \ {h} /\ h \in Pending
      BY <1>1, <1>20, ThenNothing DEF ArchiveHardware, h
    <3>2. u \notin Pending /\ g \notin Pending
      BY <1>1, <1>20, InstallOrder DEF ArchiveHardware, u, g
    <3> QED
      BY <3>1, <3>2
  <2>2. CASE files["ace_hardware.cfg"] = Missing
    <3>1. UNCHANGED <<files, log>>
      BY <1>20, <2>2 DEF ArchiveHardware
    <3> QED
      BY <1>4, <1>5, <1>10, <2>1, <2>2, <3>1
  <2>3. CASE files["ace_hardware.cfg"] # Missing
    <3> DEFINE lg == Saved(log, {"ace_hardware.cfg"})
               v == files["legacy"] \cup {files["ace_hardware.cfg"]}
    <3>1. /\ log' = Saved(lg, {"legacy"})
          /\ files' = [files EXCEPT !["ace_hardware.cfg"] = Missing, !["legacy"] = v]
      BY <1>20, <2>3 DEF ArchiveHardware
    <3>2. IsSeq(lg) /\ Alone(lg) /\ \A q \in Archives : ArchiveKept(lg, files, q)
      <4>1. {"ace_hardware.cfg"} \subseteq Core /\ {"ace_hardware.cfg"} # {"ace.cfg"}
        BY DEF Core
      <4> QED
        BY <1>1, <1>8, <4>1, SavedIs
    <3>3. /\ ~Has(lg, {"legacy"}) /\ Has(lg, {"ace.cfg"})
          /\ Covered(lg, ml) => Covered(log, ml)
      BY <1>4, <1>13, <2>1
    <3>4. v # {}
      OBVIOUS
    <3> HIDE DEF lg, v
    <3>5. /\ files'[ml] = files[ml] /\ files'["legacy"] = v
          /\ files'["ace.cfg"] = files["ace.cfg"] /\ files'["ace_hardware.cfg"] = Missing
          /\ files'["ace_machine.cfg"] = files["ace_machine.cfg"]
      BY <1>1, <1>7, <3>1 DEF Tree, Core
    <3>6. Alone(log') /\ ArchiveKept(log', files', "legacy")
      <4>1. files'["legacy"] # Nothing("legacy") /\ files["legacy"] = before["legacy"]
        BY <1>4, <2>1, <3>4, <3>5 DEF Nothing
      <4>2. \A i \in DOMAIN lg : "legacy" \in lg[i].paths => lg[i].files["legacy"] = before["legacy"]
        BY <1>6, <3>2 DEF ArchiveKept
      <4> QED
        BY <3>1, <3>2, <3>3, <4>1, <4>2, SavedLast
    <3>7. ArchiveKept(log', files', ml)
      <4>1. ArchiveKept(Saved(lg, {"legacy"}), files, ml)
        <5>1. ArchiveKept(lg, files, ml)
          BY <1>6, <3>2
        <5>2. ml \notin {"legacy"} /\ "ace.cfg" \notin {"legacy"}
          OBVIOUS
        <5> QED
          BY <3>2, <5>1, <5>2, SavedKept
      <4> QED
        BY <3>1, <3>5, <4>1, ArchiveKeptAgain
    <3>8. files["ace.cfg"] # Missing /\ Real(files["ace.cfg"].topology)
      BY <1>4, <1>14, <1>15, <1>20, <2>1
    <3>9. ~torn => Retired(files')
      BY <1>11, <1>12, <3>5, <3>8 DEF Tells
    <3>10. Retires
      BY <1>6, <3>6, <3>7, <3>9 DEF Retires
    <3>11. Has(log', {"ace.cfg"}) /\ (Covered(log', ml) => Covered(log, ml))
      <4>1. ml \notin {"legacy"}
        OBVIOUS
      <4> QED
        BY <3>1, <3>2, <3>3, <4>1, SavedHas, SavedCovers
    <3> QED
      BY <1>4, <1>5, <2>1, <3>5, <3>10, <3>11
  <2> QED
    BY <2>2, <2>3
<1> QED
  BY <1>16, <1>17, <1>18, <1>19, <1>20 DEF ConfigChange

(***************************************************************************)
(* Rolling back and editing keep it.                                       *)
(***************************************************************************)
LEMMA RollbackRetires ==
  ASSUME Base, UndoInv, RetireNow, op = "rollback", log # <<>>,
         NEW g, g = [p \in Paths |-> IF p \in Last.paths THEN Last.files[p] ELSE files[p]],
         NEW lg, lg = SubSeq(log, 1, Len(log) - 1)
  PROVE  (~torn => Retired(g)) /\ Alone(lg) /\ \A q \in Archives : ArchiveKept(lg, g, q)
<1> DEFINE e == Last
<1>1. IsSeq(log) /\ Alone(log) /\ \A q \in Archives : ArchiveKept(log, files, q)
  BY DEF Base, OpInv, RetireNow, Running
<1>2. /\ Len(log) \in DOMAIN log /\ DOMAIN lg = DOMAIN log \ {Len(log)}
      /\ \A i \in DOMAIN lg : lg[i] = log[i]
      /\ \A i \in DOMAIN log : i \in Nat /\ i <= Len(log)
  BY <1>1, Dropped, Listed
<1>3. /\ \A p \in Paths : p \in e.paths => g[p] = e.files[p]
      /\ \A p \in Paths : p \notin e.paths => g[p] = files[p]
  OBVIOUS
<1>4. "ace.cfg" \in Paths /\ Archives \subseteq Paths
  BY StateSaved DEF Core, Archives
<1> HIDE DEF e
<1>5. e = log[Len(log)]
  BY DEF e, Last
<1>6. Alone(lg)
  BY <1>1, <1>2 DEF Alone
<1>7. ASSUME NEW q \in Archives, q \in e.paths
      PROVE  g[q] = before[q]
  BY <1>1, <1>2, <1>3, <1>4, <1>5, <1>7 DEF ArchiveKept
<1>8. ASSUME NEW q \in Archives
      PROVE  ArchiveKept(lg, g, q)
  <2>1. \A i \in DOMAIN lg : q \in lg[i].paths => lg[i].files[q] = before[q]
    BY <1>1, <1>2 DEF ArchiveKept
  <2>2. CASE q \in e.paths
    BY <1>7, <2>1, <2>2 DEF ArchiveKept
  <2>3. CASE q \notin e.paths
    <3>1. g[q] = files[q]
      BY <1>3, <1>4, <2>3
    <3>2. CASE files[q] = before[q]
      BY <2>1, <3>1, <3>2 DEF ArchiveKept
    <3>3. CASE files[q] # before[q]
      <4>1. (before[q] = Nothing(q) \/ files[q] # Nothing(q)) /\ AceFirst(log, q)
        BY <1>1, <3>3 DEF ArchiveKept
      <4>2. AceFirst(lg, q)
        BY <1>2, <1>5, <2>3, <4>1 DEF AceFirst
      <4> QED
        BY <2>1, <3>1, <4>1, <4>2 DEF ArchiveKept
    <3> QED
      BY <3>2, <3>3
  <2> QED
    BY <2>2, <2>3
<1>9. ~torn => Retired(g)
  <2> SUFFICES ASSUME ~torn PROVE Retired(g)
    OBVIOUS
  <2>1. Retired(files) /\ Retired(before)
    BY DEF RetireNow, Running
  <2>2. CASE "ace.cfg" \in e.paths
    <3>1. e.paths = {"ace.cfg"}
      BY <1>1, <1>2, <1>5, <2>2 DEF Alone
    <3>2. \A i \in DOMAIN log : "ace.cfg" \in log[i].paths => i = Len(log)
      BY <1>1, <1>2, <1>5, <3>1 DEF Alone
    <3>3. SavedFirst(log, "ace.cfg", before["ace.cfg"])
      BY <1>2, <1>4, <1>5, <2>2 DEF UndoInv, Running, Undoes, Covered
    <3>4. g["ace.cfg"] = before["ace.cfg"]
      BY <1>3, <1>4, <1>5, <2>2, <3>2, <3>3 DEF SavedFirst
    <3>5. \A q \in Archives : g[q] = before[q]
      <4> TAKE q \in Archives
      <4>1. q \notin e.paths
        BY <3>1 DEF Archives
      <4>2. ~AceFirst(log, q)
        BY <1>2, <1>5, <2>2 DEF AceFirst
      <4> QED
        BY <1>1, <1>3, <1>4, <4>1, <4>2 DEF ArchiveKept
    <3> QED
      BY <2>1, <3>4, <3>5 DEF Retired
  <2>3. CASE "ace.cfg" \notin e.paths
    <3>1. g["ace.cfg"] = files["ace.cfg"]
      BY <1>3, <1>4, <2>3
    <3>2. ASSUME NEW q \in Archives, g[q] # Nothing(q)
          PROVE  files[q] # Nothing(q)
      <4>1. CASE q \in e.paths
        BY <1>1, <1>7, <3>2, <4>1 DEF ArchiveKept
      <4>2. CASE q \notin e.paths
        BY <1>3, <1>4, <3>2, <4>2
      <4> QED
        BY <4>1, <4>2
    <3> QED
      BY <2>1, <3>1, <3>2 DEF Retired
  <2> QED
    BY <2>2, <2>3
<1> QED
  BY <1>6, <1>8, <1>9

LEMMA PersonRetires ==
  ASSUME Base, RetireNow, Person, ~torn
  PROVE  Retired(files')
<1>1. Retired(files) /\ Tree(files) /\ FitInv
  BY DEF RetireNow, Base, FitInv, TreeFits
<1>2. CASE \E l \in Links, content \in {"none", "newer"} : ReplaceLink(l, content)
  <2>1. \A p \in Core : files'[p] = files[p]
    BY <1>1, <1>2, StateSaved DEF ReplaceLink, Put, Tree
  <2> QED
    BY <1>1, <2>1, RetiredSame
<1>3. CASE \E c \in Marked : EditMarked(c)
  <2>1. \A p \in Core : files'[p] = files[p]
    BY <1>1, <1>3, StateSaved DEF EditMarked, Put, Tree
  <2> QED
    BY <1>1, <2>1, RetiredSame
<1>4. CASE \E i \in 1..Cardinality(Unit) : Allow(i)
  <2>1. PICK i \in 1..Cardinality(Unit) : Allow(i)
    BY <1>4
  <2> DEFINE c == files["ace.cfg"]
             t == c.topology
             u == [t EXCEPT ![i].physical = ~@]
             d == [c EXCEPT !.topology = u]
  <2>2. c \in Config /\ t \in Topologies /\ i \in DOMAIN t
    BY <1>1, <2>1, EntryOf DEF Allow, Config
  <2>3. u \in Topologies /\ DOMAIN u = DOMAIN t /\ \A j \in DOMAIN t : u[j].unit = t[j].unit
    BY <2>2, Switched
  <2>4. d \in Config /\ d.topology = u /\ d.macros = c.macros
    <3> HIDE DEF u
    <3> QED
      BY <2>2, <2>3 DEF Config
  <2>5. files' = [files EXCEPT !["ace.cfg"] = d]
    BY <2>1 DEF Allow
  <2> HIDE DEF d, u
  <2>6. files'["ace.cfg"] = d /\ \A p \in Core : p # "ace.cfg" => files'[p] = files[p]
    BY <1>1, <2>5, StateSaved DEF Tree, Core
  <2>8. Real(t) => Real(u)
    BY <2>3 DEF Real
  <2>7. d # Missing
    BY <2>4, InstallationAssumption DEF Config
  <2> QED
    BY <1>1, <2>4, <2>6, <2>7, <2>8 DEF Retired, Tells, Archives, Core
<1> QED
  BY <1>2, <1>3, <1>4 DEF Person

LEMMA NextRetire ==
  ASSUME Base, OpInv', FitInv', TurnInv, UndoInv, SnapInv, PhaseInv, RetireInv, [Next]_vars
  PROVE  PhaseInv' /\ RetireInv'
<1>1. TodoInv /\ OpInv /\ FitInv /\ Tree(files) /\ IsSeq(log)
  BY DEF Base, FitInv, TreeFits, OpInv
<1>2. ASSUME op' # "install"
      PROVE  PhaseInv'
  BY <1>2 DEF PhaseInv
<1>3. Tree(files)'
  BY DEF FitInv, TreeFits
<1>4. half = {} => RetireNow
  BY <1>1, NotHalf
<1>5. ASSUME half' = {}
      PROVE  Copied' = files' /\ Left' = log'
  <2>1. Copied' = [p \in Paths |-> files'[p]] /\ Left' = log'
    BY <1>5 DEF Copied, Left
  <2> QED
    BY <1>3, <2>1 DEF Tree
<1>6. ASSUME op' \notin {"install", "uninstall", "rollback"}, op' = "restore" => torn',
             UNCHANGED snapshot, ~torn' => Retired(files')
      PROVE  PhaseInv' /\ RetireInv'
  <2>1. half' = {}
    BY <1>6 DEF OpInv
  <2>2. Copied' = files'
    BY <1>5, <2>1
  <2>3. (~torn => Retired(Copied))'
    BY <1>6, <2>2 DEF Retired
  <2>4. (snapshot # Missing /\ ~snapshot.torn => Retired(snapshot.files))'
    BY <1>6 DEF RetireInv, Retired
  <2> QED
    BY <1>2, <1>6, <2>1, <2>3, <2>4 DEF RetireInv, Running
<1>7. ASSUME Retires, UNCHANGED <<before, torn, snapshot>>, half = {}, half' = {},
             op \in {"install", "uninstall", "rollback"}, op' \in {"install", "uninstall", "rollback"}
      PROVE  RetireInv'
  <2>1. Copied' = files' /\ Left' = log'
    BY <1>5, <1>7
  <2>2. \A q \in Archives : ArchiveKept(Left, Copied, q)'
    BY <1>7, <2>1 DEF Retires, ArchiveKept, AceFirst
  <2>3. Alone(Left)'
    BY <1>7, <2>1 DEF Retires, Alone
  <2>4. (~torn => Retired(Copied))'
    BY <1>7, <2>1 DEF Retires, Retired
  <2>5. (~torn => Retired(before))'
    BY <1>4, <1>7 DEF RetireNow, Running, Retired
  <2>6. (snapshot # Missing /\ ~snapshot.torn => Retired(snapshot.files))'
    BY <1>7 DEF RetireInv, Retired
  <2> QED
    BY <1>7, <2>2, <2>3, <2>4, <2>5, <2>6 DEF RetireInv
<1>8. ASSUME log' = <<>>, before' = files, files' = files, half' = {}
      PROVE  Alone(Left)' /\ \A q \in Archives : ArchiveKept(Left, Copied, q)'
  <2>1. Copied' = files' /\ Left' = <<>>
    BY <1>5, <1>8
  <2> QED
    BY <1>8, <2>1, EmptyList DEF Alone, ArchiveKept
<1>9. CASE Change
  <2>1. UNCHANGED <<op, half, before, torn, snapshot>> /\ op \in {"install", "uninstall"} /\ half = {}
    BY <1>1, <1>9, ChangeLogs DEF Change, ghosts, OpInv
  <2>2. Retires /\ PhaseInv'
    BY <1>1, <1>4, <1>9, <2>1, ConfigOrAside, ConfigRetires, AsideRetires
  <2> QED
    BY <1>7, <2>1, <2>2
<1>10. ASSUME NEW units \in Devices, NEW tree \in Sources, Install(units, tree)
       PROVE  PhaseInv' /\ RetireInv'
  <2>1. /\ op = "none" /\ op' = "install" /\ log' = <<>> /\ files' = files /\ before' = files
        /\ torn' = torn /\ half' = half
        /\ todo' = InstallSteps(tree)
        /\ snapshot' = Snapshot(tree) \/ UNCHANGED snapshot
    BY <1>10 DEF Install, Begin
  <2>2. half = {} /\ RetireNow
    BY <1>1, <1>4, <2>1 DEF OpInv
  <2>3. ConfigSteps \subseteq Pending'
    BY <2>1, InstallStepsAre, Last7Is DEF Pending, ConfigSteps
  <2>4. \A S, p : ~Has(log', S) /\ ~Covered(log', p)
    BY <2>1, EmptyList DEF Has, Covered
  <2>5. PhaseInv'
    BY <2>1, <2>3, <2>4 DEF PhaseInv, ConfigSteps, Has, Covered
  <2>6. (snapshot # Missing /\ ~snapshot.torn => Retired(snapshot.files))'
    BY <2>1, <2>2 DEF Snapshot, RetireNow, RetireInv, Retired
  <2>7. (~torn => Retired(Copied))' /\ (~torn => Retired(before))'
    BY <1>5, <2>1, <2>2 DEF RetireNow, Retired
  <2> QED
    BY <1>8, <2>1, <2>2, <2>5, <2>6, <2>7 DEF RetireInv
<1>11. CASE \E tree \in Sources : Uninstall(tree)
  <2>1. /\ op = "none" /\ op' = "uninstall" /\ log' = <<>> /\ files' = files /\ before' = files
        /\ UNCHANGED <<half, torn, snapshot>>
    BY <1>11 DEF Uninstall, Begin
  <2>2. half = {} /\ RetireNow
    BY <1>1, <1>4, <2>1 DEF OpInv
  <2>3. (snapshot # Missing /\ ~snapshot.torn => Retired(snapshot.files))'
    BY <2>1 DEF RetireInv, Retired
  <2>4. (~torn => Retired(Copied))' /\ (~torn => Retired(before))'
    BY <1>5, <2>1, <2>2 DEF RetireNow, Retired
  <2> QED
    BY <1>2, <1>8, <2>1, <2>2, <2>3, <2>4 DEF RetireInv
<1>12. CASE Commit \/ RolledBack \/ RestoreStops
  <2>1. op' = "none" /\ UNCHANGED <<files, torn, snapshot>>
    BY <1>12 DEF Commit, RolledBack, RestoreStops, Finish, ghosts
  <2>2. half = {}
    BY <1>1, <1>12 DEF Commit, RolledBack, RestoreStops, OpInv
  <2> QED
    BY <1>4, <1>6, <2>1, <2>2 DEF RetireNow
<1>13. CASE Kill
  <2>1. op' = "none" /\ UNCHANGED <<files, snapshot>> /\ torn' = (torn \/ "ace.cfg" \in half)
    BY <1>13 DEF Kill, Finish
  <2>2. ~torn' => ~torn /\ "ace.cfg" \notin half
    BY <2>1
  <2>3. ~torn' => Retired(files')
    BY <1>1, <2>1, <2>2, RetiredBetween
  <2> QED
    BY <1>6, <2>1, <2>3
<1>14. CASE Fail
  <2>1. op' = "rollback" /\ UNCHANGED <<files, log, half, before, torn, snapshot>> /\ op \in {"install", "uninstall"}
    BY <1>14 DEF Fail, ghosts
  <2>2. half = {}
    BY <1>1, <2>1 DEF OpInv
  <2>3. Retires
    BY <1>4, <2>1, <2>2 DEF Retires, RetireNow, Running
  <2> QED
    BY <1>2, <1>7, <2>1, <2>2, <2>3
<1>15. CASE RollbackRemove
  <2>1. /\ op = "rollback" /\ op' = "rollback" /\ half = {} /\ log # <<>> /\ half' = Last.paths
        /\ files' = [p \in Paths |-> IF p \in Last.paths THEN Gone(p) ELSE files[p]]
        /\ UNCHANGED <<log, before, torn, snapshot>>
    BY <1>15 DEF RollbackRemove, ghosts
  <2> DEFINE g  == [p \in Paths |-> IF p \in Last.paths THEN Last.files[p] ELSE files[p]]
             lg == SubSeq(log, 1, Len(log) - 1)
  <2>2. (~torn => Retired(g)) /\ Alone(lg) /\ \A q \in Archives : ArchiveKept(lg, g, q)
    BY <1>4, <2>1, RollbackRetires
  <2>3. CASE Last.paths = {}
    <3>1. files' = [p \in Paths |-> files[p]] /\ half' = {}
      BY <2>1, <2>3
    <3>2. files' = files
      BY <1>1, <3>1 DEF Tree
    <3>3. Retires
      BY <1>4, <2>1, <3>2 DEF Retires, RetireNow, Running
    <3> QED
      BY <1>2, <1>7, <2>1, <3>1, <3>3
  <2>4. CASE Last.paths # {}
    <3>1. Copied' = g
      <4>1. Last' = Last
        BY <2>1 DEF Last
      <4>2. Copied' = [p \in Paths |-> IF p \in half' THEN Last'.files[p] ELSE files'[p]]
        BY DEF Copied
      <4>3. \A p \in Paths : p \notin Last.paths => files'[p] = files[p]
        BY <2>1
      <4> QED
        BY <2>1, <4>1, <4>2, <4>3
    <3>2. Left' = lg
      BY <2>1, <2>4 DEF Left
    <3>3. \A p \in half' : files'[p] = Gone(p)
      <4>1. Last.paths \subseteq Paths
        <5>1. Len(log) \in DOMAIN log
          BY <1>1, <2>1, Dropped
        <5> QED
          BY <1>1, <5>1 DEF Last, FitInv, LogFits
      <4> QED
        BY <2>1, <4>1
    <3> HIDE DEF g, lg
    <3>4. (~torn => Retired(Copied))' /\ Alone(Left)' /\ \A q \in Archives : ArchiveKept(Left, Copied, q)'
      BY <2>1, <2>2, <3>1, <3>2 DEF Retired, Alone, ArchiveKept, AceFirst
    <3>5. (~torn => Retired(before))'
      BY <1>4, <2>1 DEF RetireNow, Running, Retired
    <3>6. (snapshot # Missing /\ ~snapshot.torn => Retired(snapshot.files))'
      BY <2>1 DEF RetireInv, Retired
    <3> QED
      BY <1>2, <2>1, <3>3, <3>4, <3>5, <3>6 DEF RetireInv
  <2> QED
    BY <2>3, <2>4
<1>16. CASE RollbackCopy
  <2>1. /\ op = "rollback" /\ op' = "rollback" /\ half # {} /\ half' = {}
        /\ files' = Copied /\ log' = Left
        /\ UNCHANGED <<before, torn, snapshot>>
    BY <1>16 DEF RollbackCopy, ghosts, Copied, Left
  <2>2. Copied' = Copied /\ Left' = Left
    BY <1>5, <2>1
  <2>3. (~torn => Retired(Copied))' /\ Alone(Left)' /\ \A q \in Archives : ArchiveKept(Left, Copied, q)'
    BY <2>1, <2>2 DEF RetireInv, Running, Retired, Alone, ArchiveKept, AceFirst
  <2>4. (~torn => Retired(before))'
    BY <2>1 DEF RetireInv, Running, Retired
  <2>5. (snapshot # Missing /\ ~snapshot.torn => Retired(snapshot.files))'
    BY <2>1 DEF RetireInv, Retired
  <2> QED
    BY <1>2, <2>1, <2>3, <2>4, <2>5 DEF RetireInv
<1>17. CASE BeginRestore
  <2>1. op' = "restore" /\ torn' = TRUE /\ UNCHANGED snapshot
    BY <1>17 DEF BeginRestore, Begin
  <2> QED
    BY <1>6, <2>1
<1>18. CASE RestoreNext
  <2>1. op = "restore" /\ op' = "restore" /\ torn' = torn /\ UNCHANGED snapshot
    BY <1>18 DEF RestoreNext, ghosts
  <2> QED
    BY <1>6, <2>1 DEF RetireInv
<1>19. CASE Restored
  <2>1. /\ op = "restore" /\ op' = "none" /\ UNCHANGED <<files, snapshot>> /\ torn' = snapshot.torn
        /\ \A i \in DOMAIN Order : ~Differs(Order[i])
    BY <1>19 DEF Restored, Finish
  <2>2. snapshot # Missing /\ snapshot.targets \in {Paths, Paths \ Native}
    BY <1>1, <2>1 DEF OpInv, SnapInv
  <2>3. Core \subseteq snapshot.targets
    BY <2>2, StateSaved DEF Core, Native
  <2>4. \A p \in Core : files[p] = snapshot.files[p]
    BY <2>1, <2>2, <2>3, NothingDiffers
  <2>5. ~torn' => Retired(files')
    BY <2>1, <2>2, <2>4, RetiredSame DEF RetireInv
  <2> QED
    BY <1>6, <2>1, <2>5
<1>20. CASE Person
  <2>1. op = "none" /\ op' = "none" /\ UNCHANGED <<torn, snapshot>>
    BY <1>20 DEF Person, ReplaceLink, EditMarked, Allow, Edit
  <2>2. half = {}
    BY <1>1, <2>1 DEF OpInv
  <2> QED
    BY <1>4, <1>6, <1>20, <2>1, <2>2, PersonRetires
<1>21. CASE UNCHANGED vars
  <2>1. UNCHANGED <<files, op, todo, log, half, snapshot, before, torn>>
    BY <1>21 DEF vars, ghosts
  <2>2. PhaseInv'
    BY <2>1 DEF PhaseInv, Pending, Has, Covered
  <2>3. Copied' = Copied /\ Left' = Left
    BY <2>1 DEF Copied, Left, Last
  <2>4. RetireInv'
    BY <2>1, <2>3 DEF RetireInv, Retired, Running, Alone, ArchiveKept, AceFirst
  <2> QED
    BY <2>2, <2>4
<1> QED
  BY <1>9, <1>10, <1>11, <1>12, <1>13, <1>14, <1>15, <1>16, <1>17, <1>18, <1>19, <1>20, <1>21 DEF Next

LEMMA InitRetire == Init => TurnInv /\ PhaseInv /\ RetireInv
<1> SUFFICES ASSUME Init PROVE TurnInv /\ PhaseInv /\ RetireInv
  OBVIOUS
<1>1. op = "none" /\ todo = <<>> /\ snapshot = Missing /\ half = {}
  BY DEF Init
<1>2. files["ace_machine.cfg.legacy"] = Missing /\ files["legacy"] = {}
  <2>1. PICK found \in Found : files = [p \in Paths |-> At(found, p)]
    BY DEF Init
  <2>2. At(found, "ace_machine.cfg.legacy") = Missing /\ At(found, "legacy") = {}
    BY DEF At, Gone, Links, Marked
  <2> QED
    BY <2>1, <2>2, StateSaved DEF Core
<1>3. Retired(files)
  BY <1>2 DEF Retired, Archives, Nothing
<1>4. TurnInv
  BY <1>1, NoStep DEF TurnInv, Promised, Pending
<1>5. Copied = files
  BY <1>1, NotHalf, InitFit DEF FitInv, TreeFits
<1> QED
  BY <1>1, <1>3, <1>4, <1>5 DEF PhaseInv, RetireInv, Running

(***************************************************************************)
(* What the snapshot of the last installation has of each archive.         *)
(***************************************************************************)
Traced(p, v) ==
  /\ p \in Archives /\ v # Nothing(p) =>
       Holds(snapshot.files, p) \/ Holds(snapshot.files, ArchivedFrom(p))
  /\ \A q \in Archives : p = ArchivedFrom(q) /\ v # Missing => Holds(snapshot.files, p)

TraceInv ==
  snapshot # Missing /\ ~since =>
    /\ \A p \in Paths : Traced(p, files[p])
    /\ \A i \in DOMAIN log : \A p \in Paths :
         p \in log[i].paths => Traced(p, log[i].files[p])

LEMMA GoneIs ==
  /\ Archives \subseteq Paths /\ \A q \in Archives : ArchivedFrom(q) \in Paths \ Archives
  /\ \A q \in Archives : Nothing(q) = Gone(q) /\ Gone(ArchivedFrom(q)) = Missing
BY PathsAre DEF Archives, ArchivedFrom, Nothing, Gone, Links, Marked, State, Configs

LEMMA TracedGone ==
  ASSUME NEW p
  PROVE  Traced(p, Gone(p))
BY GoneIs DEF Traced

LEMMA SavedTraced ==
  ASSUME NEW lg, IsSeq(lg), NEW S, S \subseteq Paths,
         \A p \in Paths : Traced(p, files[p]),
         \A i \in DOMAIN lg : \A p \in Paths : p \in lg[i].paths => Traced(p, lg[i].files[p])
  PROVE  \A i \in DOMAIN Saved(lg, S) : \A p \in Paths :
           p \in Saved(lg, S)[i].paths => Traced(p, Saved(lg, S)[i].files[p])
<1> DEFINE r == Saved(lg, S)
<1>1. \/ r = lg
      \/ /\ DOMAIN r = DOMAIN lg \cup {Len(lg) + 1} /\ r[Len(lg) + 1] = Entry(S)
         /\ \A i \in DOMAIN lg : r[i] = lg[i] /\ i < Len(lg) + 1
  BY SavedIs
<1> HIDE DEF r
<1>2. \A i \in DOMAIN r : (i \in DOMAIN lg /\ r[i] = lg[i]) \/ r[i] = Entry(S)
  BY <1>1
<1>3. \A p \in S : Entry(S).paths = S /\ Entry(S).files[p] = files[p]
  BY EntryIs
<1>4. \A i \in DOMAIN r : \A p \in Paths : p \in r[i].paths => Traced(p, r[i].files[p])
  BY <1>2, <1>3, EntryIs
<1> QED
  BY <1>4 DEF r

LEMMA ChangeTraced ==
  ASSUME Base, TurnInv, Change, op = "install", UNCHANGED snapshot,
         \A p \in Paths : Traced(p, files[p]),
         \A i \in DOMAIN log : \A p \in Paths : p \in log[i].paths => Traced(p, log[i].files[p])
  PROVE  /\ \A p \in Paths : Traced(p, files'[p])
         /\ \A i \in DOMAIN log' : \A p \in Paths : p \in log'[i].paths => Traced(p, log'[i].files[p])
<1>1. TodoInv /\ FitInv /\ Tree(files) /\ IsSeq(log)
  BY DEF Base, FitInv, TreeFits, OpInv
<1>2. \A i \in DOMAIN log' : \A p \in Paths : p \in log'[i].paths => Traced(p, log'[i].files[p])
  <2>1. CASE log' = log
    BY <2>1
  <2>2. ASSUME NEW S \in SUBSET Paths, log' = Saved(log, S)
        PROVE  \A i \in DOMAIN log' : \A p \in Paths : p \in log'[i].paths => Traced(p, log'[i].files[p])
    BY <1>1, <2>2, SavedTraced
  <2>3. ASSUME NEW S \in SUBSET Paths, NEW T \in SUBSET Paths, log' = Saved(Saved(log, S), T)
        PROVE  \A i \in DOMAIN log' : \A p \in Paths : p \in log'[i].paths => Traced(p, log'[i].files[p])
    <3> DEFINE lg == Saved(log, S)
    <3>1. IsSeq(lg) /\ \A i \in DOMAIN lg : \A p \in Paths : p \in lg[i].paths => Traced(p, lg[i].files[p])
      BY <1>1, SavedIs, SavedTraced
    <3> HIDE DEF lg
    <3>2. log' = Saved(lg, T)
      BY <2>3 DEF lg
    <3> QED
      BY <3>1, <3>2, SavedTraced
  <2> QED
    BY <2>1, <2>2, <2>3, ChangeLogs
<1>3. \A p \in Paths : p \notin Core => \A v : Traced(p, v)
  BY DEF Traced, Archives, ArchivedFrom, Core
<1>4. ASSUME NEW p \in Core
      PROVE  Traced(p, files'[p])
  <2>1. CASE files'[p] = files[p] \/ files'[p] = Gone(p)
    BY <1>4, <2>1, TracedGone, StateSaved
  <2>2. CASE p = "ace.cfg"
    BY <2>2 DEF Traced, Archives, ArchivedFrom
  <2>3. CASE ArchiveMachine /\ files["ace_machine.cfg"] # Missing
    <3>1. files' = [files EXCEPT !["ace_machine.cfg"] = Missing,
                                 !["ace_machine.cfg.legacy"] = files["ace_machine.cfg"]]
      BY <2>3 DEF ArchiveMachine
    <3>2. Traced("ace_machine.cfg", files["ace_machine.cfg"])
      BY StateSaved DEF Core
    <3>3. Traced("ace_machine.cfg.legacy", files["ace_machine.cfg"])
      BY <2>3, <3>2 DEF Traced, Archives, ArchivedFrom
    <3>4. Gone("ace_machine.cfg") = Missing
      BY DEF Gone, Links, Marked
    <3> QED
      BY <1>1, <2>1, <3>1, <3>3, <3>4, StateSaved DEF Core, Tree
  <2>4. CASE ArchiveHardware /\ files["ace_hardware.cfg"] # Missing
    <3> DEFINE v == files["legacy"] \cup {files["ace_hardware.cfg"]}
    <3>1. files' = [files EXCEPT !["ace_hardware.cfg"] = Missing, !["legacy"] = v]
      BY <2>4 DEF ArchiveHardware
    <3> HIDE DEF v
    <3>2. Traced("ace_hardware.cfg", files["ace_hardware.cfg"])
      BY StateSaved DEF Core
    <3>3. Traced("legacy", v)
      BY <2>4, <3>2 DEF Traced, Archives, ArchivedFrom
    <3>4. Gone("ace_hardware.cfg") = Missing
      BY DEF Gone, Links, Marked
    <3> QED
      BY <1>1, <2>1, <3>1, <3>3, <3>4, StateSaved DEF Core, Tree
  <2>5. CASE (ArchiveMachine /\ files["ace_machine.cfg"] = Missing)
             \/ (ArchiveHardware /\ files["ace_hardware.cfg"] = Missing)
    BY <2>1, <2>5 DEF ArchiveMachine, ArchiveHardware
  <2>6. CASE Create \/ Upgrade \/ Merge
    <3>1. files' = files \/ \E v : files' = [files EXCEPT !["ace.cfg"] = v]
      <4>1. CASE Merge
        <5> DEFINE v == [files["ace.cfg"] EXCEPT !.topology = generated]
        <5>1. files' = [files EXCEPT !["ace.cfg"] = v]
          BY <4>1 DEF Merge
        <5> QED
          BY <5>1
      <4> QED
        BY <2>6, <4>1 DEF Create, Upgrade, Put
    <3> QED
      BY <1>1, <2>1, <2>2, <3>1, StateSaved DEF Tree
  <2>7. CASE Aside
    BY <2>1, <2>7 DEF Aside
  <2> QED
    BY <1>1, <2>3, <2>4, <2>5, <2>6, <2>7, ConfigOrAside DEF ConfigChange
<1> QED
  BY <1>2, <1>3, <1>4

LEMMA NextTrace ==
  ASSUME Base, TurnInv, SnapInv, TraceInv, [Next]_vars
  PROVE  TraceInv'
<1>1. TodoInv /\ OpInv /\ FitInv /\ Tree(files) /\ IsSeq(log)
  BY DEF Base, FitInv, TreeFits, OpInv
<1>2. ASSUME since'
      PROVE  TraceInv'
  BY <1>2 DEF TraceInv
<1>3. ASSUME UNCHANGED <<snapshot, since>>,
             \A p \in Paths : files'[p] = files[p] \/ files'[p] = Gone(p) \/ Traced(p, files'[p]),
             \A i \in DOMAIN log' : i \in DOMAIN log /\ log'[i] = log[i]
      PROVE  TraceInv'
  <2>1. \A p, v : Traced(p, v)' <=> Traced(p, v')
    BY <1>3 DEF Traced, Holds
  <2> QED
    BY <1>3, <2>1, TracedGone DEF TraceInv, Traced, Holds
<1>4. CASE Change
  <2>1. UNCHANGED <<op, snapshot, since>> /\ op \in {"install", "uninstall"}
    BY <1>4, ChangeLogs DEF Change, ghosts
  <2>2. CASE since \/ op = "uninstall"
    BY <1>2, <2>1, <2>2 DEF SnapInv
  <2>3. CASE ~since /\ op = "install" /\ snapshot # Missing
    BY <1>4, <2>1, <2>3, ChangeTraced DEF TraceInv, Traced, Holds
  <2> QED
    BY <2>1, <2>2, <2>3 DEF TraceInv
<1>5. ASSUME NEW units \in Devices, NEW tree \in Sources, Install(units, tree)
      PROVE  TraceInv'
  <2>1. log' = <<>> /\ files' = files
        /\ (snapshot' = Snapshot(tree) \/ since' = TRUE)
    BY <1>5 DEF Install, Begin
  <2>2. CASE since' = TRUE
    BY <1>2, <2>2
  <2>3. CASE snapshot' = Snapshot(tree)
    <3>1. snapshot'.files = files
      BY <2>3 DEF Snapshot
    <3>2. \A p \in Paths : Traced(p, files[p])'
      BY <2>1, <3>1, GoneIs DEF Traced, Holds
    <3> QED
      BY <2>1, <3>2, EmptyList DEF TraceInv
  <2> QED
    BY <2>1, <2>2, <2>3
<1>6. CASE \E tree \in Sources : Uninstall(tree)
  BY <1>2, <1>6 DEF Uninstall
<1>7. CASE Commit \/ RolledBack \/ Kill \/ RestoreStops \/ Fail \/ BeginRestore \/ Restored
  <2>1. UNCHANGED <<files, snapshot, since>> /\ log' \in {log, <<>>}
    BY <1>7 DEF Commit, RolledBack, Kill, RestoreStops, Fail, BeginRestore, Restored, Finish, Begin, ghosts
  <2> QED
    BY <1>3, <2>1, EmptyList
<1>8. CASE RollbackRemove \/ RollbackCopy
  <2>1. UNCHANGED <<snapshot, since>> /\ log # <<>> /\ (log' = log \/ log' = SubSeq(log, 1, Len(log) - 1))
    BY <1>1, <1>8 DEF RollbackRemove, RollbackCopy, OpInv, ghosts
  <2>2. /\ \A i \in DOMAIN log' : i \in DOMAIN log /\ log'[i] = log[i]
        /\ Len(log) \in DOMAIN log /\ Last = log[Len(log)]
    BY <1>1, <2>1, Dropped DEF Last
  <2>3. snapshot # Missing /\ ~since => \A p \in Paths : p \in Last.paths => Traced(p, Last.files[p])
    BY <2>2 DEF TraceInv
  <2>4. snapshot # Missing /\ ~since =>
          \A p \in Paths : files'[p] = files[p] \/ files'[p] = Gone(p) \/ Traced(p, files'[p])
    BY <1>1, <1>8, <2>3 DEF RollbackRemove, RollbackCopy, OpInv
  <2>5. snapshot # Missing /\ ~since => TraceInv'
    BY <1>3, <2>1, <2>2, <2>4
  <2> QED
    BY <2>1, <2>5 DEF TraceInv
<1>9. CASE RestoreNext
  <2>1. UNCHANGED <<snapshot, since, log>>
        /\ \A p \in Paths : files'[p] = files[p] \/ files'[p] = snapshot.files[p]
    BY <1>9 DEF RestoreNext, ghosts
  <2>2. \A p : Traced(p, snapshot.files[p])
    BY GoneIs DEF Traced, Holds
  <2>3. \A p \in Paths : files'[p] = files[p] \/ files'[p] = Gone(p) \/ Traced(p, files'[p])
    BY <2>1, <2>2
  <2> QED
    BY <1>3, <2>1, <2>3
<1>10. CASE Person
  BY <1>2, <1>10 DEF Person, ReplaceLink, EditMarked, Allow, Edit
<1>11. CASE UNCHANGED vars
  <2>1. UNCHANGED <<files, log, snapshot, since>>
    BY <1>11 DEF vars, ghosts
  <2> QED
    BY <1>3, <2>1
<1> QED
  BY <1>4, <1>5, <1>6, <1>7, <1>8, <1>9, <1>10, <1>11 DEF Next

TurnsInv == Base /\ TurnInv /\ UndoInv /\ SnapInv /\ PhaseInv /\ RetireInv /\ TraceInv

LEMMA TurnsHold == Spec => []TurnsInv
<1>1. Init => TurnInv /\ PhaseInv /\ RetireInv
  BY InitRetire
<1>2. Init => TraceInv
  BY DEF Init, TraceInv
<1>3. /\ Base /\ Base' /\ TurnInv /\ UndoInv /\ UndoInv' /\ SnapInv /\ PhaseInv /\ RetireInv
      /\ TraceInv /\ [Next]_vars
      => TurnInv' /\ PhaseInv' /\ RetireInv' /\ TraceInv'
  <2>1. Base' => OpInv' /\ FitInv'
    BY DEF Base
  <2> QED
    BY <2>1, NextTurn, NextRetire, NextTrace DEF Base
<1>4. TurnsInv <=> Base /\ TurnInv /\ UndoInv /\ SnapInv /\ PhaseInv /\ RetireInv /\ TraceInv
  BY DEF TurnsInv
<1> QED
  BY <1>1, <1>2, <1>3, <1>4, BaseHolds, UndoHolds, SnapHolds, PTL DEF Spec

\* ace_machine.cfg and ace_hardware.cfg are archived only when ace.cfg has what they
\* said: do_install merges before it archives, and rollback goes back in the opposite
\* order.  A power loss leaves it so as well, unless the rollback had removed ace.cfg
\* and not copied it back; then the snapshot has it.
THEOREM RetiredInTime == Spec => []NothingRetiredTooEarly
<1>1. TurnsInv => NothingRetiredTooEarly
  <2> SUFFICES ASSUME TurnsInv, NEW q \in Archives, Holds(files, q)
               PROVE  /\ ~torn => Says(IF "ace.cfg" \in half THEN Last.files ELSE files, q)
                      /\ snapshot # Missing /\ ~since /\ ~snapshot.torn =>
                           Says(snapshot.files, q) \/ Holds(snapshot.files, ArchivedFrom(q))
    BY DEF NothingRetiredTooEarly
  <2>1. RetireInv /\ TraceInv
    BY DEF TurnsInv
  <2>2. ASSUME NEW f, Tells(f["ace.cfg"], q)
        PROVE  Says(f, q)
    BY <2>2 DEF Tells, Says, Real, Archives
  <2>3. q \in Paths /\ Nothing(q) = Gone(q) /\ "ace.cfg" \in Paths
    BY GoneIs, PathsAre DEF Configs
  <2>4. ASSUME ~torn
        PROVE  Says(IF "ace.cfg" \in half THEN Last.files ELSE files, q)
    <3>1. q \notin half
      BY <2>1, <2>3 DEF RetireInv, Holds
    <3>2. Copied[q] = files[q] /\ Copied["ace.cfg"] = IF "ace.cfg" \in half THEN Last.files["ace.cfg"]
                                                       ELSE files["ace.cfg"]
      BY <2>3, <3>1 DEF Copied
    <3>3. Tells(Copied["ace.cfg"], q)
      BY <2>1, <2>3, <2>4, <3>2 DEF RetireInv, Retired, Holds
    <3> QED
      BY <2>2, <3>2, <3>3
  <2>5. ASSUME snapshot # Missing, ~since, ~snapshot.torn
        PROVE  Says(snapshot.files, q) \/ Holds(snapshot.files, ArchivedFrom(q))
    <3>1. Traced(q, files[q])
      BY <2>1, <2>3, <2>5 DEF TraceInv
    <3>2. Holds(snapshot.files, q) \/ Holds(snapshot.files, ArchivedFrom(q))
      BY <2>3, <3>1 DEF Traced, Holds
    <3>3. Holds(snapshot.files, q) => Tells(snapshot.files["ace.cfg"], q)
      BY <2>1, <2>3, <2>5 DEF RetireInv, Retired, Holds
    <3> QED
      BY <2>2, <3>2, <3>3
  <2> QED
    BY <2>4, <2>5
<1> QED
  BY <1>1, TurnsHold, PTL

(***************************************************************************)
(* Which steps touch a link, and what they leave alone of the other one.   *)
(***************************************************************************)
Blocks == {"printer.cfg", "moonraker.conf"}

LEMMA InstallActs ==
  ASSUME TodoInv, op = "install", Change
  PROVE  \/ \E l \in Links : InstallLink(l) \/ Link(l) \/ Record(l)
         \/ Check \/ Apply \/ Note \/ ConfigChange
         \/ \E c \in Blocks : Ensure(c)
<1>1. ASSUME NEW n, NEW p, Step(n, p)
      PROVE  <<n, p>> \in InstallSet
  <2>1. <<n, p>> \in Pending
    BY <1>1, StepTaken
  <2> QED
    BY <2>1 DEF TodoInv
<1> DEFINE Others == {"unlink", "give_back", "unpatch", "clean", "remove"}
<1>5. ASSUME NEW n \in Others, NEW p
      PROVE  ~Step(n, p)
  <2>1. <<n, p>> \notin InstallSet
    BY DEF InstallSet
  <2> QED
    BY <1>1, <2>1
<1>2. ~(\E l \in Links : Unlink(l) \/ GiveBack(l))
  BY <1>5 DEF Unlink, GiveBack
<1>3. ~(Unpatch \/ Clean) /\ ~(\E c \in Marked : RemoveBlock(c))
  BY <1>5 DEF Unpatch, Clean, RemoveBlock
<1>4. \A c \in Marked : Ensure(c) => c \in Blocks
  BY <1>1 DEF Ensure, InstallSet, Blocks
<1> QED
  BY <1>2, <1>3, <1>4 DEF Change, ConfigChange

LEMMA UninstallActs ==
  ASSUME TodoInv, op = "uninstall", Change
  PROVE  \/ \E l \in Links : Unlink(l) \/ GiveBack(l)
         \/ Unpatch \/ Clean
         \/ \E c \in Blocks : RemoveBlock(c)
<1>1. ASSUME NEW n, NEW p, Step(n, p)
      PROVE  <<n, p>> \in UninstallSet
  <2>1. <<n, p>> \in Pending
    BY <1>1, StepTaken
  <2> QED
    BY <2>1 DEF TodoInv
<1> DEFINE Others == {"install_link", "link", "record", "record_backup", "check", "apply", "note", "ensure"}
<1>6. ASSUME NEW n \in Others, NEW p
      PROVE  ~Step(n, p)
  <2>1. <<n, p>> \notin UninstallSet
    BY DEF UninstallSet
  <2> QED
    BY <1>1, <2>1
<1>2. ~(\E l \in Links : InstallLink(l) \/ Link(l) \/ Record(l))
  BY <1>6 DEF InstallLink, Link, Record
<1>3. ~(Check \/ Apply \/ Note) /\ ~(\E c \in Marked : Ensure(c))
  BY <1>6 DEF Check, Apply, Note, Ensure
<1>4. ~ConfigChange
  BY <1>1 DEF ConfigChange, Create, Upgrade, ArchiveMachine, Merge, ArchiveHardware, UninstallSet
<1>5. \A c \in Marked : RemoveBlock(c) => c \in Blocks
  BY <1>1 DEF RemoveBlock, UninstallSet, Blocks
<1> QED
  BY <1>2, <1>3, <1>4, <1>5 DEF Change, ConfigChange

\* What a change of the configuration leaves alone.
LEMMA ConfigFrame ==
  ASSUME Tree(files), ConfigChange
  PROVE  \A p \in Paths : p \notin Core => files'[p] = files[p]
<1>1. Core \subseteq Paths
  BY StateSaved
<1>2. CASE Create \/ Upgrade \/ Merge
  <2>1. \E v : files' = [files EXCEPT !["ace.cfg"] = v] \/ files' = files
    BY <1>2 DEF Create, Upgrade, Merge, Put
  <2> QED
    BY <1>1, <2>1 DEF Tree, Core
<1>3. CASE ArchiveMachine \/ ArchiveHardware
  BY <1>1, <1>3 DEF ArchiveMachine, ArchiveHardware, Tree, Core
<1> QED
  BY <1>2, <1>3 DEF ConfigChange

Linking == {"link", "record", "record_backup"}

\* What an installation knows of the link l.
SameLink(l) ==
  /\ files'[l] = files[l] /\ files'["manifest"][l] = files["manifest"][l]
  /\ files'["backups"][l] = files["backups"][l]
  /\ \A n \in Linking : <<n, l>> \in Pending' <=> <<n, l>> \in Pending

LEMMA InstallFrame ==
  ASSUME TodoInv, FitInv, op = "install", Change, NEW l \in Links
  PROVE  InstallLink(l) \/ Link(l) \/ Record(l) \/ SameLink(l)
<1>1. Tree(files) /\ Links \subseteq Paths /\ State \subseteq Paths /\ {"manifest", "backups"} \subseteq State
      /\ Core \subseteq Paths /\ Marked \subseteq Paths
  BY PathsAre, StateSaved DEF FitInv, TreeFits, State
<1>2. ASSUME NEW n, NEW p, Step(n, p), Then(<<>>), n \notin Linking \/ p # l
      PROVE  \A k \in Linking : <<k, l>> \in Pending' <=> <<k, l>> \in Pending
  <2>1. Pending' = Pending \ {<<n, p>>}
    BY <1>2, ThenNothing
  <2>2. \A k \in Linking : <<k, l>> # <<n, p>>
    BY <1>2
  <2> QED
    BY <2>1, <2>2
<1>3. ASSUME NEW p \in Paths \ {l, "manifest", "backups"}, NEW v, files' = [files EXCEPT ![p] = v] \/ files' = files
      PROVE  /\ files'[l] = files[l] /\ files'["manifest"][l] = files["manifest"][l]
             /\ files'["backups"][l] = files["backups"][l]
  BY <1>1, <1>3 DEF Tree
<1>4. ASSUME NEW k \in Links, k # l, InstallLink(k) \/ Link(k) \/ Record(k)
      PROVE  SameLink(l)
  <2>1. k \in Paths \ {l, "manifest", "backups"} /\ l \in Paths \ {"manifest", "backups"}
    BY <1>1, <1>4 DEF Links
  <2>2. CASE InstallLink(k)
    <3>1. files' = files \/ files' = [files EXCEPT !["backups"][k] = files[k]]
      BY <2>2 DEF InstallLink
    <3>2. files["backups"] \in [Links -> {"none", "own", "newer"}]
      BY EntryOf
    <3>3. /\ files'[l] = files[l] /\ files'["manifest"][l] = files["manifest"][l]
          /\ files'["backups"][l] = files["backups"][l]
      BY <1>1, <1>4, <2>1, <3>1, <3>2 DEF Tree
    <3>4. ASSUME NEW kind \in {"record", "record_backup"}, Step("install_link", k),
                 Then(<< <<"link", k>>, <<kind, k>> >>)
          PROVE  \A n \in Linking : <<n, l>> \in Pending' <=> <<n, l>> \in Pending
      <4>1. Pending' = {<<"link", k>>, <<kind, k>>} \cup (Pending \ {<<"install_link", k>>})
        BY <3>4, InstallLinkTakes
      <4>2. \A n \in Linking : <<n, l>> \notin {<<"link", k>>, <<kind, k>>, <<"install_link", k>>}
        BY <1>4
      <4> QED
        BY <4>1, <4>2
    <3>5. "install_link" \notin Linking
      BY DEF Linking
    <3>6. \A n \in Linking : <<n, l>> \in Pending' <=> <<n, l>> \in Pending
      BY <1>2, <2>2, <3>4, <3>5 DEF InstallLink
    <3> QED
      BY <3>3, <3>6 DEF SameLink
  <2>3. CASE Link(k)
    <3>1. /\ files'[l] = files[l] /\ files'["manifest"][l] = files["manifest"][l]
          /\ files'["backups"][l] = files["backups"][l]
      BY <1>3, <2>1, <2>3 DEF Link, Put
    <3> QED
      BY <1>2, <1>4, <2>3, <3>1 DEF Link, SameLink
  <2>4. CASE Record(k)
    <3>1. PICK kind \in {"record", "record_backup"} : Step(kind, k) /\ Then(<<>>)
      BY <2>4 DEF Record
    <3>2. files' = files \/ \E t \in {"-", "kept"} : files' = [files EXCEPT !["manifest"][k] = t]
      BY <2>4 DEF Record
    <3>3. files["manifest"] \in [Links -> {"no", "-", "kept"}]
      BY EntryOf
    <3>4. /\ files'[l] = files[l] /\ files'["manifest"][l] = files["manifest"][l]
          /\ files'["backups"][l] = files["backups"][l]
      BY <1>1, <1>4, <2>1, <3>2, <3>3 DEF Tree
    <3> QED
      BY <1>2, <1>4, <3>1, <3>4 DEF SameLink
  <2> QED
    BY <1>4, <2>2, <2>3, <2>4
<1>5. {"check", "apply", "note", "ensure", "create", "upgrade", "archive", "merge"} \cap Linking = {}
  BY DEF Linking
<1>6. CASE Check \/ Apply \/ Note
  <2>1. \A k \in Linking : <<k, l>> \in Pending' <=> <<k, l>> \in Pending
    BY <1>2, <1>5, <1>6 DEF Check, Apply, Note
  <2>2. \E p \in {"fluidd", "fluidd-source.path"} : \E v : files' = [files EXCEPT ![p] = v] \/ files' = files
    BY <1>6 DEF Check, Apply, Note, Put
  <2>3. {"fluidd", "fluidd-source.path"} \subseteq Paths \ {l, "manifest", "backups"}
    BY <1>1 DEF Marked, State, Links
  <2>4. /\ files'[l] = files[l] /\ files'["manifest"][l] = files["manifest"][l]
        /\ files'["backups"][l] = files["backups"][l]
    BY <1>3, <2>2, <2>3
  <2> QED
    BY <2>1, <2>4 DEF SameLink
<1>7. CASE ConfigChange
  <2>1. \A k \in Linking : <<k, l>> \in Pending' <=> <<k, l>> \in Pending
    BY <1>2, <1>5, <1>7 DEF ConfigChange, Create, Upgrade, Merge, ArchiveMachine, ArchiveHardware
  <2>2. \A p \in Paths : p \notin Core => files'[p] = files[p]
    BY <1>1, <1>7, ConfigFrame
  <2>3. {l, "manifest", "backups"} \subseteq Paths \ Core
    BY <1>1 DEF Links, Core, State
  <2> QED
    BY <2>1, <2>2, <2>3 DEF SameLink
<1>8. ASSUME NEW c \in Blocks, Ensure(c)
      PROVE  SameLink(l)
  <2>1. \A k \in Linking : <<k, l>> \in Pending' <=> <<k, l>> \in Pending
    BY <1>2, <1>5, <1>8 DEF Ensure
  <2>2. c \in Paths \ {l, "manifest", "backups"}
    BY <1>1 DEF Marked, Blocks, Links
  <2>3. /\ files'[l] = files[l] /\ files'["manifest"][l] = files["manifest"][l]
        /\ files'["backups"][l] = files["backups"][l]
    BY <1>3, <1>8, <2>2 DEF Ensure, Put
  <2> QED
    BY <2>1, <2>3 DEF SameLink
<1> QED
  BY <1>4, <1>6, <1>7, <1>8, InstallActs

Unlinking == {"unlink", "give_back"}

\* What an uninstallation knows of the link l until it is done with it.
SameUnlink(l) ==
  /\ files'[l] = files[l]
  /\ \A n \in Unlinking : <<n, l>> \in Pending' <=> <<n, l>> \in Pending
  /\ \A n \in Unlinking : <<n, l>> \in Pending =>
       /\ files'["manifest"][l] = files["manifest"][l]
       /\ files'["backups"][l] = files["backups"][l]

LEMMA UninstallFrame ==
  ASSUME TodoInv, FitInv, op = "uninstall", Change, NEW l \in Links
  PROVE  Unlink(l) \/ GiveBack(l) \/ SameUnlink(l)
<1>1. Tree(files) /\ Links \subseteq Paths /\ State \subseteq Paths /\ {"manifest", "backups"} \subseteq State
      /\ Marked \subseteq Paths
  BY PathsAre DEF FitInv, TreeFits, State
<1>2. ASSUME NEW n, NEW p, Step(n, p), Then(<<>>), n \notin Unlinking \/ p # l
      PROVE  \A k \in Unlinking : <<k, l>> \in Pending' <=> <<k, l>> \in Pending
  <2>1. Pending' = Pending \ {<<n, p>>}
    BY <1>2, ThenNothing
  <2>2. \A k \in Unlinking : <<k, l>> # <<n, p>>
    BY <1>2
  <2> QED
    BY <2>1, <2>2
<1>3. ASSUME NEW p \in Paths \ {l, "manifest", "backups"}, NEW v, files' = [files EXCEPT ![p] = v] \/ files' = files
      PROVE  /\ files'[l] = files[l] /\ files'["manifest"][l] = files["manifest"][l]
             /\ files'["backups"][l] = files["backups"][l]
  BY <1>1, <1>3 DEF Tree
<1>4. ASSUME NEW k \in Links, k # l, Unlink(k) \/ GiveBack(k)
      PROVE  SameUnlink(l)
  <2>1. k \in Paths \ {l, "manifest", "backups"}
    BY <1>1, <1>4 DEF Links
  <2>2. /\ files'[l] = files[l] /\ files'["manifest"][l] = files["manifest"][l]
        /\ files'["backups"][l] = files["backups"][l]
    BY <1>3, <1>4, <2>1 DEF Unlink, GiveBack, Put
  <2>3. ASSUME Step("unlink", k), Then(<< <<"give_back", k>> >>)
        PROVE  \A n \in Unlinking : <<n, l>> \in Pending' <=> <<n, l>> \in Pending
    <3>1. Pending' = {<<"give_back", k>>} \cup (Pending \ {<<"unlink", k>>})
      BY <2>3, UnlinkTakes
    <3>2. \A n \in Unlinking : <<n, l>> \notin {<<"give_back", k>>, <<"unlink", k>>}
      BY <1>4
    <3> QED
      BY <3>1, <3>2
  <2>4. \A n \in Unlinking : <<n, l>> \in Pending' <=> <<n, l>> \in Pending
    BY <1>2, <1>4, <2>3 DEF Unlink, GiveBack
  <2> QED
    BY <2>2, <2>4 DEF SameUnlink
<1>5. {"unpatch", "clean", "remove"} \cap Unlinking = {}
  BY DEF Unlinking
<1>6. CASE Unpatch
  <2>1. \A k \in Unlinking : <<k, l>> \in Pending' <=> <<k, l>> \in Pending
    BY <1>2, <1>5, <1>6 DEF Unpatch
  <2>2. "fluidd" \in Paths \ {l, "manifest", "backups"}
    BY <1>1 DEF Marked, Links
  <2>3. \E v : files' = [files EXCEPT !["fluidd"] = v] \/ files' = files
    BY <1>6 DEF Unpatch, Put
  <2> QED
    BY <1>3, <2>1, <2>2, <2>3 DEF SameUnlink
<1>7. ASSUME NEW c \in Blocks, RemoveBlock(c)
      PROVE  SameUnlink(l)
  <2>1. \A k \in Unlinking : <<k, l>> \in Pending' <=> <<k, l>> \in Pending
    BY <1>2, <1>5, <1>7 DEF RemoveBlock
  <2>2. c \in Paths \ {l, "manifest", "backups"}
    BY <1>1 DEF Marked, Blocks, Links
  <2>3. \E v : files' = [files EXCEPT ![c] = v] \/ files' = files
    BY <1>7 DEF RemoveBlock, Put
  <2> QED
    BY <1>3, <2>1, <2>2, <2>3 DEF SameUnlink
<1>8. CASE Clean
  <2>1. PICK p \in State \ {"legacy"} : Step("clean", p) /\ Then(<<>>) /\ \E v : files' = [files EXCEPT ![p] = v]
    BY <1>8 DEF Clean, Put
  <2>2. \A k \in Unlinking : <<k, l>> \in Pending' <=> <<k, l>> \in Pending
    BY <1>2, <1>5, <2>1
  <2>3. \A n \in Unlinking : <<n, l>> \notin Pending
    <3>1. \A b \in Pending : b = <<"clean", p>> \/ Rank[<<"clean", p>>] < Rank[b]
      BY <2>1, StepTaken
    <3>2. p \in {"manifest", "backups", "fluidd-source.path"}
      BY DEF State
    <3>3. Rank[<<"clean", p>>] \in Nat /\ Rank[<<"clean", p>>] > 27
      BY <3>2, RankValues
    <3>4. Rank[<<"unlink", l>>] < 26 /\ Rank[<<"give_back", l>>] < 26
          /\ Rank[<<"unlink", l>>] \in Nat /\ Rank[<<"give_back", l>>] \in Nat
      BY RankValues DEF Links
    <3>5. ASSUME NEW n \in Unlinking, <<n, l>> \in Pending
          PROVE  FALSE
      <4>1. Rank[<<"clean", p>>] < Rank[<<n, l>>]
        BY <3>1, <3>5 DEF Unlinking
      <4> QED
        BY <3>3, <3>4, <4>1 DEF Unlinking
    <3> QED
      BY <3>5
  <2>4. files'[l] = files[l]
    BY <1>1, <2>1 DEF Tree, Links, State
  <2> QED
    BY <2>2, <2>3, <2>4 DEF SameUnlink
<1> QED
  BY <1>4, <1>6, <1>7, <1>8, UninstallActs

(***************************************************************************)
(* The records.  Between runs every link is recorded as what it is; while  *)
(* a run works on a link, it is at one of few stages of being linked or    *)
(* given back.                                                             *)
(***************************************************************************)
\* What the record of the link l says was at its place, and a link of ours is
\* recorded.  Whatever else may be there now.
Told(f, l) ==
  /\ f["manifest"][l] = "kept" => f["backups"][l] = original[l] /\ original[l] # "none"
  /\ f["manifest"][l] = "-" => original[l] = "none"

LinkSettled(f, l) ==
  /\ f[l] = "ours" => f["manifest"][l] # "no"
  /\ f["manifest"][l] = "no" => f["backups"][l] = "none"
  /\ Told(f, l)

\* The tree of the page is noted while it is patched, unless another one was named
\* after it.
Settled(f, other) ==
  /\ \A l \in Links : LinkSettled(f, l)
  /\ f["fluidd"].block = TRUE => f["fluidd-source.path"] = "this" \/ other
  /\ f["ace_hardware.cfg"] = Missing \/ f["ace.cfg"] = Missing \/ f["ace.cfg"].topology = <<>>

Waits(n, l) == <<n, l>> \in Pending

\* What is about to be recorded of l is true.
WillTell(l) ==
  /\ Waits("record", l) \/ Waits("record_backup", l)
  /\ Waits("record", l) => original[l] = "none"
  /\ Waits("record_backup", l) => files["backups"][l] = original[l] /\ original[l] # "none"

Recorded(l) == ~Waits("record", l) /\ ~Waits("record_backup", l)

Installing(l) ==
  \/ files["manifest"][l] # "no" /\ Told(files, l)
  \/ /\ files["manifest"][l] = "no" /\ files[l] = original[l] /\ files[l] # "ours"
     /\ IF Waits("link", l) THEN WillTell(l) ELSE Recorded(l) /\ files["backups"][l] = "none"
  \/ /\ files["manifest"][l] = "no" /\ files[l] = "ours"
     /\ ~Waits("link", l) /\ WillTell(l)

Uninstalling(l) ==
  /\ Waits("unlink", l) => LinkSettled(files, l) /\ files[l] = before[l]
  /\ Waits("give_back", l) => before[l] = "ours" /\ files["backups"][l] = original[l]
  /\ ~Waits("unlink", l) /\ ~Waits("give_back", l) =>
       files[l] # "ours" /\ files[l] = IF before[l] = "ours" THEN original[l] ELSE before[l]

\* A patched page is noted, or will be, unless the run is given another tree.
PatchTold ==
  /\ files["fluidd"].block = TRUE =>
       \/ source = "other"
       \/ files["fluidd-source.path"] = "this"
       \/ source = "none" /\ elsewhere
       \/ source = "this" /\ Waits("note", "fluidd")
  /\ Waits("apply", "fluidd") => source = "this"
  /\ Waits("note", "fluidd") => source # "none"

InstallClean == PatchTold /\ \A l \in Links : Installing(l)

\* The page will be unpatched, unless the run, or the last one that was given a
\* tree, was given another one.
WillUnpatch ==
  files["fluidd"].block = TRUE =>
    \/ source = "other"
    \/ source = "none" /\ elsewhere
    \/ /\ Waits("unpatch", "fluidd")
       /\ source = "this" \/ (source = "none" /\ files["fluidd-source.path"] = "this")

UninstallClean ==
  /\ \A l \in Links : Uninstalling(l)
  /\ WillUnpatch
  /\ \A c \in Blocks : files[c].block = TRUE => Waits("remove", c)
  /\ \A p \in {"manifest", "backups"} :
       ~Waits("clean", p) => \A l \in Links : files[p][l] = Gone(p)[l]
  /\ \A p \in {"legacy", "ace.cfg", "ace_hardware.cfg"} : files[p] = before[p]

CleanInv ==
  /\ ~astray =>
      /\ op = "none" => Settled(files, elsewhere)
      /\ Running => Settled(before, elsewhere)
      /\ op = "install" => InstallClean
      /\ op = "uninstall" => UninstallClean
  /\ snapshot # Missing /\ ~since /\ ~snapshot.astray => Settled(snapshot.files, snapshot.elsewhere)
  /\ UninstallIsClean

LEMMA InstallKeepsLink ==
  ASSUME Base, TurnInv, op = "install", Change, NEW l \in Links, Installing(l)
  PROVE  Installing(l)'
<1>1. TodoInv /\ FitInv /\ Tree(files) /\ l \in Paths /\ "manifest" \in Paths /\ "backups" \in Paths
      /\ l # "manifest" /\ l # "backups" /\ Promised(l)
  BY PathsAre DEF Base, FitInv, TreeFits, State, Links, TurnInv
<1>2. original' = original
  BY DEF Change, ghosts
<1>3. /\ files["backups"] \in [Links -> {"none", "own", "newer"}]
      /\ files["manifest"] \in [Links -> {"no", "-", "kept"}]
      /\ files[l] \in {"none", "own", "newer", "ours"}
  BY <1>1, EntryOf
<1>4. CASE SameLink(l)
  <2>1. /\ files'[l] = files[l] /\ files'["manifest"][l] = files["manifest"][l]
        /\ files'["backups"][l] = files["backups"][l]
        /\ Waits("link", l)' <=> Waits("link", l)
        /\ Waits("record", l)' <=> Waits("record", l)
        /\ Waits("record_backup", l)' <=> Waits("record_backup", l)
    BY <1>4 DEF SameLink, Linking, Waits
  <2> QED
    BY <1>2, <2>1 DEF Installing, Told, WillTell, Recorded
<1>5. CASE InstallLink(l)
  <2>1. ~Waits("link", l) /\ Recorded(l)
    <3>1. <<"install_link", l>> \in Pending
      BY <1>1, <1>5, StepTaken DEF InstallLink
    <3> QED
      BY <1>1, <3>1 DEF TodoInv, Waits, Recorded
  <2>2. ASSUME NEW kind \in {"record", "record_backup"}, Then(<< <<"link", l>>, <<kind, l>> >>)
        PROVE  /\ Waits("link", l)' /\ Waits(kind, l)'
               /\ \A k \in {"record", "record_backup"} : Waits(k, l)' => k = kind
    <3>1. Pending' = {<<"link", l>>, <<kind, l>>} \cup (Pending \ {<<"install_link", l>>})
      BY <1>1, <1>5, <2>2, InstallLinkTakes DEF InstallLink
    <3> QED
      BY <2>1, <3>1 DEF Waits, Recorded
  <2>3. CASE files[l] = "ours"
    <3>1. Then(<<>>) /\ files' = files
      BY <1>5, <2>3 DEF InstallLink
    <3>2. files["manifest"][l] # "no" /\ Told(files, l)
      BY <2>1, <2>3 DEF Installing, WillTell, Recorded
    <3> QED
      BY <1>2, <3>1, <3>2 DEF Installing, Told
  <2>4. CASE files[l] = "none"
    <3>1. Then(<< <<"link", l>>, <<"record", l>> >>) /\ files' = files
      BY <1>5, <2>4 DEF InstallLink
    <3>2. Waits("link", l)' /\ Waits("record", l)' /\ ~Waits("record_backup", l)'
      BY <2>2, <3>1
    <3> QED
      BY <1>2, <2>1, <2>4, <3>1, <3>2 DEF Installing, Told, WillTell
  <2>5. CASE files[l] \in {"own", "newer"}
    <3>1. /\ Then(<< <<"link", l>>, <<"record_backup", l>> >>)
          /\ files' = IF files["backups"][l] = "none"
                        THEN [files EXCEPT !["backups"][l] = files[l]] ELSE files
      BY <1>5, <2>5 DEF InstallLink
    <3>2. Waits("link", l)' /\ Waits("record_backup", l)' /\ ~Waits("record", l)'
      BY <2>2, <3>1
    <3>3. /\ files'[l] = files[l] /\ files'["manifest"][l] = files["manifest"][l]
          /\ files'["backups"][l] = IF files["backups"][l] = "none" THEN files[l] ELSE files["backups"][l]
      BY <1>1, <1>3, <2>5, <3>1 DEF Tree
    <3>4. CASE files["manifest"][l] = "no"
      <4>1. files[l] = original[l] /\ files["backups"][l] = "none"
        BY <2>1, <2>5, <3>4 DEF Installing
      <4> QED
        BY <1>2, <2>5, <3>2, <3>3, <3>4, <4>1 DEF Installing, WillTell
    <3>5. CASE files["manifest"][l] # "no"
      <4>1. Told(files, l)
        BY <3>5 DEF Installing
      <4> QED
        BY <1>2, <3>3, <3>5, <4>1 DEF Installing, Told
    <3> QED
      BY <3>4, <3>5
  <2> QED
    BY <1>3, <2>3, <2>4, <2>5
<1>6. CASE Link(l)
  <2>1. Pending' = Pending \ {<<"link", l>>} /\ Waits("link", l) /\ files' = [files EXCEPT ![l] = "ours"]
    BY <1>1, <1>6, ThenNothing DEF Link, Put, Waits
  <2>2. /\ ~Waits("link", l)'
        /\ Waits("record", l)' <=> Waits("record", l)
        /\ Waits("record_backup", l)' <=> Waits("record_backup", l)
    BY <2>1 DEF Waits
  <2>3. /\ files'[l] = "ours" /\ files'["manifest"][l] = files["manifest"][l]
        /\ files'["backups"][l] = files["backups"][l]
    BY <1>1, <2>1 DEF Tree
  <2>4. ~Recorded(l)
    BY <1>1, <2>1 DEF Promised, Waits, Recorded
  <2> QED
    BY <1>2, <2>1, <2>2, <2>3, <2>4 DEF Installing, Told, WillTell, Recorded
<1>7. CASE Record(l)
  <2>1. PICK kind \in {"record", "record_backup"} :
          /\ Step(kind, l) /\ Then(<<>>)
          /\ files' = IF files["manifest"][l] = "no"
                THEN [files EXCEPT !["manifest"][l] = IF kind = "record" THEN "-" ELSE "kept"]
                ELSE files
    BY <1>7 DEF Record
  <2>2. Pending' = Pending \ {<<kind, l>>} /\ Waits(kind, l)
    BY <1>1, <2>1, ThenNothing DEF Waits
  <2>3. ~Waits("link", l)
    <3>1. \A b \in Pending : b = <<kind, l>> \/ Rank[<<kind, l>>] < Rank[b]
      BY <1>1, <2>1, StepTaken
    <3>2. Rank[<<"link", l>>] < Rank[<<kind, l>>] /\ Rank[<<"link", l>>] \in Nat /\ Rank[<<kind, l>>] \in Nat
      BY LinkingRanks
    <3>3. <<"link", l>> \in Pending => FALSE
      BY <3>1, <3>2
    <3> QED
      BY <3>3 DEF Waits
  <2>4. ~Waits("link", l)' /\ ~Waits("record", l)' /\ ~Waits("record_backup", l)'
    BY <1>1, <2>2, <2>3 DEF Promised, Waits
  <2>5. files'[l] = files[l] /\ files'["backups"][l] = files["backups"][l]
    BY <1>1, <2>1 DEF Tree
  <2>6. files["manifest"][l] = "no" => files'["manifest"][l] = IF kind = "record" THEN "-" ELSE "kept"
    BY <1>1, <1>3, <2>1 DEF Tree
  <2>7. files'["manifest"][l] # "no"
    BY <1>1, <1>3, <2>1, <2>6
  <2>8. CASE files["manifest"][l] # "no"
    BY <1>2, <2>1, <2>5, <2>8 DEF Installing, Told
  <2>9. CASE files["manifest"][l] = "no"
    <3>1. WillTell(l)
      BY <2>2, <2>3, <2>9 DEF Installing, Recorded
    <3> QED
      BY <1>2, <2>2, <2>5, <2>6, <2>7, <2>9, <3>1 DEF WillTell, Told, Installing
  <2> QED
    BY <2>8, <2>9
<1> QED
  BY <1>1, <1>4, <1>5, <1>6, <1>7, InstallFrame

LEMMA UninstallKeepsLink ==
  ASSUME Base, op = "uninstall", Change, NEW l \in Links, Uninstalling(l)
  PROVE  Uninstalling(l)'
<1>1. TodoInv /\ FitInv /\ Tree(files) /\ l \in Paths /\ "manifest" \in Paths /\ "backups" \in Paths
      /\ l # "manifest" /\ l # "backups"
  BY PathsAre DEF Base, FitInv, TreeFits, State, Links
<1>2. UNCHANGED <<original, before>>
  BY DEF Change, ghosts
<1>3. /\ files["backups"] \in [Links -> {"none", "own", "newer"}]
      /\ files["manifest"] \in [Links -> {"no", "-", "kept"}]
      /\ files[l] \in {"none", "own", "newer", "ours"}
  BY <1>1, EntryOf
<1>4. CASE SameUnlink(l)
  <2>1. /\ files'[l] = files[l]
        /\ Waits("unlink", l)' <=> Waits("unlink", l)
        /\ Waits("give_back", l)' <=> Waits("give_back", l)
        /\ Waits("unlink", l) \/ Waits("give_back", l) =>
             /\ files'["manifest"][l] = files["manifest"][l]
             /\ files'["backups"][l] = files["backups"][l]
    BY <1>4 DEF SameUnlink, Unlinking, Waits
  <2> QED
    BY <1>2, <2>1 DEF Uninstalling, LinkSettled, Told
<1>5. CASE Unlink(l)
  <2>1. Waits("unlink", l) /\ ~Waits("give_back", l)
    <3>1. <<"unlink", l>> \in Pending
      BY <1>1, <1>5, StepTaken DEF Unlink
    <3> QED
      BY <1>1, <3>1 DEF TodoInv, Waits
  <2>2. LinkSettled(files, l) /\ files[l] = before[l]
    BY <2>1 DEF Uninstalling
  <2>3. CASE files["manifest"][l] # "no" /\ files[l] = "ours"
    <3>1. /\ files' = [files EXCEPT ![l] = "none"]
          /\ Then(IF files["manifest"][l] = "kept" THEN << <<"give_back", l>> >> ELSE <<>>)
      BY <1>5, <2>3 DEF Unlink, Put
    <3>2. files'[l] = "none" /\ files'["backups"][l] = files["backups"][l]
      BY <1>1, <3>1 DEF Tree
    <3>3. CASE files["manifest"][l] = "kept"
      <4>1. Pending' = {<<"give_back", l>>} \cup (Pending \ {<<"unlink", l>>})
        BY <1>1, <1>5, <3>1, <3>3, UnlinkTakes DEF Unlink
      <4>2. ~Waits("unlink", l)' /\ Waits("give_back", l)'
        BY <4>1 DEF Waits
      <4> QED
        BY <1>2, <2>2, <2>3, <3>2, <3>3, <4>2 DEF Uninstalling, LinkSettled, Told
    <3>4. CASE files["manifest"][l] # "kept"
      <4>1. Pending' = Pending \ {<<"unlink", l>>}
        BY <1>1, <1>5, <3>1, <3>4, ThenNothing DEF Unlink
      <4>2. ~Waits("unlink", l)' /\ ~Waits("give_back", l)'
        BY <2>1, <4>1 DEF Waits
      <4>3. files["manifest"][l] = "-"
        BY <1>3, <2>3, <3>4
      <4> QED
        BY <1>2, <2>2, <2>3, <3>2, <4>2, <4>3 DEF Uninstalling, LinkSettled, Told
    <3> QED
      BY <3>3, <3>4
  <2>4. CASE ~(files["manifest"][l] # "no" /\ files[l] = "ours")
    <3>1. Then(<<>>) /\ files' = files
      BY <1>5, <2>4 DEF Unlink
    <3>2. ~Waits("unlink", l)' /\ ~Waits("give_back", l)'
      BY <1>1, <1>5, <2>1, <3>1, ThenNothing DEF Unlink, Waits
    <3> QED
      BY <1>2, <2>2, <2>4, <3>1, <3>2 DEF Uninstalling, LinkSettled, Told
  <2> QED
    BY <2>3, <2>4
<1>6. CASE GiveBack(l)
  <2>1. Pending' = Pending \ {<<"give_back", l>>} /\ Waits("give_back", l)
        /\ files' = [files EXCEPT ![l] = files["backups"][l]]
    BY <1>1, <1>6, ThenNothing DEF GiveBack, Put, Waits
  <2>2. ~Waits("unlink", l)
    BY <1>1, <2>1 DEF TodoInv, Waits
  <2>3. ~Waits("unlink", l)' /\ ~Waits("give_back", l)'
    BY <2>1, <2>2 DEF Waits
  <2>4. files'[l] = files["backups"][l] /\ files'[l] # "ours"
    BY <1>1, <1>3, <2>1 DEF Tree
  <2> QED
    BY <1>2, <2>1, <2>3, <2>4 DEF Uninstalling
<1> QED
  BY <1>1, <1>4, <1>5, <1>6, UninstallFrame

(***************************************************************************)
(* What else an installation and an uninstallation keep in order.          *)
(***************************************************************************)
LEMMA InstallKeepsPatch ==
  ASSUME Base, TurnInv, op = "install", Change, PatchTold
  PROVE  PatchTold'
<1>1. TodoInv /\ FitInv /\ Tree(files) /\ Links \cup Marked \cup State \subseteq Paths
  BY PathsAre DEF Base, FitInv, TreeFits
<1> DEFINE Calm == /\ Waits("note", "fluidd")' <=> Waits("note", "fluidd")
                   /\ Waits("apply", "fluidd")' => Waits("apply", "fluidd")
<1>11. UNCHANGED <<source, elsewhere>> /\ source \in Sources
  BY DEF Change, Base, OpInv
<1>2. ASSUME NEW n, NEW p, Step(n, p), Then(<<>>), n # "note"
      PROVE  Calm
  <2>1. Pending' = Pending \ {<<n, p>>}
    BY <1>1, <1>2, ThenNothing
  <2>2. <<"note", "fluidd">> # <<n, p>>
    BY <1>2
  <2> QED
    BY <2>1, <2>2 DEF Waits, Calm
<1>3. ASSUME files'["fluidd"] = files["fluidd"], files'["fluidd-source.path"] = files["fluidd-source.path"],
             Calm
      PROVE  PatchTold'
  BY <1>3, <1>11 DEF PatchTold
<1> HIDE DEF Calm
<1>4. ASSUME NEW p \in Paths \ {"fluidd", "fluidd-source.path"}, NEW v,
             files' = [files EXCEPT ![p] = v] \/ files' = files
      PROVE  files'["fluidd"] = files["fluidd"] /\ files'["fluidd-source.path"] = files["fluidd-source.path"]
  BY <1>1, <1>4 DEF Tree, Marked, State
<1>5. ASSUME NEW l \in Links, InstallLink(l) \/ Link(l) \/ Record(l)
      PROVE  PatchTold'
  <2>1. {l, "backups", "manifest"} \subseteq Paths \ {"fluidd", "fluidd-source.path"}
    BY <1>1 DEF Links, State
  <2>2. \E p \in {l, "backups", "manifest"} : \E v : files' = [files EXCEPT ![p] = v] \/ files' = files
    <3>1. CASE InstallLink(l)
      <4>1. files' = files \/ files' = [files EXCEPT !["backups"][l] = files[l]]
        BY <3>1 DEF InstallLink
      <4> QED
        BY <4>1
    <3>2. CASE Link(l)
      BY <3>2 DEF Link, Put
    <3>3. CASE Record(l)
      <4>1. files' = files \/ \E t \in {"-", "kept"} : files' = [files EXCEPT !["manifest"][l] = t]
        BY <3>3 DEF Record
      <4> QED
        BY <4>1
    <3> QED
      BY <1>5, <3>1, <3>2, <3>3
  <2>3. ASSUME NEW kind \in {"record", "record_backup"}, Step("install_link", l),
               Then(<< <<"link", l>>, <<kind, l>> >>)
        PROVE  Calm
    <3>1. Pending' = {<<"link", l>>, <<kind, l>>} \cup (Pending \ {<<"install_link", l>>})
      BY <1>1, <2>3, InstallLinkTakes
    <3> QED
      BY <3>1 DEF Waits, Calm
  <2>4. Calm
    <3>1. CASE InstallLink(l)
      BY <1>2, <2>3, <3>1 DEF InstallLink
    <3>2. CASE Link(l) \/ Record(l)
      BY <1>2, <3>2 DEF Link, Record
    <3> QED
      BY <1>5, <3>1, <3>2
  <2> QED
    BY <1>3, <1>4, <2>1, <2>2, <2>4
<1>6. CASE Check
  BY <1>2, <1>3, <1>6 DEF Check
<1>7. CASE Apply
  <2>1. <<"apply", "fluidd">> \in Pending
    BY <1>1, <1>7, StepTaken DEF Apply
  <2>2. Waits("note", "fluidd") /\ source = "this"
    BY <2>1 DEF TurnInv, PatchTold, Waits
  <2>3. Waits("note", "fluidd")'
    BY <1>2, <1>7, <2>2 DEF Apply, Calm
  <2> QED
    BY <1>11, <2>2, <2>3 DEF PatchTold
<1>8. CASE Note
  <2>1. Step("note", "fluidd") /\ Then(<<>>) /\ files' = [files EXCEPT !["fluidd-source.path"] = source]
    BY <1>8 DEF Note, Put
  <2>2. Pending' = Pending \ {<<"note", "fluidd">>} /\ <<"note", "fluidd">> \in Pending
    BY <1>1, <2>1, ThenNothing
  <2>3. files'["fluidd-source.path"] = source /\ source \in {"this", "other"}
    BY <1>1, <1>11, <2>1, <2>2 DEF Tree, State, PatchTold, Waits, Sources
  <2>4. ~Waits("note", "fluidd")' /\ (Waits("apply", "fluidd")' => source = "this")
    BY <2>2 DEF PatchTold, Waits
  <2> QED
    BY <1>11, <2>3, <2>4 DEF PatchTold
<1>9. CASE ConfigChange
  <2>1. Calm
    BY <1>2, <1>9 DEF ConfigChange, Create, Upgrade, Merge, ArchiveMachine, ArchiveHardware
  <2>2. {"fluidd", "fluidd-source.path"} \subseteq Paths \ Core
    BY <1>1 DEF Marked, State, Core
  <2>3. files'["fluidd"] = files["fluidd"] /\ files'["fluidd-source.path"] = files["fluidd-source.path"]
    BY <1>1, <1>9, <2>2, ConfigFrame
  <2> QED
    BY <1>3, <2>1, <2>3
<1>10. ASSUME NEW c \in Blocks, Ensure(c)
       PROVE  PatchTold'
  <2>1. c \in Paths \ {"fluidd", "fluidd-source.path"}
    BY <1>1 DEF Blocks, Marked
  <2>2. Calm
    BY <1>2, <1>10 DEF Ensure
  <2>3. \E v : files' = [files EXCEPT ![c] = v]
    BY <1>10 DEF Ensure, Put
  <2> QED
    BY <1>3, <1>4, <2>1, <2>2, <2>3
<1> QED
  BY <1>1, <1>5, <1>6, <1>7, <1>8, <1>9, <1>10, InstallActs

LEMMA InstallKeepsClean ==
  ASSUME Base, TurnInv, op = "install", Change, InstallClean
  PROVE  InstallClean'
<1>1. PatchTold'
  BY InstallKeepsPatch DEF InstallClean
<1>2. \A l \in Links : Installing(l)'
  BY InstallKeepsLink DEF InstallClean
<1> QED
  BY <1>1, <1>2 DEF InstallClean

\* What one step of an uninstallation touches.
UninstallDoes(n, p) ==
  /\ Step(n, p) /\ <<n, p>> \in UninstallSet
  /\ files' = files \/ \E v : files' = [files EXCEPT ![p] = v]
  /\ \A c \in UninstallList : c # <<n, p>> => (c \in Pending' <=> c \in Pending)

LEMMA UninstallStep ==
  ASSUME Base, op = "uninstall", Change
  PROVE  \E n, p : UninstallDoes(n, p)
<1> DEFINE G == \E n, p : UninstallDoes(n, p)
<1>1. TodoInv
  BY DEF Base
<1>2. ASSUME NEW n, NEW p, Step(n, p), Then(<<>>), files' = files \/ \E v : files' = [files EXCEPT ![p] = v]
      PROVE  G
  <2>1. Pending' = Pending \ {<<n, p>>} /\ <<n, p>> \in Pending
    BY <1>1, <1>2, ThenNothing
  <2>2. <<n, p>> \in UninstallSet
    BY <1>1, <2>1 DEF TodoInv
  <2> QED
    BY <1>2, <2>1, <2>2 DEF UninstallDoes
<1>3. ASSUME NEW l \in Links, Step("unlink", l), Then(<< <<"give_back", l>> >>),
             \E v : files' = [files EXCEPT ![l] = v]
      PROVE  G
  <2>1. Pending' = {<<"give_back", l>>} \cup (Pending \ {<<"unlink", l>>})
    BY <1>1, <1>3, UnlinkTakes
  <2>2. <<"unlink", l>> \in UninstallSet
    BY DEF UninstallSet, Links
  <2>3. <<"give_back", l>> \notin UninstallList
    BY DEF UninstallList
  <2>4. \A c \in UninstallList : c # <<"unlink", l>> => (c \in Pending' <=> c \in Pending)
    BY <2>1, <2>3
  <2> QED
    BY <1>3, <2>2, <2>4 DEF UninstallDoes
<1> HIDE DEF G
<1>4. ASSUME NEW l \in Links, Unlink(l) \/ GiveBack(l)
      PROVE  G
  <2>1. CASE Unlink(l)
    BY <1>2, <1>3, <2>1 DEF Unlink, Put
  <2>2. CASE GiveBack(l)
    BY <1>2, <2>2 DEF GiveBack, Put
  <2> QED
    BY <1>4, <2>1, <2>2
<1>5. CASE Unpatch
  <2>1. G
    BY <1>2, <1>5 DEF Unpatch, Put
  <2> QED
    BY <2>1 DEF G
<1>6. CASE Clean
  <2>1. G
    BY <1>2, <1>6 DEF Clean, Put
  <2> QED
    BY <2>1 DEF G
<1>7. ASSUME NEW c \in Blocks, RemoveBlock(c)
      PROVE  G
  BY <1>2, <1>7 DEF RemoveBlock, Put
<1> QED
  BY <1>1, <1>4, <1>5, <1>6, <1>7, UninstallActs DEF G

LEMMA UninstallKeepsClean ==
  ASSUME Base, op = "uninstall", Change, UninstallClean
  PROVE  UninstallClean'
<1>1. TodoInv /\ FitInv /\ Tree(files) /\ Links \cup Marked \cup State \subseteq Paths
      /\ "ace.cfg" \in Paths /\ "ace_hardware.cfg" \in Paths
  BY PathsAre DEF Base, FitInv, TreeFits, Configs
<1>2. PICK n, p : /\ Step(n, p) /\ <<n, p>> \in UninstallSet
                  /\ files' = files \/ \E v : files' = [files EXCEPT ![p] = v]
                  /\ \A c \in UninstallList : c # <<n, p>> => (c \in Pending' <=> c \in Pending)
  BY UninstallStep DEF UninstallDoes
<1>3. UNCHANGED <<before, source, elsewhere>> /\ source \in Sources
  BY DEF Change, Base, OpInv
<1>4. \A q \in Paths : q # p => files'[q] = files[q]
  BY <1>1, <1>2 DEF Tree
<1>5. p \notin {"legacy", "ace.cfg", "ace_hardware.cfg"}
  BY <1>2 DEF UninstallSet
<1>6. \A q \in {"legacy", "ace.cfg", "ace_hardware.cfg"} : files'[q] = before'[q]
  BY <1>1, <1>3, <1>4, <1>5 DEF UninstallClean, State
<1>7. ASSUME NEW m, NEW q, Step(m, q)
      PROVE  m = n /\ q = p
  BY <1>2, <1>7 DEF Step
<1>8. WillUnpatch'
  <2>1. CASE p = "fluidd"
    <3>1. Unpatch
      <4>1. \A l \in Links : ~Unlink(l) /\ ~GiveBack(l)
        BY <1>7, <2>1 DEF Unlink, GiveBack, Links
      <4>2. ~Clean
        BY <1>7, <2>1 DEF Clean, State
      <4>3. \A c \in Blocks : ~RemoveBlock(c)
        BY <1>7, <2>1 DEF RemoveBlock, Blocks
      <4> QED
        BY <1>1, <4>1, <4>2, <4>3, UninstallActs
    <3>2. files["fluidd"] \in [own : BOOLEAN, block : BOOLEAN]
      BY <1>1, EntryOf DEF Marked
    <3>3. CASE files' = [files EXCEPT !["fluidd"] = [files["fluidd"] EXCEPT !.block = FALSE]]
      <4>1. files'["fluidd"].block = FALSE
        BY <1>1, <3>2, <3>3 DEF Tree, Marked
      <4> QED
        BY <4>1 DEF WillUnpatch
    <3>4. CASE files' = files /\ "this" # IF source # "none" THEN source ELSE files["fluidd-source.path"]
      <4>1. files["fluidd"].block = TRUE => source = "other" \/ (source = "none" /\ elsewhere)
        <5>1. WillUnpatch
          BY DEF UninstallClean
        <5> QED
          BY <3>4, <5>1 DEF WillUnpatch
      <4> QED
        BY <1>3, <3>4, <4>1 DEF WillUnpatch
    <3> QED
      BY <3>1, <3>3, <3>4 DEF Unpatch, Put
  <2>2. CASE p # "fluidd"
    <3> SUFFICES ASSUME files'["fluidd"].block = TRUE,
                        ~(source = "other" \/ (source = "none" /\ elsewhere))
                 PROVE  /\ Waits("unpatch", "fluidd")'
                        /\ source = "this" \/ (source = "none" /\ files'["fluidd-source.path"] = "this")
      BY <1>3 DEF WillUnpatch
    <3>1. /\ <<"unpatch", "fluidd">> \in Pending
          /\ source = "this" \/ (source = "none" /\ files["fluidd-source.path"] = "this")
      <4>1. WillUnpatch
        BY DEF UninstallClean
      <4>2. files["fluidd"].block = TRUE
        BY <1>1, <1>4, <2>2 DEF Marked
      <4> QED
        BY <4>1, <4>2 DEF WillUnpatch, Waits
    <3>2. <<"unpatch", "fluidd">> \in UninstallList /\ <<"unpatch", "fluidd">> # <<n, p>>
      BY <2>2 DEF UninstallList
    <3>3. Waits("unpatch", "fluidd")'
      BY <1>2, <3>1, <3>2 DEF Waits
    <3>4. p # "fluidd-source.path"
      <4>1. SUFFICES ASSUME p = "fluidd-source.path" PROVE FALSE
        OBVIOUS
      <4>2. n = "clean"
        BY <1>2, <4>1 DEF UninstallSet
      <4>3. Step("clean", "fluidd-source.path")
        BY <1>2, <4>1, <4>2
      <4>4. Rank[<<"clean", "fluidd-source.path">>] < Rank[<<"unpatch", "fluidd">>]
        BY <1>1, <3>1, <4>3, StepTaken
      <4> QED
        BY <4>4, RankValues
    <3> QED
      BY <1>1, <1>4, <3>1, <3>3, <3>4 DEF State
  <2> QED
    BY <2>1, <2>2
<1>9. ASSUME NEW c \in Blocks, files'[c].block = TRUE
      PROVE  Waits("remove", c)'
  <2>1. c \in Marked /\ c \in Paths /\ <<"remove", c>> \in UninstallList
    BY <1>1 DEF Blocks, Marked, UninstallList
  <2>2. CASE p = c
    <3>1. RemoveBlock(c)
      <4>1. \A l \in Links : ~Unlink(l) /\ ~GiveBack(l)
        BY <1>7, <2>2 DEF Unlink, GiveBack, Links, Blocks
      <4>2. ~Clean /\ ~Unpatch
        <5>1. c \notin State /\ c # "fluidd"
          BY DEF State, Blocks
        <5> QED
          BY <1>7, <2>2, <5>1 DEF Clean, Unpatch
      <4>3. \A d \in Blocks : RemoveBlock(d) => d = c
        BY <1>7, <2>2 DEF RemoveBlock
      <4> QED
        BY <1>1, <4>1, <4>2, <4>3, UninstallActs
    <3>2. files[c] \in [own : BOOLEAN, block : BOOLEAN]
      BY <1>1, <2>1, EntryOf
    <3>3. files'[c].block = FALSE
      BY <1>1, <2>1, <3>1, <3>2 DEF RemoveBlock, Put, Tree
    <3> QED
      BY <1>9, <3>3
  <2>3. CASE p # c
    <3>1. <<"remove", c>> \in Pending
      BY <1>4, <1>9, <2>1, <2>3 DEF UninstallClean, Waits
    <3>2. <<"remove", c>> # <<n, p>>
      BY <2>3
    <3> QED
      BY <1>2, <2>1, <3>1, <3>2 DEF Waits
  <2> QED
    BY <2>2, <2>3
<1>10. ASSUME NEW r \in {"manifest", "backups"}, ~Waits("clean", r)', NEW l \in Links
       PROVE  files'[r][l] = Gone(r)[l]
  <2>1. r \in Paths /\ <<"clean", r>> \in UninstallList
    BY <1>1 DEF UninstallList, State
  <2>2. CASE <<n, p>> = <<"clean", r>>
    <3>1. Clean
      <4>1. \A k \in Links : ~Unlink(k) /\ ~GiveBack(k)
        BY <1>7, <2>2 DEF Unlink, GiveBack
      <4>2. ~Unpatch /\ \A c \in Blocks : ~RemoveBlock(c)
        BY <1>7, <2>2 DEF RemoveBlock, Unpatch
      <4> QED
        BY <1>1, <4>1, <4>2, UninstallActs
    <3>2. PICK q \in State \ {"legacy"} : Step("clean", q) /\ Put(q, Gone(q))
      BY <3>1 DEF Clean
    <3>3. q = r
      BY <1>7, <2>2, <3>2
    <3>4. files' = [files EXCEPT ![r] = Gone(r)]
      BY <3>2, <3>3 DEF Put
    <3> QED
      BY <1>1, <2>1, <3>4 DEF Tree
  <2>3. CASE <<n, p>> # <<"clean", r>>
    <3>1. ~Waits("clean", r)
      BY <1>2, <1>10, <2>1, <2>3 DEF Waits
    <3>2. p # r
      BY <1>2, <2>3 DEF UninstallSet
    <3> QED
      BY <1>4, <2>1, <3>1, <3>2 DEF UninstallClean
  <2> QED
    BY <2>2, <2>3
<1>11. \A l \in Links : Uninstalling(l)'
  BY UninstallKeepsLink DEF UninstallClean
<1> QED
  BY <1>6, <1>8, <1>9, <1>10, <1>11 DEF UninstallClean

(***************************************************************************)
(* Every step keeps the records true, unless nothing undid a run that was  *)
(* killed.                                                                 *)
(***************************************************************************)
LEMMA InitClean == Init => CleanInv
<1> SUFFICES ASSUME Init PROVE CleanInv
  OBVIOUS
<1>1. /\ op = "none" /\ outcome = "none" /\ snapshot = Missing
      /\ original = [l \in Links |-> files[l]]
  BY DEF Init
<1>2. PICK found \in Found : files = [p \in Paths |-> At(found, p)]
  BY DEF Init
<1>3. \A p \in Paths : files[p] = At(found, p)
  BY <1>2
<1>4. files["package"] = "none" /\ files["page"] \in {"none", "own"}
  <2>1. \A l \in Links : Gone(l) = "none"
    <3> SUFFICES ASSUME NEW l \in Links PROVE Gone(l) = "none"
      OBVIOUS
    <3> QED
      BY DEF Gone, Links, Marked
  <2>2. \A l \in Links : files[l] = At(found, l)
    BY <1>3, PathsAre
  <2>3. {"package", "page"} = Links
    BY DEF Links
  <2>4. At(found, "package") = Gone("package")
    BY DEF At
  <2>5. At(found, "page") = "own" \/ At(found, "page") = Gone("page")
    BY DEF At
  <2> QED
    BY <2>1, <2>2, <2>3, <2>4, <2>5
<1>5. files["manifest"] = [l \in Links |-> "no"] /\ files["backups"] = [l \in Links |-> "none"]
  BY <1>3, PathsAre DEF At, Gone, Links, Marked, State
<1>6. files["fluidd"].block = FALSE
  BY <1>3, PathsAre DEF At, Gone, Links, Marked
<1>7. files["ace.cfg"] = Missing \/ files["ace.cfg"].topology = <<>>
  <2>1. files["ace.cfg"] = At(found, "ace.cfg")
    BY <1>3, PathsAre DEF Configs
  <2>2. At(found, "ace.cfg") \in {Missing, [topology |-> <<>>, macros |-> FALSE]}
    BY DEF At, Gone, Links, Marked, State
  <2>3. [topology |-> <<>>, macros |-> FALSE].topology = <<>>
    OBVIOUS
  <2> QED
    BY <2>1, <2>2, <2>3
<1>8. \A l \in Links : LinkSettled(files, l)
  BY <1>4, <1>5 DEF LinkSettled, Told, Links
<1>9. Settled(files, elsewhere)
  BY <1>6, <1>7, <1>8 DEF Settled
<1> QED
  BY <1>1, <1>9 DEF CleanInv, Running, UninstallIsClean

\* An installation takes note of what is at the place of a link that is not recorded.
LEMMA InstallSettled ==
  ASSUME FitInv, Settled(files, elsewhere), files' = files, elsewhere' = elsewhere,
         op' = "install", NEW tree \in Sources, source' = tree, todo' = InstallSteps(tree),
         original' = [l \in Links |-> IF files["manifest"][l] = "no" THEN files[l] ELSE original[l]]
  PROVE  InstallClean' /\ \A l \in Links : LinkSettled(files, l)'
<1>1. Pending' = {<<"install_link", "package">>} \cup Range(Last7) \cup OverlayRange(tree)
  BY InstallStepsAre DEF Pending
<1>2. OverlayRange(tree) \subseteq Range(Native4)
  BY OverlayStepsAre
<1>3. \A l \in Links : ~Waits("link", l)' /\ ~Waits("record", l)' /\ ~Waits("record_backup", l)'
  BY <1>1, <1>2, Last7Is, Native4Is DEF Waits
<1>4. \A l \in Links : LinkSettled(files, l)'
  BY DEF Settled, LinkSettled, Told
<1>5. \A l \in Links : Installing(l)'
  <2> SUFFICES ASSUME NEW l \in Links PROVE Installing(l)'
    OBVIOUS
  <2>1. CASE files["manifest"][l] = "no"
    <3>1. files'[l] = original'[l] /\ files'[l] # "ours" /\ files'["backups"][l] = "none"
      BY <2>1 DEF Settled, LinkSettled
    <3> QED
      BY <1>3, <2>1, <3>1 DEF Installing, Recorded
  <2>2. CASE files["manifest"][l] # "no"
    BY <1>4, <2>2 DEF LinkSettled, Installing
  <2> QED
    BY <2>1, <2>2
<1>6. PatchTold'
  <2>1. \A c \in {<<"apply", "fluidd">>, <<"note", "fluidd">>} :
          c \in Pending' <=> c \in OverlayRange(tree)
    BY <1>1, Last7Is
  <2>2. /\ Waits("apply", "fluidd")' => tree = "this"
        /\ Waits("note", "fluidd")' => tree # "none"
        /\ tree = "this" => Waits("note", "fluidd")'
    BY <2>1, Native4Is DEF OverlayRange, Waits, Sources
  <2>3. files'["fluidd"].block = TRUE => files'["fluidd-source.path"] = "this" \/ elsewhere
    BY DEF Settled
  <2> QED
    BY <2>2, <2>3 DEF PatchTold, Sources
<1> QED
  BY <1>4, <1>5, <1>6 DEF InstallClean

LEMMA UninstallSettled ==
  ASSUME Settled(files, elsewhere), UNCHANGED <<files, original, elsewhere>>, before' = files,
         source' \in Sources, todo' = UninstallSteps
  PROVE  UninstallClean'
<1>1. Pending' = UninstallList
  BY UninstallStepsAre DEF Pending
<1>2. \A l \in Links : Waits("unlink", l)' /\ ~Waits("give_back", l)'
  BY <1>1 DEF Waits, UninstallList, Links
<1>3. /\ Waits("unpatch", "fluidd")' /\ \A p \in {"manifest", "backups"} : Waits("clean", p)'
      /\ \A c \in Blocks : Waits("remove", c)'
  BY <1>1 DEF Waits, UninstallList, Blocks
<1>4. \A l \in Links : LinkSettled(files, l)'
  BY DEF Settled, LinkSettled, Told
<1>5. \A l \in Links : Uninstalling(l)'
  BY <1>2, <1>4 DEF Uninstalling
<1>6. WillUnpatch'
  <2>1. files["fluidd"].block = TRUE => files["fluidd-source.path"] = "this" \/ elsewhere
    BY DEF Settled
  <2> QED
    BY <1>3, <2>1 DEF WillUnpatch, Sources
<1> QED
  BY <1>3, <1>5, <1>6 DEF UninstallClean

\* What a run that commits leaves settles which tree was named last.
LEMMA NamedLast ==
  ASSUME source \in Sources, elsewhere' = IF source = "none" THEN elsewhere ELSE source = "other"
  PROVE  /\ source = "other" => elsewhere'
         /\ source = "none" /\ elsewhere => elsewhere'
OBVIOUS

\* An installation that is through has said what it did.
LEMMA InstalledSettled ==
  ASSUME OpInv, PhaseInv, op = "install", InstallClean, Pending = {},
         UNCHANGED <<files, original>>,
         elsewhere' = IF source = "none" THEN elsewhere ELSE source = "other"
  PROVE  Settled(files, elsewhere)'
<1>1. \A n, p : ~Waits(n, p)
  BY DEF Waits
<1>2. ASSUME NEW l \in Links
      PROVE  LinkSettled(files, l)'
  <2>1. Installing(l)
    BY DEF InstallClean
  <2> QED
    BY <1>1, <2>1 DEF Installing, WillTell, Recorded, LinkSettled, Told
<1>3. files["ace_hardware.cfg"] = Missing
  BY DEF PhaseInv
<1>4. files["fluidd"].block = TRUE => files["fluidd-source.path"] = "this" \/ elsewhere'
  <2>1. source \in Sources
    BY DEF OpInv
  <2>2. files["fluidd"].block = TRUE =>
          \/ source = "other"
          \/ files["fluidd-source.path"] = "this"
          \/ source = "none" /\ elsewhere
    BY <1>1 DEF InstallClean, PatchTold
  <2> QED
    BY <2>1, <2>2, NamedLast
<1> QED
  BY <1>2, <1>3, <1>4 DEF Settled

LEMMA UninstalledSettled ==
  ASSUME Base, op = "uninstall", UninstallClean, Settled(before, elsewhere), Pending = {},
         UNCHANGED <<files, original, before>>,
         elsewhere' = IF source = "none" THEN elsewhere ELSE source = "other"
  PROVE  /\ Settled(files, elsewhere)'
         /\ \A c \in Marked : files'[c].block => c = "fluidd" /\ elsewhere'
         /\ \A l \in Links :
              /\ files'[l] # "ours"
              /\ files'[l] = IF before'[l] = "ours" THEN original'[l] ELSE before'[l]
         /\ files'["legacy"] = before'["legacy"]
<1>1. \A n, p : ~Waits(n, p)
  BY DEF Waits
<1>2. \A l \in Links :
        /\ files[l] # "ours"
        /\ files[l] = IF before[l] = "ours" THEN original[l] ELSE before[l]
  BY <1>1 DEF UninstallClean, Uninstalling
<1>3. files["fluidd"].block = TRUE => elsewhere'
  <2>1. source \in Sources
    BY DEF Base, OpInv
  <2>2. files["fluidd"].block = TRUE => source = "other" \/ (source = "none" /\ elsewhere)
    <3>1. WillUnpatch
      BY DEF UninstallClean
    <3> QED
      BY <1>1, <3>1 DEF WillUnpatch
  <2> QED
    BY <2>1, <2>2, NamedLast
<1>4. \A c \in Marked : files[c].block \in BOOLEAN
  <2>1. \A c \in Marked : files[c] \in [own : BOOLEAN, block : BOOLEAN]
    BY EntryOf DEF Base
  <2> QED
    BY <2>1
<1>5. \A c \in Blocks : files[c].block # TRUE
  BY <1>1 DEF UninstallClean
<1>6. \A c \in Marked : files'[c].block => c = "fluidd" /\ elsewhere'
  <2> SUFFICES ASSUME NEW c \in Marked, files[c].block
               PROVE  c = "fluidd" /\ elsewhere'
    OBVIOUS
  <2>1. files[c].block = TRUE
    BY <1>4
  <2>2. c = "fluidd"
    BY <1>5, <2>1 DEF Marked, Blocks
  <2> QED
    BY <1>3, <2>1, <2>2
<1>7. \A l \in Links : files["manifest"][l] = "no" /\ files["backups"][l] = "none"
  <2>1. \A l \in Links : Gone("manifest")[l] = "no" /\ Gone("backups")[l] = "none"
    BY DEF Gone, Links, Marked
  <2> QED
    BY <1>1, <2>1 DEF UninstallClean
<1>8. \A l \in Links : LinkSettled(files, l)'
  BY <1>2, <1>7 DEF LinkSettled, Told
<1>9. Settled(files, elsewhere)'
  BY <1>3, <1>8 DEF Settled, UninstallClean
<1> QED
  BY <1>2, <1>6, <1>9 DEF UninstallClean

LEMMA PersonSettled ==
  ASSUME Base, Settled(files, elsewhere), Person
  PROVE  Settled(files, elsewhere)'
<1>1. FitInv /\ Tree(files) /\ Links \cup Marked \cup State \subseteq Paths
      /\ "ace.cfg" \in Paths /\ "ace_hardware.cfg" \in Paths
  BY PathsAre DEF Base, FitInv, TreeFits, Configs
<1> DEFINE Rest == {"manifest", "backups", "fluidd-source.path", "ace_hardware.cfg"}
<1>2. Rest \subseteq Paths \ ({"ace.cfg"} \cup Links \cup Marked)
  BY <1>1 DEF Links, Marked, State
<1>3. CASE \E l \in Links, content \in {"none", "newer"} : ReplaceLink(l, content)
  <2>1. PICK l \in Links, content \in {"none", "newer"} : ReplaceLink(l, content)
    BY <1>3
  <2>2. /\ files'[l] = content /\ UNCHANGED <<original, elsewhere>>
        /\ \A p \in Paths : p # l => files'[p] = files[p]
    BY <1>1, <2>1 DEF ReplaceLink, Edit, Put, Tree
  <2>3. \A q \in Rest \cup {"ace.cfg", "fluidd"} : files'[q] = files[q]
    BY <1>1, <1>2, <2>2 DEF Links, Marked
  <2>4. ASSUME NEW k \in Links
        PROVE  LinkSettled(files, k)'
    <3>1. CASE k = l
      BY <2>2, <2>3, <3>1 DEF Settled, LinkSettled, Told
    <3>2. CASE k # l
      <4>1. files'[k] = files[k] /\ LinkSettled(files, k)
        BY <1>1, <2>2, <3>2 DEF Settled
      <4> QED
        BY <2>2, <2>3, <4>1 DEF LinkSettled, Told, Told
    <3> QED
      BY <3>1, <3>2
  <2> QED
    BY <2>2, <2>3, <2>4 DEF Settled
<1>4. CASE \E c \in Marked : EditMarked(c)
  <2>1. PICK c \in Marked : EditMarked(c)
    BY <1>4
  <2>2. UNCHANGED <<original, elsewhere>> /\ \A p \in Paths : p # c => files'[p] = files[p]
    BY <1>1, <2>1 DEF EditMarked, Edit, Put, Tree
  <2>3. \A q \in Rest \cup {"ace.cfg"} \cup Links : files'[q] = files[q]
    BY <1>1, <1>2, <2>2 DEF Links, Marked
  <2>4. files'["fluidd"].block = TRUE => files["fluidd"].block = TRUE
    <3>1. files["fluidd"] \in [own : BOOLEAN, block : BOOLEAN]
      BY <1>1, EntryOf DEF Marked
    <3>2. CASE c = "fluidd"
      <4>1. files'["fluidd"] = [files["fluidd"] EXCEPT !.own = ~@]
            \/ files'["fluidd"] = [own |-> FALSE, block |-> FALSE]
        BY <1>1, <2>1, <3>2 DEF EditMarked, Put, Tree, Marked
      <4> QED
        BY <3>1, <4>1
    <3>3. CASE c # "fluidd"
      BY <1>1, <2>2, <3>3 DEF Marked
    <3> QED
      BY <3>2, <3>3
  <2>5. \A k \in Links : LinkSettled(files, k)'
    BY <2>2, <2>3 DEF Settled, LinkSettled, Told
  <2> QED
    BY <2>2, <2>3, <2>4, <2>5 DEF Settled
<1>5. CASE \E i \in 1..Cardinality(Unit) : Allow(i)
  <2>1. PICK i \in 1..Cardinality(Unit) : Allow(i)
    BY <1>5
  <2>2. UNCHANGED <<original, elsewhere>> /\ \A p \in Paths : p # "ace.cfg" => files'[p] = files[p]
    BY <1>1, <2>1 DEF Allow, Edit, Tree
  <2>3. \A q \in Rest \cup {"fluidd"} \cup Links : files'[q] = files[q]
    BY <1>1, <1>2, <2>2 DEF Links, Marked
  <2>4. files["ace_hardware.cfg"] = Missing
    <3>1. files["ace.cfg"] # Missing /\ i \in DOMAIN files["ace.cfg"].topology
      BY <2>1 DEF Allow
    <3>2. files["ace.cfg"].topology # <<>>
      BY <3>1, EmptyList
    <3> QED
      BY <3>1, <3>2 DEF Settled
  <2>5. \A k \in Links : LinkSettled(files, k)'
    BY <2>2, <2>3 DEF Settled, LinkSettled, Told
  <2> QED
    BY <2>2, <2>3, <2>4, <2>5 DEF Settled
<1> QED
  BY <1>3, <1>4, <1>5 DEF Person

LEMMA NextClean ==
  ASSUME Base, Base', TurnInv, UndoInv, UndoInv', SnapInv', PhaseInv, CleanInv, [Next]_vars
  PROVE  CleanInv'
<1> DEFINE Snap == snapshot # Missing /\ ~since /\ ~snapshot.astray => Settled(snapshot.files, snapshot.elsewhere)
<1>1. Snap
  BY DEF CleanInv
<1>2. ASSUME UNCHANGED <<snapshot, since, original>>
      PROVE  Snap'
  BY <1>1, <1>2 DEF Settled, LinkSettled, Told
<1>3. ASSUME since' = TRUE
      PROVE  Snap'
  BY <1>3
<1>4. ASSUME outcome' # "uninstalled"
      PROVE  UninstallIsClean'
  BY <1>4 DEF UninstallIsClean
<1>5. op' # "none" => outcome' # "uninstalled"
  BY DEF Base, OpInv
<1>6. ASSUME ~astray' => op' = "none" /\ Settled(files, elsewhere)', Snap', UninstallIsClean'
      PROVE  CleanInv'
  BY <1>6 DEF CleanInv, Running
<1>7. ASSUME UNCHANGED <<before, original, elsewhere>>, Settled(before, elsewhere)
      PROVE  Settled(before, elsewhere)'
  BY <1>7 DEF Settled, LinkSettled, Told
<1> HIDE DEF Snap
<1>8. CASE Change
  <2>1. /\ op \in {"install", "uninstall"} /\ UNCHANGED <<op, outcome, astray, before, snapshot, since, original, elsewhere>>
    BY <1>8, ChangeLogs DEF Change, ghosts
  <2>2. ~astray => Settled(before, elsewhere) /\ (op = "install" => InstallClean) /\ (op = "uninstall" => UninstallClean)
    BY <2>1 DEF CleanInv, Running
  <2>3. ~astray => Settled(before, elsewhere)'
    BY <1>7, <2>1, <2>2
  <2>4. ~astray /\ op = "install" => InstallClean'
    BY <1>8, <2>2, InstallKeepsClean
  <2>5. ~astray /\ op = "uninstall" => UninstallClean'
    BY <1>8, <2>2, UninstallKeepsClean
  <2>6. Snap' /\ UninstallIsClean'
    BY <1>2, <1>4, <1>5, <2>1
  <2> QED
    BY <2>1, <2>3, <2>4, <2>5, <2>6 DEF CleanInv, Running, Snap
<1>9. ASSUME NEW units \in Devices, NEW tree \in Sources, Install(units, tree)
      PROVE  CleanInv'
  <2>1. /\ op = "none" /\ op' = "install" /\ todo' = InstallSteps(tree) /\ before' = files /\ files' = files
        /\ original' = [l \in Links |-> IF files["manifest"][l] = "no" THEN files[l] ELSE original[l]]
        /\ UNCHANGED <<astray, elsewhere>> /\ source' = tree
        /\ snapshot' = Snapshot(tree) \/ since' = TRUE
    BY <1>9 DEF Install, Begin
  <2>2. CASE ~astray
    <3>1. Settled(files, elsewhere)
      BY <2>1, <2>2 DEF CleanInv
    <3>2. InstallClean' /\ \A l \in Links : LinkSettled(files, l)'
      <4>1. FitInv
        BY DEF Base
      <4> QED
        BY <2>1, <3>1, <4>1, InstallSettled
    <3>3. Settled(files, elsewhere)'
      BY <2>1, <3>1, <3>2 DEF Settled
    <3>4. Settled(before, elsewhere)'
      BY <2>1, <3>3 DEF Settled, LinkSettled, Told
    <3>5. Snap'
      <4>1. CASE snapshot' = Snapshot(tree)
        <5>1. snapshot'.files = files' /\ snapshot'.elsewhere = elsewhere'
          BY <2>1, <4>1 DEF Snapshot
        <5>2. Settled(snapshot.files, snapshot.elsewhere)'
          BY <3>3, <5>1 DEF Settled, LinkSettled, Told
        <5> QED
          BY <5>2 DEF Snap
      <4> QED
        BY <1>3, <2>1, <4>1
    <3> QED
      BY <1>4, <1>5, <2>1, <3>2, <3>4, <3>5 DEF CleanInv, Snap
  <2>3. CASE astray
    <3>1. Snap'
      <4>1. CASE snapshot' = Snapshot(tree)
        <5>1. snapshot'.astray
          BY <2>3, <4>1 DEF Snapshot
        <5> QED
          BY <5>1 DEF Snap
      <4> QED
        BY <1>3, <2>1, <4>1
    <3> QED
      BY <1>4, <1>5, <2>1, <2>3, <3>1 DEF CleanInv, Snap
  <2> QED
    BY <2>2, <2>3
<1>10. CASE \E tree \in Sources : Uninstall(tree)
  <2>1. /\ op = "none" /\ op' = "uninstall" /\ todo' = UninstallSteps /\ before' = files
        /\ since' = TRUE /\ source' \in Sources /\ UNCHANGED <<files, astray, original, elsewhere>>
    BY <1>10 DEF Uninstall, Begin
  <2>2. ~astray => Settled(files, elsewhere)
    BY <2>1 DEF CleanInv
  <2>3. ~astray => Settled(before, elsewhere)' /\ UninstallClean'
    BY <2>1, <2>2, UninstallSettled DEF Settled, LinkSettled, Told
  <2>4. Snap'
    BY <1>3, <2>1
  <2> QED
    BY <1>4, <1>5, <2>1, <2>3, <2>4 DEF CleanInv, Snap
<1>11. CASE Commit
  <2>1. /\ op \in {"install", "uninstall"} /\ op' = "none" /\ todo = <<>>
        /\ UNCHANGED <<files, snapshot, astray, since, original>>
        /\ elsewhere' = IF source = "none" THEN elsewhere ELSE source = "other"
        /\ op = "install" => outcome' = "installed"
        /\ op = "uninstall" => outcome' = "uninstalled" /\ before' = before
    BY <1>11 DEF Commit, Ended, Finish, ghosts
  <2>2. Pending = {}
    BY <2>1, EmptyList DEF Pending
  <2>3. ~astray => Settled(before, elsewhere) /\ (op = "install" => InstallClean)
                   /\ (op = "uninstall" => UninstallClean)
    BY <2>1 DEF CleanInv, Running
  <2>4. ~astray => Settled(files, elsewhere)'
    <3>1. OpInv
      BY DEF Base
    <3>2. CASE op = "install"
      BY <2>1, <2>2, <2>3, <3>1, <3>2, InstalledSettled
    <3>3. CASE op = "uninstall"
      BY <2>1, <2>2, <2>3, <3>3, UninstalledSettled
    <3> QED
      BY <2>1, <3>2, <3>3
  <2>5. UninstallIsClean'
    <3>1. CASE op = "install"
      BY <1>4, <2>1, <3>1
    <3>2. CASE op = "uninstall"
      BY <2>1, <2>2, <2>3, <3>2, UninstalledSettled DEF UninstallIsClean
    <3> QED
      BY <2>1, <3>1, <3>2
  <2> QED
    BY <1>2, <1>6, <2>1, <2>4, <2>5
<1>12. CASE Fail
  <2>1. op \in {"install", "uninstall"} /\ op' = "rollback"
        /\ UNCHANGED <<snapshot, before, astray, since, original, elsewhere>>
    BY <1>12 DEF Fail, ghosts
  <2>2. ~astray => Settled(before, elsewhere)'
    BY <1>7, <2>1 DEF CleanInv, Running
  <2> QED
    BY <1>2, <1>4, <1>5, <2>1, <2>2 DEF CleanInv, Snap
<1>13. CASE RollbackRemove \/ RollbackCopy
  <2>1. op = "rollback" /\ op' = "rollback"
        /\ UNCHANGED <<snapshot, before, astray, since, original, elsewhere>>
    BY <1>13 DEF RollbackRemove, RollbackCopy, ghosts
  <2>2. ~astray => Settled(before, elsewhere)'
    BY <1>7, <2>1 DEF CleanInv, Running
  <2> QED
    BY <1>2, <1>4, <1>5, <2>1, <2>2 DEF CleanInv, Snap
<1>19. CASE RolledBack
  <2>1. /\ op = "rollback" /\ op' = "none" /\ outcome' = "failed" /\ before' = before
        /\ UNCHANGED <<snapshot, astray, since, original, elsewhere>>
    BY <1>19 DEF RolledBack, Finish, ghosts
  <2>2. ~astray => Settled(before, elsewhere)'
    BY <1>7, <2>1 DEF CleanInv, Running
  <2>3. files' = before'
    BY <2>1 DEF UndoInv, FailureChangesNothing
  <2>4. ~astray => Settled(files, elsewhere)'
    BY <2>2, <2>3 DEF Settled, LinkSettled, Told
  <2> QED
    BY <1>2, <1>4, <1>6, <2>1, <2>4
<1>14. CASE Kill \/ RestoreStops
  <2>1. op' = "none" /\ outcome' = "killed" /\ astray' = TRUE /\ UNCHANGED <<snapshot, since, original, elsewhere>>
    BY <1>14 DEF Kill, RestoreStops, Finish
  <2> QED
    BY <1>2, <1>4, <1>6, <2>1
<1>15. CASE BeginRestore \/ RestoreNext
  <2>1. op' = "restore" /\ UNCHANGED <<snapshot, since, original, elsewhere>>
    BY <1>15 DEF BeginRestore, RestoreNext, Begin, ghosts
  <2> QED
    BY <1>2, <1>4, <1>5, <2>1 DEF CleanInv, Running, Snap
<1>16. CASE Restored
  <2>1. /\ op = "restore" /\ op' = "none" /\ outcome' = "restored" /\ astray' = (since \/ snapshot.astray)
        /\ UNCHANGED <<snapshot, since, original>> /\ elsewhere' = snapshot.elsewhere
    BY <1>16 DEF Restored, Finish
  <2>2. ~astray' => Settled(files, elsewhere)'
    <3> SUFFICES ASSUME ~astray' PROVE Settled(files, elsewhere)'
      OBVIOUS
    <3>1. ~since /\ ~snapshot.astray /\ snapshot # Missing
      BY <2>1 DEF Base, OpInv
    <3>2. Settled(snapshot.files, snapshot.elsewhere)
      BY <3>1 DEF CleanInv
    <3>3. files' = snapshot.files
      BY <2>1, <3>1 DEF SnapInv, RestoreUndoesInstall
    <3> QED
      BY <2>1, <3>2, <3>3 DEF Settled, LinkSettled, Told
  <2> QED
    BY <1>2, <1>4, <1>6, <2>1, <2>2
<1>17. CASE Person
  <2>1. op = "none" /\ op' = "none" /\ outcome' = "none" /\ since' = TRUE /\ astray' = astray
    BY <1>17 DEF Person, ReplaceLink, EditMarked, Allow, Edit
  <2>2. ~astray => Settled(files, elsewhere)
    BY <2>1 DEF CleanInv
  <2> QED
    BY <1>3, <1>4, <1>6, <1>17, <2>1, <2>2, PersonSettled
<1>18. CASE UNCHANGED vars
  <2>1. UNCHANGED <<files, op, todo, log, snapshot, before, outcome, since, astray, original, elsewhere, source>>
    BY <1>18 DEF vars, ghosts
  <2>2. \A n, p : Waits(n, p)' <=> Waits(n, p)
    BY <2>1 DEF Waits, Pending
  <2>3. UNCHANGED <<files, original, elsewhere>> /\ (Settled(files, elsewhere) => Settled(files, elsewhere)')
    BY <2>1 DEF Settled, LinkSettled, Told
  <2>4. InstallClean => InstallClean'
    BY <2>1, <2>2 DEF InstallClean, PatchTold, Installing, Told, WillTell, Recorded
  <2>5. UninstallClean => UninstallClean'
    BY <2>1, <2>2 DEF UninstallClean, WillUnpatch, Uninstalling, LinkSettled, Told
  <2>6. Settled(before, elsewhere) => Settled(before, elsewhere)'
    BY <1>7, <2>1
  <2>7. Snap'
    BY <1>2, <2>1
  <2>8. UninstallIsClean => UninstallIsClean'
    BY <2>1 DEF UninstallIsClean
  <2> QED
    BY <2>1, <2>3, <2>4, <2>5, <2>6, <2>7, <2>8 DEF CleanInv, Running, Snap
<1> QED
  BY <1>8, <1>9, <1>10, <1>11, <1>12, <1>13, <1>14, <1>15, <1>16, <1>17, <1>18, <1>19 DEF Next

LEMMA CleanHolds == Spec => []CleanInv
<1>1. Base /\ Base' /\ TurnInv /\ UndoInv /\ UndoInv' /\ SnapInv' /\ PhaseInv /\ CleanInv /\ [Next]_vars
      => CleanInv'
  BY NextClean
<1>2. TurnsInv => Base /\ TurnInv /\ UndoInv /\ SnapInv /\ PhaseInv
  BY DEF TurnsInv
<1> QED
  BY <1>1, <1>2, InitClean, TurnsHold, PTL DEF Spec

\* An uninstallation that commits leaves no block and no link of ours, except the
\* patch of a Fluidd tree after whose naming another one was named; it gives back what
\* was at the place of a link when it was first recorded, not what a later installation
\* replaced, and keeps what somebody else put there.
THEOREM UninstalledClean == Spec => []UninstallIsClean
<1>1. CleanInv => UninstallIsClean
  BY DEF CleanInv
<1> QED
  BY <1>1, CleanHolds, PTL

\* Whatever runs came before, as long as none was killed, neither validate_targets nor
\* generate_hardware refuses the next one because of what the installer left.
THEOREM RunsAgain == Spec => []NeverLockedOut
<1>1. CleanInv => NeverLockedOut
  BY DEF CleanInv, NeverLockedOut, LockedOut, Embedded, Settled, LinkSettled, Links
<1> QED
  BY <1>1, CleanHolds, PTL
===============================================================================
