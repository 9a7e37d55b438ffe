-------------------------------- MODULE OneShot --------------------------------
(***************************************************************************)
(* What a unit's link promises of a physical command: it is carried out at *)
(* most once, an answer tells the truth, and a command without an answer   *)
(* stays in doubt, and stops every other, until a recovery after which it  *)
(* can no longer happen.                                                   *)
(***************************************************************************)
EXTENDS Naturals

CONSTANT Ids
VARIABLES
  verdict,  \* what the driver holds of each command
  times     \* how often the unit has carried it out

Verdicts == {"none", "waiting", "ok", "refused", "doubt", "settled"}
Open     == {"waiting", "doubt"}

Init == verdict = [c \in Ids |-> "none"] /\ times = [c \in Ids |-> 0]

Judge(c, v) == verdict' = [verdict EXCEPT ![c] = v] /\ UNCHANGED times

Issue(c) ==
  /\ verdict[c] = "none" /\ \A d \in Ids : verdict[d] \notin Open
  /\ Judge(c, "waiting")

\* The unit carries a command out: early, late, but never after it is settled.
Happen(c) ==
  /\ verdict[c] \in Open /\ times[c] = 0
  /\ times' = [times EXCEPT ![c] = 1] /\ UNCHANGED verdict

Confirm(c) == verdict[c] = "waiting" /\ times[c] = 1 /\ Judge(c, "ok")
Refuse(c)  == verdict[c] = "waiting" /\ times[c] = 0 /\ Judge(c, "refused")

\* No answer, or the end of an accepted motion is not confirmed.
Doubt(c) == verdict[c] \in {"waiting", "ok"} /\ Judge(c, "doubt")

Settle ==
  /\ \E c \in Ids : verdict[c] = "doubt"
  /\ verdict' = [c \in Ids |-> IF verdict[c] = "doubt" THEN "settled" ELSE verdict[c]]
  /\ UNCHANGED times

Next ==
  \/ \E c \in Ids : Issue(c) \/ Happen(c) \/ Confirm(c) \/ Refuse(c) \/ Doubt(c)
  \/ Settle

Spec == Init /\ [][Next]_<<verdict, times>>
=============================================================================
