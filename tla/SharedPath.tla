----------------------------- MODULE SharedPath -----------------------------
(***************************************************************************)
(* What the driver promises about the one filament path all tools share,   *)
(* with no units, commands or transactions in it.                          *)
(*                                                                         *)
(* The driver holds a belief about the path: that it is empty, that one    *)
(* tool is loaded, or that it does not know.  A definite belief is true    *)
(* for as long as it is held: filament moves only under "unsure", and a    *)
(* definite belief is taken up only when the filament really is there.     *)
(***************************************************************************)
CONSTANTS Tools, Empty, Unsure   \* Empty and Unsure are no tools

VARIABLES
  belief,    \* Empty, Unsure or the loaded tool
  inPath     \* the tools whose filament is in the shared path

vars == <<belief, inPath>>

True(b) == \/ b = Unsure
           \/ b = Empty /\ inPath = {}
           \/ b \in Tools /\ inPath = {b}

Init == belief = Empty /\ inPath = {}

Doubt == belief' = Unsure /\ UNCHANGED inPath

Move == /\ belief = Unsure
        /\ inPath' \in SUBSET Tools
        /\ UNCHANGED belief

Confirm == /\ belief = Unsure
           /\ belief' \in {b \in Tools \cup {Empty} : True(b)}
           /\ UNCHANGED inPath

Next == Doubt \/ Move \/ Confirm

Spec == Init /\ [][Next]_vars
=============================================================================
