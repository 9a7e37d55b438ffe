---------------------------- MODULE MCInstallation -----------------------------
(* Values of the constants of Installation for TLC. *)
EXTENDS Installation

CONSTANTS u1, u2

OneOrBoth == {<<u1>>, <<u2, u1>>}
EachLayout == [own : BOOLEAN, layout : {"new", "split", "pre-release"}]
FirstMayMove == <<[unit |-> u1, physical |-> TRUE]>>
=============================================================================
