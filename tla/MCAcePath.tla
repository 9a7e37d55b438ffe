------------------------------ MODULE MCAcePath ------------------------------
(* Instances of AcePath for TLC. *)
EXTENDS AcePath

CONSTANTS t0, t1, d0, d1

\* One unit with two slots in use, or two units with one slot each.
OneUnit == [t \in Tools |-> d0]
OneEach == [t \in Tools |-> IF t = t0 THEN d0 ELSE d1]
=============================================================================
