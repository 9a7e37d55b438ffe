---------------------------- MODULE MCActionGate -----------------------------
(* Instances of ActionGate for TLC. *)
EXTENDS ActionGate

CONSTANTS PLA, ABS

\* T0 and T1 are the same material, T2 another.
TwoAlike == [t \in Tools |-> IF t < 2 THEN PLA ELSE ABS]
=============================================================================
