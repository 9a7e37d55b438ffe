------------------------------ MODULE MCAce2Bus ------------------------------
(* Two configured units, and one on the line that ace.cfg does not name any more. *)
EXTENDS Ace2Bus

CONSTANTS u1, u2, stranger

OnceTheFirst == [u \in Units \ Configured |-> 1]

InOrder == [d \in Configured |-> IF d = u1 THEN 1 ELSE 2]
=============================================================================
