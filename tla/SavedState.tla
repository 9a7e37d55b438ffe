----------------------------- MODULE SavedState ------------------------------
(***************************************************************************)
(* What the driver may expect of its state store, whatever lies under it:  *)
(* named values that are read as they were last written, that reach the    *)
(* disk some time later, and that come back from there after a restart.    *)
(* Nothing else ever changes a value: not a half-written file, not an      *)
(* older copy, not an import.  Only while Klipper is down may a person     *)
(* point the driver at another store.                                      *)
(***************************************************************************)
CONSTANTS Keys, Values, Absent

VARIABLES
  current,   \* what a read gives
  durable,   \* what a read will give after a restart
  up         \* Klipper is running

vars == <<current, durable, up>>

Entries == [Keys -> Values \cup {Absent}]

Init == durable \in Entries /\ current = durable /\ up = FALSE

Start == ~up /\ up' = TRUE /\ UNCHANGED <<current, durable>>

Write(k, v) ==
  /\ up /\ current' = [current EXCEPT ![k] = v]
  /\ UNCHANGED <<durable, up>>

\* Some values reach the disk, as they are at that moment.
Sync(ks) ==
  /\ up /\ durable' = [k \in Keys |-> IF k \in ks THEN current[k] ELSE durable[k]]
  /\ UNCHANGED <<current, up>>

Stop == up /\ up' = FALSE /\ current' = durable /\ UNCHANGED durable

Reconfigure ==
  /\ ~up /\ durable' \in Entries /\ current' = durable'
  /\ UNCHANGED up

Next ==
  \/ Start \/ Stop \/ Reconfigure
  \/ \E k \in Keys, v \in Values : Write(k, v)
  \/ \E ks \in SUBSET Keys : Sync(ks)

Spec == Init /\ [][Next]_vars
=============================================================================
