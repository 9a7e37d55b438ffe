----------------------------- MODULE StateStore ------------------------------
(***************************************************************************)
(* KlipperStateStore (klipper.py) over PersistentState                     *)
(* (persistent_state.py): the values the driver keeps over a restart.  A   *)
(* set goes to memory, to SAVE_VARIABLE when printer.cfg has a             *)
(* [save_variables] section, and to a JSON file written beside the old one *)
(* and moved over it.  Each of these may fail, Klipper may die between any *)
(* two of them, and a person may add or remove the section while it is     *)
(* down.  Every get asks memory, the variables and the file, in that order.*)
(* Writers do not interleave: none of the steps gives the reactor away.    *)
(***************************************************************************)
EXTENDS FiniteSets

CONSTANTS
  Keys,        \* ace_v3_* names
  Inventory,   \* the one with a legacy form
  Values, Absent,
  Legacy,      \* the inventory a V2 installation left, or Absent
  Bad          \* a file that is no state document

ASSUME StoreAssumption ==
  /\ Inventory \in Keys
  /\ Absent \notin Values
  /\ Legacy \in Values \cup {Absent}
  /\ Bad \notin [Keys -> Values \cup {Absent}]

VARIABLES
  section,     \* [save_variables] is configured
  memory,      \* _memory
  variables,   \* allVariables, and the file Klipper keeps them in
  state,       \* PersistentState._state, all Absent before it is loaded
  loaded, dirty,
  file,        \* runtime-state.json; no file is an empty one
  pc, op, key, val,
  lost         \* keys whose last save failed, as an exception or in the log

session == <<memory, state, loaded, dirty>>
disk    == <<variables, file>>
job     == <<op, key, val>>
vars    == <<section, session, disk, pc, job, lost>>

Entries == [Keys -> Values \cup {Absent}]
Nothing == [k \in Keys |-> Absent]

Init ==
  /\ section \in BOOLEAN
  /\ variables \in Entries /\ file \in Entries \cup {Bad}
  /\ memory = Nothing /\ state = Nothing /\ loaded = FALSE /\ dirty = FALSE
  /\ pc = "down" /\ op = "set" /\ key = Inventory /\ val = Absent
  /\ lost = {}

Goto(p) == pc' = p /\ UNCHANGED <<job, section>>

-----------------------------------------------------------------------------
(***************************************************************************)
(* Reading.                                                                *)
(***************************************************************************)
\* load: a file that cannot be read is an error at every attempt.
Readable == loaded \/ file # Bad
Contents == IF loaded THEN state ELSE IF file = Bad THEN Nothing ELSE file

Load == loaded' = Readable /\ state' = Contents

\* get: memory, then the variables, then the file.
Stored(k) == IF section /\ variables[k] # Absent THEN variables[k] ELSE Contents[k]
Read(k)   == IF memory[k] # Absent THEN memory[k] ELSE Stored(k)

Get(k) ==
  /\ pc = "idle"
  /\ IF memory[k] = Absent /\ ~(section /\ variables[k] # Absent)
     THEN Load ELSE UNCHANGED <<state, loaded>>
  /\ UNCHANGED <<section, memory, dirty, disk, pc, job, lost>>

\* Mutant: only what this session wrote counts as present.
ContainsInMemory(k) == memory[k] # Absent

\* _contains
Contains(k) == Read(k) # Absent

-----------------------------------------------------------------------------
(***************************************************************************)
(* Writing.                                                                *)
(***************************************************************************)
Set(o, k, v) ==
  /\ op' = o /\ key' = k /\ val' = v
  /\ memory' = [memory EXCEPT ![k] = v]
  /\ pc' = IF section THEN "variable" ELSE "state"
  /\ UNCHANGED <<section, dirty, disk, lost>>

Write(k, v) == pc = "idle" /\ Set("set", k, v) /\ UNCHANGED <<state, loaded>>

\* Where an operation goes when it ends, and when it raises: a migration that
\* raises keeps Klipper from becoming ready.
Done   == Goto(IF op = "stop" THEN "stopped" ELSE "idle")
Raised == Goto(IF op = "set" THEN "idle" ELSE "stopped")

\* Mutant: an exception of SAVE_VARIABLE is swallowed as those of the file are.
SaveVariableQuiet ==
  /\ pc = "variable"
  /\ \/ /\ variables' = [variables EXCEPT ![key] = val]
        /\ lost' = lost \ {key} /\ Goto("state")
     \/ UNCHANGED <<variables, lost>> /\ Goto("state")
  /\ UNCHANGED <<session, file>>

SaveVariable ==
  /\ pc = "variable"
  /\ \/ /\ variables' = [variables EXCEPT ![key] = val]
        /\ lost' = lost \ {key} /\ Goto("state")
     \/ /\ lost' = lost \cup {key} /\ Raised
        /\ UNCHANGED variables
  /\ UNCHANGED <<session, file>>

\* A failure of the file is logged and swallowed.  It is a loss only when the
\* value is nowhere else.
FileFails ==
  /\ lost' = IF section \/ op = "stop" THEN lost ELSE lost \cup {key}
  /\ Done

\* PersistentState.set
StateSet ==
  /\ pc = "state"
  /\ IF Readable
     THEN /\ loaded' = TRUE
          /\ state' = [Contents EXCEPT ![key] = val]
          /\ dirty' = (dirty \/ Contents[key] # val)
          /\ Goto("flush") /\ UNCHANGED lost
     ELSE FileFails /\ UNCHANGED <<state, loaded, dirty>>
  /\ UNCHANGED <<memory, disk>>

\* Mutant: the file is written in place.
FlushInPlace ==
  /\ pc = "flush"
  /\ \/ ~dirty /\ Done /\ UNCHANGED <<lost, file>>
     \/ dirty /\ Goto("replace") /\ file' = Bad /\ UNCHANGED lost
     \/ dirty /\ FileFails /\ UNCHANGED file
  /\ UNCHANGED <<session, variables>>

\* PersistentState.flush writes a temporary file with all of the state.
Flush ==
  /\ pc = "flush"
  /\ \/ ~dirty /\ Done /\ UNCHANGED lost
     \/ dirty /\ Goto("replace") /\ UNCHANGED lost
     \/ dirty /\ FileFails
  /\ UNCHANGED <<session, disk>>

\* os.replace, all or nothing.
Replace ==
  /\ pc = "replace"
  /\ \/ /\ file' = state /\ dirty' = FALSE
        /\ lost' = IF section THEN lost ELSE {}
        /\ Done
     \/ FileFails /\ UNCHANGED <<file, dirty>>
  /\ UNCHANGED <<memory, state, loaded, variables>>

-----------------------------------------------------------------------------
(***************************************************************************)
(* Sessions.                                                               *)
(***************************************************************************)
\* _handle_ready: bind, then migrate_legacy_inventory.
Start ==
  /\ pc = "down"
  /\ memory' = Nothing /\ state' = Nothing /\ loaded' = FALSE /\ dirty' = FALSE
  /\ lost' = {} /\ Goto("ready") /\ UNCHANGED disk

Migrate ==
  /\ pc = "ready" /\ Load
  /\ IF Contains(Inventory) \/ Legacy = Absent
     THEN Goto("idle") /\ UNCHANGED <<memory, dirty, disk, lost>>
     ELSE Set("migrate", Inventory, Legacy)

\* _handle_disconnect: a flush of what is still dirty.
Disconnect ==
  /\ pc = "idle"
  /\ op' = "stop" /\ UNCHANGED <<key, val, section>>
  /\ Load
  /\ pc' = IF Readable THEN "flush" ELSE "stopped"
  /\ UNCHANGED <<memory, dirty, disk, lost>>

\* The process ends, after the disconnect or at any other point.
Exit == pc # "down" /\ Goto("down") /\ UNCHANGED <<session, disk, lost>>

\* A person edits printer.cfg.
Reconfigure ==
  /\ pc = "down" /\ section' = ~section
  /\ UNCHANGED <<session, disk, pc, job, lost>>

Next ==
  \/ \E k \in Keys : Get(k)
  \/ \E k \in Keys, v \in Values : Write(k, v)
  \/ SaveVariable \/ StateSet \/ Flush \/ Replace
  \/ Start \/ Migrate \/ Disconnect \/ Exit \/ Reconfigure

Spec == Init /\ [][Next]_vars

-----------------------------------------------------------------------------
(***************************************************************************)
(* Properties.                                                             *)
(***************************************************************************)
TypeOK ==
  /\ section \in BOOLEAN /\ loaded \in BOOLEAN /\ dirty \in BOOLEAN
  /\ memory \in Entries /\ variables \in Entries /\ state \in Entries
  /\ file \in Entries \cup {Bad}
  /\ pc \in {"down", "ready", "idle", "variable", "state", "flush", "replace",
            "stopped"}
  /\ op \in {"set", "migrate", "stop"}
  /\ key \in Keys /\ val \in Values \cup {Absent}
  /\ lost \subseteq Keys

Running == pc # "down"

\* What a restart would read, and what a read gives.
Durable ==
  [k \in Keys |-> IF section /\ variables[k] # Absent THEN variables[k]
                  ELSE IF file = Bad THEN Absent ELSE file[k]]
Current == IF Running THEN [k \in Keys |-> Read(k)] ELSE Durable

Promise == INSTANCE SavedState WITH
  current <- Current, durable <- Durable, up <- Running

\* Memory, variables and file together behave as one named value per key: a
\* read gives the last write, a restart gives a value that was once current,
\* and neither a crash between two steps nor a failed step makes up another
\* (KlipperStateStore.get and set).
IsSavedState == Promise!Spec

\* A value a restart would not give back is one whose save was reported as
\* failed, to the caller or in the log, and not repaired since.
NoSilentLoss ==
  pc = "idle" => \A k \in Keys \ lost : Durable[k] = Read(k)

\* Without [save_variables], what a restart reads changes to everything as it
\* is now, never to a mixture: a saved path_state is never newer than the
\* current_tool saved before it.
SavesAreSnapshots ==
  [][~section /\ ~section' /\ Durable' # Durable => Durable' = Current]_vars

\* A V2 inventory is imported only when no V3 inventory can be read.
MigratesOnce ==
  [][pc = "ready" /\ pc' \in {"variable", "state"}
       => Durable[Inventory] = Absent]_vars
=============================================================================
