-------------------------- MODULE StateStoreProofs ---------------------------
(***************************************************************************)
(* The state store keeps its promise for every set of keys and values:     *)
(* StateStore implements SavedState, loses nothing in silence, writes      *)
(* snapshots, and imports an old inventory only when there is no newer.    *)
(***************************************************************************)
EXTENDS StateStore, TLAPS

(***************************************************************************)
(* The invariant: what the four copies of a value have to do with each     *)
(* other, between and inside the operations.                               *)
(***************************************************************************)
FileAndState ==
  /\ loaded => file # Bad
  /\ loaded /\ ~dirty => file = state
  /\ dirty => loaded

AtStep ==
  /\ pc \in {"variable", "state"} => memory[key] = val /\ val \in Values /\ op # "stop"
  /\ pc = "variable" => section
  /\ pc = "state" /\ section => variables[key] = val
  /\ pc \in {"flush", "replace"} => loaded
  /\ pc = "replace" => dirty
  /\ pc = "ready" => memory = Nothing /\ ~loaded

\* The key whose new value is in memory and not yet in the layer below.
Saving(k)   == k = key /\ pc \in {"variable", "state"}
Unflushed(k) == k = key /\ pc \in {"flush", "replace"} /\ op # "stop"

WithVariables(k) ==
  /\ loaded /\ variables[k] = Absent => state[k] = file[k]
  /\ memory[k] # Absent /\ k \notin lost =>
       \/ variables[k] = memory[k]
       \/ pc = "variable" /\ k = key

WithoutVariables(k) ==
  /\ memory[k] # Absent =>
       \/ loaded /\ state[k] = memory[k]
       \/ Saving(k)
       \/ ~loaded /\ file = Bad /\ k \in lost
  /\ loaded /\ k \notin lost => state[k] = file[k] \/ Unflushed(k)

Layers == \A k \in Keys : IF section THEN WithVariables(k) ELSE WithoutVariables(k)

StoreInv == TypeOK /\ FileAndState /\ AtStep /\ (Running => Layers)

LEMMA Contained ==
  ASSUME TypeOK
  PROVE  Contents \in Entries /\ Nothing \in Entries /\ Bad \notin Entries
         /\ Absent \notin Values
BY StoreAssumption DEF TypeOK, Contents, Nothing, Entries

LEMMA TypesKept ==
  ASSUME TypeOK, [Next]_vars
  PROVE  TypeOK'
<1>1. Contents \in Entries /\ Nothing \in Entries /\ Readable \in BOOLEAN
  BY Contained DEF TypeOK, Readable
<1> USE DEF TypeOK, Goto, Done, Raised, FileFails, job, disk, session
<1>2. ASSUME NEW k \in Keys, Get(k) PROVE TypeOK'
  BY <1>1, <1>2 DEF Get, Load
<1>3. ASSUME NEW k \in Keys, NEW v \in Values, Write(k, v) PROVE TypeOK'
  BY <1>3 DEF Write, Set, Entries
<1>4. CASE SaveVariable
  BY <1>4 DEF SaveVariable, Entries
<1>5. CASE StateSet
  BY <1>1, <1>5 DEF StateSet, Entries
<1>6. CASE Flush
  BY <1>6 DEF Flush
<1>7. CASE Replace
  BY <1>7 DEF Replace
<1>8. CASE Start
  BY <1>1, <1>8 DEF Start
<1>9. CASE Migrate
  <2>1. CASE UNCHANGED <<memory, dirty, disk, lost>> /\ Goto("idle") /\ Load
    BY <1>1, <2>1 DEF Load
  <2>2. CASE Set("migrate", Inventory, Legacy) /\ Load
    BY <1>1, <2>2, StoreAssumption DEF Load, Set, Entries
  <2> QED BY <1>9, <2>1, <2>2 DEF Migrate
<1>10. CASE Disconnect
  BY <1>1, <1>10 DEF Disconnect, Load
<1>11. CASE Exit
  BY <1>11 DEF Exit
<1>12. CASE Reconfigure
  BY <1>12 DEF Reconfigure
<1>13. CASE UNCHANGED vars
  BY <1>13 DEF vars
<1> QED BY <1>2, <1>3, <1>4, <1>5, <1>6, <1>7, <1>8, <1>9, <1>10, <1>11, <1>12, <1>13 DEF Next

LEMMA FileAndStateKept ==
  ASSUME TypeOK, FileAndState, AtStep, [Next]_vars
  PROVE  FileAndState'
<1>1. Contents \in Entries /\ Bad \notin Entries /\ Absent \notin Values
  BY Contained
<1> USE <1>1 DEF TypeOK, Goto, Done, Raised, FileFails, job, disk, session, Entries,
      FileAndState, AtStep
<1>2. ASSUME NEW k \in Keys, Get(k) PROVE FileAndState'
  BY <1>2 DEF Get, Load, Contents, Readable
<1>3. ASSUME NEW k \in Keys, NEW v \in Values, Write(k, v) PROVE FileAndState'
  BY <1>3 DEF Write, Set
<1>4. CASE SaveVariable
  BY <1>4 DEF SaveVariable
<1>5. CASE StateSet
  <2>1. CASE Readable
    <3>1. /\ loaded' /\ file' = file /\ state' = [Contents EXCEPT ![key] = val]
          /\ dirty' = (dirty \/ Contents[key] # val)
      BY <1>5, <2>1 DEF StateSet
    <3>2. file # Bad /\ (~dirty => file = Contents)
      BY <2>1 DEF Readable, Contents
    <3>3. ~dirty' => state' = Contents
      BY <3>1
    <3> QED BY <3>1, <3>2, <3>3
  <2>2. CASE ~Readable
    BY <1>5, <2>2 DEF StateSet
  <2> QED BY <2>1, <2>2
<1>6. CASE Flush
  BY <1>6 DEF Flush
<1>7. CASE Replace
  BY <1>7 DEF Replace
<1>8. CASE Start
  BY <1>8 DEF Start, Nothing
<1>9. CASE Migrate
  BY <1>9 DEF Migrate, Load, Set, Contents, Readable, Nothing
<1>10. CASE Disconnect
  BY <1>10 DEF Disconnect, Load, Contents, Readable
<1>11. CASE Exit
  BY <1>11 DEF Exit
<1>12. CASE Reconfigure
  BY <1>12 DEF Reconfigure
<1>13. CASE UNCHANGED vars
  BY <1>13 DEF vars
<1> QED BY <1>2, <1>3, <1>4, <1>5, <1>6, <1>7, <1>8, <1>9, <1>10, <1>11, <1>12, <1>13 DEF Next

LEMMA AtStepKept ==
  ASSUME TypeOK, FileAndState, AtStep, [Next]_vars
  PROVE  AtStep'
<1>1. Contents \in Entries /\ Bad \notin Entries /\ Absent \notin Values
  BY Contained
<1> USE <1>1 DEF TypeOK, Goto, Done, Raised, FileFails, job, disk, session, Entries,
      FileAndState, AtStep
<1>2. ASSUME NEW k \in Keys, Get(k) PROVE AtStep'
  BY <1>2 DEF Get, Load, Contents, Readable
<1>3. ASSUME NEW k \in Keys, NEW v \in Values, Write(k, v) PROVE AtStep'
  BY <1>3 DEF Write, Set
<1>4. CASE SaveVariable
  BY <1>4 DEF SaveVariable
<1>5. CASE StateSet
  BY <1>5 DEF StateSet, Contents, Readable
<1>6. CASE Flush
  BY <1>6 DEF Flush
<1>7. CASE Replace
  BY <1>7 DEF Replace
<1>8. CASE Start
  BY <1>8 DEF Start, Nothing
<1>9. CASE Migrate
  BY <1>9, StoreAssumption DEF Migrate, Load, Set, Contents, Readable, Nothing
<1>10. CASE Disconnect
  BY <1>10 DEF Disconnect, Load, Contents, Readable
<1>11. CASE Exit
  BY <1>11 DEF Exit
<1>12. CASE Reconfigure
  BY <1>12 DEF Reconfigure
<1>13. CASE UNCHANGED vars
  BY <1>13 DEF vars
<1> QED BY <1>2, <1>3, <1>4, <1>5, <1>6, <1>7, <1>8, <1>9, <1>10, <1>11, <1>12, <1>13 DEF Next

LEMMA LayersKept ==
  ASSUME StoreInv, [Next]_vars, Running', NEW q \in Keys
  PROVE  IF section' THEN WithVariables(q)' ELSE WithoutVariables(q)'
<1>1. Contents \in Entries /\ Bad \notin Entries /\ Absent \notin Values
  BY Contained DEF StoreInv
<1>2. ASSUME Running
      PROVE  IF section THEN WithVariables(q) ELSE WithoutVariables(q)
  BY <1>2 DEF StoreInv, Layers
<1> USE <1>1, <1>2 DEF StoreInv, TypeOK, FileAndState, AtStep, Running, WithVariables,
        WithoutVariables, Saving, Unflushed, Goto, Done, Raised, FileFails, job, disk,
        session, Entries
<1>3. ASSUME NEW k \in Keys, Get(k)
      PROVE  IF section' THEN WithVariables(q)' ELSE WithoutVariables(q)'
  BY <1>3 DEF Get, Load, Contents, Readable
<1>4. ASSUME NEW k \in Keys, NEW v \in Values, Write(k, v)
      PROVE  IF section' THEN WithVariables(q)' ELSE WithoutVariables(q)'
  BY <1>4 DEF Write, Set
<1>5. CASE SaveVariable
  BY <1>5 DEF SaveVariable
<1>6. CASE StateSet
  BY <1>6 DEF StateSet, Contents, Readable
<1>7. CASE Flush
  BY <1>7 DEF Flush
<1>8. CASE Replace
  <2>1. CASE file' = state /\ dirty' = FALSE /\ lost' = IF section THEN lost ELSE {}
    <3>1. /\ UNCHANGED <<section, memory, variables, state, loaded, job>>
          /\ pc = "replace" /\ pc' \notin {"variable", "state"}
      BY <1>8, <2>1 DEF Replace
    <3>2. CASE section
      BY <1>8, <2>1, <3>1, <3>2
    <3>3. CASE ~section
      <4>1. memory[q] # Absent => state[q] = memory[q]
        BY <1>8, <3>3 DEF Replace
      <4> QED BY <1>8, <2>1, <3>1, <3>3, <4>1 DEF Replace
    <3> QED BY <3>2, <3>3
  <2>2. CASE FileFails /\ UNCHANGED <<file, dirty>>
    BY <1>8, <2>2 DEF Replace
  <2> QED BY <1>8, <2>1, <2>2 DEF Replace
<1>9. CASE Start
  BY <1>9 DEF Start, Nothing
<1>10. CASE Migrate
  BY <1>10 DEF Migrate, Load, Set, Contents, Readable, Nothing
<1>11. CASE Disconnect
  BY <1>11 DEF Disconnect, Load, Contents, Readable
<1>12. CASE Exit
  BY <1>12 DEF Exit
<1>13. CASE Reconfigure
  BY <1>13 DEF Reconfigure
<1>14. CASE UNCHANGED vars
  BY <1>14 DEF vars
<1> QED BY <1>3, <1>4, <1>5, <1>6, <1>7, <1>8, <1>9, <1>10, <1>11, <1>12, <1>13, <1>14 DEF Next

LEMMA StoreInvariant == Spec => []StoreInv
<1>1. Init => StoreInv
  BY StoreAssumption DEF Init, StoreInv, TypeOK, FileAndState, AtStep, Running, Entries,
                         Nothing
<1>2. StoreInv /\ [Next]_vars => StoreInv'
  <2> SUFFICES ASSUME StoreInv, [Next]_vars PROVE StoreInv'
    OBVIOUS
  <2>1. TypeOK' /\ FileAndState' /\ AtStep'
    BY TypesKept, FileAndStateKept, AtStepKept DEF StoreInv
  <2>2. Running' => Layers'
    BY LayersKept DEF Layers
  <2> QED BY <2>1, <2>2 DEF StoreInv
<1> QED BY <1>1, <1>2, PTL DEF Spec

(***************************************************************************)
(* The invariants and the steps the runs check.                            *)
(***************************************************************************)
\* Every variable of the store has its type (klipper.py, persistent_state.py).
THEOREM TypesCorrect == Spec => []TypeOK
<1>1. StoreInv => TypeOK
  BY DEF StoreInv
<1> QED BY <1>1, StoreInvariant, PTL

\* A value that a restart would not give back is one whose save was reported
\* as failed (KlipperStateStore.set, PersistentState.flush).
THEOREM NothingLostSilently == Spec => []NoSilentLoss
<1>1. StoreInv => NoSilentLoss
  <2> SUFFICES ASSUME StoreInv, pc = "idle", NEW k \in Keys \ lost
               PROVE  Durable[k] = Read(k)
    BY DEF NoSilentLoss
  <2>1. IF section THEN WithVariables(k) ELSE WithoutVariables(k)
    BY DEF StoreInv, Layers, Running
  <2>2. Durable[k] = IF section /\ variables[k] # Absent THEN variables[k]
                     ELSE IF file = Bad THEN Absent ELSE file[k]
    BY DEF Durable
  <2>3. Contents[k] = IF loaded THEN state[k] ELSE IF file = Bad THEN Absent ELSE file[k]
    BY DEF Contents, Nothing
  <2>4. loaded => file # Bad
    BY DEF StoreInv, FileAndState
  <2>5. CASE section
    BY <2>1, <2>2, <2>3, <2>4, <2>5 DEF WithVariables, Read, Stored
  <2>6. CASE ~section
    BY <2>1, <2>2, <2>3, <2>4, <2>6 DEF WithoutVariables, Saving, Unflushed, Read, Stored
  <2> QED BY <2>5, <2>6
<1> QED BY <1>1, StoreInvariant, PTL

\* A V2 inventory is imported only when no V3 inventory can be read
\* (migrate_legacy_inventory, _contains).
THEOREM ImportedOnce == Spec => MigratesOnce
<1>1. StoreInv /\ [Next]_vars
        => [pc = "ready" /\ pc' \in {"variable", "state"} => Durable[Inventory] = Absent]_vars
  <2> SUFFICES ASSUME StoreInv, [Next]_vars, pc = "ready", pc' \in {"variable", "state"}
               PROVE  Durable[Inventory] = Absent
    OBVIOUS
  <2>1. Migrate
    BY DEF Next, Get, Write, SaveVariable, StateSet, Flush, Replace, Start, Disconnect, Exit,
           Reconfigure, Goto, vars
  <2>2. ~Contains(Inventory)
    BY <2>1 DEF Migrate, Goto
  <2>3. memory = Nothing /\ ~loaded /\ Inventory \in Keys
    BY StoreAssumption DEF StoreInv, AtStep
  <2> QED BY <2>2, <2>3 DEF Contains, Read, Stored, Contents, Nothing, Durable
<1> QED BY <1>1, StoreInvariant, PTL DEF Spec, MigratesOnce

(***************************************************************************)
(* The refinement: what each step does to the current and the durable      *)
(* values.                                                                 *)
(***************************************************************************)
\* A load changes no value.
LEMMA LoadReadsTheSame ==
  ASSUME TypeOK, Load, UNCHANGED <<section, memory, variables, file>>
  PROVE  Contents' = Contents /\ Durable' = Durable
         /\ \A k \in Keys : Read(k)' = Read(k)
<1>1. Contents' = Contents
  BY DEF Load, Contents, Readable
<1> QED BY <1>1 DEF Durable, Read, Stored

LEMMA WriteIsAWrite ==
  ASSUME StoreInv, Running, NEW o, NEW k \in Keys, NEW v \in Values, Set(o, k, v),
         Contents' = Contents, UNCHANGED file
  PROVE  Promise!Write(k, v)
<1>1. /\ memory' = [memory EXCEPT ![k] = v] /\ v # Absent
      /\ UNCHANGED <<section, variables>> /\ pc' # "down"
  BY StoreAssumption DEF Set, disk
<1>2. Read(k)' = v
  BY <1>1 DEF Read, StoreInv, TypeOK, Entries
<1>3. \A q \in Keys \ {k} : Read(q)' = Read(q)
  BY <1>1 DEF Read, Stored, StoreInv, TypeOK, Entries
<1>4. Durable' = Durable
  BY <1>1 DEF Durable
<1>5. Current' = [Current EXCEPT ![k] = v]
  BY <1>1, <1>2, <1>3 DEF Current, Running
<1> QED BY <1>1, <1>4, <1>5 DEF Promise!Write, Running

LEMMA VariableIsSynced ==
  ASSUME StoreInv, SaveVariable
  PROVE  Promise!Sync({key}) \/ UNCHANGED <<Current, Durable, Running>>
<1>1. pc = "variable" /\ pc' # "down" /\ UNCHANGED <<section, session, file, job>>
  BY DEF SaveVariable, Goto, Raised
<1>2. CASE UNCHANGED variables
  <2>1. Durable' = Durable /\ Current' = Current
    BY <1>1, <1>2 DEF Durable, Current, Running, Read, Stored, Contents, session
  <2> QED BY <1>1, <2>1 DEF Running
<1>3. CASE variables' = [variables EXCEPT ![key] = val]
  <2>1. section /\ memory[key] = val /\ val # Absent /\ key \in Keys
    BY <1>1, StoreAssumption DEF StoreInv, AtStep, TypeOK
  <2>2. \A k \in Keys : Read(k)' = Read(k)
    BY <1>1, <1>3, <2>1 DEF Read, Stored, Contents, session, StoreInv, TypeOK, Entries
  <2>3. Read(key) = val
    BY <2>1 DEF Read
  <2>4. Current' = Current /\ Current[key] = val
    BY <1>1, <2>1, <2>2, <2>3 DEF Current, Running
  <2>5. \A k \in Keys : Durable'[k] = IF k \in {key} THEN Current[k] ELSE Durable[k]
    <3>1. /\ section' = section /\ file' = file /\ key' = key
          /\ \A k \in Keys : variables'[k] = IF k = key THEN val ELSE variables[k]
      BY <1>1, <1>3, <2>1 DEF StoreInv, TypeOK, Entries, job
    <3> QED BY <2>1, <2>4, <3>1 DEF Durable
  <2>6. Durable' = [k \in Keys |-> IF k \in {key} THEN Current[k] ELSE Durable[k]]
    BY <2>5 DEF Durable
  <2>7. UNCHANGED <<Current, Running>> /\ Running
    BY <1>1, <2>4 DEF Running
  <2> QED BY <2>6, <2>7 DEF Promise!Sync
<1> QED BY <1>2, <1>3 DEF SaveVariable

\* What the file does not hold after a replace, the variables do.
LEMMA FileIsSynced ==
  ASSUME StoreInv, Replace
  PROVE  \/ Promise!Sync(IF section THEN {} ELSE Keys)
         \/ UNCHANGED <<Current, Durable, Running>>
<1>1. /\ pc = "replace" /\ pc' # "down" /\ loaded
      /\ UNCHANGED <<section, memory, state, loaded, variables>>
  BY DEF Replace, Goto, Done, FileFails, StoreInv, AtStep
<1>2. Contents' = Contents /\ Contents = state
  BY <1>1 DEF Contents
<1>3. Current' = Current
  BY <1>1, <1>2 DEF Current, Running, Read, Stored
<1>4. CASE UNCHANGED file
  BY <1>1, <1>3, <1>4 DEF Durable, Running
<1>5. CASE file' = state
  <2>1. state # Bad /\ file # Bad
    BY <1>1, StoreAssumption DEF StoreInv, TypeOK, FileAndState, Entries
  <2>2. CASE section
    <3>1. \A k \in Keys : variables[k] = Absent => state[k] = file[k]
      BY <1>1, <2>2 DEF StoreInv, Layers, Running, WithVariables
    <3>2. Durable' = Durable
      BY <1>1, <1>5, <2>1, <2>2, <3>1 DEF Durable
    <3> QED BY <1>1, <1>3, <3>2 DEF Running
  <2>3. CASE ~section
    <3>1. \A k \in Keys : memory[k] # Absent => state[k] = memory[k]
      BY <1>1, <2>3 DEF StoreInv, Layers, Running, WithoutVariables, Saving
    <3>2. \A k \in Keys : Current[k] = state[k]
      BY <1>1, <1>2, <2>3, <3>1 DEF Current, Running, Read, Stored
    <3>3. Durable' = [k \in Keys |-> state[k]]
      BY <1>1, <1>5, <2>1, <2>3 DEF Durable
    <3> QED BY <1>1, <1>3, <2>3, <3>2, <3>3 DEF Promise!Sync, Running
  <2> QED BY <2>2, <2>3
<1> QED BY <1>4, <1>5 DEF Replace

LEMMA StepImplements ==
  ASSUME StoreInv, StoreInv', [Next]_vars
  PROVE  [Promise!Next]_(Promise!vars)
<1> DEFINE Same == UNCHANGED <<Current, Durable, Running>>
<1>1. ASSUME Load, UNCHANGED <<section, memory, variables, file>>, Running, Running'
      PROVE  Same
  <2>1. Durable' = Durable /\ \A k \in Keys : Read(k)' = Read(k)
    BY <1>1, LoadReadsTheSame DEF StoreInv
  <2> QED BY <1>1, <2>1 DEF Current
<1>2. ASSUME UNCHANGED <<section, memory, variables, file, state, loaded, Running>>
      PROVE  Same
  BY <1>2 DEF Durable, Current, Read, Stored, Contents
<1>3. ASSUME NEW k \in Keys, Get(k) PROVE Same
  <2>1. CASE Load
    BY <1>1, <1>3, <2>1 DEF Get, disk, Running
  <2>2. CASE UNCHANGED <<state, loaded>>
    BY <1>2, <1>3, <2>2 DEF Get, disk, Running
  <2> QED BY <1>3, <2>1, <2>2 DEF Get
<1>4. ASSUME NEW k \in Keys, NEW v \in Values, Write(k, v) PROVE Promise!Next
  <2>1. Contents' = Contents /\ UNCHANGED file /\ Running /\ Set("set", k, v)
    BY <1>4 DEF Write, Set, disk, Contents, Running
  <2> QED BY <2>1, WriteIsAWrite DEF Promise!Next
<1>5. CASE SaveVariable
  <2>1. key \in Keys
    BY DEF StoreInv, TypeOK
  <2> QED BY <1>5, <2>1, VariableIsSynced DEF Promise!Next, Promise!vars
<1>6. CASE StateSet
  <2>1. pc = "state" /\ pc' # "down" /\ UNCHANGED <<section, memory, variables, file>>
    BY <1>6 DEF StateSet, Goto, FileFails, Done, disk
  <2>2. Durable' = Durable
    BY <2>1 DEF Durable
  <2>3. \A k \in Keys : memory[k] = Absent => Contents'[k] = Contents[k]
    <3>1. CASE Readable
      <4>1. Contents' = [Contents EXCEPT ![key] = val]
        BY <1>6, <3>1 DEF StateSet, Contents
      <4>2. memory[key] # Absent /\ Contents \in Entries
        BY <2>1, StoreAssumption, Contained DEF StoreInv, AtStep
      <4> QED BY <4>1, <4>2 DEF Entries
    <3>2. CASE ~Readable
      BY <1>6, <2>1, <3>2 DEF StateSet, Contents
    <3> QED BY <3>1, <3>2
  <2>4. \A k \in Keys : Read(k)' = Read(k)
    BY <2>1, <2>3 DEF Read, Stored
  <2>5. Same
    BY <2>1, <2>2, <2>4 DEF Current, Running
  <2> QED BY <2>5 DEF Promise!vars
<1>7. CASE Flush
  <2>1. /\ UNCHANGED <<section, memory, variables, file, state, loaded>>
        /\ Running /\ Running'
    BY <1>7 DEF Flush, Goto, Done, FileFails, session, disk, Running
  <2> QED BY <1>2, <2>1 DEF Promise!vars
<1>8. CASE Replace
  BY <1>8, FileIsSynced DEF Promise!Next, Promise!vars
<1>9. CASE Start
  <2>1. /\ ~Running /\ Running' /\ UNCHANGED <<section, variables, file>>
        /\ memory' = Nothing /\ ~loaded'
    BY <1>9 DEF Start, Goto, disk, Running
  <2>2. Durable' = Durable
    BY <2>1 DEF Durable
  <2>3. \A k \in Keys : Read(k)' = Durable[k]
    BY <2>1 DEF Read, Stored, Contents, Nothing, Durable
  <2>4. Current' = Durable
    BY <2>1, <2>3 DEF Current, Durable
  <2>5. Current = Durable
    BY <2>1 DEF Current
  <2> QED BY <2>1, <2>2, <2>4, <2>5 DEF Promise!Next, Promise!Start
<1>10. CASE Migrate
  <2>1. pc = "ready" /\ Load /\ UNCHANGED <<section, variables, file>>
    BY <1>10 DEF Migrate, Set, Goto, disk
  <2>2. CASE Goto("idle") /\ UNCHANGED memory
    <3>1. Running /\ Running'
      BY <2>1, <2>2 DEF Goto, Running
    <3> QED BY <1>1, <2>1, <2>2, <3>1 DEF Promise!vars
  <2>3. CASE Set("migrate", Inventory, Legacy) /\ Legacy # Absent
    <3>1. Contents' = Contents
      BY <2>1 DEF Load, Contents, Readable
    <3>2. Inventory \in Keys /\ Legacy \in Values
      BY <2>3, StoreAssumption
    <3>3. Promise!Write(Inventory, Legacy)
      BY <2>1, <2>3, <3>1, <3>2, WriteIsAWrite DEF Running
    <3> QED BY <3>2, <3>3 DEF Promise!Next
  <2>4. CASE Goto("idle") /\ UNCHANGED <<memory, dirty, disk, lost>>
    BY <2>2, <2>4
  <2> QED BY <1>10, <2>3, <2>4 DEF Migrate
<1>11. CASE Disconnect
  <2>1. /\ Load /\ UNCHANGED <<section, memory, variables, file>>
        /\ Running /\ Running'
    BY <1>11 DEF Disconnect, disk, Running
  <2> QED BY <1>1, <2>1 DEF Promise!vars
<1>12. CASE Exit
  <2>1. Running /\ ~Running' /\ Durable' = Durable
    BY <1>12 DEF Exit, Goto, disk, Running, Durable
  <2>2. Current' = Durable
    BY <2>1 DEF Current
  <2> QED BY <2>1, <2>2 DEF Promise!Next, Promise!Stop
<1>13. CASE Reconfigure
  <2>1. ~Running /\ UNCHANGED Running /\ UNCHANGED <<variables, file>>
    BY <1>13 DEF Reconfigure, Running, disk
  <2>3. Durable' \in Entries
    BY <2>1 DEF Durable, StoreInv, TypeOK, Entries
  <2>2. Current' = Durable'
    BY <2>1 DEF Current
  <2> QED BY <2>1, <2>2, <2>3 DEF Promise!Next, Promise!Reconfigure, Promise!Entries, Entries
<1>14. CASE UNCHANGED vars
  <2>1. UNCHANGED <<section, memory, variables, file, state, loaded, Running>>
    BY <1>14 DEF vars, session, disk, Running
  <2> QED BY <1>2, <2>1 DEF Promise!vars
<1> QED BY <1>3, <1>4, <1>5, <1>6, <1>7, <1>8, <1>9, <1>10, <1>11, <1>12, <1>13, <1>14
        DEF Next, Promise!vars

\* The three copies together are one named value per key (KlipperStateStore,
\* PersistentState): every step is a step of SavedState or changes no value.
THEOREM Implements == Spec => IsSavedState
<1>1. Init => Promise!Init
  <2> SUFFICES ASSUME Init PROVE Promise!Init
    OBVIOUS
  <2>1. Current = Durable /\ ~Running
    BY DEF Init, Current, Running
  <2>2. Durable \in Entries
    BY DEF Init, Durable, Entries
  <2> QED BY <2>1, <2>2 DEF Promise!Init, Promise!Entries, Entries
<1>2. StoreInv /\ StoreInv' /\ [Next]_vars => [Promise!Next]_(Promise!vars)
  BY StepImplements
<1> QED BY <1>1, <1>2, StoreInvariant, PTL DEF Spec, IsSavedState, Promise!Spec

\* Without [save_variables], what a restart would read changes to everything
\* as it is now, never to a mixture of old and new (PersistentState.flush).
THEOREM SavedTogether == Spec => SavesAreSnapshots
<1>1. StoreInv /\ StoreInv' /\ [Next]_vars
        => [~section /\ ~section' /\ Durable' # Durable => Durable' = Current]_vars
  <2> SUFFICES ASSUME StoreInv, [Next]_vars, ~section, ~section', Durable' # Durable
               PROVE  Durable' = Current
    OBVIOUS
  <2>1. UNCHANGED <<section, file>> => Durable' = Durable
    BY DEF Durable
  <2>2. Replace
    BY <2>1 DEF Next, Get, Write, Set, SaveVariable, StateSet, Flush, Start, Migrate, Disconnect,
           Exit, Reconfigure, Goto, Raised, FileFails, Done, vars, disk, session, StoreInv, AtStep
  <2>3. Promise!Sync(Keys)
    BY <2>2, FileIsSynced
  <2>4. \A k \in Keys : Durable'[k] = Current[k]
    BY <2>3 DEF Promise!Sync
  <2> QED BY <2>4 DEF Durable, Current
<1> QED BY <1>1, StoreInvariant, PTL DEF Spec, SavesAreSnapshots
=============================================================================
