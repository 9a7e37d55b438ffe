---------------------------- MODULE Ace2BusProofs ----------------------------
(***************************************************************************)
(* A device of an ACE2 bus shows no other device's unit, for every number  *)
(* of units, requests and late answers, whatever addresses they had before.*)
(***************************************************************************)
EXTENDS Ace2Bus, FiniteSetTheorems, TLAPS

(***************************************************************************)
(* The invariant.  An assignment names a configured unit and its own       *)
(* address, so a unit that answered one has that address or, after a loss  *)
(* of power, none; status is asked only when all of them have answered.  A *)
(* unit that is not configured is assigned nothing.                        *)
(***************************************************************************)
Settled(u) == u \in Configured /\ addr[u] \in {0, AddressOf[u]}

\* The address a unit may ever have once it is settled, or not configured.
Given(u) == IF u \in Configured THEN AddressOf[u] ELSE Former[u]

AskedOK ==
  \A r \in asked :
    /\ r.cmd = "assign" => r.to \in Configured /\ r.address = AddressOf[r.to]
    /\ r.cmd = "status" => /\ phase = "bound" /\ r.by \in Configured
                           /\ r.address = AddressOf[r.by]
    /\ r.cmd # "status" => r.by = Control /\ r.id < nextId[Control]

LineOK ==
  \A f \in line :
    /\ f.cmd = "assign" => Settled(f.unit)
    /\ f.cmd = "status" => f.address = Given(f.unit)
    /\ f.cmd # "status" => f.id < nextId[Control]

\* The ids of the controller are not used twice, so the answer to an assignment
\* comes from the unit it was for.
WaitingOK ==
  waiting # NoRequest =>
    /\ waiting.cmd = "discover" => phase = "discover"
    /\ waiting.cmd = "assign" =>
         /\ phase = "assign" /\ waiting.id < nextId[Control]
         /\ waiting.to = candidate
         /\ \A r \in asked : r.cmd = "assign" /\ r.id = waiting.id => r.to = candidate
         /\ \A f \in line : f.cmd = "assign" /\ f.id = waiting.id => f.unit = candidate
    /\ waiting.cmd = "status" => phase = "bound" /\ waiting.by \in Configured

PhaseOK ==
  /\ phase = "assign" => candidate \in Configured
  /\ phase = "bound" => assigned = Configured
  /\ \A u \in assigned : Settled(u)
  /\ \A u \in Units \ Configured : addr[u] \in {0, Former[u]}

BusInv == TypeOK /\ AskedOK /\ LineOK /\ WaitingOK /\ PhaseOK /\ StatusIsOwn

LEMMA Bounds ==
  /\ MaxAttempts \in Nat /\ Configured \subseteq Units
  /\ \A d \in Configured : AddressOf[d] \in Addresses /\ AddressOf[d] # 0
  /\ \A c, d \in Configured : AddressOf[c] = AddressOf[d] => c = d
  /\ Control \in Protocols /\ Control \notin Configured /\ Configured \subseteq Protocols
  /\ NoUnit \notin Units
<1>1. Cardinality(Configured) \in Nat
  BY BusAssumption, FS_CardinalityType
<1> HIDE DEF MaxAttempts
<1>2. MaxAttempts \in Nat
  BY <1>1, BusAssumption DEF MaxAttempts
<1> QED BY <1>2, BusAssumption DEF Addresses, Protocols

\* A request: the id is the next of its protocol's, the older ones are some of
\* those there were.
LEMMA SendFacts ==
  ASSUME TypeOK, NEW p \in Protocols, NEW cmd \in {"discover", "assign", "status"},
         NEW u \in Units \cup {NoUnit}, NEW a \in Addresses \cup {0}, Send(p, cmd, u, a)
  PROVE  /\ waiting' \in Requests /\ waiting'.by = p /\ waiting'.id = nextId[p]
         /\ waiting'.cmd = cmd /\ waiting'.to = u /\ waiting'.address = a
         /\ asked' \subseteq asked \cup {waiting'} /\ nextId' \in [Protocols -> Nat]
         /\ nextId'[p] = nextId[p] + 1 /\ \A q \in Protocols : nextId'[q] >= nextId[q]
         /\ UNCHANGED <<addr, line>>
<1> DEFINE r == [by |-> p, id |-> nextId[p], cmd |-> cmd, to |-> u, address |-> a]
<1>1. /\ waiting' = r /\ nextId' = [nextId EXCEPT ![p] = @ + 1]
      /\ asked' \subseteq asked \cup {r} /\ UNCHANGED <<addr, line>>
  BY DEF Send, Kept
<1>2. nextId[p] \in Nat
  BY DEF TypeOK
<1>3. r \in Requests
  BY <1>2 DEF Requests
<1>4. /\ nextId' \in [Protocols -> Nat] /\ nextId'[p] = nextId[p] + 1
      /\ \A q \in Protocols : nextId'[q] >= nextId[q]
  BY <1>1, <1>2 DEF TypeOK
<1> QED BY <1>1, <1>3, <1>4

LEMMA DiscoverKeeps ==
  ASSUME BusInv, Discover
  PROVE  BusInv'
<1>1. /\ waiting' \in Requests /\ waiting'.by = Control /\ waiting'.id = nextId[Control]
      /\ waiting'.cmd = "discover" /\ asked' \subseteq asked \cup {waiting'}
      /\ nextId' \in [Protocols -> Nat] /\ nextId'[Control] = nextId[Control] + 1
      /\ UNCHANGED <<addr, line>>
  BY SendFacts, Bounds DEF Discover, BusInv
<1>2. /\ phase = "discover" /\ attempts' = attempts + 1 /\ attempts' <= MaxAttempts
      /\ UNCHANGED <<phase, assigned, candidate, router, device>>
  BY Bounds DEF Discover, BusInv, TypeOK
<1>3. nextId[Control] \in Nat
  BY Bounds DEF BusInv, TypeOK
<1>4. TypeOK'
  BY <1>1, <1>2, Bounds DEF BusInv, TypeOK, device
<1>5. AskedOK'
  BY <1>1, <1>2, <1>3 DEF BusInv, AskedOK, TypeOK, Requests
<1>6. LineOK'
  BY <1>1, <1>3 DEF BusInv, LineOK, Settled, TypeOK, Frames
<1> QED BY <1>1, <1>2, <1>4, <1>5, <1>6 DEF BusInv, WaitingOK, PhaseOK, Settled, StatusIsOwn, device

LEMMA AssignKeeps ==
  ASSUME BusInv, Assign
  PROVE  BusInv'
<1>1. phase = "assign" /\ candidate \in Configured /\ candidate \in Units
      /\ AddressOf[candidate] \in Addresses
  BY Bounds DEF Assign, BusInv, PhaseOK
<1>2. /\ waiting' \in Requests /\ waiting'.by = Control /\ waiting'.id = nextId[Control]
      /\ waiting'.cmd = "assign" /\ waiting'.to = candidate
      /\ waiting'.address = AddressOf[candidate] /\ asked' \subseteq asked \cup {waiting'}
      /\ nextId' \in [Protocols -> Nat] /\ nextId'[Control] = nextId[Control] + 1
      /\ UNCHANGED <<addr, line>>
  BY <1>1, SendFacts, Bounds DEF Assign, BusInv
<1>3. UNCHANGED <<phase, attempts, assigned, candidate, router, bound, status, connected>>
  BY DEF Assign, init, device
<1>4. nextId[Control] \in Nat
  BY Bounds DEF BusInv, TypeOK
<1>5. TypeOK'
  BY <1>2, <1>3 DEF BusInv, TypeOK
<1>6. AskedOK'
  BY <1>1, <1>2, <1>3, <1>4 DEF BusInv, AskedOK, TypeOK, Requests
<1>7. LineOK'
  BY <1>2, <1>4 DEF BusInv, LineOK, Settled, TypeOK, Frames
<1>8. WaitingOK'
  BY <1>1, <1>2, <1>3, <1>4 DEF BusInv, WaitingOK, AskedOK, LineOK
<1> QED BY <1>1, <1>2, <1>3, <1>5, <1>6, <1>7, <1>8 DEF BusInv, PhaseOK, Settled, StatusIsOwn

LEMMA PollKeeps ==
  ASSUME BusInv, NEW d \in Configured, Poll(d)
  PROVE  BusInv'
<1>1. /\ waiting' \in Requests /\ waiting'.by = d /\ waiting'.cmd = "status"
      /\ waiting'.address = AddressOf[d] /\ asked' \subseteq asked \cup {waiting'}
      /\ nextId' \in [Protocols -> Nat] /\ nextId'[Control] >= nextId[Control]
      /\ UNCHANGED <<addr, line>>
  BY SendFacts, Bounds DEF Poll, BusInv
<1>2. /\ phase = "bound"
      /\ UNCHANGED <<phase, attempts, assigned, candidate, router, bound, status, connected>>
  BY DEF Poll, init, device
<1>3. nextId[Control] \in Nat /\ nextId'[Control] \in Nat
  BY <1>1, Bounds DEF BusInv, TypeOK
<1>4. TypeOK'
  BY <1>1, <1>2 DEF BusInv, TypeOK
<1>5. AskedOK'
  BY <1>1, <1>2, <1>3 DEF BusInv, AskedOK, TypeOK, Requests
<1>6. LineOK'
  BY <1>1, <1>3 DEF BusInv, LineOK, Settled, TypeOK, Frames
<1> QED BY <1>1, <1>2, <1>4, <1>5, <1>6 DEF BusInv, WaitingOK, PhaseOK, Settled, StatusIsOwn

\* Nothing waits any more, the wire has lost at most a frame, and the handler
\* has gone on or failed.
LEMMA DoneKeeps ==
  ASSUME BusInv, waiting' = NoRequest, line' \subseteq line, UNCHANGED <<addr, asked, nextId>>,
         phase' = phase \/ phase # "bound", TypeOK', PhaseOK', StatusIsOwn'
  PROVE  BusInv'
<1>1. AskedOK'
  BY DEF BusInv, AskedOK
<1>2. LineOK'
  BY DEF BusInv, LineOK, Settled
<1> QED BY <1>1, <1>2 DEF BusInv, WaitingOK

LEMMA FailKeeps ==
  ASSUME BusInv, Fail, phase # "bound", waiting' = NoRequest, line' \subseteq line,
         UNCHANGED <<addr, asked, nextId>>
  PROVE  BusInv'
<1>1. NoRequest \in Requests
  BY Bounds DEF NoRequest, Requests
<1>2. TypeOK'
  BY <1>1, Bounds DEF Fail, BusInv, TypeOK, device
<1>3. PhaseOK' /\ StatusIsOwn'
  BY DEF Fail, BusInv, PhaseOK, Settled, StatusIsOwn, device
<1> QED BY <1>2, <1>3, DoneKeeps

LEMMA DiscoveredKeeps ==
  ASSUME BusInv, NEW f \in line, Discovered(f)
  PROVE  BusInv'
<1>1. /\ waiting # NoRequest /\ waiting.cmd = "discover" /\ waiting' = NoRequest
      /\ line' \subseteq line /\ UNCHANGED <<addr, asked, nextId>>
  BY DEF Discovered, Arrives
<1>2. phase = "discover"
  BY <1>1 DEF BusInv, WaitingOK
<1>3. CASE Fail
  BY <1>1, <1>2, <1>3, FailKeeps
<1>4. CASE ~Fail
  <2>1. /\ f.unit \in Configured /\ UNCHANGED <<attempts, assigned, router, device>>
        /\ \/ UNCHANGED <<phase, candidate>>
           \/ phase' = "assign" /\ candidate' = f.unit
    BY <1>4 DEF Discovered
  <2>2. NoRequest \in Requests
    BY Bounds DEF NoRequest, Requests
  <2>3. TypeOK'
    BY <1>1, <2>1, <2>2 DEF BusInv, TypeOK, device
  <2>4. PhaseOK' /\ StatusIsOwn'
    BY <1>1, <1>2, <2>1 DEF BusInv, PhaseOK, Settled, StatusIsOwn, device
  <2> QED BY <1>1, <1>2, <2>3, <2>4, DoneKeeps
<1> QED BY <1>3, <1>4

LEMMA AssignedKeeps ==
  ASSUME BusInv, NEW f \in line, Assigned(f)
  PROVE  BusInv'
<1>1. /\ waiting # NoRequest /\ waiting.cmd = "assign" /\ waiting' = NoRequest
      /\ f.id = waiting.id /\ line' \subseteq line /\ UNCHANGED <<addr, asked, nextId>>
  BY DEF Assigned, Arrives
<1>2. phase = "assign" /\ candidate \in Configured
  BY <1>1 DEF BusInv, WaitingOK, PhaseOK
<1>3. CASE Fail
  BY <1>1, <1>2, <1>3, FailKeeps
<1>4. CASE ~Fail
  <2>1. /\ f.cmd = "assign"
        /\ router' = router \cup {candidate} /\ assigned' = assigned \cup {candidate}
        /\ candidate' = NoUnit
        /\ assigned' = Configured =>
             /\ phase' = "bound" /\ attempts' = 0 /\ bound' = Configured
             /\ connected' = [d \in Configured |-> FALSE] /\ status' = status
        /\ assigned' # Configured =>
             phase' = "discover" /\ UNCHANGED <<attempts, bound, status, connected>>
    BY <1>1, <1>4 DEF Assigned, Accepted, device
  <2>2. Settled(candidate)
    BY <1>1, <2>1 DEF BusInv, WaitingOK, LineOK
  <2>3. NoRequest \in Requests
    BY Bounds DEF NoRequest, Requests
  <2>4. TypeOK'
    <3>1. CASE assigned' = Configured
      <4>1. attempts' = 0 /\ phase' = "bound" /\ bound' = Configured /\ status' = status
            /\ connected' = [d \in Configured |-> FALSE]
        BY <2>1, <3>1
      <4>3. attempts' \in 0..MaxAttempts
        BY <4>1, Bounds
      <4>2. line' \subseteq Frames /\ router' \subseteq Configured /\ candidate' = NoUnit
        BY <1>1, <1>2, <2>1 DEF BusInv, TypeOK
      <4> QED BY <1>1, <2>3, <3>1, <4>1, <4>2, <4>3 DEF BusInv, TypeOK
    <3>2. CASE assigned' # Configured
      BY <1>1, <1>2, <2>1, <2>3, <3>2, Bounds DEF BusInv, TypeOK, device
    <3> QED BY <3>1, <3>2
  <2>5. PhaseOK' /\ StatusIsOwn'
    BY <1>1, <1>2, <2>1, <2>2 DEF BusInv, PhaseOK, Settled, StatusIsOwn, device
  <2> QED BY <1>1, <1>2, <2>4, <2>5, DoneKeeps
<1> QED BY <1>3, <1>4

LEMMA PolledKeeps ==
  ASSUME BusInv, NEW f \in line, Polled(f)
  PROVE  BusInv'
<1> DEFINE d == waiting.by
<1>1. /\ waiting # NoRequest /\ waiting.cmd = "status" /\ waiting' = NoRequest
      /\ line' \subseteq line
      /\ UNCHANGED <<addr, asked, nextId, phase, attempts, assigned, candidate, router, bound>>
  BY DEF Polled, Arrives, init
<1>2. phase = "bound" /\ d \in Configured
  BY <1>1 DEF BusInv, WaitingOK
<1>3. connected' \in [Configured -> BOOLEAN]
  BY DEF Polled, BusInv, TypeOK
<1>4. CASE Accepted(f)
  <2>0. f.unit \in MayAnswerAt(d) /\ f.unit \in Units
    <3>1. f.unit \in Units /\ AddressOf[d] = Given(f.unit)
      BY <1>1, <1>2, <1>4 DEF Polled, Accepted, Routed, BusInv, LineOK, TypeOK, Frames
    <3> QED BY <1>2, <3>1, Bounds DEF Given, MayAnswerAt
  <2>1. /\ status' = [status EXCEPT ![d] = f.unit] /\ f.unit \in MayAnswerAt(d)
        /\ f.unit \in Units
    BY <1>4, <2>0 DEF Polled
  <2> QED BY <1>1, <1>2, <1>3, <2>1, Bounds, DoneKeeps
          DEF BusInv, TypeOK, PhaseOK, Settled, StatusIsOwn, NoRequest, Requests
<1>5. CASE ~Accepted(f)
  <2>1. status' = status
    BY <1>5 DEF Polled
  <2> QED BY <1>1, <1>2, <1>3, <2>1, Bounds, DoneKeeps
          DEF BusInv, TypeOK, PhaseOK, Settled, StatusIsOwn, NoRequest, Requests
<1> QED BY <1>4, <1>5

LEMMA TimeoutKeeps ==
  ASSUME BusInv, Timeout
  PROVE  BusInv'
<1>1. waiting # NoRequest /\ waiting' = NoRequest /\ UNCHANGED <<addr, asked, line, nextId>>
  BY DEF Timeout, wire
<1>2. CASE waiting.cmd = "status"
  <2>1. /\ UNCHANGED <<phase, attempts, assigned, candidate, router, bound, status>>
        /\ connected' \in [Configured -> BOOLEAN]
    BY <1>2 DEF Timeout, init, BusInv, TypeOK
  <2> QED BY <1>1, <2>1, Bounds, DoneKeeps
          DEF BusInv, TypeOK, PhaseOK, Settled, StatusIsOwn, NoRequest, Requests
<1>3. CASE waiting.cmd # "status"
  <2>1. phase # "bound"
    BY <1>1, <1>3 DEF BusInv, WaitingOK, TypeOK, Requests
  <2> QED BY <1>1, <1>3, <2>1, FailKeeps DEF Timeout
<1> QED BY <1>2, <1>3

LEMMA PowerLossKeeps ==
  ASSUME BusInv, NEW u \in Units, PowerLoss(u)
  PROVE  BusInv'
<1>1. /\ addr' = [addr EXCEPT ![u] = 0]
      /\ UNCHANGED <<asked, line, waiting, nextId, phase, attempts, assigned, candidate, router,
                     bound, status, connected>>
  BY DEF PowerLoss, init, device
<1>2. \A q \in Units : addr'[q] \in {0, addr[q]}
  BY <1>1 DEF BusInv, TypeOK
<1>3. TypeOK' /\ AskedOK' /\ WaitingOK' /\ StatusIsOwn'
  BY <1>1 DEF BusInv, TypeOK, AskedOK, WaitingOK, StatusIsOwn
<1>4. LineOK' /\ PhaseOK'
  BY <1>1, <1>2, Bounds DEF BusInv, TypeOK, LineOK, PhaseOK, Settled
<1> QED BY <1>3, <1>4 DEF BusInv

LEMMA AnswerKeeps ==
  ASSUME BusInv, NEW u \in Units, NEW r \in asked, Answer(u, r)
  PROVE  BusInv'
<1> DEFINE f == [id |-> r.id, cmd |-> r.cmd, unit |-> u, address |-> addr'[u]]
<1>1. /\ Hears(u, r) /\ line' \subseteq line \cup {f}
      /\ addr' = IF r.cmd = "assign" THEN [addr EXCEPT ![u] = r.address] ELSE addr
      /\ UNCHANGED <<asked, waiting, nextId, phase, attempts, assigned, candidate, router, bound,
                     status, connected>>
  BY DEF Answer, Kept, init, device
<1>2. r \in Requests /\ f.id = r.id /\ f.cmd = r.cmd /\ f.unit = u /\ f.address = addr'[u]
  BY DEF BusInv, TypeOK
<1>3. addr' \in [Units -> Addresses \cup {0}]
  BY <1>1, <1>2 DEF BusInv, TypeOK, Requests
<1>4. r.cmd = "assign" => /\ u = r.to /\ u \in Configured /\ addr'[u] = AddressOf[u]
                          /\ \A q \in Units \ {u} : addr'[q] = addr[q]
  BY <1>1 DEF Hears, BusInv, AskedOK, TypeOK
<1>5. \A q \in Configured : addr'[q] \in {addr[q], AddressOf[q]}
  BY <1>1, <1>4, Bounds
<1>6. r.cmd = "status" => f.address = Given(u)
  <2> SUFFICES ASSUME r.cmd = "status"
               PROVE  addr'[u] = Given(u)
    BY <1>2
  <2>1. /\ phase = "bound" /\ r.by \in Configured /\ addr[u] = AddressOf[r.by]
        /\ assigned = Configured
    BY <1>1 DEF Hears, BusInv, AskedOK, PhaseOK
  <2>2. CASE u \in Configured
    BY <1>1, <2>1, <2>2, Bounds DEF BusInv, PhaseOK, Settled, Given
  <2>3. CASE u \notin Configured
    <3>1. addr[u] \in {0, Former[u]} /\ addr[u] # 0
      BY <2>1, <2>3, Bounds DEF BusInv, PhaseOK
    <3> QED BY <1>1, <2>3, <3>1 DEF Given
  <2> QED BY <2>2, <2>3
<1>7. f \in Frames
  BY <1>2, <1>3 DEF Requests, Frames
<1>8. TypeOK'
  <2> HIDE DEF f
  <2> QED BY <1>1, <1>3, <1>7 DEF BusInv, TypeOK
<1>9. AskedOK' /\ StatusIsOwn'
  BY <1>1 DEF BusInv, AskedOK, StatusIsOwn
<1>10. LineOK'
  <2>1. ASSUME NEW g \in line
        PROVE  /\ g.cmd = "assign" => /\ g.unit \in Configured
                                   /\ addr'[g.unit] \in {0, AddressOf[g.unit]}
               /\ g.cmd = "status" => g.address = Given(g.unit)
               /\ g.cmd # "status" => g.id < nextId'[Control]
    BY <1>1, <1>5 DEF BusInv, LineOK, Settled
  <2>2. /\ f.cmd = "assign" => f.unit \in Configured /\ addr'[f.unit] \in {0, AddressOf[f.unit]}
        /\ f.cmd = "status" => f.address = Given(f.unit)
        /\ f.cmd # "status" => f.id < nextId'[Control]
    BY <1>1, <1>2, <1>4, <1>6 DEF BusInv, AskedOK, Settled
  <2>3. nextId' = nextId /\ line' \subseteq line \cup {f}
    BY <1>1
  <2> HIDE DEF f
  <2>4. ASSUME NEW g \in line'
        PROVE  /\ g.cmd = "assign" => /\ g.unit \in Configured
                                   /\ addr'[g.unit] \in {0, AddressOf[g.unit]}
               /\ g.cmd = "status" => g.address = Given(g.unit)
               /\ g.cmd # "status" => g.id < nextId'[Control]
    <3>1. CASE g \in line
      BY <2>1, <3>1
    <3>2. CASE g = f
      BY <2>2, <3>2
    <3> QED BY <2>3, <3>1, <3>2
  <2> QED BY <2>4 DEF LineOK, Settled
<1>11. WaitingOK'
  <2> SUFFICES ASSUME waiting # NoRequest
               PROVE  WaitingOK'
    BY <1>1 DEF WaitingOK
  <2>1. f.cmd = "assign" /\ waiting.cmd = "assign" /\ f.id = waiting.id => f.unit = candidate
    BY <1>2, <1>4 DEF BusInv, WaitingOK
  <2> HIDE DEF f
  <2> QED BY <1>1, <2>1 DEF BusInv, WaitingOK
<1>12. PhaseOK'
  <2>1. \A q \in Units \ Configured : addr'[q] = addr[q]
    BY <1>1, <1>4 DEF BusInv, TypeOK
  <2> QED BY <1>1, <1>5, <2>1 DEF BusInv, PhaseOK, Settled
<1> QED BY <1>8, <1>9, <1>10, <1>11, <1>12 DEF BusInv

LEMMA BusInvariant == Spec => []BusInv
<1>1. Init => BusInv
  BY Bounds DEF Init, BusInv, TypeOK, AskedOK, LineOK, WaitingOK, PhaseOK, StatusIsOwn, NoRequest,
                Requests
<1>2. BusInv /\ [Next]_vars => BusInv'
  <2> SUFFICES ASSUME BusInv, [Next]_vars PROVE BusInv'
    OBVIOUS
  <2>1. CASE UNCHANGED vars
    BY <2>1 DEF vars, wire, init, device, BusInv, TypeOK, AskedOK, LineOK, WaitingOK, PhaseOK,
                Settled, StatusIsOwn
  <2>2. CASE Exhausted
    <3>1. waiting' = NoRequest /\ phase # "bound" /\ Fail /\ UNCHANGED <<addr, asked, line, nextId>>
      BY <2>2 DEF Exhausted, wire
    <3> QED BY <3>1, FailKeeps
  <2> QED BY <2>1, <2>2, DiscoverKeeps, AssignKeeps, PollKeeps, DiscoveredKeeps, AssignedKeeps,
             PolledKeeps, TimeoutKeeps, PowerLossKeeps, AnswerKeeps
          DEF Next, Initialize, Receive, Bus
<1> QED BY <1>1, <1>2, PTL DEF Spec

(***************************************************************************)
(* The theorems.                                                           *)
(***************************************************************************)
\* Every variable of the bus has its type (protocol_ace2.py).
THEOREM TypesCorrect == Spec => []TypeOK
<1>1. BusInv => TypeOK
  BY DEF BusInv
<1> QED BY <1>1, BusInvariant, PTL

\* What a device shows was said at its own address: by no other configured unit,
\* and in no answer to another device (decode_frames).
THEOREM OwnStatus == Spec => []StatusIsOwn
<1>1. BusInv => StatusIsOwn
  BY DEF BusInv
<1> QED BY <1>1, BusInvariant, PTL

\* Once the devices are bound, no two of them share an address, and nobody has one
\* of theirs that did not have it before (_initialize_ace2_buses).
THEOREM UniqueAddresses == Spec => []AddressesAreUnique
<1>1. BusInv => AddressesAreUnique
  BY Bounds DEF BusInv, PhaseOK, Settled, AddressesAreUnique, MayAnswerAt
<1> QED BY <1>1, BusInvariant, PTL
=============================================================================
