------------------------------- MODULE Ace2Bus -------------------------------
(***************************************************************************)
(* Several ACE2 units on one serial line (protocol_ace2.py,                *)
(* klipper.py _initialize_ace2_buses).  When Klipper is ready the driver   *)
(* discovers the configured UIDs, gives each its bus address and only then *)
(* binds the devices; afterwards every device polls its unit with ids of   *)
(* its own, all counted from 1, over the one transport.  Units answer      *)
(* late, twice, or not at all, lose their address when their power does,   *)
(* and may still have one from an earlier configuration, also a unit that  *)
(* ace.cfg does not name any more.  Only status is ever asked: an ACE2 is  *)
(* read-only.                                                              *)
(***************************************************************************)
EXTENDS Integers, FiniteSets

CONSTANTS
  Units,       \* what is on the line
  Configured,  \* the UIDs of ace.cfg
  AddressOf,   \* configured bus addresses, 1 and up in the order of ace.cfg
  Former,      \* of a unit not in ace.cfg: the address it was given when it was, or
               \* 0 (an address no device has now is as good as none)
  Control,     \* the controller's own protocol
  NoUnit,
  Rounds,      \* discoveries per configured unit (3 in the code)
  MaxId,       \* model bound: status requests of one device
  MaxAsked,    \* model bound: requests a unit may still answer
  MaxLine      \* model bound: replies under way at once

ASSUME BusAssumption ==
  /\ Configured \subseteq Units /\ IsFiniteSet(Configured) /\ Configured # {}
  /\ AddressOf \in [Configured -> Nat \ {0}]
  /\ \A c, d \in Configured : AddressOf[c] = AddressOf[d] => c = d
  /\ Former \in [Units \ Configured -> {AddressOf[d] : d \in Configured} \cup {0}]
  /\ Rounds \in Nat \ {0}
  /\ Control \notin Units /\ NoUnit \notin Units

VARIABLES
  addr,        \* of each unit, 0 when it has none
  asked,       \* requests a unit may still answer
  line,        \* replies still to arrive
  waiting,     \* the request the transport waits for
  nextId,      \* of every protocol
  phase, attempts, assigned, candidate,  \* _initialize_ace2_buses
  router,      \* bound UIDs
  bound,       \* devices with a directed protocol
  status,      \* whose status each device shows
  connected

wire   == <<addr, asked, line>>
init   == <<phase, attempts, assigned, candidate, router>>
device == <<bound, status, connected>>
vars   == <<wire, waiting, nextId, init, device>>

Addresses == {AddressOf[d] : d \in Configured}
Protocols == Configured \cup {Control}
\* protocol, id, command, and the address or the unit it is meant for
Requests  == [by : Protocols, id : Nat, cmd : {"discover", "assign", "status"},
              to : Units \cup {NoUnit}, address : Addresses \cup {0}]
NoRequest == [by |-> Control, id |-> 0, cmd |-> "discover", to |-> NoUnit, address |-> 0]
Frames    == [id : Nat, cmd : {"discover", "assign", "status"}, unit : Units,
              address : Addresses \cup {0}]

\* Units keep their address for as long as they have power.
Init ==
  /\ addr \in [Units -> Addresses \cup {0}]
  /\ \A u \in Units \ Configured : addr[u] \in {0, Former[u]}
  /\ asked = {} /\ line = {} /\ waiting = NoRequest
  /\ nextId = [p \in Protocols |-> 1]
  /\ phase = "discover" /\ attempts = 0 /\ assigned = {} /\ candidate = NoUnit
  /\ router = {} /\ bound = {}
  /\ status = [d \in Configured |-> NoUnit]
  /\ connected = [d \in Configured |-> FALSE]

-----------------------------------------------------------------------------
(***************************************************************************)
(* The line.                                                               *)
(***************************************************************************)
\* Older requests and frames that may still come: some of them are lost.
Kept(s, max) == {k \in SUBSET s : Cardinality(k) < max}

\* encode_request and SerialTransport._request
Send(p, cmd, u, a) ==
  LET r == [by |-> p, id |-> nextId[p], cmd |-> cmd, to |-> u, address |-> a] IN
  /\ waiting = NoRequest
  /\ waiting' = r /\ nextId' = [nextId EXCEPT ![p] = @ + 1]
  /\ \E kept \in Kept(asked, MaxAsked) : asked' = kept \cup {r}
  /\ UNCHANGED <<addr, line>>

Hears(u, r) ==
  CASE r.cmd = "discover" -> TRUE
    [] r.cmd = "assign"   -> u = r.to
    [] r.cmd = "status"   -> addr[u] = r.address

Answer(u, r) ==
  /\ Hears(u, r)
  /\ addr' = IF r.cmd = "assign" THEN [addr EXCEPT ![u] = r.address] ELSE addr
  /\ \E kept \in Kept(line, MaxLine) :
       line' = kept \cup {[id |-> r.id, cmd |-> r.cmd, unit |-> u, address |-> addr'[u]]}
  /\ UNCHANGED <<asked, waiting, nextId, init, device>>

PowerLoss(u) ==
  /\ addr' = [addr EXCEPT ![u] = 0]
  /\ UNCHANGED <<asked, line, waiting, nextId, init, device>>

\* decode_frames: a directed answer comes from the protocol's own address.
\* Mutant: the address is not compared.
RoutedAny(f) == TRUE

Routed(f) ==
  f.cmd \in {"discover", "assign"} \/
  (waiting.by \in Configured /\ f.address = AddressOf[waiting.by])

\* The frame the transport returns, and what decode_response makes of it: the
\* answer, or an error.
Arrives(f) ==
  /\ waiting # NoRequest /\ f.id = waiting.id
  /\ line' = line \ {f} /\ waiting' = NoRequest
  /\ UNCHANGED <<addr, asked, nextId>>

Accepted(f) == Routed(f) /\ f.cmd = waiting.cmd

-----------------------------------------------------------------------------
(***************************************************************************)
(* _initialize_ace2_buses.                                                 *)
(***************************************************************************)
MaxAttempts == Rounds * Cardinality(Configured)

\* Any exception leaves the whole bus unbound.
Fail ==
  /\ phase' = "failed" /\ attempts' = 0 /\ candidate' = NoUnit
  /\ UNCHANGED <<assigned, router, device>>

Discover ==
  /\ phase = "discover" /\ attempts < MaxAttempts
  /\ Send(Control, "discover", NoUnit, 0)
  /\ attempts' = attempts + 1
  /\ UNCHANGED <<phase, assigned, candidate, router, device>>

\* verify_discovered_uid: a UID that is not configured is an error.
Discovered(f) ==
  /\ waiting.cmd = "discover" /\ Arrives(f)
  /\ IF ~Accepted(f) \/ f.unit \notin Configured THEN Fail
     ELSE /\ IF f.unit \in assigned THEN UNCHANGED <<phase, candidate>>
             ELSE phase' = "assign" /\ candidate' = f.unit
          /\ UNCHANGED <<attempts, assigned, router, device>>

\* encode_assignment, sent once
Assign ==
  /\ phase = "assign"
  /\ Send(Control, "assign", candidate, AddressOf[candidate])
  /\ UNCHANGED <<init, device>>

Bind(d) ==
  /\ bound' = bound \cup {d}
  /\ connected' = [connected EXCEPT ![d] = FALSE] /\ UNCHANGED status

\* decode_assignment_response, and bind_protocol of all devices after the last
Assigned(f) ==
  /\ waiting.cmd = "assign" /\ Arrives(f)
  /\ \/ Fail   \* rejected, or not accepted
     \/ /\ Accepted(f)
        /\ router' = router \cup {candidate} /\ assigned' = assigned \cup {candidate}
        /\ candidate' = NoUnit
        /\ IF assigned' = Configured
           THEN /\ phase' = "bound" /\ attempts' = 0 /\ bound' = Configured
                /\ connected' = [d \in Configured |-> FALSE] /\ UNCHANGED status
           ELSE phase' = "discover" /\ UNCHANGED <<attempts, device>>

\* Mutant: the units found so far will do.
ExhaustedAnyway ==
  /\ phase = "discover" /\ attempts = MaxAttempts /\ waiting = NoRequest
  /\ phase' = "bound" /\ attempts' = 0 /\ bound' = assigned
  /\ UNCHANGED <<wire, waiting, nextId, assigned, candidate, router, status, connected>>

\* Mutant: a bus with one unit found is waited for.
ExhaustedIfNone ==
  /\ phase = "discover" /\ attempts = MaxAttempts /\ waiting = NoRequest
  /\ assigned = {} /\ Fail /\ UNCHANGED <<wire, waiting, nextId>>

Exhausted ==
  /\ phase = "discover" /\ attempts = MaxAttempts /\ waiting = NoRequest
  /\ Fail /\ UNCHANGED <<wire, waiting, nextId>>

-----------------------------------------------------------------------------
(***************************************************************************)
(* Polling.                                                                *)
(***************************************************************************)
\* encode_request refuses unless route_matches.
Poll(d) ==
  /\ d \in bound /\ d \in router
  /\ phase = "bound" /\ nextId[d] <= MaxId
  /\ Send(d, "status", NoUnit, AddressOf[d])
  /\ UNCHANGED <<init, device>>

\* _merge_status, or _set_error
Polled(f) ==
  LET d == waiting.by IN
  /\ waiting.cmd = "status" /\ Arrives(f)
  /\ IF Accepted(f)
     THEN /\ status' = [status EXCEPT ![d] = f.unit]
          /\ connected' = [connected EXCEPT ![d] = TRUE]
     ELSE connected' = [connected EXCEPT ![d] = FALSE] /\ UNCHANGED status
  /\ UNCHANGED <<init, bound>>

\* No answer within the timeout and its retries, or a garbled one.
Timeout ==
  /\ waiting # NoRequest /\ waiting' = NoRequest
  /\ IF waiting.cmd = "status"
     THEN /\ connected' = [connected EXCEPT ![waiting.by] = FALSE]
          /\ UNCHANGED <<init, bound, status>>
     ELSE Fail
  /\ UNCHANGED <<wire, nextId>>

Initialize == Discover \/ Assign \/ Exhausted

Receive == \E f \in line : Discovered(f) \/ Assigned(f) \/ Polled(f)

\* A bus that failed stays as it is, and what its units do is no longer heard.
Bus ==
  /\ phase # "failed"
  /\ \E u \in Units : PowerLoss(u) \/ \E r \in asked : Answer(u, r)

Next == Initialize \/ Receive \/ Timeout \/ Bus \/ \E d \in Configured : Poll(d)

Spec == Init /\ [][Next]_vars

\* The handler goes on when it can, and a request times out.
FairSpec == Spec /\ WF_vars(Initialize) /\ WF_vars(Receive \/ Timeout)

-----------------------------------------------------------------------------
(***************************************************************************)
(* Properties.                                                             *)
(***************************************************************************)
TypeOK ==
  /\ addr \in [Units -> Addresses \cup {0}]
  /\ asked \subseteq Requests /\ line \subseteq Frames
  /\ waiting \in Requests
  /\ nextId \in [Protocols -> Nat]
  /\ phase \in {"discover", "assign", "bound", "failed"}
  /\ attempts \in 0..MaxAttempts
  /\ assigned \subseteq Configured /\ router \subseteq Configured
  /\ candidate \in Configured \cup {NoUnit}
  /\ bound \subseteq Configured
  /\ status \in [Configured -> Units \cup {NoUnit}]
  /\ connected \in [Configured -> BOOLEAN]

\* Who may answer at the address of d: its unit, and a unit taken out of ace.cfg
\* that was given this address once and has had power since.  Nothing the driver
\* sends takes an address away, and such a unit is noticed only by its own answer
\* to a discovery (docs/TESTING.zh-CN.md:49 wants d to stay offline).
MayAnswerAt(d) == {d} \cup {u \in Units \ Configured : Former[u] = AddressOf[d]}

\* What a device shows was said by a unit at its own address: never by another
\* configured unit, whatever address that one had before, and never in a late
\* answer to another device that carries the id waited for.
StatusIsOwn == \A d \in Configured : status[d] \in {NoUnit} \cup MayAnswerAt(d)

\* Once the devices are bound no two of them share an address, whatever addresses
\* their units had before and whoever loses power since; the driver has put
\* nobody at an address but the device's own unit.
AddressesAreUnique ==
  phase = "bound" =>
    \A d \in Configured, u \in Units : addr[u] = AddressOf[d] => u \in MayAnswerAt(d)

\* The handler of klippy:ready does not hang on the bus: every discovery ends,
\* bound or failed.
InitializationEnds == phase \in {"discover", "assign"} ~> phase \in {"bound", "failed"}
=============================================================================
