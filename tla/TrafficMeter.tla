---------------------------- MODULE TrafficMeter ----------------------------
(***************************************************************************)
(* Byte accounting of one connection: two relay tasks share one entry of   *)
(* the gateway's meter, flush it to the backend when enough is pending,    *)
(* and the handler reports the totals when it closes the row.              *)
(*                                                                         *)
(* `moved' is the entry's bytes_in and bytes_out, which are never reset,   *)
(* `pending' what is believed not to be reported yet, and `recorded' what  *)
(* the backend added up: the same increments go to the connection, the     *)
(* session, the account, the proxy, the country and the rollups.           *)
(*                                                                         *)
(* A chunk is one unit.  A call can time out after the backend executed    *)
(* it, and is then sent again.                                             *)
(***************************************************************************)
EXTENDS Naturals

CONSTANTS
    FlushBytes,  \* TRAFFIC_FLUSH_BYTES, in chunks
    HttpRetries, \* HTTP_RETRIES
    MaxBytes,    \* bound: chunks in each direction
    MaxLost      \* bound: answers lost; too few for a call to fail for good

ASSUME MeterAssumption ==
    /\ FlushBytes \in Nat \ {0} /\ HttpRetries \in Nat \ {0}
    /\ MaxBytes \in Nat /\ MaxLost \in 0..HttpRetries - 1

Directions == {"in", "out"}
Callers    == Directions \cup {"handler"}

VARIABLES
    moved, pending,    \* the meter's entry
    recorded,          \* in the database
    running,           \* relays not finished
    call, snapshot,    \* the update-traffic call each task awaits, and its body
    phase,             \* of the handler
    lost

meterVars == <<moved, pending>>
callVars  == <<call, snapshot>>
vars      == <<meterVars, recorded, running, callVars, phase, lost>>

Bytes == [Directions -> Nat]
Zero  == [d \in Directions |-> 0]
Sum(a, b) == [d \in Directions |-> a[d] + b[d]]

TypeOK ==
    /\ moved \in Bytes /\ pending \in Bytes /\ recorded \in Bytes
    /\ running \subseteq Directions
    /\ call \in [Callers -> {"none", "sent", "executed"}]
    /\ snapshot \in [Callers -> Bytes]
    /\ phase \in {"relay", "flush", "close", "closed", "cancelled"}
    /\ lost \in 0..MaxLost

Init ==
    /\ moved = Zero /\ pending = Zero /\ recorded = Zero
    /\ running = Directions
    /\ call = [c \in Callers |-> "none"]
    /\ snapshot = [c \in Callers |-> Zero]
    /\ phase = "relay"
    /\ lost = 0

-----------------------------------------------------------------------------
\* update_traffic is awaited with what is pending now
Send(c, body) ==
    /\ call' = [call EXCEPT ![c] = "sent"]
    /\ snapshot' = [snapshot EXCEPT ![c] = body]

(* add_local and the threshold test of maybe_flush run without an await    *)
(* between them; the other relay may add to the entry during the call.     *)
Chunk(d) ==
    /\ phase = "relay" /\ d \in running /\ call[d] = "none"
    /\ moved[d] < MaxBytes
    /\ moved'   = [moved EXCEPT ![d] = @ + 1]
    /\ pending' = [pending EXCEPT ![d] = @ + 1]
    /\ IF pending'["in"] + pending'["out"] >= FlushBytes
       THEN Send(d, pending') ELSE UNCHANGED callVars
    /\ UNCHANGED <<recorded, running, phase, lost>>

\* the backend adds the deltas it was sent
Execute(c) ==
    /\ call[c] = "sent"
    /\ recorded' = Sum(recorded, snapshot[c])
    /\ call' = [call EXCEPT ![c] = "executed"]
    /\ UNCHANGED <<meterVars, running, snapshot, phase, lost>>

\* the answer does not arrive in time: _request sends the same body again
Resend(c) ==
    /\ call[c] = "executed"
    /\ lost < MaxLost
    /\ lost' = lost + 1
    /\ call' = [call EXCEPT ![c] = "sent"]
    /\ UNCHANGED <<meterVars, recorded, running, snapshot, phase>>

\* mutant of Flushed: what was reported stays pending
FlushedKeepsPending(c) ==
    /\ call[c] = "executed"
    /\ call' = [call EXCEPT ![c] = "none"]
    /\ phase' = IF c = "handler" THEN "close" ELSE phase
    /\ UNCHANGED <<meterVars, recorded, running, snapshot, lost>>

\* back from the await: everything pending is taken as reported
Flushed(c) ==
    /\ call[c] = "executed"
    /\ call' = [call EXCEPT ![c] = "none"]
    /\ pending' = Zero
    /\ phase' = IF c = "handler" THEN "close" ELSE phase
    /\ UNCHANGED <<moved, recorded, running, snapshot, lost>>

RelayEnds(d) ==
    /\ phase = "relay" /\ d \in running /\ call[d] = "none"
    /\ running' = running \ {d}
    /\ UNCHANGED <<meterVars, recorded, callVars, phase, lost>>

(* One relay has ended and the other does not within 15 s: it is           *)
(* cancelled, its call with it, and nothing more is reported.              *)
Cancelled ==
    /\ phase = "relay" /\ running # {} /\ running # Directions
    /\ phase' = "cancelled"
    /\ running' = {}
    /\ call' = [c \in Callers |-> "none"]
    /\ UNCHANGED <<meterVars, recorded, snapshot, lost>>

\* flush_all, once both relays have ended
FlushAll ==
    /\ phase = "relay" /\ running = {}
    /\ IF pending = Zero
       THEN phase' = "close" /\ UNCHANGED callVars
       ELSE phase' = "flush" /\ Send("handler", pending)
    /\ UNCHANGED <<meterVars, recorded, running, lost>>

\* mutant of Close: it reports what is pending only
CloseWithPending ==
    /\ phase = "close"
    /\ recorded' = Sum(recorded, pending)
    /\ phase' = "closed"
    /\ UNCHANGED <<meterVars, running, callVars, lost>>

\* close_connection is sent the totals and adds them to what it has
Close ==
    /\ phase = "close"
    /\ recorded' = Sum(recorded, moved)
    /\ \/ phase' = "closed" /\ UNCHANGED lost
       \/ lost < MaxLost /\ lost' = lost + 1 /\ UNCHANGED phase
    /\ UNCHANGED <<meterVars, running, callVars>>

Next ==
    \/ \E d \in Directions : Chunk(d) \/ RelayEnds(d)
    \/ \E c \in Callers : Execute(c) \/ Resend(c) \/ Flushed(c)
    \/ Cancelled
    \/ FlushAll
    \/ Close

Spec == Init /\ [][Next]_vars

-----------------------------------------------------------------------------
\* A row closed on the normal path records at least the bytes that passed, even
\* those a relay added while the other's flush was awaited and then zeroed.
NothingMissing ==
    phase = "closed" => \A d \in Directions : recorded[d] >= moved[d]

\* While no answer is lost, at most two flushes report the same bytes and the
\* close reports them once more.
OvercountBounded ==
    lost = 0 => \A d \in Directions : recorded[d] <= 3 * moved[d]
=============================================================================
