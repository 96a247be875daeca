------------------------- MODULE TrafficMeterProofs -------------------------
(***************************************************************************)
(* Proofs about TrafficMeter, for any flush threshold, traffic and number  *)
(* of lost answers: types, that a closed row misses nothing, and that it   *)
(* counts no byte more than three times unless an answer is lost.          *)
(***************************************************************************)
EXTENDS TrafficMeter, TLAPS

\* A relay that has ended awaits nothing, and the handler flushes after the relays.
CallsOK ==
    /\ \A d \in Directions : call[d] # "none" => d \in running /\ phase = "relay"
    /\ call["handler"] # "none" => phase = "flush"
    /\ phase # "relay" => running = {}

LEMMA InitType == Init => TypeOK /\ CallsOK
BY MeterAssumption DEF Init, TypeOK, CallsOK, Bytes, Zero, Directions, Callers

LEMMA SumType ==
    ASSUME NEW a \in Bytes, NEW b \in Bytes
    PROVE  Sum(a, b) \in Bytes /\ \A d \in Directions : Sum(a, b)[d] = a[d] + b[d]
BY DEF Sum, Bytes

LEMMA ChunkStep ==
    ASSUME TypeOK, CallsOK, NEW d \in Directions, Chunk(d)
    PROVE  TypeOK' /\ CallsOK'
<1>1. moved' \in Bytes /\ pending' \in Bytes
  BY DEF Chunk, TypeOK, Bytes
<1>2. \/ UNCHANGED callVars
      \/ call' = [call EXCEPT ![d] = "sent"] /\ snapshot' = [snapshot EXCEPT ![d] = pending']
  BY DEF Chunk, Send
<1>3. call' \in [Callers -> {"none", "sent", "executed"}] /\ snapshot' \in [Callers -> Bytes]
  BY <1>1, <1>2 DEF TypeOK, callVars, Callers
<1>4. UNCHANGED <<recorded, running, phase, lost>> /\ d \in running /\ phase = "relay"
  BY DEF Chunk
<1>5. TypeOK'
  BY <1>1, <1>3, <1>4 DEF TypeOK
<1>6. CallsOK'
  BY <1>2, <1>4 DEF TypeOK, CallsOK, callVars, Callers, Directions
<1> QED
  BY <1>5, <1>6

LEMMA FlushAllStep ==
    ASSUME TypeOK, CallsOK, FlushAll
    PROVE  TypeOK' /\ CallsOK'
<1>1. \/ phase' = "close" /\ UNCHANGED callVars
      \/ /\ phase' = "flush" /\ call' = [call EXCEPT !["handler"] = "sent"]
         /\ snapshot' = [snapshot EXCEPT !["handler"] = pending]
  BY DEF FlushAll, Send
<1>2. UNCHANGED <<meterVars, recorded, running, lost>> /\ phase = "relay" /\ running = {}
  BY DEF FlushAll
<1> QED
  BY <1>1, <1>2 DEF TypeOK, CallsOK, meterVars, callVars, Callers, Directions

\* Types, and who may await a call, are kept by every step.
LEMMA TypeStep ==
    ASSUME TypeOK, CallsOK, [Next]_vars
    PROVE  TypeOK' /\ CallsOK'
<1> USE MeterAssumption DEF TypeOK, CallsOK, meterVars, callVars, Callers, Directions
<1>1. ASSUME NEW c \in Callers, Execute(c)
      PROVE  TypeOK' /\ CallsOK'
  <2>1. recorded' \in Bytes
    BY <1>1, SumType DEF Execute
  <2> QED
    BY <1>1, <2>1 DEF Execute
<1>2. ASSUME NEW c \in Callers, Resend(c)
      PROVE  TypeOK' /\ CallsOK'
  BY <1>2 DEF Resend
<1>3. ASSUME NEW c \in Callers, Flushed(c)
      PROVE  TypeOK' /\ CallsOK'
  <2>1. Zero \in Bytes
    BY DEF Zero, Bytes
  <2> QED
    BY <1>3, <2>1 DEF Flushed
<1>4. ASSUME NEW d \in Directions, RelayEnds(d)
      PROVE  TypeOK' /\ CallsOK'
  BY <1>4 DEF RelayEnds
<1>5. CASE Cancelled
  BY <1>5 DEF Cancelled
<1>6. CASE Close
  <2>1. recorded' \in Bytes
    BY <1>6, SumType DEF Close
  <2> QED
    BY <1>6, <2>1 DEF Close
<1>7. CASE UNCHANGED vars
  BY <1>7 DEF vars
<1> QED
  BY <1>1, <1>2, <1>3, <1>4, <1>5, <1>6, <1>7, ChunkStep, FlushAllStep DEF Next

\* The meter, the calls and the totals stay well typed.
THEOREM MeterTypeCorrect == Spec => []TypeOK
<1>1. TypeOK /\ CallsOK /\ [Next]_vars => (TypeOK /\ CallsOK)'
  BY TypeStep
<1> QED
  BY <1>1, InitType, PTL DEF Spec

-----------------------------------------------------------------------------
(* A closed row misses nothing *)

LEMMA NothingMissingStep ==
    ASSUME TypeOK, CallsOK, NothingMissing, [Next]_vars
    PROVE  NothingMissing'
<1> USE DEF NothingMissing
<1>1. CASE Close
  BY <1>1, SumType DEF Close, TypeOK, Bytes, meterVars
<1>2. CASE phase' = "closed" /\ ~Close
  <2>1. phase = "closed" /\ UNCHANGED <<moved, recorded>>
    BY <1>2 DEF Next, Chunk, Execute, Resend, Flushed, RelayEnds, Cancelled, FlushAll, vars,
       meterVars, TypeOK, CallsOK, Callers
  <2> QED
    BY <2>1
<1> QED
  BY <1>1, <1>2

\* The totals that close the row make up for every delta that was forgotten.
THEOREM NothingMissingTheorem == Spec => []NothingMissing
<1>1. Init => NothingMissing
  BY DEF Init, NothingMissing
<1>2. TypeOK /\ CallsOK /\ NothingMissing /\ [Next]_vars => NothingMissing'
  BY NothingMissingStep
<1>3. TypeOK /\ CallsOK /\ [Next]_vars => (TypeOK /\ CallsOK)'
  BY TypeStep
<1> QED
  BY <1>1, <1>2, <1>3, InitType, PTL DEF Spec

-----------------------------------------------------------------------------
(* No byte is counted more than three times *)

\* what a call may still add of direction d
Unanswered(c, d) == IF call[c] = "sent" THEN snapshot[c][d] ELSE 0

\* a and b are what the relays "in" and "out" have sent of direction d.  Neither sends
\* a byte twice: what was pending when it sent is zeroed when it comes back.
Sent(d, a, b) ==
    /\ recorded[d] + Unanswered("in", d) + Unanswered("out", d) <= a + b
    /\ a <= moved[d] /\ b <= moved[d]
    /\ call["in"] = "none" => a + pending[d] <= moved[d]
    /\ call["out"] = "none" => b + pending[d] <= moved[d]

\* The handler sends what neither has sent, or one has not and the other has lost.
Reported(d) ==
    /\ phase = "relay" => \E a, b \in Nat : Sent(d, a, b)
    /\ phase = "flush" => recorded[d] + Unanswered("handler", d) <= 2 * moved[d]
    /\ phase \in {"close", "cancelled"} => recorded[d] <= 2 * moved[d]
    /\ phase = "closed" => recorded[d] <= 3 * moved[d]

MeterInv ==
    /\ TypeOK
    /\ CallsOK
    /\ lost = 0 => \A d \in Directions : Reported(d)

\* The entries are numbers.
LEMMA Numbers ==
    ASSUME TypeOK, NEW d \in Directions
    PROVE  /\ moved[d] \in Nat /\ pending[d] \in Nat /\ recorded[d] \in Nat
           /\ \A c \in Callers : snapshot[c][d] \in Nat /\ Unanswered(c, d) \in Nat
BY DEF TypeOK, Bytes, Unanswered

\* A chunk is pending, and sent at most by the relay that brought it.
LEMMA ChunkReported ==
    ASSUME TypeOK, CallsOK, NEW e \in Directions, Chunk(e), NEW d \in Directions, Reported(d)
    PROVE  Reported(d)'
<1>1. phase = "relay" /\ phase' = "relay" /\ call[e] = "none" /\ recorded' = recorded
  BY DEF Chunk
<1>2. PICK a \in Nat, b \in Nat : Sent(d, a, b)
  BY <1>1 DEF Reported
<1>3. \E n \in {0, 1} : moved'[d] = moved[d] + n /\ pending'[d] = pending[d] + n
  BY Numbers DEF Chunk, TypeOK, Bytes
<1>4. CASE UNCHANGED callVars
  <2>1. \A c \in Callers : Unanswered(c, d)' = Unanswered(c, d)
    BY <1>4 DEF callVars, Unanswered
  <2>2. call' = call
    BY <1>4 DEF callVars
  <2>3. Sent(d, a, b)'
    BY <1>1, <1>2, <1>3, <2>1, <2>2, Numbers DEF Sent, Callers, Directions
  <2> QED
    BY <1>1, <2>3 DEF Reported
<1>5. CASE Send(e, pending')
  <2>1. /\ call' = [call EXCEPT ![e] = "sent"]
        /\ snapshot' = [snapshot EXCEPT ![e] = pending']
    BY <1>5 DEF Send
  <2>2. /\ Unanswered(e, d) = 0
        /\ Unanswered(e, d)' = pending'[d]
        /\ call'[e] = "sent"
        /\ \A c \in Callers : c # e => call'[c] = call[c] /\ Unanswered(c, d)' = Unanswered(c, d)
    BY <1>1, <2>1 DEF TypeOK, Callers, Unanswered
  <2>3. PICK body \in Nat : body = pending'[d]
    BY <1>3, Numbers
  <2>4. CASE e = "in"
    <3>1. Sent(d, a + body, b)'
      BY <1>1, <1>2, <1>3, <2>2, <2>3, <2>4, Numbers DEF Sent, Callers, Directions
    <3> QED
      BY <1>1, <3>1 DEF Reported
  <2>5. CASE e = "out"
    <3>1. Sent(d, a, b + body)'
      BY <1>1, <1>2, <1>3, <2>2, <2>3, <2>5, Numbers DEF Sent, Callers, Directions
    <3> QED
      BY <1>1, <3>1 DEF Reported
  <2> QED
    BY <2>4, <2>5 DEF Directions
<1> QED
  BY <1>4, <1>5 DEF Chunk

\* The backend adds what was outstanding.
LEMMA ExecuteReported ==
    ASSUME TypeOK, CallsOK, NEW c \in Callers, Execute(c), NEW d \in Directions, Reported(d)
    PROVE  Reported(d)'
<1>1. /\ recorded'[d] = recorded[d] + snapshot[c][d]
      /\ Unanswered(c, d) = snapshot[c][d] /\ Unanswered(c, d)' = 0
      /\ \A x \in Callers : x # c => Unanswered(x, d)' = Unanswered(x, d)
      /\ \A x \in Callers : call'[x] = "none" <=> call[x] = "none"
      /\ UNCHANGED <<moved, pending, phase>>
  BY SumType DEF Execute, TypeOK, Unanswered, meterVars
<1>2. CASE phase = "relay"
  <2>1. PICK a \in Nat, b \in Nat : Sent(d, a, b)
    BY <1>2 DEF Reported
  <2>2. c \in Directions
    BY <1>2 DEF Execute, CallsOK, Callers
  <2>3. Sent(d, a, b)'
    BY <1>1, <2>1, <2>2, Numbers DEF Sent, Callers, Directions
  <2> QED
    BY <1>1, <1>2, <2>3 DEF Reported
<1>3. CASE phase # "relay"
  <2>1. c = "handler" /\ phase = "flush"
    BY <1>3 DEF Execute, CallsOK, Callers
  <2> QED
    BY <1>1, <2>1, Numbers DEF Reported, Callers
<1> QED
  BY <1>2, <1>3

\* What comes back from the await finds nothing of its own outstanding.
LEMMA FlushedReported ==
    ASSUME TypeOK, CallsOK, NEW c \in Callers, Flushed(c), NEW d \in Directions, Reported(d)
    PROVE  Reported(d)'
<1>1. /\ \A x \in Callers : Unanswered(x, d)' = Unanswered(x, d)
      /\ Unanswered(c, d) = 0
      /\ pending'[d] = 0
      /\ UNCHANGED <<moved, recorded>>
      /\ phase' = IF c = "handler" THEN "close" ELSE phase
  BY DEF Flushed, TypeOK, Unanswered, Zero
<1>2. CASE c \in Directions
  <2>1. phase = "relay" /\ phase' = "relay"
    BY <1>1, <1>2 DEF Flushed, CallsOK, Directions
  <2>2. PICK a \in Nat, b \in Nat : Sent(d, a, b)
    BY <2>1 DEF Reported
  <2>3. Sent(d, a, b)'
    BY <1>1, <2>2, Numbers DEF Sent, Callers, Directions
  <2> QED
    BY <2>1, <2>3 DEF Reported
<1>3. CASE c = "handler"
  <2>1. phase = "flush" /\ phase' = "close"
    BY <1>1, <1>3 DEF Flushed, CallsOK
  <2> QED
    BY <1>1, <1>3, <2>1, Numbers DEF Reported
<1> QED
  BY <1>2, <1>3 DEF Callers

\* The handler flushes what is pending when nothing is outstanding.
LEMMA FlushAllReported ==
    ASSUME TypeOK, CallsOK, FlushAll, NEW d \in Directions, Reported(d)
    PROVE  Reported(d)'
<1>1. /\ phase = "relay" /\ UNCHANGED <<moved, recorded>>
      /\ call["in"] = "none" /\ call["out"] = "none"
  BY DEF FlushAll, CallsOK, Directions, meterVars
<1>2. PICK a \in Nat, b \in Nat : Sent(d, a, b)
  BY <1>1 DEF Reported
<1>3. recorded[d] + pending[d] <= 2 * moved[d]
  BY <1>1, <1>2, Numbers DEF Sent, Unanswered
<1>4. CASE phase' = "close"
  BY <1>1, <1>3, <1>4, Numbers DEF Reported
<1>5. CASE phase' = "flush" /\ Send("handler", pending)
  <2>1. Unanswered("handler", d)' = pending[d]
    BY <1>5 DEF Send, Unanswered, TypeOK, Callers
  <2> QED
    BY <1>1, <1>3, <1>5, <2>1 DEF Reported
<1> QED
  BY <1>4, <1>5 DEF FlushAll

\* Each step keeps the reports within bounds, until an answer is lost.
LEMMA MeterStep ==
    ASSUME MeterInv, [Next]_vars, lost' = 0, NEW d \in Directions
    PROVE  Reported(d)'
<1>0. TypeOK /\ CallsOK
  BY DEF MeterInv
<1>1. lost = 0
  BY <1>0 DEF TypeOK, Next, Chunk, Execute, Resend, Flushed, RelayEnds, Cancelled, FlushAll, Close, vars
<1>2. Reported(d)
  BY <1>1 DEF MeterInv
<1>3. CASE \E e \in Directions : Chunk(e)
  BY <1>0, <1>2, <1>3, ChunkReported
<1>4. CASE \E c \in Callers : Execute(c) \/ Flushed(c)
  BY <1>0, <1>2, <1>4, ExecuteReported, FlushedReported
<1>5. CASE \E c \in Callers : Resend(c)
  BY <1>0, <1>1, <1>5 DEF Resend, TypeOK
<1>6. CASE (\E e \in Directions : RelayEnds(e)) \/ UNCHANGED vars
  <2>1. UNCHANGED <<moved, pending, recorded, call, snapshot, phase>>
    BY <1>6 DEF RelayEnds, vars, meterVars, callVars
  <2> QED
    BY <1>2, <2>1 DEF Reported, Sent, Unanswered
<1>7. CASE Cancelled
  <2>1. PICK a \in Nat, b \in Nat : Sent(d, a, b)
    BY <1>2, <1>7 DEF Cancelled, Reported
  <2>2. recorded[d] <= 2 * moved[d]
    BY <1>0, <2>1, Numbers DEF Sent, Callers, Directions
  <2> QED
    BY <1>7, <2>2 DEF Cancelled, Reported, meterVars
<1>8. CASE FlushAll
  BY <1>0, <1>2, <1>8, FlushAllReported
<1>9. CASE Close
  <2>1. /\ phase = "close" /\ phase' = "closed" /\ moved' = moved
        /\ recorded'[d] = recorded[d] + moved[d]
    BY <1>0, <1>1, <1>9, SumType DEF Close, TypeOK, meterVars
  <2> QED
    BY <1>0, <1>2, <2>1, Numbers DEF Reported
<1> QED
  BY <1>3, <1>4, <1>5, <1>6, <1>7, <1>8, <1>9 DEF Next

THEOREM MeterInvariant == Spec => []MeterInv
<1>1. ASSUME Init
      PROVE  MeterInv
  <2>1. TypeOK /\ CallsOK
    BY <1>1, InitType
  <2>2. ASSUME NEW d \in Directions
        PROVE  Reported(d)
    <3>1. /\ moved[d] = 0 /\ pending[d] = 0 /\ recorded[d] = 0 /\ phase = "relay"
          /\ Unanswered("in", d) = 0 /\ Unanswered("out", d) = 0
      BY <1>1 DEF Init, Zero, Unanswered, Callers, Directions
    <3>2. Sent(d, 0, 0)
      BY <3>1 DEF Sent
    <3> QED
      BY <3>1, <3>2 DEF Reported
  <2> QED
    BY <2>1, <2>2 DEF MeterInv
<1>2. ASSUME MeterInv, [Next]_vars
      PROVE  MeterInv'
  BY <1>2, TypeStep, MeterStep DEF MeterInv
<1> QED
  BY <1>1, <1>2, PTL DEF Spec

\* As long as no answer is lost every byte is reported at most by both relays'
\* flushes, or by one and the handler's, and by the close.
THEOREM OvercountTheorem == Spec => []OvercountBounded
<1>1. ASSUME MeterInv
      PROVE  OvercountBounded
  <2> SUFFICES ASSUME lost = 0, NEW d \in Directions
               PROVE  recorded[d] <= 3 * moved[d]
    BY DEF OvercountBounded
  <2>1. TypeOK /\ Reported(d)
    BY <1>1 DEF MeterInv
  <2>2. phase = "relay" => recorded[d] <= 2 * moved[d]
    BY <2>1, Numbers DEF Reported, Sent, Callers, Directions
  <2>3. phase = "flush" => recorded[d] <= 2 * moved[d]
    BY <2>1, Numbers DEF Reported, Callers
  <2> QED
    BY <2>1, <2>2, <2>3, Numbers DEF Reported, TypeOK
<1> QED
  BY <1>1, MeterInvariant, PTL
=============================================================================
