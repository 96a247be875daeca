---------------------------- MODULE GatewayProofs ----------------------------
(***************************************************************************)
(* Proofs about Gateway, for every set of handlers, clients and rows and   *)
(* every value of its bounds: its types, and that it implements the        *)
(* session store, so that the theorems of SessionStoreProofs hold of it.   *)
(***************************************************************************)
EXTENDS Gateway, SessionStoreProofs

\* Where a handler holds a connection row.
WithRow == {"connect", "failClose", "excClose", "relay", "drain", "state", "close"}

\* What the locals of handle_client are at each await.
LocalsOK ==
    \A h \in Handlers :
        /\ pc[h] = "openSession" => peer[h] \in Clients
        /\ pc[h] \notin {"idle", "openSession"} => session[h] \in Sessions
        /\ pc[h] \in WithRow => conn[h] \in Conns
        /\ pc[h] = "reroute" => attempt[h] + 1 < MaxAttempts

GatewayInv == GatewayTypeOK /\ LocalsOK

-----------------------------------------------------------------------------
\* The answer to a session/open call is a session, new or not, and a step or a
\* stutter of the store.
LEMMA AnswerIsStoreStep ==
    ASSUME NEW k \in Clients, NEW s \in Sessions, AnswerSession(k, s)
    PROVE  [StoreNext]_storeVars
BY DEF AnswerSession, StoreNext, GatewayCall

\* Every step of the gateway is a step of the store or leaves it alone.
LEMMA GatewayStepIsStoreStep ==
    ASSUME GatewayInv, [GatewayNext]_vars
    PROVE  [StoreNext]_storeVars
<1> USE DEF GatewayInv, GatewayTypeOK, OwnTypeOK, LocalsOK, WithRow
<1>1. ASSUME NEW h \in Handlers, OwnStep(h)
      PROVE  [StoreNext]_storeVars
  <2>1. CASE CallOpenSession(h)
    <3>1. pc[h] = "openSession" /\ peer[h] \in Clients
      BY <2>1 DEF CallOpenSession, Goto
    <3> QED
      BY <2>1, <3>1, AnswerIsStoreStep DEF CallOpenSession
  <2>2. CASE CallOpenConn(h)
    <3>1. session[h] \in Sessions
      BY <2>2 DEF CallOpenConn
    <3> QED
      BY <2>2, <3>1 DEF CallOpenConn, StoreNext, GatewayCall
  <2>3. CASE CallReroute(h)
    <3>1. session[h] \in Sessions
      BY <2>3 DEF CallReroute
    <3> QED
      BY <2>3, <3>1 DEF CallReroute, StoreNext, GatewayCall
  <2>4. CASE CallFailClose(h) \/ CallExcClose(h) \/ CallClose(h)
    <3>1. conn[h] \in Conns /\ verdict[h] \in {"closed", "failed", "killed"}
      BY <2>4 DEF CallFailClose, CallExcClose, CallClose, Goto
    <3> QED
      BY <2>4, <3>1 DEF CallFailClose, CallExcClose, CallClose, StoreNext, GatewayCall
  <2>5. CASE CallFinClose(h)
    <3>1. session[h] \in Sessions /\ verdict[h] \in {"closed", "killed"}
      BY <2>5 DEF CallFinClose, Goto
    <3> QED
      BY <2>5, <3>1 DEF CallFinClose, StoreNext, GatewayCall
  <2>6. CASE FirstRelayDone(h) \/ BothRelaysDone(h) \/ DrainTimeout(h) \/ CallState(h) \/ CallFinState(h)
    BY <2>6 DEF FirstRelayDone, BothRelaysDone, DrainTimeout, CallState, CallFinState
  <2> QED
    BY <1>1, <2>1, <2>2, <2>3, <2>4, <2>5, <2>6 DEF OwnStep
<1>2. ASSUME NEW r \in late, LateCall(r)
      PROVE  [StoreNext]_storeVars
  <2>1. r \in Request
    OBVIOUS
  <2>2. CASE r.op = "openSession"
    <3>1. r.client \in Clients /\ \E s \in Sessions : AnswerSession(r.client, s)
      BY <1>2, <2>1, <2>2 DEF LateCall, Request
    <3> QED
      BY <3>1, AnswerIsStoreStep
  <2>3. CASE r.op = "openConn"
    <3>1. r.session \in Sessions /\ \E c \in Conns, p, q \in Proxies \cup {None} : OpenConnection(r.session, c, p, q)
      BY <1>2, <2>1, <2>3 DEF LateCall, Request
    <3> QED
      BY <3>1 DEF StoreNext, GatewayCall
  <2>4. CASE r.op = "reroute"
    <3>1. r.session \in Sessions /\ \E q \in Proxies \cup {None} : Reroute(r.session, q)
      BY <1>2, <2>1, <2>4 DEF LateCall, Request
    <3> QED
      BY <3>1 DEF StoreNext, GatewayCall
  <2>5. CASE r.op = "closeConn"
    <3>1. /\ r.conn \in Conns /\ r.state \in {"closed", "failed", "killed"}
          /\ CloseConnection(r.conn, r.state)
      BY <1>2, <2>1, <2>5 DEF LateCall, Request
    <3> QED
      BY <3>1 DEF StoreNext, GatewayCall
  <2>6. CASE r.op = "closeSession"
    <3>1. /\ r.session \in Sessions /\ r.state \in {"closed", "killed"}
          /\ CloseSession(r.session, r.state)
      BY <1>2, <2>1, <2>6 DEF LateCall, Request
    <3> QED
      BY <3>1 DEF StoreNext, GatewayCall
  <2> QED
    BY <2>1, <2>2, <2>3, <2>4, <2>5, <2>6 DEF Request
<1>3. ASSUME NEW h \in Handlers, PeerStep(h)
      PROVE  [StoreNext]_storeVars
  BY <1>3 DEF PeerStep, ReadRequest, Connected, ConnectFails, SocketsClosed, RelayEnds, RelayKilled
<1>4. CASE Administrator
  BY <1>4 DEF Administrator, StoreNext, AdminCall
<1>5. CASE (\E h \in Handlers, k \in Clients : Accept(h, k)) \/ (\E h \in Handlers : CallTimesOut(h)) \/ GatewayCrash
  BY <1>5 DEF Accept, CallTimesOut, GatewayCrash
<1>6. CASE UNCHANGED vars
  BY <1>6 DEF vars
<1>7. CASE HandlerEnds
  BY <1>7 DEF HandlerEnds, StoreNext
<1> QED
  BY <1>1, <1>2, <1>3, <1>4, <1>5, <1>6, <1>7 DEF GatewayNext

-----------------------------------------------------------------------------
\* Moving on from an await keeps the program counter and the retries typed.
LEMMA GotoType ==
    ASSUME OwnTypeOK, NEW h \in Handlers, NEW from, NEW to \in CallPoints \cup PeerPoints,
           Goto(h, from, to)
    PROVE  /\ pc' \in [Handlers -> CallPoints \cup PeerPoints]
           /\ tries' \in [Handlers -> 0..HttpRetries - 1]
           /\ pc[h] = from /\ pc'[h] = to
           /\ \A g \in Handlers \ {h} : pc'[g] = pc[g]
BY GatewayAssumption DEF OwnTypeOK, Goto

\* The end of a task leaves typed locals.
LEMMA FinishType ==
    ASSUME OwnTypeOK, NEW h \in Handlers, Finish(h)
    PROVE  /\ peer' \in [Handlers -> Clients \cup {None}]
           /\ session' \in [Handlers -> Sessions \cup {None}]
           /\ conn' \in [Handlers -> Conns \cup {None}]
           /\ attempt' \in [Handlers -> 0..MaxAttempts - 1]
           /\ running' \in [Handlers -> SUBSET Relays]
           /\ verdict' \in [Handlers -> {"closed", "killed"}]
           /\ \A g \in Handlers \ {h} : /\ peer'[g] = peer[g] /\ session'[g] = session[g]
                                        /\ conn'[g] = conn[g] /\ attempt'[g] = attempt[g]
BY GatewayAssumption DEF OwnTypeOK, Finish

\* Calls and waits that move one handler and leave its row, its session and its
\* attempt count, except that the row may be given up.
LEMMA MoveKeepsInv ==
    ASSUME OwnTypeOK, LocalsOK, NEW h \in Handlers,
           NEW from, NEW to \in CallPoints \cup PeerPoints, Goto(h, from, to),
           from \notin {"idle", "openSession"}, to # "openSession",
           UNCHANGED <<peer, session, attempt, netVars>>,
           running' \in [Handlers -> SUBSET Relays],
           verdict' \in [Handlers -> {"closed", "killed"}],
           UNCHANGED conn \/ conn' = [conn EXCEPT ![h] = None],
           to \in WithRow => from \in WithRow /\ UNCHANGED conn,
           to = "reroute" => from = "reroute" \/ attempt[h] + 1 < MaxAttempts
    PROVE  OwnTypeOK' /\ LocalsOK'
<1>1. OwnTypeOK'
  BY GotoType DEF OwnTypeOK, netVars
<1>2. LocalsOK'
  <2> SUFFICES ASSUME NEW g \in Handlers
               PROVE  /\ pc'[g] = "openSession" => peer'[g] \in Clients
                      /\ pc'[g] \notin {"idle", "openSession"} => session'[g] \in Sessions
                      /\ pc'[g] \in WithRow => conn'[g] \in Conns
                      /\ pc'[g] = "reroute" => attempt'[g] + 1 < MaxAttempts
    BY DEF LocalsOK
  <2>1. CASE g = h
    BY <2>1, GotoType DEF LocalsOK, OwnTypeOK
  <2>2. CASE g # h
    <3>1. pc'[g] = pc[g] /\ conn'[g] = conn[g]
      BY <2>2, GotoType DEF OwnTypeOK
    <3> QED
      BY <3>1 DEF LocalsOK
  <2> QED
    BY <2>1, <2>2
<1> QED
  BY <1>1, <1>2

\* Actions that leave every program counter keep the locals as they are.
LEMMA StayKeepsLocals ==
    ASSUME LocalsOK, UNCHANGED <<pc, idVars, attempt>>
    PROVE  LocalsOK'
BY DEF LocalsOK, idVars

\* The end of a task.
LEMMA FinishKeepsInv ==
    ASSUME OwnTypeOK, LocalsOK, NEW h \in Handlers, NEW from, Goto(h, from, "idle"), Finish(h),
           late' \subseteq Request, lost' \in 0..MaxLost,
           UNCHANGED <<crashes, accepted, adminCalls>>
    PROVE  OwnTypeOK' /\ LocalsOK'
<1>1. "idle" \in CallPoints \cup PeerPoints
  BY DEF PeerPoints
<1>2. OwnTypeOK'
  BY <1>1, GotoType, FinishType DEF OwnTypeOK
<1>3. LocalsOK'
  BY <1>1, GotoType, FinishType DEF LocalsOK, WithRow
<1> QED
  BY <1>2, <1>3

\* A handler has one request outstanding at most, and it is one the backend knows.
LEMMA OutstandingType ==
    ASSUME OwnTypeOK, LocalsOK, NEW h \in Handlers
    PROVE  Outstanding(h) \subseteq Request /\ \A r, t \in Outstanding(h) : r = t
<1> USE DEF WithRow
<1>1. CASE pc[h] = "openSession"
  BY <1>1 DEF Outstanding, LocalsOK, Request
<1>2. CASE pc[h] \in {"openConn", "reroute"}
  BY <1>2 DEF Outstanding, LocalsOK, Request
<1>3. CASE pc[h] \in {"failClose", "excClose"}
  BY <1>3 DEF Outstanding, LocalsOK, Request
<1>4. CASE pc[h] = "close"
  BY <1>4 DEF Outstanding, LocalsOK, OwnTypeOK, Request
<1>5. CASE pc[h] = "finClose"
  BY <1>5 DEF Outstanding, LocalsOK, OwnTypeOK, Request
<1>6. CASE pc[h] \notin {"openSession", "openConn", "reroute", "failClose", "excClose",
                        "close", "finClose"}
  <2>1. Outstanding(h) = {}
    BY <1>6 DEF Outstanding
  <2> QED
    BY <2>1
<1> QED
  BY <1>1, <1>2, <1>3, <1>4, <1>5, <1>6

\* What its request is, by its operation.
LEMMA OutstandingOp ==
    ASSUME NEW h \in Handlers, NEW r \in Outstanding(h)
    PROVE  /\ r.op = "closeConn" =>
                 pc[h] \in {"failClose", "excClose", "close"} /\ r.conn = conn[h]
           /\ r.op = "openSession" =>
                 pc[h] = "openSession" /\ r = [op |-> "openSession", client |-> peer[h]]
BY DEF Outstanding

\* Every step of the gateway keeps its variables typed and the locals right.
LEMMA OwnStepKeepsInv ==
    ASSUME OwnTypeOK, LocalsOK, [GatewayNext]_vars
    PROVE  OwnTypeOK' /\ LocalsOK'
<1> USE DEF CallPoints, PeerPoints, WithRow
<1>1. ASSUME NEW h \in Handlers, NEW k \in Clients, Accept(h, k)
      PROVE  OwnTypeOK' /\ LocalsOK'
  <2>1. OwnTypeOK'
    BY <1>1, GotoType, GatewayAssumption DEF Accept, OwnTypeOK, runVars
  <2>2. LocalsOK'
    BY <1>1, GotoType DEF Accept, LocalsOK, OwnTypeOK, runVars
  <2> QED
    BY <2>1, <2>2
<1>2. ASSUME NEW h \in Handlers, CallOpenSession(h)
      PROVE  OwnTypeOK' /\ LocalsOK'
  <2>1. PICK s \in Sessions : session' = [session EXCEPT ![h] = s]
    BY <1>2 DEF CallOpenSession
  <2>2. OwnTypeOK'
    BY <1>2, <2>1, GotoType DEF CallOpenSession, OwnTypeOK, runVars, netVars
  <2>3. LocalsOK'
    BY <1>2, <2>1, GotoType DEF CallOpenSession, LocalsOK, OwnTypeOK, runVars
  <2> QED
    BY <2>2, <2>3
<1>3. ASSUME NEW h \in Handlers, CallOpenConn(h)
      PROVE  OwnTypeOK' /\ LocalsOK'
  <2>1. PICK c \in Conns : conn' = [conn EXCEPT ![h] = c]
    BY <1>3 DEF CallOpenConn
  <2>2. PICK to \in {"connect", "closing", "excClose"} : Goto(h, "openConn", to)
    BY <1>3 DEF CallOpenConn
  <2>3. OwnTypeOK'
    BY <1>3, <2>1, <2>2, GotoType DEF CallOpenConn, OwnTypeOK, runVars, netVars
  <2>4. LocalsOK'
    BY <1>3, <2>1, <2>2, GotoType DEF CallOpenConn, LocalsOK, OwnTypeOK, runVars
  <2> QED
    BY <2>3, <2>4
<1>4. ASSUME NEW h \in Handlers, CallFailClose(h)
      PROVE  OwnTypeOK' /\ LocalsOK'
  <2>1. PICK to \in {"closing", "reroute"} :
           Goto(h, "failClose", to) /\ (to = "reroute" => attempt[h] + 1 < MaxAttempts)
    BY <1>4, GatewayAssumption DEF CallFailClose, OwnTypeOK
  <2> QED
    BY <1>4, <2>1, MoveKeepsInv DEF CallFailClose, OwnTypeOK, runVars
<1>5. ASSUME NEW h \in Handlers, CallReroute(h)
      PROVE  OwnTypeOK' /\ LocalsOK'
  <2>1. CASE Goto(h, "reroute", "openConn") /\ attempt' = [attempt EXCEPT ![h] = @ + 1]
    <3>1. attempt' \in [Handlers -> 0..MaxAttempts - 1]
      BY <2>1, <1>5, GatewayAssumption DEF CallReroute, OwnTypeOK, LocalsOK
    <3>2. OwnTypeOK'
      BY <1>5, <2>1, <3>1, GotoType DEF CallReroute, OwnTypeOK, idVars, netVars
    <3>3. LocalsOK'
      BY <1>5, <2>1, GotoType DEF CallReroute, LocalsOK, OwnTypeOK, idVars
    <3> QED
      BY <3>2, <3>3
  <2>2. CASE Goto(h, "reroute", "closing") /\ UNCHANGED attempt
    BY <1>5, <2>2, MoveKeepsInv DEF CallReroute, OwnTypeOK, idVars
  <2> QED
    BY <1>5, <2>1, <2>2 DEF CallReroute
<1>6. ASSUME NEW h \in Handlers,
             FirstRelayDone(h) \/ BothRelaysDone(h) \/ DrainTimeout(h) \/ CallState(h) \/ CallFinState(h)
      PROVE  OwnTypeOK' /\ LocalsOK'
  <2>1. /\ \E from, to \in {"relay", "drain", "state", "close", "closing", "finState", "finClose"} :
              Goto(h, from, to) /\ (to \in WithRow => from \in WithRow)
        /\ UNCHANGED <<idVars, attempt, netVars>>
        /\ running' \in [Handlers -> SUBSET Relays]
        /\ verdict' \in [Handlers -> {"closed", "killed"}]
    BY <1>6 DEF FirstRelayDone, BothRelaysDone, DrainTimeout, CallState, CallFinState, OwnTypeOK, runVars
  <2> QED
    BY <2>1, MoveKeepsInv DEF idVars
<1>7. ASSUME NEW h \in Handlers, CallClose(h) \/ CallExcClose(h)
      PROVE  OwnTypeOK' /\ LocalsOK'
  BY <1>7, MoveKeepsInv DEF CallClose, CallExcClose, OwnTypeOK, idVars, runVars
<1>8. ASSUME NEW h \in Handlers, CallFinClose(h)
      PROVE  OwnTypeOK' /\ LocalsOK'
  BY <1>8, FinishKeepsInv DEF CallFinClose, OwnTypeOK, netVars
<1>9. ASSUME NEW h \in Handlers, ReadRequest(h) \/ Connected(h) \/ ConnectFails(h) \/ SocketsClosed(h)
      PROVE  OwnTypeOK' /\ LocalsOK'
  <2>1. /\ \E from, to \in {"request", "openConn", "closing", "connect", "relay", "failClose", "excClose", "finState"} :
              Goto(h, from, to) /\ (to \in WithRow => from \in WithRow)
        /\ UNCHANGED <<idVars, attempt, verdict, netVars>>
        /\ running' \in [Handlers -> SUBSET Relays]
    BY <1>9 DEF ReadRequest, Connected, ConnectFails, SocketsClosed, OwnTypeOK, runVars, Relays
  <2> QED
    BY <2>1, MoveKeepsInv DEF idVars, OwnTypeOK
<1>10. ASSUME NEW h \in Handlers, NEW d \in Relays, RelayEnds(h, d)
       PROVE  OwnTypeOK' /\ LocalsOK'
  BY <1>10, StayKeepsLocals DEF RelayEnds, OwnTypeOK, idVars, netVars
<1>11. ASSUME NEW h \in Handlers, CallTimesOut(h)
       PROVE  OwnTypeOK' /\ LocalsOK'
  <2>1. late' \subseteq Request /\ lost' \in 0..MaxLost /\ UNCHANGED <<crashes, accepted, adminCalls>>
    BY <1>11, OutstandingType, GatewayAssumption DEF CallTimesOut, OwnTypeOK
  <2>2. CASE tries[h] + 1 < HttpRetries
    <3>1. UNCHANGED <<pc, idVars, runVars>> /\ tries' \in [Handlers -> 0..HttpRetries - 1]
      BY <1>11, <2>2, GatewayAssumption DEF CallTimesOut, OwnTypeOK
    <3> QED
      BY <2>1, <3>1, StayKeepsLocals DEF OwnTypeOK, idVars, runVars
  <2>3. CASE ~(tries[h] + 1 < HttpRetries) /\ GiveUp[pc[h]] = "idle"
    BY <1>11, <2>1, <2>3, FinishKeepsInv DEF CallTimesOut
  <2>4. CASE ~(tries[h] + 1 < HttpRetries) /\ GiveUp[pc[h]] # "idle"
    <3>1. /\ Goto(h, pc[h], GiveUp[pc[h]]) /\ UNCHANGED <<idVars, attempt, running>>
          /\ verdict' \in [Handlers -> {"closed", "killed"}]
      BY <1>11, <2>4 DEF CallTimesOut, OwnTypeOK
    <3>2. /\ GiveUp[pc[h]] \in {"closing", "excClose", "finClose"}
          /\ GiveUp[pc[h]] = "excClose" => pc[h] \in WithRow
          /\ pc[h] \notin {"idle", "openSession"}
      BY <1>11, <2>4 DEF CallTimesOut, GiveUp
    <3>3. OwnTypeOK'
      BY <2>1, <3>1, <3>2, GotoType DEF OwnTypeOK, idVars
    <3>4. LocalsOK'
      BY <3>1, <3>2, GotoType DEF LocalsOK, OwnTypeOK, idVars
    <3> QED
      BY <3>3, <3>4
  <2> QED
    BY <2>2, <2>3, <2>4
<1>12. ASSUME NEW r \in late, LateCall(r)
       PROVE  OwnTypeOK' /\ LocalsOK'
  BY <1>12, StayKeepsLocals DEF LateCall, OwnTypeOK, idVars, runVars
<1>13. CASE GatewayCrash
  <2>1. late' \subseteq Request
    BY <1>13, OutstandingType DEF GatewayCrash, OwnTypeOK
  <2> QED
    BY <1>13, <2>1, GatewayAssumption DEF GatewayCrash, OwnTypeOK, LocalsOK
<1>14. CASE Administrator
  BY <1>14, StayKeepsLocals, GatewayAssumption DEF Administrator, OwnTypeOK, idVars, runVars
<1>15. CASE UNCHANGED vars
  BY <1>15, StayKeepsLocals DEF vars, gwVars, OwnTypeOK, idVars, runVars, netVars
<1>16. CASE HandlerEnds
  BY <1>16, StayKeepsLocals DEF HandlerEnds, gwVars, OwnTypeOK, idVars, runVars, netVars
<1> QED
  BY <1>1, <1>2, <1>3, <1>4, <1>5, <1>6, <1>7, <1>8, <1>9, <1>10, <1>11, <1>12, <1>13, <1>14, <1>15,
     <1>16 DEF GatewayNext, OwnStep, PeerStep, RelayKilled

-----------------------------------------------------------------------------
\* A gateway that has just started is typed and has no locals.
LEMMA GatewayInvInit == GatewayInit => GatewayInv
<1> SUFFICES ASSUME GatewayInit PROVE GatewayInv
  OBVIOUS
<1>1. TypeOK
  BY InitType DEF GatewayInit
<1>2. OwnTypeOK /\ LocalsOK
  BY GatewayAssumption DEF GatewayInit, OwnTypeOK, LocalsOK, WithRow, PeerPoints
<1> QED
  BY <1>1, <1>2 DEF GatewayInv, GatewayTypeOK, OwnTypeOK

\* The gateway's inductive invariant, types and locals together.
THEOREM GatewayInvariant == GatewaySpec => []GatewayInv
<1>1. GatewayInit => GatewayInv
  BY GatewayInvInit
<1>2. GatewayInv /\ [GatewayNext]_vars => GatewayInv'
  <2> SUFFICES ASSUME GatewayInv, [GatewayNext]_vars PROVE GatewayInv'
    OBVIOUS
  <2>1. TypeOK'
    BY GatewayStepIsStoreStep, TypeStep DEF GatewayInv, GatewayTypeOK
  <2>2. OwnTypeOK' /\ LocalsOK'
    BY OwnStepKeepsInv DEF GatewayInv, GatewayTypeOK, OwnTypeOK
  <2> QED
    BY <2>1, <2>2 DEF GatewayInv, GatewayTypeOK, OwnTypeOK
<1> QED
  BY <1>1, <1>2, PTL DEF GatewaySpec

\* Type correctness of the gateway, its handlers' locals and late requests.
THEOREM GatewayTypeCorrect == GatewaySpec => []GatewayTypeOK
<1>1. GatewayInv => GatewayTypeOK
  BY DEF GatewayInv
<1> QED
  BY <1>1, GatewayInvariant, PTL

\* The gateway implements the session store with arbitrary callers: tasks that
\* share a session, retries, late executions and restarts only ever run its
\* handlers, on rows that exist.  All theorems about StoreSpec hold of it.
THEOREM GatewayImplementsStore == GatewaySpec => ImplementsStore
<1>1. GatewayInit => StoreInit
  BY DEF GatewayInit
<1>2. GatewayInv /\ [GatewayNext]_vars => [StoreNext]_storeVars
  BY GatewayStepIsStoreStep
<1> QED
  BY <1>1, <1>2, GatewayInvariant, PTL DEF GatewaySpec, ImplementsStore, StoreSpec

\* Under the gateway, too, the workers see sessions that are active once and counted
\* right until something fails, which is what the monitor and the orchestrator build on.
THEOREM GatewayImplementsLedger == GatewaySpec => ImplementsLedger
BY GatewayImplementsStore, StoreImplementsLedger DEF ImplementsStore

-----------------------------------------------------------------------------
\* The awaits before a handler has a row, and those after it last used one.
NoRow  == {"idle", "openSession", "request", "openConn", "reroute"}
Ending == {"failClose", "excClose", "close", "closing", "finState", "finClose"}

(* The strengthening of RowIsOwn: a handler is the only one to hold its    *)
(* row from its insertion to the end of the attempt, and a late close is   *)
(* that of a row no handler uses any more, nor can get again.              *)
RowsHeld ==
    \A h \in Handlers :
        /\ conn[h] # None => /\ connState[conn[h]] # "none"
                            /\ connSession[conn[h]] = session[h]
                            /\ \A g \in Handlers \ {h} : conn[g] # conn[h]
        /\ pc[h] \in NoRow => conn[h] = None
        /\ Using(h) => conn[h] # None /\ connState[conn[h]] \in {"open", "killed"}
LateCloses ==
    \A r \in late : r.op = "closeConn" =>
        /\ connState[r.conn] # "none"
        /\ \A h \in Handlers : conn[h] = r.conn => pc[h] \in Ending
RowInv == RowsHeld /\ LateCloses

\* Steps of one handler that touch no connection row.
LEMMA MoveKeepsRows ==
    ASSUME OwnTypeOK, RowInv, NEW h \in Handlers,
           UNCHANGED <<connState, connSession>>,
           \A g \in Handlers \ {h} : /\ pc'[g] = pc[g] /\ conn'[g] = conn[g]
                                    /\ session'[g] = session[g],
           \/ conn'[h] = None /\ ~Using(h)'
           \/ /\ conn'[h] = conn[h] /\ session'[h] = session[h]
              /\ pc'[h] \notin NoRow
              /\ Using(h)' => Using(h)
              /\ pc[h] \in Ending => pc'[h] \in Ending,
           \A r \in late' \ late : r.op = "closeConn" =>
               /\ r.conn = conn[h] /\ conn'[h] = conn[h] /\ conn[h] # None
               /\ pc'[h] \in Ending
    PROVE  RowInv'
<1>1. RowsHeld'
  <2> SUFFICES ASSUME NEW g \in Handlers
               PROVE  /\ conn'[g] # None => /\ connState'[conn'[g]] # "none"
                                            /\ connSession'[conn'[g]] = session'[g]
                                            /\ \A f \in Handlers \ {g} : conn'[f] # conn'[g]
                      /\ pc'[g] \in NoRow => conn'[g] = None
                      /\ Using(g)' => conn'[g] # None /\ connState'[conn'[g]] \in {"open", "killed"}
    BY DEF RowsHeld
  <2>1. CASE g = h
    BY <2>1 DEF RowInv, RowsHeld, Using
  <2>2. CASE g # h
    BY <2>2 DEF RowInv, RowsHeld, Using
  <2> QED
    BY <2>1, <2>2
<1>2. LateCloses'
  <2> SUFFICES ASSUME NEW r \in late', r.op = "closeConn"
               PROVE  /\ connState'[r.conn] # "none"
                      /\ \A g \in Handlers : conn'[g] = r.conn => pc'[g] \in Ending
    BY DEF LateCloses
  <2>1. CASE r \in late
    <3>1. r.conn # None
      BY <2>1, StoreAssumption DEF OwnTypeOK, Request
    <3> QED
      BY <2>1, <3>1 DEF RowInv, LateCloses
  <2>2. CASE r \notin late
    BY <2>2 DEF RowInv, RowsHeld
  <2> QED
    BY <2>1, <2>2
<1> QED
  BY <1>1, <1>2 DEF RowInv

\* Opening a row that no one holds, by a handler without one or by a late call.
LEMMA OpenKeepsRows ==
    ASSUME TypeOK, OwnTypeOK, LocalsOK, RowInv,
           NEW s \in Sessions, NEW c \in Conns, NEW p, NEW q, OpenConnection(s, c, p, q),
           late' \subseteq late, UNCHANGED session,
           \/ UNCHANGED <<pc, conn>>
           \/ \E h \in Handlers :
                 /\ conn' = [conn EXCEPT ![h] = c]
                 /\ session[h] = s
                 /\ pc'[h] \notin NoRow
                 /\ \A g \in Handlers \ {h} : pc'[g] = pc[g]
    PROVE  RowInv'
<1>1. /\ connState[c] = "none"
      /\ connState' = [connState EXCEPT ![c] = "open"]
      /\ connSession' = [connSession EXCEPT ![c] = s]
  BY DEF OpenConnection
<1>2. c # None
  BY StoreAssumption
<1>3. \A g \in Handlers : conn[g] # c
  BY <1>1, <1>2 DEF RowInv, RowsHeld
<1>4. \A g \in Handlers : conn[g] # None => conn[g] \in Conns
  BY DEF OwnTypeOK
<1>5. RowsHeld'
  <2>1. CASE UNCHANGED <<pc, conn>>
    BY <1>1, <1>3, <1>4, <2>1 DEF TypeOK, RowInv, RowsHeld, Using
  <2>2. ASSUME NEW h \in Handlers,
               conn' = [conn EXCEPT ![h] = c], session[h] = s, pc'[h] \notin NoRow,
               \A g \in Handlers \ {h} : pc'[g] = pc[g]
        PROVE  RowsHeld'
    <3>1. conn'[h] = c /\ \A g \in Handlers \ {h} : conn'[g] = conn[g]
      BY <2>2 DEF OwnTypeOK
    <3>2. connState'[c] = "open" /\ connSession'[c] = s
      BY <1>1 DEF TypeOK
    <3>3. \A g \in Handlers \ {h} : conn[g] # None =>
             connState'[conn[g]] = connState[conn[g]] /\ connSession'[conn[g]] = connSession[conn[g]]
      BY <1>1, <1>3, <1>4 DEF TypeOK
    <3> QED
      BY <1>2, <1>3, <2>2, <3>1, <3>2, <3>3 DEF RowInv, RowsHeld, Using
  <2> QED
    BY <2>1, <2>2
<1>6. LateCloses'
  <2> SUFFICES ASSUME NEW r \in late, r.op = "closeConn"
               PROVE  /\ connState'[r.conn] # "none"
                      /\ \A g \in Handlers : conn'[g] = r.conn => pc'[g] \in Ending
    BY DEF LateCloses
  <2>1. r.conn \in Conns /\ r.conn # c
    BY <1>1 DEF OwnTypeOK, Request, RowInv, LateCloses
  <2>2. connState'[r.conn] = connState[r.conn]
    BY <1>1, <2>1 DEF TypeOK
  <2>3. \A g \in Handlers : conn'[g] = r.conn => conn[g] = r.conn /\ pc'[g] = pc[g]
    BY <2>1 DEF OwnTypeOK
  <2> QED
    BY <2>2, <2>3 DEF RowInv, LateCloses
<1> QED
  BY <1>5, <1>6 DEF RowInv

\* Closing a row that no handler uses after the step.
LEMMA CloseKeepsRows ==
    ASSUME TypeOK, OwnTypeOK, RowInv, NEW c \in Conns,
           NEW st \in {"closed", "failed", "killed"}, CloseConnection(c, st),
           late' \subseteq late,
           \/ /\ UNCHANGED <<session, pc, conn>>
              /\ \A g \in Handlers : conn[g] = c => ~Using(g)
           \/ \E h \in Handlers :
                 /\ conn[h] = c /\ UNCHANGED session
                 /\ \A g \in Handlers \ {h} : pc'[g] = pc[g] /\ conn'[g] = conn[g]
                 /\ ~Using(h)'
                 /\ \/ conn'[h] = None
                    \/ conn'[h] = conn[h] /\ pc'[h] \in Ending
    PROVE  RowInv'
<1>1. /\ connState' = [connState EXCEPT ![c] = st]
      /\ UNCHANGED connSession
      /\ connState[c] # "none"
  BY DEF CloseConnection
<1>2. \A d \in Conns : /\ connState[d] # "none" => connState'[d] # "none"
                       /\ d # c => connState'[d] = connState[d]
  BY <1>1 DEF TypeOK
<1>3. \A g \in Handlers : conn[g] # None => conn[g] \in Conns
  BY DEF OwnTypeOK
<1>4. NoRow \cap Ending = {}
  BY DEF NoRow, Ending
<1>5. \A r \in late : r.op = "closeConn" => r.conn \in Conns /\ r.conn # None
  BY StoreAssumption DEF OwnTypeOK, Request
<1>6. CASE UNCHANGED <<session, pc, conn>> /\ (\A g \in Handlers : conn[g] = c => ~Using(g))
  BY <1>1, <1>2, <1>3, <1>5, <1>6 DEF RowInv, RowsHeld, LateCloses, Using
<1>7. ASSUME NEW h \in Handlers, conn[h] = c, UNCHANGED session,
             \A g \in Handlers \ {h} : pc'[g] = pc[g] /\ conn'[g] = conn[g],
             ~Using(h)',
             conn'[h] = None \/ (conn'[h] = conn[h] /\ pc'[h] \in Ending)
      PROVE  RowInv'
  <2>1. RowsHeld'
    BY <1>1, <1>2, <1>3, <1>4, <1>7 DEF RowInv, RowsHeld, Using
  <2>2. LateCloses'
    BY <1>2, <1>5, <1>7 DEF RowInv, LateCloses
  <2> QED
    BY <2>1, <2>2 DEF RowInv
<1> QED
  BY <1>6, <1>7

\* The store's handlers that touch no connection row.
LEMMA SessionCallsKeepRows ==
    /\ \A k, s : AnswerSession(k, s) => UNCHANGED connVars
    /\ \A s, q : Reroute(s, q) => UNCHANGED connVars
    /\ \A s, st : CloseSession(s, st) => UNCHANGED connVars
    /\ SecondWrite => UNCHANGED connVars
BY DEF AnswerSession, OpenSession, Reroute, CloseSession, SecondWrite, PublishOpened, CommitClosed,
       storeVars, dbVars, connVars

\* Every step of the gateway keeps the rows its handlers hold their own.
LEMMA RowInvStep ==
    ASSUME GatewayInv, RowInv, [GatewayNext]_vars
    PROVE  RowInv'
<1> USE DEF GatewayInv, GatewayTypeOK, connVars
<1>a. OwnTypeOK /\ LocalsOK /\ TypeOK
  OBVIOUS
<1>b. /\ UNCHANGED storeVars => UNCHANGED connVars
      /\ UNCHANGED netVars => UNCHANGED late
  BY DEF storeVars, dbVars, netVars
\* a step of h by Goto that touches neither rows nor late, with the row kept
<1>c. ASSUME NEW h \in Handlers, NEW from, NEW to \in CallPoints \cup PeerPoints, Goto(h, from, to),
             UNCHANGED <<connState, connSession, session, conn, late>>,
             from \in NoRow \/ to \notin NoRow,
             to \in {"connect", "relay", "drain", "state"} => from \in {"connect", "relay", "drain", "state"},
             from \in Ending => to \in Ending
      PROVE  RowInv'
  <2>1. pc[h] = from /\ pc'[h] = to /\ \A g \in Handlers \ {h} : pc'[g] = pc[g]
    BY <1>a, <1>c, GotoType
  <2>2. from \in NoRow => conn[h] = None
    BY <2>1 DEF RowInv, RowsHeld
  <2> QED
    <3>1. \A g \in Handlers \ {h} : pc'[g] = pc[g] /\ conn'[g] = conn[g] /\ session'[g] = session[g]
      BY <1>c, <2>1
    <3>2. \A r \in late' \ late : r.op # "closeConn"
      BY <1>c
    <3>3. CASE from \in NoRow
      <4>1. conn'[h] = None /\ ~Using(h)'
        BY <1>c, <2>1, <2>2, <3>3 DEF Using, NoRow
      <4> QED
        BY <1>a, <1>c, <3>1, <3>2, <4>1, MoveKeepsRows
    <3>4. CASE from \notin NoRow
      <4>1. /\ conn'[h] = conn[h] /\ session'[h] = session[h]
            /\ pc'[h] \notin NoRow
            /\ Using(h)' => Using(h)
            /\ pc[h] \in Ending => pc'[h] \in Ending
        BY <1>c, <2>1, <3>4 DEF Using
      <4> QED
        BY <1>a, <1>c, <3>1, <3>2, <4>1, MoveKeepsRows
    <3> QED
      BY <3>3, <3>4
<1>d. ASSUME NEW h \in Handlers, NEW from, Goto(h, from, "idle"), Finish(h),
             UNCHANGED <<connState, connSession>>,
             \A r \in late' \ late : r.op # "closeConn"
      PROVE  RowInv'
  <2>1. /\ pc'[h] = "idle" /\ conn'[h] = None
        /\ \A g \in Handlers \ {h} : pc'[g] = pc[g] /\ conn'[g] = conn[g] /\ session'[g] = session[g]
    BY <1>a, <1>d, GotoType DEF Finish, OwnTypeOK, PeerPoints
  <2> QED
    BY <1>a, <1>d, <2>1, MoveKeepsRows DEF Using
<1>1. ASSUME NEW h \in Handlers, NEW k \in Clients, Accept(h, k)
      PROVE  RowInv'
  BY <1>1, <1>b, <1>c DEF Accept, NoRow, Ending, CallPoints, PeerPoints
<1>2. ASSUME NEW h \in Handlers, CallOpenSession(h)
      PROVE  RowInv'
  <2>1. Goto(h, "openSession", "request") /\ UNCHANGED <<connState, connSession, conn, late>>
    BY <1>2, <1>b, SessionCallsKeepRows DEF CallOpenSession
  <2>2. \A g \in Handlers \ {h} : session'[g] = session[g]
    BY <1>2 DEF CallOpenSession, OwnTypeOK
  <2>3. pc[h] = "openSession" /\ pc'[h] = "request" /\ \A g \in Handlers \ {h} : pc'[g] = pc[g]
    BY <1>a, <2>1, GotoType DEF PeerPoints
  <2>4. conn'[h] = None /\ ~Using(h)'
    BY <2>1, <2>3 DEF RowInv, RowsHeld, NoRow, Using
  <2> QED
    BY <1>a, <2>1, <2>2, <2>3, <2>4, MoveKeepsRows
<1>3. ASSUME NEW h \in Handlers, CallOpenConn(h)
      PROVE  RowInv'
  <2>1. PICK c \in Conns, p, q \in Proxies \cup {None} :
           OpenConnection(session[h], c, p, q) /\ conn' = [conn EXCEPT ![h] = c]
    BY <1>3 DEF CallOpenConn
  <2>2. PICK to \in {"connect", "closing", "excClose"} : Goto(h, "openConn", to)
    BY <1>3 DEF CallOpenConn
  <2>3. pc[h] = "openConn" /\ pc'[h] = to /\ \A g \in Handlers \ {h} : pc'[g] = pc[g]
    BY <1>a, <2>2, GotoType DEF PeerPoints, CallPoints
  <2>4. session[h] \in Sessions /\ to \notin NoRow
    BY <2>3 DEF LocalsOK, NoRow
  <2>5. UNCHANGED <<session, late>>
    BY <1>3, <1>b DEF CallOpenConn
  <2> QED
    BY <1>a, <2>1, <2>3, <2>4, <2>5, OpenKeepsRows
<1>4. ASSUME NEW h \in Handlers, CallReroute(h)
      PROVE  RowInv'
  BY <1>4, <1>b, <1>c, SessionCallsKeepRows
     DEF CallReroute, idVars, NoRow, Ending, CallPoints, PeerPoints
<1>5. ASSUME NEW h \in Handlers, CallFailClose(h) \/ CallClose(h) \/ CallExcClose(h)
      PROVE  RowInv'
  <2>1. PICK from \in {"failClose", "close", "excClose"}, to \in {"closing", "reroute"} :
           /\ Goto(h, from, to)
           /\ from # "failClose" => to = "closing" /\ UNCHANGED conn
           /\ from = "failClose" => conn' = [conn EXCEPT ![h] = None]
    BY <1>5 DEF CallFailClose, CallClose, CallExcClose, idVars, Goto
  <2>2. pc[h] = from /\ pc'[h] = to /\ \A g \in Handlers \ {h} : pc'[g] = pc[g]
    BY <1>a, <2>1, GotoType DEF PeerPoints, CallPoints
  <2>3. conn[h] \in Conns
    BY <2>2 DEF LocalsOK, WithRow
  <2>4. \E st \in {"closed", "failed", "killed"} : CloseConnection(conn[h], st)
    BY <1>5 DEF CallFailClose, CallClose, CallExcClose, OwnTypeOK
  <2>5. UNCHANGED <<session, late>>
    BY <1>5, <1>b DEF CallFailClose, CallClose, CallExcClose, idVars
  <2>6. /\ conn'[h] = None \/ (conn'[h] = conn[h] /\ pc'[h] \in Ending)
        /\ \A g \in Handlers \ {h} : conn'[g] = conn[g]
        /\ ~Using(h)'
    BY <2>1, <2>2 DEF OwnTypeOK, Ending, Using
  <2> QED
    BY <1>a, <2>2, <2>3, <2>4, <2>5, <2>6, CloseKeepsRows
<1>6. ASSUME NEW h \in Handlers,
             FirstRelayDone(h) \/ BothRelaysDone(h) \/ DrainTimeout(h) \/ CallState(h) \/ CallFinState(h)
             \/ ReadRequest(h) \/ Connected(h) \/ ConnectFails(h) \/ SocketsClosed(h)
      PROVE  RowInv'
  <2>1. UNCHANGED <<connState, connSession, session, conn, late>>
    BY <1>6, <1>b DEF FirstRelayDone, BothRelaysDone, DrainTimeout, CallState, CallFinState, ReadRequest,
       Connected, ConnectFails, SocketsClosed, idVars
  <2>2. \/ Goto(h, "request", "openConn")  \/ Goto(h, "request", "closing")
        \/ Goto(h, "connect", "relay")     \/ Goto(h, "connect", "failClose")
        \/ Goto(h, "connect", "excClose")  \/ Goto(h, "relay", "state")
        \/ Goto(h, "relay", "drain")       \/ Goto(h, "drain", "state")
        \/ Goto(h, "drain", "closing")     \/ Goto(h, "state", "close")
        \/ Goto(h, "closing", "finState")  \/ Goto(h, "finState", "finClose")
    BY <1>6 DEF FirstRelayDone, BothRelaysDone, DrainTimeout, CallState, CallFinState, ReadRequest,
       Connected, ConnectFails, SocketsClosed
  <2> QED
    BY <2>1, <2>2, <1>c DEF NoRow, Ending, CallPoints, PeerPoints
<1>7. ASSUME NEW h \in Handlers, CallFinClose(h)
      PROVE  RowInv'
  BY <1>7, <1>b, <1>d, SessionCallsKeepRows DEF CallFinClose
<1>8. ASSUME NEW h \in Handlers, NEW d \in Relays, RelayEnds(h, d)
      PROVE  RowInv'
  BY <1>8, <1>b DEF RelayEnds, idVars, RowInv, RowsHeld, LateCloses, Using
<1>9. ASSUME NEW h \in Handlers, CallTimesOut(h)
      PROVE  RowInv'
  <2>1. UNCHANGED <<connState, connSession>>
    BY <1>9, <1>b DEF CallTimesOut
  <2>2. \A r \in late' \ late : r.op = "closeConn" =>
           pc[h] \in {"failClose", "excClose", "close"} /\ r.conn = conn[h]
    BY <1>9, OutstandingOp DEF CallTimesOut
  <2>3. CASE tries[h] + 1 < HttpRetries
    <3>1. UNCHANGED <<pc, session, conn>>
      BY <1>9, <2>3 DEF CallTimesOut, idVars
    <3>2. \A r \in late' \ late : r.op = "closeConn" =>
             r.conn = conn[h] /\ conn[h] # None /\ pc[h] \in Ending
      BY <2>2, StoreAssumption DEF LocalsOK, WithRow, Ending
    <3>3. pc[h] \notin NoRow \/ (conn[h] = None /\ ~Using(h))
      BY DEF RowInv, RowsHeld, NoRow, Using
    <3> QED
      BY <1>a, <2>1, <3>1, <3>2, <3>3, MoveKeepsRows DEF Using
  <2>4. CASE ~(tries[h] + 1 < HttpRetries) /\ GiveUp[pc[h]] = "idle"
    <3>1. pc[h] \in {"openSession", "finClose"}
      BY <1>9, <2>4 DEF CallTimesOut, GiveUp, CallPoints
    <3>2. \A r \in late' \ late : r.op # "closeConn"
      BY <2>2, <3>1
    <3> QED
      BY <1>9, <2>1, <2>4, <3>2, <1>d DEF CallTimesOut
  <2>5. CASE ~(tries[h] + 1 < HttpRetries) /\ GiveUp[pc[h]] # "idle"
    <3>1. Goto(h, pc[h], GiveUp[pc[h]]) /\ UNCHANGED <<session, conn>>
      BY <1>9, <2>5 DEF CallTimesOut, idVars
    <3>2. /\ GiveUp[pc[h]] \in {"closing", "excClose", "finClose"}
          /\ pc[h] \in CallPoints
      BY <1>9, <2>5 DEF CallTimesOut, GiveUp, CallPoints
    <3>3. pc'[h] = GiveUp[pc[h]] /\ \A g \in Handlers \ {h} : pc'[g] = pc[g]
      BY <1>a, <3>1, <3>2, GotoType DEF CallPoints, PeerPoints
    <3>4. pc'[h] \in Ending /\ pc'[h] \notin NoRow /\ ~Using(h)'
      BY <3>2, <3>3 DEF Ending, NoRow, Using
    <3>5. \A r \in late' \ late : r.op = "closeConn" => r.conn = conn[h] /\ conn[h] # None
      BY <2>2, StoreAssumption DEF LocalsOK, WithRow
    <3> QED
      BY <1>a, <2>1, <3>1, <3>3, <3>4, <3>5, MoveKeepsRows
  <2> QED
    BY <2>3, <2>4, <2>5
<1>10. ASSUME NEW r \in late, LateCall(r)
       PROVE  RowInv'
  <2>1. r \in Request /\ late' \subseteq late /\ UNCHANGED <<pc, conn, session>>
    BY <1>10 DEF LateCall, OwnTypeOK, idVars
  <2>2. CASE UNCHANGED connVars
    BY <2>1, <2>2 DEF RowInv, RowsHeld, LateCloses, Using
  <2>3. CASE r.op = "openConn"
    <3>1. PICK c \in Conns, p, q \in Proxies \cup {None} : OpenConnection(r.session, c, p, q)
      BY <1>10, <2>3 DEF LateCall
    <3>2. r.session \in Sessions
      BY <2>1, <2>3 DEF Request
    <3> QED
      BY <1>a, <2>1, <3>1, <3>2, OpenKeepsRows
  <2>4. CASE r.op = "closeConn"
    <3>1. r.conn \in Conns /\ r.state \in {"closed", "failed", "killed"} /\ CloseConnection(r.conn, r.state)
      BY <1>10, <2>1, <2>4 DEF LateCall, Request
    <3>2. \A g \in Handlers : conn[g] = r.conn => ~Using(g)
      BY <2>4 DEF RowInv, LateCloses, Ending, Using
    <3> QED
      BY <1>a, <2>1, <3>1, <3>2, CloseKeepsRows
  <2> QED
    BY <1>10, <2>2, <2>3, <2>4, SessionCallsKeepRows DEF LateCall
<1>11. CASE GatewayCrash
  <2>1. UNCHANGED <<connState, connSession>> /\ \A h \in Handlers : conn'[h] = None /\ pc'[h] = "idle"
    BY <1>11, <1>b DEF GatewayCrash
  <2>2. \A r \in late' : r.op = "closeConn" => r.conn # None /\ connState[r.conn] # "none"
    <3> SUFFICES ASSUME NEW r \in late', r.op = "closeConn"
                 PROVE  r.conn # None /\ connState[r.conn] # "none"
      OBVIOUS
    <3>1. CASE r \in late
      BY <3>1, StoreAssumption DEF OwnTypeOK, Request, RowInv, LateCloses
    <3>2. CASE \E h \in Handlers : r \in Outstanding(h)
      BY <3>2, OutstandingOp, StoreAssumption DEF LocalsOK, WithRow, RowInv, RowsHeld
    <3> QED
      BY <1>11, <3>1, <3>2 DEF GatewayCrash
  <2> QED
    BY <2>1, <2>2 DEF RowInv, RowsHeld, LateCloses, Using, NoRow
<1>12. CASE Administrator
  <2>1. UNCHANGED <<pc, conn, session, late>>
    BY <1>12 DEF Administrator, idVars
  <2>2. PICK s \in Sessions : KillSession(s) \/ DisconnectConnections(s)
    BY <1>12 DEF Administrator
  <2>3. CASE KillSession(s)
    BY <2>1, <2>3, SessionCallsKeepRows DEF KillSession, RowInv, RowsHeld, LateCloses, Using
  <2>4. CASE DisconnectConnections(s)
    <3>1. /\ UNCHANGED connSession
          /\ \A c \in Conns : connState'[c] = connState[c] \/ (connState[c] = "open" /\ connState'[c] = "killed")
      BY <2>4 DEF DisconnectConnections, OpenRows
    <3>2. \A h \in Handlers : conn[h] # None => conn[h] \in Conns
      BY DEF OwnTypeOK
    <3>3. \A r \in late : r.op = "closeConn" => r.conn \in Conns
      BY DEF OwnTypeOK, Request
    <3> QED
      BY <2>1, <3>1, <3>2, <3>3 DEF RowInv, RowsHeld, LateCloses, Using
  <2> QED
    BY <2>2, <2>3, <2>4
<1>13. CASE UNCHANGED vars
  BY <1>13, <1>b DEF vars, gwVars, idVars, RowInv, RowsHeld, LateCloses, Using
<1>14. CASE HandlerEnds
  BY <1>14, <1>b, SessionCallsKeepRows
     DEF HandlerEnds, gwVars, idVars, RowInv, RowsHeld, LateCloses, Using
<1> QED
  BY <1>1, <1>2, <1>3, <1>4, <1>5, <1>6, <1>7, <1>8, <1>9, <1>10, <1>11, <1>12, <1>13, <1>14
     DEF GatewayNext, OwnStep, PeerStep, RelayKilled

\* The row a handler uses is its own, for any number of handlers, retries, late
\* requests and restarts.
THEOREM RowIsOwnTheorem == GatewaySpec => []RowIsOwn
<1>1. GatewayInit => RowInv
  BY DEF GatewayInit, RowInv, RowsHeld, LateCloses, Using, NoRow
<1>2. GatewayInv /\ RowInv /\ [GatewayNext]_vars => RowInv'
  BY RowInvStep
<1>3. RowInv => RowIsOwn
  BY DEF RowInv, RowsHeld, RowIsOwn
<1> QED
  BY <1>1, <1>2, <1>3, GatewayInvariant, PTL DEF GatewaySpec

-----------------------------------------------------------------------------
(* The strengthening of OrphansAccounted: a handler that has no session    *)
(* yet holds none, so that the answer to its open replaces nothing.        *)
DebtCovered ==
    Cardinality(Orphans) + Cardinality(LateOpens) <= lost + crashes * Cardinality(Handlers)
OrphanInv ==
    /\ \A h \in Handlers : pc[h] \in {"idle", "openSession"} => session[h] = None
    /\ IsFiniteSet(late)
    /\ DebtCovered

\* Sets of sessions and of late requests can be counted.
LEMMA OrphanSets ==
    ASSUME IsFiniteSet(late)
    PROVE  /\ IsFiniteSet(Orphans) /\ Cardinality(Orphans) \in Nat
           /\ IsFiniteSet(LateOpens) /\ Cardinality(LateOpens) \in Nat
<1>1. Orphans \subseteq Sessions /\ LateOpens \subseteq late
  BY DEF Orphans, Staying, ActiveSessions, LateOpens
<1> QED
  BY <1>1, RowsFinite, FS_Subset, FS_CardinalityType

\* One element more is one more to count at most.
LEMMA OneMore ==
    ASSUME NEW S, IsFiniteSet(S), NEW x, NEW T, T \subseteq S \cup {x}
    PROVE  IsFiniteSet(T) /\ Cardinality(T) \in Nat /\ Cardinality(T) <= Cardinality(S) + 1
<1>1. /\ IsFiniteSet(S \cup {x})
      /\ Cardinality(S \cup {x}) <= Cardinality(S) + 1
      /\ Cardinality(S \cup {x}) \in Nat /\ Cardinality(S) \in Nat
  BY FS_AddElement, FS_CardinalityType
<1>2. IsFiniteSet(T) /\ Cardinality(T) <= Cardinality(S \cup {x}) /\ Cardinality(T) \in Nat
  BY <1>1, FS_Subset, FS_CardinalityType
<1> QED
  BY <1>1, <1>2

\* A subset has no more elements.
LEMMA NoMore ==
    ASSUME NEW S, IsFiniteSet(S), NEW T, T \subseteq S
    PROVE  IsFiniteSet(T) /\ Cardinality(T) \in Nat /\ Cardinality(T) <= Cardinality(S)
BY FS_Subset, FS_CardinalityType

\* What the bound is made of are numbers.
LEMMA DebtNumbers ==
    ASSUME OwnTypeOK
    PROVE  /\ lost \in Nat /\ crashes \in Nat /\ Cardinality(Handlers) \in Nat
           /\ crashes * Cardinality(Handlers) \in Nat
<1>1. Cardinality(Handlers) \in Nat
  BY GatewayAssumption, FS_CardinalityType
<1>2. lost \in Nat /\ crashes \in Nat
  BY GatewayAssumption DEF OwnTypeOK
<1> QED
  BY <1>1, <1>2

\* A step that leaves no session without a handler and adds no late open.
LEMMA NoNewDebt ==
    ASSUME OwnTypeOK, IsFiniteSet(late), DebtCovered,
           Orphans' \subseteq Orphans, LateOpens' \subseteq LateOpens,
           lost' = lost, crashes' = crashes
    PROVE  DebtCovered'
<1>1. /\ Cardinality(Orphans') \in Nat /\ Cardinality(Orphans') <= Cardinality(Orphans)
      /\ Cardinality(LateOpens') \in Nat /\ Cardinality(LateOpens') <= Cardinality(LateOpens)
  BY OrphanSets, NoMore
<1> QED
  BY <1>1, OrphanSets, DebtNumbers DEF DebtCovered

\* A lost call leaves one session open, or an open under way, or neither.
LEMMA LostCallDebt ==
    ASSUME OwnTypeOK, IsFiniteSet(late), DebtCovered, NEW x,
           \/ Orphans' \subseteq Orphans \cup {x} /\ LateOpens' \subseteq LateOpens
           \/ Orphans' \subseteq Orphans /\ LateOpens' \subseteq LateOpens \cup {x},
           lost' = lost + 1, crashes' = crashes
    PROVE  DebtCovered'
<1>1. CASE Orphans' \subseteq Orphans \cup {x} /\ LateOpens' \subseteq LateOpens
  <2>1. /\ Cardinality(Orphans') \in Nat /\ Cardinality(Orphans') <= Cardinality(Orphans) + 1
        /\ Cardinality(LateOpens') \in Nat /\ Cardinality(LateOpens') <= Cardinality(LateOpens)
    BY <1>1, OrphanSets, NoMore, OneMore
  <2> QED
    BY <2>1, OrphanSets, DebtNumbers DEF DebtCovered
<1>2. CASE Orphans' \subseteq Orphans /\ LateOpens' \subseteq LateOpens \cup {x}
  <2>1. /\ Cardinality(Orphans') \in Nat /\ Cardinality(Orphans') <= Cardinality(Orphans)
        /\ Cardinality(LateOpens') \in Nat /\ Cardinality(LateOpens') <= Cardinality(LateOpens) + 1
    BY <1>2, OrphanSets, NoMore, OneMore
  <2> QED
    BY <2>1, OrphanSets, DebtNumbers DEF DebtCovered
<1> QED
  BY <1>1, <1>2

\* A late open is executed: the session it opens is in nobody's hands.
LEMMA LateOpenDebt ==
    ASSUME OwnTypeOK, IsFiniteSet(late), DebtCovered, NEW s, NEW r \in LateOpens,
           Orphans' \subseteq Orphans \cup {s}, LateOpens' = LateOpens \ {r},
           lost' = lost, crashes' = crashes
    PROVE  DebtCovered'
<1>1. /\ Cardinality(Orphans') \in Nat /\ Cardinality(Orphans') <= Cardinality(Orphans) + 1
      /\ Cardinality(LateOpens') = Cardinality(LateOpens) - 1
  BY OrphanSets, OneMore, FS_RemoveElement
<1> QED
  BY <1>1, OrphanSets, DebtNumbers DEF DebtCovered

\* As many elements more as another set has, at most.
LEMMA MoreBy ==
    ASSUME NEW S, IsFiniteSet(S), NEW U, IsFiniteSet(U), NEW T, T \subseteq S \cup U
    PROVE  /\ IsFiniteSet(T) /\ Cardinality(T) \in Nat
           /\ Cardinality(T) <= Cardinality(S) + Cardinality(U)
<1>1. /\ IsFiniteSet(S \cup U)
      /\ Cardinality(S \cup U) = Cardinality(S) + Cardinality(U) - Cardinality(S \cap U)
  BY FS_Union
<1>2. /\ Cardinality(S \cap U) \in Nat /\ Cardinality(S) \in Nat /\ Cardinality(U) \in Nat
      /\ Cardinality(S \cup U) \in Nat
  BY <1>1, FS_Intersection, FS_CardinalityType
<1>3. IsFiniteSet(T) /\ Cardinality(T) <= Cardinality(S \cup U) /\ Cardinality(T) \in Nat
  BY <1>1, NoMore
<1> QED
  BY <1>1, <1>2, <1>3

\* Handlers that each have one thing have no more of them than they are.
LEMMA OneEach ==
    ASSUME NEW H \in SUBSET Handlers, NEW S, NEW f \in [H -> S],
           \A x \in S : \E k \in H : f[k] = x
    PROVE  /\ IsFiniteSet(S) /\ Cardinality(S) \in Nat
           /\ Cardinality(S) <= Cardinality(H)
           /\ Cardinality(H) \in Nat
<1>1. IsFiniteSet(H)
  BY GatewayAssumption, FS_Subset
<1>2. f \in Surjection(H, S)
  BY DEF Surjection
<1> QED
  BY <1>1, <1>2, FS_Surjection, FS_CardinalityType

\* A restart leaves open what the handlers held, and the opens they had sent: of each
\* handler one session or one open.
LEMMA CrashDebt ==
    ASSUME OwnTypeOK, LocalsOK, OrphanInv, GatewayCrash
    PROVE  DebtCovered' /\ IsFiniteSet(late')
<1> DEFINE Openers == {k \in Handlers : pc[k] = "openSession"}
           Others  == Handlers \ Openers
           Held    == {session[k] : k \in Others}
           Sent    == {[op |-> "openSession", client |-> peer[k]] : k \in Openers}
<1>1. /\ IsFiniteSet(Held) /\ Cardinality(Held) \in Nat
      /\ Cardinality(Held) <= Cardinality(Others)
      /\ IsFiniteSet(Sent) /\ Cardinality(Sent) \in Nat
      /\ Cardinality(Sent) <= Cardinality(Openers)
  <2> DEFINE held == [k \in Others |-> session[k]]
             sent == [k \in Openers |-> [op |-> "openSession", client |-> peer[k]]]
  <2>1. held \in [Others -> Held] /\ \A x \in Held : \E k \in Others : held[k] = x
    OBVIOUS
  <2>2. sent \in [Openers -> Sent] /\ \A x \in Sent : \E k \in Openers : sent[k] = x
    OBVIOUS
  <2>3. Openers \in SUBSET Handlers /\ Others \in SUBSET Handlers
    OBVIOUS
  <2> HIDE DEF Openers, Others, Held, Sent, held, sent
  <2>4. IsFiniteSet(Held) /\ Cardinality(Held) \in Nat /\ Cardinality(Held) <= Cardinality(Others)
    BY <2>1, <2>3, OneEach
  <2>5. IsFiniteSet(Sent) /\ Cardinality(Sent) \in Nat /\ Cardinality(Sent) <= Cardinality(Openers)
    BY <2>2, <2>3, OneEach
  <2> QED
    BY <2>4, <2>5
<1>2. /\ Cardinality(Openers) \in Nat /\ Cardinality(Others) \in Nat
      /\ Cardinality(Openers) + Cardinality(Others) = Cardinality(Handlers)
  <2>1. IsFiniteSet(Openers) /\ IsFiniteSet(Others)
    BY GatewayAssumption, FS_Subset
  <2>2. Cardinality(Openers \cup Others)
           = Cardinality(Openers) + Cardinality(Others) - Cardinality(Openers \cap Others)
    BY <2>1, FS_Union
  <2>3. Openers \cup Others = Handlers /\ Openers \cap Others = {}
    OBVIOUS
  <2>4. Cardinality(Openers) \in Nat /\ Cardinality(Others) \in Nat
    BY <2>1, FS_CardinalityType
  <2>5. Cardinality(Openers \cap Others) = 0
    BY <2>3, FS_EmptySet
  <2>6. Cardinality(Handlers) = Cardinality(Openers) + Cardinality(Others) - 0
    BY <2>2, <2>3, <2>5
  <2> HIDE DEF Openers, Others
  <2> QED
    BY <2>4, <2>6
<1>3. Orphans' \subseteq Orphans \cup Held
  <2>1. Staying' = Staying
    BY DEF GatewayCrash, storeVars, dbVars, sessionVars, Staying, ActiveSessions, RowPending
  <2>2. \A h \in Openers : session[h] = None
    BY DEF OrphanInv
  <2>3. \A s \in Orphans' \ Orphans : \E h \in Handlers : session[h] = s
    BY <2>1 DEF Orphans
  <2>4. \A s \in Orphans' : s # None
    BY StoreAssumption DEF Orphans, Staying, ActiveSessions
  <2>5. \A s \in Orphans' \ Orphans : \E h \in Others : session[h] = s
    BY <2>2, <2>3, <2>4
  <2> QED
    BY <2>5
<1>4. LateOpens' \subseteq LateOpens \cup Sent
  <2> SUFFICES ASSUME NEW r \in late', r.op = "openSession", r \notin late
               PROVE  r \in Sent
    BY DEF LateOpens
  <2>1. PICK h \in Handlers : r \in Outstanding(h)
    BY DEF GatewayCrash
  <2>2. h \in Openers /\ r = [op |-> "openSession", client |-> peer[h]]
    BY <2>1, OutstandingOp
  <2> QED
    BY <2>2
<1>5. IsFiniteSet(late')
  <2> DEFINE f   == [k \in Handlers |-> CHOOSE x : x \in Outstanding(k)]
             Was == {f[k] : k \in Handlers}
  <2>1. IsFiniteSet(Was)
    <3>1. f \in [Handlers -> Was] /\ \A x \in Was : \E k \in Handlers : f[k] = x
      OBVIOUS
    <3> HIDE DEF f, Was
    <3> QED
      BY <3>1, OneEach
  <2>2. late' \subseteq late \cup Was
    <3> SUFFICES ASSUME NEW r \in late', r \notin late
                 PROVE  r \in Was
      OBVIOUS
    <3>1. PICK h \in Handlers : r \in Outstanding(h)
      BY DEF GatewayCrash
    <3>2. f[h] \in Outstanding(h)
      BY <3>1
    <3>3. r = f[h]
      BY <3>1, <3>2, OutstandingType
    <3> QED
      BY <3>3
  <2> QED
    BY <2>1, <2>2, MoreBy DEF OrphanInv
<1> HIDE DEF Openers, Others, Held, Sent
<1>6. /\ Cardinality(Orphans') \in Nat
      /\ Cardinality(Orphans') <= Cardinality(Orphans) + Cardinality(Held)
      /\ Cardinality(LateOpens') \in Nat
      /\ Cardinality(LateOpens') <= Cardinality(LateOpens) + Cardinality(Sent)
  BY <1>1, <1>3, <1>4, OrphanSets, MoreBy DEF OrphanInv
<1>7. lost' = lost /\ crashes' = crashes + 1
  BY DEF GatewayCrash
<1>8. (crashes + 1) * Cardinality(Handlers) = crashes * Cardinality(Handlers) + Cardinality(Handlers)
  BY DebtNumbers
<1>9. DebtCovered'
  BY <1>1, <1>2, <1>6, <1>7, <1>8, OrphanSets, DebtNumbers DEF DebtCovered, OrphanInv
<1> QED
  BY <1>5, <1>9

\* Steps that change neither late nor the counts.
LEMMA StepWithoutDebt ==
    ASSUME OwnTypeOK, OrphanInv,
           UNCHANGED <<late, lost, crashes>>,
           Orphans' \subseteq Orphans,
           \A h \in Handlers : pc'[h] \in {"idle", "openSession"} => session'[h] = None
    PROVE  OrphanInv'
<1>1. LateOpens' = LateOpens
  BY DEF LateOpens
<1>2. DebtCovered'
  BY <1>1, NoNewDebt DEF OrphanInv
<1> QED
  BY <1>2 DEF OrphanInv

\* Handlers of the store that open or end no session leave the active ones.
LEMMA OnlyOpensActivate ==
    /\ UNCHANGED storeVars => UNCHANGED <<status, pending>>
    /\ \A s, c, p, q : OpenConnection(s, c, p, q) => UNCHANGED <<status, pending>>
    /\ \A c, st : CloseConnection(c, st) => UNCHANGED <<status, pending>>
    /\ \A s, q : Reroute(s, q) => UNCHANGED <<status, pending>>
    /\ \A s : DisconnectConnections(s) => UNCHANGED <<status, pending>>
BY DEF storeVars, dbVars, sessionVars, OpenConnection, CloseConnection, Reroute, DisconnectConnections

\* The sessions that stay are the same while no row and no handler's work changes.
LEMMA StayingSame ==
    ASSUME UNCHANGED <<status, pending>>
    PROVE  Staying' = Staying
BY DEF Staying, ActiveSessions, RowPending

\* close_session takes the session from those that stay, and no other.
LEMMA CloseDeactivates ==
    ASSUME NEW s \in Sessions, NEW st \in {"closed", "killed"}, CloseSession(s, st)
    PROVE  Staying' = Staying \ {s}
<1>1. ActiveSessions' = ActiveSessions
  BY DEF CloseSession, dbVars, sessionVars, ActiveSessions
<1>2. \A t \in Sessions : ~RowPending(t) /\ (RowPending(t)' <=> t = s)
  BY DEF CloseSession, Idle, RowPending
<1> QED
  BY <1>1, <1>2 DEF Staying, ActiveSessions

\* The answer to an open is an active session, the only one that may be new.
LEMMA AnswerActivates ==
    ASSUME TypeOK, NEW k \in Clients, NEW s \in Sessions, AnswerSession(k, s)
    PROVE  Staying' \subseteq Staying \cup {s}
<1>1. CASE UNCHANGED storeVars
  BY <1>1, OnlyOpensActivate, StayingSame
<1>2. ASSUME NEW p \in Proxies \cup {None}, OpenSession(k, s, p)
      PROVE  Staying' \subseteq Staying \cup {s}
  <2>1. ActiveSessions' \subseteq ActiveSessions \cup {s} /\ \A t : ~RowPending(t)
    BY <1>2 DEF OpenSession, Idle, ActiveSessions, RowPending, TypeOK
  <2> QED
    BY <2>1 DEF Staying
<1> QED
  BY <1>1, <1>2 DEF AnswerSession

\* The second write of a handler lets none stay that did not.
LEMMA SecondWriteKeeps ==
    ASSUME TypeOK, SecondWrite
    PROVE  Staying' \subseteq Staying
<1>1. ASSUME NEW w \in pending, PublishOpened(w)
      PROVE  Staying' \subseteq Staying
  <2>1. ActiveSessions' = ActiveSessions /\ \A s : ~RowPending(s)
    BY <1>1, PendingType DEF PublishOpened, dbVars, sessionVars, ActiveSessions, RowPending
  <2> QED
    BY <2>1 DEF Staying
<1>2. ASSUME NEW w \in pending, CommitClosed(w)
      PROVE  Staying' \subseteq Staying
  <2>1. /\ ActiveSessions' = ActiveSessions \ {w.session}
        /\ \A s : s # w.session => ~RowPending(s)
    BY <1>2, CommitBetween, PendingType DEF RowPending
  <2> QED
    BY <2>1 DEF Staying
<1> QED
  BY <1>1, <1>2 DEF SecondWrite

\* Every step of the gateway keeps the account of sessions left open.
LEMMA OrphanStep ==
    ASSUME GatewayInv, OrphanInv, [GatewayNext]_vars
    PROVE  OrphanInv'
<1> USE DEF GatewayInv, GatewayTypeOK
<1>a. OwnTypeOK /\ LocalsOK /\ TypeOK /\ IsFiniteSet(late) /\ DebtCovered
  BY DEF OrphanInv
<1>b. ASSUME NEW h \in Handlers, NEW from, NEW to, Goto(h, from, to)
      PROVE  pc[h] = from /\ pc'[h] = to /\ \A g \in Handlers \ {h} : pc'[g] = pc[g]
  BY <1>b DEF Goto, OwnTypeOK
\* a step of h by Goto, with its session kept
<1>c. ASSUME NEW h \in Handlers, NEW from, NEW to, Goto(h, from, to),
             UNCHANGED <<status, pending, session, late, lost, crashes>>,
             to \in {"idle", "openSession"} => from \in {"idle", "openSession"}
      PROVE  OrphanInv'
  <2>1. Orphans' \subseteq Orphans
    BY <1>c, StayingSame DEF Orphans
  <2>2. \A g \in Handlers : pc'[g] \in {"idle", "openSession"} => session'[g] = None
    BY <1>b, <1>c DEF OrphanInv
  <2> QED
    BY <1>a, <1>c, <2>1, <2>2, StepWithoutDebt
<1>1. ASSUME NEW h \in Handlers, NEW k \in Clients, Accept(h, k)
      PROVE  OrphanInv'
  BY <1>1, <1>c, OnlyOpensActivate DEF Accept
<1>2. ASSUME NEW h \in Handlers, CallOpenSession(h)
      PROVE  OrphanInv'
  <2>1. PICK s \in Sessions : AnswerSession(peer[h], s) /\ session' = [session EXCEPT ![h] = s]
    BY <1>2 DEF CallOpenSession
  <2>2. pc[h] = "openSession" /\ pc'[h] = "request" /\ \A g \in Handlers \ {h} : pc'[g] = pc[g]
    BY <1>2, <1>b DEF CallOpenSession
  <2>3. session'[h] = s /\ session[h] = None /\ \A g \in Handlers \ {h} : session'[g] = session[g]
    BY <1>a, <2>1, <2>2 DEF OwnTypeOK, OrphanInv
  <2>4. Staying' \subseteq Staying \cup {s}
    BY <1>a, <2>1, <2>2, AnswerActivates DEF LocalsOK
  <2>5. None \notin Sessions
    BY StoreAssumption
  <2>6. Orphans' \subseteq Orphans
    BY <2>3, <2>4, <2>5 DEF Orphans, Staying, ActiveSessions
  <2>7. \A g \in Handlers : pc'[g] \in {"idle", "openSession"} => session'[g] = None
    BY <2>2, <2>3 DEF OrphanInv
  <2>8. UNCHANGED <<late, lost, crashes>>
    BY <1>2 DEF CallOpenSession, netVars
  <2> QED
    BY <1>a, <2>6, <2>7, <2>8, StepWithoutDebt
<1>3. ASSUME NEW h \in Handlers, CallOpenConn(h)
      PROVE  OrphanInv'
  <2>1. UNCHANGED <<status, pending, session, late, lost, crashes>>
    BY <1>3, OnlyOpensActivate DEF CallOpenConn, netVars
  <2>2. \E to \in {"connect", "closing", "excClose"} : Goto(h, "openConn", to)
    BY <1>3 DEF CallOpenConn
  <2> QED
    BY <2>1, <2>2, <1>c
<1>4. ASSUME NEW h \in Handlers,
             CallFailClose(h) \/ CallClose(h) \/ CallExcClose(h) \/ CallReroute(h)
      PROVE  OrphanInv'
  <2>1. UNCHANGED <<status, pending, session, late, lost, crashes>>
    BY <1>4, OnlyOpensActivate DEF CallFailClose, CallClose, CallExcClose, CallReroute, idVars, netVars
  <2>2. \E from, to \in {"failClose", "close", "excClose", "closing", "reroute", "openConn"} : Goto(h, from, to)
    BY <1>4 DEF CallFailClose, CallClose, CallExcClose, CallReroute
  <2> QED
    BY <2>1, <2>2, <1>c
<1>5. ASSUME NEW h \in Handlers,
             FirstRelayDone(h) \/ BothRelaysDone(h) \/ DrainTimeout(h) \/ CallState(h) \/ CallFinState(h)
             \/ ReadRequest(h) \/ Connected(h) \/ ConnectFails(h) \/ SocketsClosed(h)
      PROVE  OrphanInv'
  <2>1. UNCHANGED <<status, pending, session, late, lost, crashes>>
    BY <1>5, OnlyOpensActivate DEF FirstRelayDone, BothRelaysDone, DrainTimeout, CallState, CallFinState,
       ReadRequest, Connected, ConnectFails, SocketsClosed, idVars, netVars
  <2>2. \E from, to \in {"request", "openConn", "connect", "failClose", "excClose", "relay", "drain", "state",
                         "close", "closing", "finState", "finClose"} : Goto(h, from, to)
    BY <1>5 DEF FirstRelayDone, BothRelaysDone, DrainTimeout, CallState, CallFinState, ReadRequest,
       Connected, ConnectFails, SocketsClosed
  <2> QED
    BY <2>1, <2>2, <1>c
<1>6. ASSUME NEW h \in Handlers, CallFinClose(h)
      PROVE  OrphanInv'
  <2>1. pc[h] = "finClose" /\ pc'[h] = "idle" /\ \A g \in Handlers \ {h} : pc'[g] = pc[g]
    BY <1>6, <1>b DEF CallFinClose
  <2>2. session'[h] = None /\ \A g \in Handlers \ {h} : session'[g] = session[g]
    BY <1>a, <1>6 DEF CallFinClose, Finish, OwnTypeOK
  <2>3. Staying' = Staying \ {session[h]}
    BY <1>a, <1>6, <2>1, CloseDeactivates DEF CallFinClose, LocalsOK, OwnTypeOK
  <2>4. Orphans' \subseteq Orphans
    BY <2>2, <2>3 DEF Orphans
  <2>5. \A g \in Handlers : pc'[g] \in {"idle", "openSession"} => session'[g] = None
    BY <2>1, <2>2 DEF OrphanInv
  <2>6. UNCHANGED <<late, lost, crashes>>
    BY <1>6 DEF CallFinClose, netVars
  <2> QED
    BY <1>a, <2>4, <2>5, <2>6, StepWithoutDebt
<1>7. ASSUME NEW h \in Handlers, NEW d \in Relays, RelayEnds(h, d)
      PROVE  OrphanInv'
  <2>1. UNCHANGED <<status, pending, pc, session, late, lost, crashes>>
    BY <1>7, OnlyOpensActivate DEF RelayEnds, idVars, netVars
  <2>2. Orphans' \subseteq Orphans
    BY <2>1, StayingSame DEF Orphans
  <2> QED
    BY <1>a, <2>1, <2>2, StepWithoutDebt DEF OrphanInv
<1>8. ASSUME NEW h \in Handlers, CallTimesOut(h)
      PROVE  OrphanInv'
  <2>1. UNCHANGED <<status, pending, crashes>> /\ lost' = lost + 1 /\ late' = late \cup Outstanding(h)
    BY <1>8, OnlyOpensActivate DEF CallTimesOut
  <2>2. /\ IsFiniteSet(late')
        /\ pc[h] = "openSession" =>
              LateOpens' \subseteq LateOpens \cup {[op |-> "openSession", client |-> peer[h]]}
        /\ pc[h] # "openSession" => LateOpens' \subseteq LateOpens
    <3>1. PICK x : Outstanding(h) \subseteq {x}
      <4>1. \A r, t \in Outstanding(h) : r = t
        BY <1>a, OutstandingType
      <4> QED
        BY <4>1
    <3>2. IsFiniteSet(late')
      BY <1>a, <2>1, <3>1, OneMore
    <3> QED
      BY <2>1, <3>2, OutstandingOp DEF LateOpens
  <2>3. CASE UNCHANGED <<pc, session>>
    <3>1. Orphans' \subseteq Orphans
      BY <2>1, <2>3, StayingSame DEF Orphans
    <3>2. DebtCovered'
      BY <1>a, <2>1, <2>2, <3>1, LostCallDebt
    <3> QED
      BY <2>2, <2>3, <3>2 DEF OrphanInv
  <2>4. CASE Goto(h, pc[h], GiveUp[pc[h]]) /\ GiveUp[pc[h]] = "idle" /\ Finish(h)
    <3>1. pc[h] \in {"openSession", "finClose"}
      BY <1>8, <2>4 DEF CallTimesOut, GiveUp, CallPoints
    <3>2. pc'[h] = "idle" /\ \A g \in Handlers \ {h} : pc'[g] = pc[g]
      BY <2>4, <1>b
    <3>3. session'[h] = None /\ \A g \in Handlers \ {h} : session'[g] = session[g]
      BY <1>a, <2>4 DEF Finish, OwnTypeOK
    <3>4. Orphans' \subseteq Orphans \cup {session[h]}
      BY <2>1, <3>3, StayingSame DEF Orphans
    <3>5. pc[h] = "openSession" => Orphans' \subseteq Orphans
      BY <3>4, StoreAssumption DEF OrphanInv, Orphans, Staying, ActiveSessions
    <3>6. DebtCovered'
      BY <1>a, <2>1, <2>2, <3>1, <3>4, <3>5, LostCallDebt
    <3> QED
      BY <2>2, <3>2, <3>3, <3>6 DEF OrphanInv
  <2>5. CASE Goto(h, pc[h], GiveUp[pc[h]]) /\ GiveUp[pc[h]] # "idle" /\ UNCHANGED idVars
    <3>1. GiveUp[pc[h]] \in {"closing", "excClose", "finClose"}
      BY <1>8, <2>5 DEF CallTimesOut, GiveUp, CallPoints
    <3>2. \A g \in Handlers : pc'[g] \in {"idle", "openSession"} => session'[g] = None
      BY <1>b, <2>5, <3>1 DEF OrphanInv, idVars
    <3>3. Orphans' \subseteq Orphans
      BY <2>1, <2>5, StayingSame DEF Orphans, idVars
    <3>4. DebtCovered'
      BY <1>a, <2>1, <2>2, <3>3, LostCallDebt
    <3> QED
      BY <2>2, <3>2, <3>4 DEF OrphanInv
  <2> QED
    BY <1>8, <2>3, <2>4, <2>5 DEF CallTimesOut, idVars
<1>9. ASSUME NEW r \in late, LateCall(r)
      PROVE  OrphanInv'
  <2>1. /\ r \in Request /\ late' = late \ {r} /\ UNCHANGED <<pc, session, lost, crashes>>
    BY <1>9 DEF LateCall, OwnTypeOK, idVars
  <2>2. IsFiniteSet(late') /\ LateOpens' \subseteq LateOpens
    BY <1>a, <2>1, NoMore DEF LateOpens
  <2>3. CASE Staying' \subseteq Staying
    <3>1. Orphans' \subseteq Orphans
      BY <2>1, <2>3 DEF Orphans
    <3> QED
      BY <1>a, <2>1, <2>2, <3>1, NoNewDebt DEF OrphanInv
  <2>4. CASE r.op = "openSession"
    <3>1. PICK s \in Sessions : AnswerSession(r.client, s)
      BY <1>9, <2>4 DEF LateCall
    <3>2. r.client \in Clients
      BY <2>1, <2>4 DEF Request
    <3>3. Orphans' \subseteq Orphans \cup {s}
      BY <1>a, <2>1, <3>1, <3>2, AnswerActivates DEF Orphans
    <3>4. r \in LateOpens /\ LateOpens' = LateOpens \ {r}
      BY <2>1, <2>4 DEF LateOpens
    <3>5. DebtCovered'
      BY <1>a, <2>1, <3>3, <3>4, LateOpenDebt
    <3> QED
      BY <2>1, <2>2, <3>5 DEF OrphanInv
  <2>5. CASE r.op = "closeSession"
    <3>1. /\ r.session \in Sessions /\ r.state \in {"closed", "killed"} /\ CloseSession(r.session, r.state)
      BY <1>9, <2>1, <2>5 DEF LateCall, Request
    <3> QED
      BY <1>a, <2>3, <3>1, CloseDeactivates
  <2>6. CASE r.op \in {"openConn", "reroute", "closeConn"}
    BY <1>9, <2>3, <2>6, OnlyOpensActivate, StayingSame DEF LateCall
  <2> QED
    BY <2>1, <2>4, <2>5, <2>6 DEF Request
<1>10. CASE GatewayCrash
  <2>1. \A h \in Handlers : session'[h] = None
    BY <1>10 DEF GatewayCrash
  <2> QED
    BY <1>a, <1>10, <2>1, CrashDebt DEF OrphanInv
<1>11. CASE Administrator
  <2>1. UNCHANGED <<pc, session, late, lost, crashes>>
    BY <1>11 DEF Administrator, idVars
  <2>2. PICK s \in Sessions : KillSession(s) \/ DisconnectConnections(s)
    BY <1>11 DEF Administrator
  <2>3. Staying' \subseteq Staying
    BY <1>a, <2>2, CloseDeactivates, OnlyOpensActivate, StayingSame DEF KillSession
  <2>4. Orphans' \subseteq Orphans
    BY <2>1, <2>3 DEF Orphans
  <2> QED
    BY <1>a, <2>1, <2>4, StepWithoutDebt DEF OrphanInv
<1>12. CASE UNCHANGED vars
  <2>1. UNCHANGED <<status, pending, pc, session, late, lost, crashes>>
    BY <1>12, OnlyOpensActivate DEF vars, gwVars, idVars, netVars
  <2>2. Orphans' \subseteq Orphans
    BY <2>1, StayingSame DEF Orphans
  <2> QED
    BY <1>a, <2>1, <2>2, StepWithoutDebt DEF OrphanInv
<1>13. CASE HandlerEnds
  <2>1. UNCHANGED <<pc, session, late, lost, crashes>>
    BY <1>13 DEF HandlerEnds, gwVars, idVars, netVars
  <2>2. Orphans' \subseteq Orphans
    BY <1>a, <1>13, <2>1, SecondWriteKeeps DEF HandlerEnds, Orphans
  <2> QED
    BY <1>a, <2>1, <2>2, StepWithoutDebt DEF OrphanInv
<1> QED
  BY <1>1, <1>2, <1>3, <1>4, <1>5, <1>6, <1>7, <1>8, <1>9, <1>10, <1>11, <1>12, <1>13
     DEF GatewayNext, OwnStep, PeerStep, RelayKilled

\* The account holds of every behaviour.
THEOREM OrphanInvariant == GatewaySpec => []OrphanInv
<1>1. GatewayInit => OrphanInv
  <2> SUFFICES ASSUME GatewayInit PROVE OrphanInv
    OBVIOUS
  <2>1. Orphans = {} /\ LateOpens = {} /\ IsFiniteSet(late)
    BY FS_EmptySet DEF GatewayInit, StoreInit, Orphans, Staying, ActiveSessions, LateOpens
  <2>2. Cardinality(Orphans) = 0 /\ Cardinality(LateOpens) = 0 /\ Cardinality(Handlers) \in Nat
    BY <2>1, GatewayAssumption, FS_EmptySet, FS_CardinalityType
  <2>3. lost = 0 /\ crashes = 0
    BY DEF GatewayInit
  <2> QED
    BY <2>1, <2>2, <2>3 DEF GatewayInit, OrphanInv, DebtCovered
<1>2. GatewayInv /\ OrphanInv /\ [GatewayNext]_vars => OrphanInv'
  BY OrphanStep
<1> QED
  BY <1>1, <1>2, GatewayInvariant, PTL DEF GatewaySpec

\* Sessions nobody will end are as many as calls were lost and handlers died, at most,
\* for any number of clients, handlers, retries and restarts.
THEOREM OrphansTheorem == GatewaySpec => []OrphansAccounted
<1>1. OrphanInv => OrphansAccounted
  BY DEF OrphanInv, DebtCovered, OrphansAccounted
<1> QED
  BY <1>1, OrphanInvariant, PTL

\* While nothing fails, every active session whose end does not await its commit is in
\* the hands of a handler.
THEOREM ActiveIsHeldTheorem == GatewaySpec => []ActiveIsHeld
<1>1. GatewayInv /\ OrphanInv => ActiveIsHeld
  <2> SUFFICES ASSUME GatewayInv, OrphanInv, lost = 0, crashes = 0
               PROVE  Orphans = {}
    BY DEF ActiveIsHeld
  <2>1. crashes * Cardinality(Handlers) = 0
    BY DebtNumbers DEF GatewayInv, GatewayTypeOK
  <2>2. Cardinality(Orphans) = 0
    BY <2>1, OrphanSets DEF OrphanInv, DebtCovered
  <2> QED
    BY <2>2, OrphanSets, FS_EmptySet DEF OrphanInv
<1> QED
  BY <1>1, OrphanInvariant, GatewayInvariant, PTL
=============================================================================
