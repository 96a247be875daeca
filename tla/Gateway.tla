------------------------------- MODULE Gateway -------------------------------
(***************************************************************************)
(* The SOCKS5 gateway over the session store: one asyncio task             *)
(* (handle_client) for each accepted connection, and under it two relay    *)
(* tasks.  The tasks interleave at every await; each call to the backend   *)
(* runs one handler of SessionStore.  Where that takes two steps the       *)
(* answer is taken with the first: until the second the backend serves     *)
(* nobody, so only the workers could tell.                                 *)
(*                                                                         *)
(* A call may time out at the gateway, which then sends it again up to     *)
(* HttpRetries times; the abandoned request may still be executed, at any  *)
(* later time, its answer read by nobody (`late').                         *)
(*                                                                         *)
(* pc names the await a handler is in.  Abstracted: the SOCKS dialogue     *)
(* with the client and the upstream (it succeeds or raises), bytes and the *)
(* flushes of module TrafficMeter, the maps of the session and connection  *)
(* managers.  The two relays are "in" (client to upstream) and "out".      *)
(***************************************************************************)
EXTENDS SessionStore

CONSTANTS
    Handlers,     \* handle_client tasks
    MaxAttempts,  \* upstream proxies tried for one connection: range(3)
    HttpRetries,  \* HTTP_RETRIES
    MaxAccepts,   \* bound: accepted connections
    MaxLost,      \* bound: calls that time out
    MaxCrashes,   \* bound: restarts of the gateway process
    MaxAdmin      \* bound: kills and disconnects by the administrator

ASSUME GatewayAssumption ==
    /\ IsFiniteSet(Handlers)
    /\ MaxAttempts \in Nat \ {0} /\ HttpRetries \in Nat \ {0}
    /\ MaxAccepts \in Nat /\ MaxLost \in Nat
    /\ MaxCrashes \in Nat /\ MaxAdmin \in Nat

VARIABLES
    pc, peer, session, conn, attempt, running, verdict, tries,
    late, lost, crashes, accepted, adminCalls

idVars  == <<peer, session, conn>>
runVars == <<attempt, running, verdict>>
netVars == <<late, lost, crashes, accepted, adminCalls>>
gwVars  == <<pc, tries, idVars, runVars, netVars>>
vars    == <<storeVars, gwVars>>

Relays == {"in", "out"}

\* what a handler awaits: a backend call, or its peers
CallPoints == {"openSession", "openConn", "failClose", "reroute", "state",
               "close", "excClose", "finState", "finClose"}
PeerPoints == {"idle", "request", "connect", "relay", "drain", "closing"}

Request == [op : {"openSession"}, client : Clients]
      \cup [op : {"openConn", "reroute"}, session : Sessions]
      \cup [op : {"closeConn"}, conn : Conns, state : {"closed", "failed", "killed"}]
      \cup [op : {"closeSession"}, session : Sessions, state : {"closed", "killed"}]

OwnTypeOK ==
    /\ pc       \in [Handlers -> CallPoints \cup PeerPoints]
    /\ peer     \in [Handlers -> Clients \cup {None}]
    /\ session  \in [Handlers -> Sessions \cup {None}]
    /\ conn     \in [Handlers -> Conns \cup {None}]
    /\ attempt  \in [Handlers -> 0..MaxAttempts - 1]
    /\ running  \in [Handlers -> SUBSET Relays]
    /\ verdict  \in [Handlers -> {"closed", "killed"}]
    /\ tries    \in [Handlers -> 0..HttpRetries - 1]
    /\ late     \subseteq Request
    /\ lost     \in 0..MaxLost
    /\ crashes  \in 0..MaxCrashes
    /\ accepted \in 0..MaxAccepts
    /\ adminCalls \in 0..MaxAdmin

GatewayTypeOK == TypeOK /\ OwnTypeOK

GatewayInit ==
    /\ StoreInit
    /\ pc       = [h \in Handlers |-> "idle"]
    /\ peer     = [h \in Handlers |-> None]
    /\ session  = [h \in Handlers |-> None]
    /\ conn     = [h \in Handlers |-> None]
    /\ attempt  = [h \in Handlers |-> 0]
    /\ running  = [h \in Handlers |-> {}]
    /\ verdict  = [h \in Handlers |-> "closed"]
    /\ tries    = [h \in Handlers |-> 0]
    /\ late     = {}
    /\ lost     = 0
    /\ crashes  = 0
    /\ accepted = 0
    /\ adminCalls = 0

-----------------------------------------------------------------------------
\* The handler goes from one await to the next.
Goto(h, from, to) ==
    /\ pc[h] = from
    /\ pc' = [pc EXCEPT ![h] = to]
    /\ tries' = [tries EXCEPT ![h] = 0]

\* the end of handle_client: its locals are gone
Finish(h) ==
    /\ session' = [session EXCEPT ![h] = None]
    /\ conn'    = [conn EXCEPT ![h] = None]
    /\ peer'    = [peer EXCEPT ![h] = None]
    /\ running' = [running EXCEPT ![h] = {}]
    /\ attempt' = [attempt EXCEPT ![h] = 0]
    /\ verdict' = [verdict EXCEPT ![h] = "closed"]

\* handle_client starts: the client negotiated and authenticated
Accept(h, k) ==
    /\ accepted < MaxAccepts
    /\ Goto(h, "idle", "openSession")
    /\ peer' = [peer EXCEPT ![h] = k]
    /\ accepted' = accepted + 1
    /\ UNCHANGED <<storeVars, session, conn, runVars, late, lost, crashes, adminCalls>>

\* the session the backend answers with: the client's active one, or a new one
AnswerSession(k, s) ==
    \/ Idle /\ s \in ActiveOf(k) /\ UNCHANGED storeVars
    \/ \E p \in Proxies \cup {None} : OpenSession(k, s, p)

CallOpenSession(h) ==
    /\ Goto(h, "openSession", "request")
    /\ \E s \in Sessions :
          /\ AnswerSession(peer[h], s)
          /\ session' = [session EXCEPT ![h] = s]
    /\ UNCHANGED <<peer, conn, runVars, netVars>>

\* read_request: a CONNECT, or an early end (client gone, other command)
ReadRequest(h) ==
    /\ Goto(h, "request", "openConn") \/ Goto(h, "request", "closing")
    /\ UNCHANGED <<storeVars, idVars, runVars, netVars>>

\* mutant of CallOpenConn: a row the session has open is answered again
CallOpenConnReused(h) ==
    /\ Goto(h, "openConn", "connect")
    /\ \E c \in Conns, p \in Proxies :
          /\ c \in OpenRows(session[h]) \/ OpenRows(session[h]) = {}
          /\ IF c \in OpenRows(session[h]) THEN Idle /\ UNCHANGED storeVars
             ELSE OpenConnection(session[h], c, p, p)
          /\ conn' = [conn EXCEPT ![h] = c]
    /\ UNCHANGED <<peer, session, runVars, netVars>>

(* With a proxy the handler dials it.  Without one it answers the client   *)
(* and returns, leaving the row it was given as it is; only if that answer *)
(* cannot be written does the exception path close the row.                *)
CallOpenConn(h) ==
    /\ pc[h] = "openConn"
    /\ \E c \in Conns, p, q \in Proxies \cup {None} :
          /\ OpenConnection(session[h], c, p, q)
          /\ conn' = [conn EXCEPT ![h] = c]
          /\ IF q # None THEN Goto(h, "openConn", "connect")
             ELSE Goto(h, "openConn", "closing") \/ Goto(h, "openConn", "excClose")
    /\ UNCHANGED <<peer, session, runVars, netVars>>

\* open_via_upstream succeeds and the client is told, so both relays start ...
Connected(h) ==
    /\ Goto(h, "connect", "relay")
    /\ running' = [running EXCEPT ![h] = Relays]
    /\ UNCHANGED <<storeVars, idVars, attempt, verdict, netVars>>

\* ... or the client is gone, or the upstream failed
ConnectFails(h) ==
    /\ Goto(h, "connect", "failClose") \/ Goto(h, "connect", "excClose")
    /\ UNCHANGED <<storeVars, idVars, runVars, netVars>>

\* mutant of CallFailClose: one attempt too many
CallFailCloseLate(h) ==
    /\ IF attempt[h] >= MaxAttempts
       THEN Goto(h, "failClose", "closing") ELSE Goto(h, "failClose", "reroute")
    /\ CloseConnection(conn[h], "failed")
    /\ conn' = [conn EXCEPT ![h] = None]
    /\ UNCHANGED <<peer, session, runVars, netVars>>

\* the failed attempt's row is closed before the next attempt, or the last raises
CallFailClose(h) ==
    /\ IF attempt[h] + 1 >= MaxAttempts
       THEN Goto(h, "failClose", "closing") ELSE Goto(h, "failClose", "reroute")
    /\ CloseConnection(conn[h], "failed")
    /\ conn' = [conn EXCEPT ![h] = None]
    /\ UNCHANGED <<peer, session, runVars, netVars>>

\* mutant of CallReroute: the sessions counted on the old proxy are moved along
CallRerouteMoves(h) ==
    /\ Goto(h, "reroute", "openConn")
    /\ Idle
    /\ \E q \in Proxies :
          /\ assigned' = [assigned EXCEPT ![session[h]] = q]
          /\ proxySessions' = Incremented(Decremented(proxySessions, assigned[session[h]]), q)
    /\ attempt' = [attempt EXCEPT ![h] = @ + 1]
    /\ UNCHANGED <<status, client, activeConns, connVars, accountActive, proxyConns, redisVars,
                   pending, faults, idVars, running, verdict, netVars>>

CallReroute(h) ==
    /\ pc[h] = "reroute"
    /\ \E q \in Proxies \cup {None} :
          /\ Reroute(session[h], q)
          /\ IF q # None
             THEN /\ Goto(h, "reroute", "openConn")
                  /\ attempt' = [attempt EXCEPT ![h] = @ + 1]
             ELSE Goto(h, "reroute", "closing") /\ UNCHANGED attempt
    /\ UNCHANGED <<idVars, running, verdict, netVars>>

-----------------------------------------------------------------------------
\* A relay ends at end of file or on any error ...
RelayEnds(h, d) ==
    /\ pc[h] \in {"relay", "drain"}
    /\ d \in running[h]
    /\ running' = [running EXCEPT ![h] = @ \ {d}]
    /\ UNCHANGED <<storeVars, pc, tries, idVars, attempt, verdict, netVars>>

\* ... or when a chunk passes, a poll is due, and the answer says killed.
RelayKilled(h, d) ==
    /\ RelayEnds(h, d)
    /\ Idle /\ KillSeen(session[h])

\* asyncio.wait(FIRST_COMPLETED) returns, and the end of file is passed on
FirstRelayDone(h) ==
    /\ running[h] # Relays
    /\ IF running[h] = {} THEN Goto(h, "relay", "state") ELSE Goto(h, "relay", "drain")
    /\ UNCHANGED <<storeVars, idVars, runVars, netVars>>

BothRelaysDone(h) ==
    /\ running[h] = {}
    /\ Goto(h, "drain", "state")
    /\ UNCHANGED <<storeVars, idVars, runVars, netVars>>

\* mutant of DrainTimeout: only the client's direction is timed
DrainTimeoutIn(h) ==
    /\ "in" \in running[h]
    /\ Goto(h, "drain", "closing")
    /\ running' = [running EXCEPT ![h] = {}]
    /\ UNCHANGED <<storeVars, idVars, attempt, verdict, netVars>>

(* The other relay does not end within 15 s and is cancelled.  Awaiting it *)
(* raises CancelledError, which suppress(Exception) and both handlers let  *)
(* through: only the finally block runs.                                   *)
DrainTimeout(h) ==
    /\ running[h] # {}
    /\ Goto(h, "drain", "closing")
    /\ running' = [running EXCEPT ![h] = {}]
    /\ UNCHANGED <<storeVars, idVars, attempt, verdict, netVars>>

\* mutant of CallState: the row of a killed session is left to the backend
CallStateKilledSkips(h) ==
    /\ Idle
    /\ Goto(h, "state", IF KillSeen(session[h]) THEN "closing" ELSE "close")
    /\ verdict' = [verdict EXCEPT ![h] = IF KillSeen(session[h]) THEN "killed" ELSE "closed"]
    /\ UNCHANGED <<storeVars, idVars, attempt, running, netVars>>

\* flush, then GET state: the state the row is closed with
CallState(h) ==
    /\ Idle
    /\ Goto(h, "state", "close")
    /\ verdict' = [verdict EXCEPT ![h] = IF KillSeen(session[h]) THEN "killed" ELSE "closed"]
    /\ UNCHANGED <<storeVars, idVars, attempt, running, netVars>>

CallClose(h) ==
    /\ Goto(h, "close", "closing")
    /\ CloseConnection(conn[h], verdict[h])
    /\ UNCHANGED <<idVars, runVars, netVars>>

\* the except clauses close the row the handler still holds as failed
CallExcClose(h) ==
    /\ Goto(h, "excClose", "closing")
    /\ CloseConnection(conn[h], "failed")
    /\ UNCHANGED <<idVars, runVars, netVars>>

\* mutant of SocketsClosed: a handler without a row does not end its session
SocketsClosedNoRow(h) ==
    /\ IF conn[h] = None THEN Goto(h, "closing", "idle") /\ Finish(h)
       ELSE Goto(h, "closing", "finState") /\ UNCHANGED <<idVars, runVars>>
    /\ UNCHANGED <<storeVars, netVars>>

\* finally: both sockets are closed, which waits for their buffers to empty ...
SocketsClosed(h) ==
    /\ Goto(h, "closing", "finState")
    /\ UNCHANGED <<storeVars, idVars, runVars, netVars>>

\* ... and whatever happened, the session is closed, shared or not
CallFinState(h) ==
    /\ Idle
    /\ Goto(h, "finState", "finClose")
    /\ verdict' = [verdict EXCEPT ![h] = IF KillSeen(session[h]) THEN "killed" ELSE "closed"]
    /\ UNCHANGED <<storeVars, idVars, attempt, running, netVars>>

CallFinClose(h) ==
    /\ Goto(h, "finClose", "idle")
    /\ CloseSession(session[h], verdict[h])
    /\ Finish(h)
    /\ UNCHANGED netVars

-----------------------------------------------------------------------------
\* What a handler has asked of the backend and not been answered yet.  It may be
\* executed later; the two reads change nothing, so they are left out.
Outstanding(h) ==
    CASE pc[h] = "openSession" -> {[op |-> "openSession", client |-> peer[h]]}
      [] pc[h] \in {"openConn", "reroute"} -> {[op |-> pc[h], session |-> session[h]]}
      [] pc[h] \in {"failClose", "excClose"} ->
             {[op |-> "closeConn", conn |-> conn[h], state |-> "failed"]}
      [] pc[h] = "close" -> {[op |-> "closeConn", conn |-> conn[h], state |-> verdict[h]]}
      [] pc[h] = "finClose" ->
             {[op |-> "closeSession", session |-> session[h], state |-> verdict[h]]}
      [] OTHER -> {}

\* where the exception of a call that failed HttpRetries times leads
GiveUp == [openSession |-> "idle",     openConn |-> "closing", failClose |-> "excClose",
           reroute     |-> "closing", state    |-> "excClose", close     |-> "excClose",
           excClose    |-> "closing", finState |-> "finClose", finClose  |-> "idle"]

CallTimesOut(h) ==
    /\ pc[h] \in CallPoints
    /\ lost < MaxLost
    /\ lost' = lost + 1
    /\ late' = late \cup Outstanding(h)
    /\ IF tries[h] + 1 < HttpRetries
       THEN /\ tries' = [tries EXCEPT ![h] = @ + 1]
            /\ UNCHANGED <<pc, idVars, runVars>>
       ELSE /\ Goto(h, pc[h], GiveUp[pc[h]])
            /\ IF GiveUp[pc[h]] = "idle" THEN Finish(h)
               ELSE /\ verdict' = [verdict EXCEPT ![h] = "closed"]
                    /\ UNCHANGED <<idVars, attempt, running>>
    /\ UNCHANGED <<storeVars, crashes, accepted, adminCalls>>

\* The backend executes an abandoned request after all.
LateCall(r) ==
    /\ r \in late
    /\ late' = late \ {r}
    /\ \/ r.op = "openSession"  /\ \E s \in Sessions : AnswerSession(r.client, s)
       \/ r.op = "openConn"     /\ \E c \in Conns, p, q \in Proxies \cup {None} :
                                      OpenConnection(r.session, c, p, q)
       \/ r.op = "reroute"      /\ \E q \in Proxies \cup {None} : Reroute(r.session, q)
       \/ r.op = "closeConn"    /\ CloseConnection(r.conn, r.state)
       \/ r.op = "closeSession" /\ CloseSession(r.session, r.state)
    /\ UNCHANGED <<pc, tries, idVars, runVars, lost, crashes, accepted, adminCalls>>

\* The gateway process restarts: its tasks and maps are gone, the rows are not, and
\* the backend may still execute what it was sent.
GatewayCrash ==
    /\ crashes < MaxCrashes
    /\ crashes' = crashes + 1
    /\ pc' = [h \in Handlers |-> "idle"]
    /\ tries' = [h \in Handlers |-> 0]
    /\ peer' = [h \in Handlers |-> None]
    /\ session' = [h \in Handlers |-> None]
    /\ conn' = [h \in Handlers |-> None]
    /\ attempt' = [h \in Handlers |-> 0]
    /\ running' = [h \in Handlers |-> {}]
    /\ verdict' = [h \in Handlers |-> "closed"]
    /\ late' = late \cup UNION {Outstanding(h) : h \in Handlers}
    /\ UNCHANGED <<storeVars, lost, accepted, adminCalls>>

Administrator ==
    /\ \E s \in Sessions : KillSession(s) \/ DisconnectConnections(s)
    /\ adminCalls < MaxAdmin
    /\ adminCalls' = adminCalls + 1
    /\ UNCHANGED <<pc, tries, idVars, runVars, late, lost, crashes, accepted>>

\* the backend finishes the handler it is in
HandlerEnds == SecondWrite /\ UNCHANGED gwVars

-----------------------------------------------------------------------------
\* steps that wait for the backend, for another task or for a timer
OwnStep(h) ==
    \/ CallOpenSession(h) \/ CallOpenConn(h) \/ CallFailClose(h) \/ CallReroute(h)
    \/ FirstRelayDone(h) \/ BothRelaysDone(h) \/ DrainTimeout(h)
    \/ CallState(h) \/ CallClose(h) \/ CallExcClose(h)
    \/ CallFinState(h) \/ CallFinClose(h)

\* steps that wait for the client or the upstream
PeerStep(h) ==
    \/ ReadRequest(h) \/ Connected(h) \/ ConnectFails(h) \/ SocketsClosed(h)
    \/ \E d \in Relays : RelayEnds(h, d) \/ RelayKilled(h, d)

GatewayNext ==
    \/ \E h \in Handlers, k \in Clients : Accept(h, k)
    \/ \E h \in Handlers : OwnStep(h) \/ PeerStep(h) \/ CallTimesOut(h)
    \/ \E r \in late : LateCall(r)
    \/ GatewayCrash
    \/ Administrator
    \/ HandlerEnds

GatewaySpec == GatewayInit /\ [][GatewayNext]_vars

(* The event loop runs every task that can run, the backend answers and    *)
(* timers fire: the steps of OwnStep are fair, and so is HandlerEnds.      *)
(* Nothing is assumed of the peers: read_request, the upstream's SOCKS     *)
(* answers and the relays wait without a timeout.                          *)
Scheduling == WF_vars(HandlerEnds) /\ \A h \in Handlers : WF_vars(OwnStep(h))
FairSpec   == GatewaySpec /\ Scheduling

\* ... unless both peers keep sending, and read what is sent to them
Talkative  == \A h \in Handlers :
                 WF_vars(SocketsClosed(h)) /\ \A d \in Relays : WF_vars(RelayKilled(h, d))
TalkativeSpec == FairSpec /\ Talkative

-----------------------------------------------------------------------------
\* Whatever the tasks, retries and restarts of the gateway do, the store sees one
\* handler of its own at a time: what holds of it for arbitrary callers holds here.
ImplementsStore == StoreSpec

\* While a handler uses a connection its row is its own: it belongs to the
\* handler's session, no other handler has it, and nothing but the
\* administrator ended it, whatever was retried or arrives late.
Using(h) == pc[h] \in {"connect", "relay", "drain", "state"}
RowIsOwn ==
    \A h \in Handlers : Using(h) =>
        /\ connSession[conn[h]] = session[h]
        /\ connState[conn[h]] \in {"open", "killed"}
        /\ \A g \in Handlers \ {h} : conn[g] # conn[h]

\* the active sessions but the one whose end only awaits its commit
Staying   == {s \in ActiveSessions : ~RowPending(s)}
Orphans   == {s \in Staying : \A h \in Handlers : session[h] # s}
LateOpens == {r \in late : r.op = "openSession"}

\* A session that stays active and that no handler will end has a cause of its own: a
\* call that was lost, or a handler that died in a restart.  Whatever handlers share,
\* retry or give up, no more sessions are left open, nor will be by opens still under
\* way.
OrphansAccounted ==
    Cardinality(Orphans) + Cardinality(LateOpens)
        <= lost + crashes * Cardinality(Handlers)

\* In particular nothing is left open while nothing fails: the finally block of the
\* last handler that shared a session ended it.
ActiveIsHeld == lost = 0 /\ crashes = 0 => Orphans = {}

Relaying(h) == pc[h] \in {"relay", "drain"}

\* When both relays have ended by themselves the row is eventually ended, as
\* long as fewer calls are lost than one call is tried.
RelayedRowEnds ==
    \A c \in Conns :
        (\E h \in Handlers : conn[h] = c /\ pc[h] = "state") ~> connEnded[c]

\* A half-closed connection does not linger: once one relay has ended, the
\* handler ends its session and finishes, through the 15 s timeout if need be.
HalfClosedFinishes ==
    \A h \in Handlers : pc[h] = "drain" ~> pc[h] = "idle"

\* A killed session stops relaying while its peers talk: the poll sees the kill
\* although close_session has deleted the key.
KillStopsTalkers ==
    \A h \in Handlers :
        (Relaying(h) /\ status[session[h]] = "killed") ~> ~Relaying(h)

\* Claimed by the documentation, not kept by the code (see the README).
\* While a user who was not killed is connected the workers see a session, so
\* the queue is frozen.
ConnectedIsSeen ==
    (\E h \in Handlers : pc[h] = "relay" /\ status[session[h]] # "killed")
        => SessionsSeen > 0
=============================================================================
