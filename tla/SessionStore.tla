---------------------------- MODULE SessionStore ----------------------------
(***************************************************************************)
(* The backend's session store: the `sessions' and `session_connections'   *)
(* tables, the live counters the aggregates keep beside them, and the two  *)
(* Redis keys other processes read (session:<id>:kill and                  *)
(* runtime:active_sessions).                                               *)
(*                                                                         *)
(* Each endpoint is an `async def' whose body never awaits, in a single    *)
(* uvicorn process, so one handler runs to completion before another       *)
(* starts: one action per handler.  The workers are other processes.  What *)
(* they read (the rows, and the number of active sessions in Redis) is     *)
(* written in two steps by the handlers that open and close a session:     *)
(* open commits the row and then publishes the number, close publishes it  *)
(* and then commits.  Those handlers are two actions, and `pending' holds  *)
(* the second write of the one that is between them.                       *)
(*                                                                         *)
(* The callers (the gateway, the admin API, the session monitor) are       *)
(* unconstrained here: any handler may be called at any time on any row    *)
(* that exists, because the gateway retries its calls and several of its   *)
(* tasks share a session.  Module Gateway constrains the callers and       *)
(* implements this module.                                                 *)
(*                                                                         *)
(* Abstracted: which proxy is selected (any proxy or none), bytes          *)
(* (module TrafficMeter), timestamps, routing events, and the lifetime     *)
(* totals.  The country aggregate follows the account aggregate.           *)
(***************************************************************************)
EXTENDS Naturals, FiniteSets

CONSTANTS
    Clients,    \* (client_ip, client_login) pairs, the key a session is found by
    Accounts,
    AccountOf,  \* the account a login authenticates as
    Proxies,
    Sessions,   \* ids of session rows
    Conns,      \* ids of connection rows
    None,       \* SQL null, and a missing Redis key
    MaxFaults   \* how many failures of each kind may happen

FaultKinds == {"redis", "open", "kill", "commit"}

ASSUME StoreAssumption ==
    /\ AccountOf \in [Clients -> Accounts]
    /\ IsFiniteSet(Sessions) /\ IsFiniteSet(Conns)
    /\ None \notin Clients \cup Proxies \cup Sessions \cup Conns \cup Nat
    /\ MaxFaults \in [FaultKinds -> Nat]

VARIABLES
    \* sessions
    status, client, assigned, activeConns,
    \* session_connections
    connState, connSession, connProxy, connEnded,
    \* account_aggregates.active_sessions, proxy_aggregates.current_active_*
    accountActive, proxySessions, proxyConns,
    \* Redis
    killFlag, activeCount, redisUp,
    \* the write the handler at work has yet to do: none or one
    pending,
    \* failures so far, by kind
    faults

sessionVars == <<status, client, assigned, activeConns>>
connVars    == <<connState, connSession, connProxy, connEnded>>
aggVars     == <<accountActive, proxySessions, proxyConns>>
redisVars   == <<killFlag, activeCount, redisUp>>
dbVars      == <<sessionVars, connVars, aggVars>>
storeVars   == <<dbVars, redisVars, pending, faults>>

SessionStatus == {"none", "active", "closed", "killed"}
ConnStates    == {"none", "open", "closed", "failed", "killed"}

\* the count that open_session still publishes, and the row that close_session
\* still commits, with the status and the proxy it has read
CountWrites == [write: {"count"}, session: Sessions]
RowWrites   == [write: {"row"}, session: Sessions, status: {"closed", "killed"},
                proxy: Proxies \cup {None}]

TypeOK ==
    /\ status        \in [Sessions -> SessionStatus]
    /\ client        \in [Sessions -> Clients \cup {None}]
    /\ assigned      \in [Sessions -> Proxies \cup {None}]
    /\ activeConns   \in [Sessions -> Nat]
    /\ connState     \in [Conns -> ConnStates]
    /\ connSession   \in [Conns -> Sessions \cup {None}]
    /\ connProxy     \in [Conns -> Proxies \cup {None}]
    /\ connEnded     \in [Conns -> BOOLEAN]
    /\ accountActive \in [Accounts -> Nat]
    /\ proxySessions \in [Proxies -> Nat]
    /\ proxyConns    \in [Proxies -> Nat]
    /\ killFlag      \subseteq Sessions
    /\ activeCount   \in Nat \cup {None}
    /\ redisUp       \in BOOLEAN
    /\ pending       \subseteq CountWrites \cup RowWrites
    /\ \A v, w \in pending : v = w
    /\ faults        \in [FaultKinds -> Nat]

-----------------------------------------------------------------------------
\* no handler is between its two writes, so that another may run
Idle             == pending = {}
CountPending(s)  == \E w \in pending : w.write = "count" /\ w.session = s
RowPending(s)    == \E w \in pending : w.write = "row" /\ w.session = s

Exists(s)        == status[s] # "none"
ActiveSessions   == {s \in Sessions : status[s] = "active"}
\* mutant of ActiveOf: only sessions that have a proxy are looked up
ActiveOfAssigned(k) == {s \in ActiveSessions : client[s] = k /\ assigned[s] # None}

ActiveOf(k)      == {s \in ActiveSessions : client[s] = k}
AccountSessions(a) == {s \in ActiveSessions : AccountOf[client[s]] = a}
OpenRows(s)      == {c \in Conns : connSession[c] = s /\ connState[c] = "open"}
UnendedRows(p)   == {c \in Conns : connProxy[c] = p /\ connState[c] # "none" /\ ~connEnded[c]}

\* mutant of Decrement: without max(0, ...), a second close goes below zero
DecrementBelowZero(n) == n - 1

\* max(0, n - 1), the only way a live counter goes down
Decrement(n) == IF n = 0 THEN 0 ELSE n - 1

\* the live counter of an optional proxy, up and down
Incremented(f, p) == [q \in DOMAIN f |-> IF q = p THEN f[q] + 1 ELSE f[q]]
Decremented(f, p) == [q \in DOMAIN f |-> IF q = p THEN Decrement(f[q]) ELSE f[q]]

\* redis_get_json returns the default when Redis does not answer
KillRequested(s) == redisUp /\ s \in killFlag

\* mutant of KillSeen: only the key is read, not the row
KillSeenByKey(s) == KillRequested(s)

\* what GET /session/{id}/state answers in kill_requested
KillSeen(s) == KillRequested(s) \/ status[s] = "killed"

\* what the workers take for the number of connected sessions
SessionsSeen == IF redisUp /\ activeCount # None
                THEN activeCount ELSE Cardinality(ActiveSessions)

Fault(kind) == /\ faults[kind] < MaxFaults[kind]
               /\ faults' = [faults EXCEPT ![kind] = @ + 1]

\* no failure of these kinds has happened
Never(kinds) == \A kind \in kinds : faults[kind] = 0

StoreInit ==
    /\ status        = [s \in Sessions |-> "none"]
    /\ client        = [s \in Sessions |-> None]
    /\ assigned      = [s \in Sessions |-> None]
    /\ activeConns   = [s \in Sessions |-> 0]
    /\ connState     = [c \in Conns |-> "none"]
    /\ connSession   = [c \in Conns |-> None]
    /\ connProxy     = [c \in Conns |-> None]
    /\ connEnded     = [c \in Conns |-> FALSE]
    /\ accountActive = [a \in Accounts |-> 0]
    /\ proxySessions = [p \in Proxies |-> 0]
    /\ proxyConns    = [p \in Proxies |-> 0]
    /\ killFlag      = {}
    /\ activeCount   = None
    /\ redisUp       = TRUE
    /\ pending       = {}
    /\ faults        = [kind \in FaultKinds |-> 0]

-----------------------------------------------------------------------------
(* POST /session/open.  An active session of the same client is returned   *)
(* as it is (no row changes); otherwise a row is inserted, the aggregates  *)
(* are incremented, the transaction commits, and only then is the number   *)
(* of active sessions published.                                           *)

\* the transaction, up to its commit
OpenSession(k, s, p) ==
    /\ Idle
    /\ ActiveOf(k) = {}
    /\ ~Exists(s)
    /\ status'        = [status EXCEPT ![s] = "active"]
    /\ client'        = [client EXCEPT ![s] = k]
    /\ assigned'      = [assigned EXCEPT ![s] = p]
    /\ accountActive' = [accountActive EXCEPT ![AccountOf[k]] = @ + 1]
    /\ proxySessions' = Incremented(proxySessions, p)
    /\ pending'       = {[write |-> "count", session |-> s]}
    /\ UNCHANGED <<activeConns, connVars, proxyConns, redisVars, faults>>

\* mutant of PublishOpened: the count was taken before the insert
PublishOpenedBefore(w) ==
    /\ w \in pending /\ w.write = "count"
    /\ activeCount' = IF redisUp THEN Cardinality(ActiveSessions \ {w.session}) ELSE activeCount
    /\ pending' = {}
    /\ UNCHANGED <<dbVars, killFlag, redisUp, faults>>

\* the table is counted and the number published
PublishOpened(w) ==
    /\ w \in pending /\ w.write = "count"
    /\ activeCount' = IF redisUp THEN Cardinality(ActiveSessions) ELSE activeCount
    /\ pending' = {}
    /\ UNCHANGED <<dbVars, killFlag, redisUp, faults>>

\* the process dies between the commit and the publication
OpenInterrupted(w) ==
    /\ Fault("open")
    /\ w \in pending /\ w.write = "count"
    /\ pending' = {}
    /\ UNCHANGED <<dbVars, redisVars>>

(* POST /connection/open.  p is the proxy ensure_connection_proxy finds,   *)
(* kept or newly assigned, and the row records it.  When it finds none the *)
(* endpoint asks again after the commit, and answers with q, which a       *)
(* worker may have brought online meanwhile: q is assigned to the session  *)
(* but not recorded in the row.  Nothing here looks at the session status. *)

OpenConnection(s, c, p, q) ==
    /\ Idle
    /\ Exists(s)
    /\ connState[c] = "none"
    /\ p # None => q = p
    /\ assigned'    = [assigned EXCEPT ![s] = q]
    /\ activeConns' = [activeConns EXCEPT ![s] = @ + 1]
    /\ connState'   = [connState EXCEPT ![c] = "open"]
    /\ connSession' = [connSession EXCEPT ![c] = s]
    /\ connProxy'   = [connProxy EXCEPT ![c] = p]
    /\ proxyConns'  = Incremented(proxyConns, p)
    /\ UNCHANGED <<status, client, connEnded, accountActive, proxySessions,
                   redisVars, pending, faults>>

\* POST /session/reroute: a new assignment, or none
Reroute(s, q) ==
    /\ Idle
    /\ Exists(s)
    /\ assigned' = [assigned EXCEPT ![s] = q]
    /\ UNCHANGED <<status, client, activeConns, connVars, aggVars, redisVars, pending, faults>>

\* the session monitor, another process, moves an active session to its fallback
Failover(s, q) ==
    /\ status[s] = "active"
    /\ q # None
    /\ assigned' = [assigned EXCEPT ![s] = q]
    /\ UNCHANGED <<status, client, activeConns, connVars, aggVars, redisVars, pending, faults>>

(* POST /connection/close: whatever state the row is in, it takes the      *)
(* state the caller names, and both counters go down by one.               *)

\* mutant of CloseConnection: the proxy the session has now, not the row's
CloseConnectionAssigned(c, st) ==
    /\ Idle
    /\ connState[c] # "none"
    /\ connState'   = [connState EXCEPT ![c] = st]
    /\ connEnded'   = [connEnded EXCEPT ![c] = TRUE]
    /\ activeConns' = [activeConns EXCEPT ![connSession[c]] = Decrement(@)]
    /\ proxyConns'  = Decremented(proxyConns, assigned[connSession[c]])
    /\ UNCHANGED <<status, client, assigned, connSession, connProxy,
                   accountActive, proxySessions, redisVars, pending, faults>>

CloseConnection(c, st) ==
    /\ Idle
    /\ connState[c] # "none"
    /\ connState'   = [connState EXCEPT ![c] = st]
    /\ connEnded'   = [connEnded EXCEPT ![c] = TRUE]
    /\ activeConns' = [activeConns EXCEPT ![connSession[c]] = Decrement(@)]
    /\ proxyConns'  = Decremented(proxyConns, connProxy[c])
    /\ UNCHANGED <<status, client, assigned, connSession, connProxy,
                   accountActive, proxySessions, redisVars, pending, faults>>

-----------------------------------------------------------------------------
(* close_session, for POST /session/close and for the admin's kill.  The   *)
(* status sticks at killed; session_closed deletes the kill key and        *)
(* publishes the count, which leaves the session out although its row is   *)
(* not flushed yet, and the commit is last.                                *)

\* mutants of FinalStatus: the caller's word is taken, or only the row is read
FinalStatusRequested(s, requested) == requested
FinalStatusFromRow(s, requested) == IF status[s] = "killed" THEN "killed" ELSE requested

FinalStatus(s, requested) ==
    IF status[s] = "killed" \/ KillRequested(s) THEN "killed" ELSE requested

\* mutant of PublishClosed: counted by a query, which does not see the unflushed row
PublishUnflushed(s) ==
    /\ killFlag'    = IF redisUp THEN killFlag \ {s} ELSE killFlag
    /\ activeCount' = IF redisUp THEN Cardinality(ActiveSessions) ELSE activeCount
    /\ UNCHANGED redisUp

PublishClosed(s) ==
    /\ killFlag'    = IF redisUp THEN killFlag \ {s} ELSE killFlag
    /\ activeCount' = IF redisUp THEN Cardinality(ActiveSessions \ {s}) ELSE activeCount
    /\ UNCHANGED redisUp

\* everything but the commit
CloseSession(s, requested) ==
    /\ Idle
    /\ Exists(s)
    /\ PublishClosed(s)
    /\ pending' = {[write |-> "row", session |-> s, status |-> FinalStatus(s, requested),
                    proxy |-> assigned[s]]}
    /\ UNCHANGED <<dbVars, faults>>

\* mutant of CommitClosed: a kill leaves the account's counter to the gateway
CommitClosedKillUncounted(w) ==
    /\ w \in pending /\ w.write = "row"
    /\ status'        = [status EXCEPT ![w.session] = w.status]
    /\ accountActive' = [accountActive EXCEPT ![AccountOf[client[w.session]]] =
                            IF w.status = "killed" THEN @ ELSE Decrement(@)]
    /\ proxySessions' = Decremented(proxySessions, w.proxy)
    /\ pending' = {}
    /\ UNCHANGED <<client, assigned, activeConns, connVars, proxyConns, redisVars, faults>>

\* the commit: the row and the aggregates
CommitClosed(w) ==
    /\ w \in pending /\ w.write = "row"
    /\ status'        = [status EXCEPT ![w.session] = w.status]
    /\ accountActive' = [accountActive EXCEPT ![AccountOf[client[w.session]]] = Decrement(@)]
    /\ proxySessions' = Decremented(proxySessions, w.proxy)
    /\ pending' = {}
    /\ UNCHANGED <<client, assigned, activeConns, connVars, proxyConns, redisVars, faults>>

\* the commit fails after Redis was already told the session is gone
CloseCommitFails(w) ==
    /\ Fault("commit")
    /\ w \in pending /\ w.write = "row"
    /\ pending' = {}
    /\ UNCHANGED <<dbVars, redisVars>>

\* POST /sessions/{id}/kill: sets the kill key, then close_session(killed),
\* which deletes the key it has just set
KillSession(s) == CloseSession(s, "killed")

\* the handler fails between the two: the key is set, the row is untouched
KillInterrupted(s) ==
    /\ Fault("kill")
    /\ Idle
    /\ Exists(s)
    /\ redisUp
    /\ killFlag' = killFlag \cup {s}
    /\ UNCHANGED <<dbVars, activeCount, redisUp, pending>>

\* mutant of DisconnectConnections: active_connections_count is not reset
DisconnectWithoutReset(s) ==
    /\ Idle
    /\ Exists(s)
    /\ connState' = [c \in Conns |-> IF c \in OpenRows(s) THEN "killed" ELSE connState[c]]
    /\ UNCHANGED <<sessionVars, connSession, connProxy, connEnded, aggVars, redisVars,
                   pending, faults>>

\* POST /sessions/{id}/disconnect-connections: rows only, nobody is told
DisconnectConnections(s) ==
    /\ Idle
    /\ Exists(s)
    /\ connState'   = [c \in Conns |-> IF c \in OpenRows(s) THEN "killed" ELSE connState[c]]
    /\ activeConns' = [activeConns EXCEPT ![s] = 0]
    /\ UNCHANGED <<status, client, assigned, connSession, connProxy, connEnded,
                   aggVars, redisVars, pending, faults>>

-----------------------------------------------------------------------------
\* Redis stops answering; the helpers swallow the error
RedisDown ==
    /\ Fault("redis")
    /\ redisUp
    /\ redisUp' = FALSE
    /\ UNCHANGED <<dbVars, killFlag, activeCount, pending>>

\* ... and comes back, with its keys or without them
RedisBack ==
    /\ ~redisUp
    /\ redisUp' = TRUE
    /\ \/ UNCHANGED <<killFlag, activeCount>>
       \/ killFlag' = {} /\ activeCount' = None
    /\ UNCHANGED <<dbVars, pending, faults>>

GatewayCall ==
    \/ \E k \in Clients, s \in Sessions, p \in Proxies \cup {None} : OpenSession(k, s, p)
    \/ \E s \in Sessions, c \in Conns, p, q \in Proxies \cup {None} :
          OpenConnection(s, c, p, q)
    \/ \E s \in Sessions, q \in Proxies \cup {None} : Reroute(s, q)
    \/ \E c \in Conns, st \in {"closed", "failed", "killed"} : CloseConnection(c, st)
    \/ \E s \in Sessions, st \in {"closed", "killed"} : CloseSession(s, st)

AdminCall ==
    \E s \in Sessions :
       KillSession(s) \/ KillInterrupted(s) \/ DisconnectConnections(s)

\* the handler at work does its second write
SecondWrite == \E w \in pending : PublishOpened(w) \/ CommitClosed(w)

Environment ==
    \/ \E w \in pending : OpenInterrupted(w) \/ CloseCommitFails(w)
    \/ \E s \in Sessions, q \in Proxies : Failover(s, q)
    \/ RedisDown
    \/ RedisBack

StoreNext == GatewayCall \/ AdminCall \/ SecondWrite \/ Environment

StoreSpec == StoreInit /\ [][StoreNext]_storeVars
-----------------------------------------------------------------------------
\* The store as the workers know it.  A row that was closed may become killed,
\* which is no change for them.
Life == [s \in Sessions |->
    CASE status[s] = "none"   -> "new"
      [] status[s] = "active" -> IF CountPending(s) THEN "opening"
                                 ELSE IF RowPending(s) THEN "ending" ELSE "active"
      [] OTHER                -> "ended"]

Ledger == INSTANCE SessionLedger
          WITH life <- Life, seen <- SessionsSeen,
               exact <- Never({"redis", "open", "commit"})

\* Every handler and failure is a step of the ledger or none: a session is active
\* once, only its open and its end change what the workers are told, and until Redis,
\* a commit or a publication fails that is right, but for the session whose handler
\* is between the commit and the publication.
ImplementsLedger == Ledger!LedgerSpec
-----------------------------------------------------------------------------
(* Safety.  The callers are arbitrary, so these hold for any gateway.      *)

\* A client never has two active sessions: open_session looks for one and
\* inserts in the same handler, and no other handler makes a session active.
OneActivePerClient ==
    \A s, t \in ActiveSessions : client[s] = client[t] => s = t

\* active_connections_count never exceeds the connection rows that are open,
\* whatever duplicated closes and manual disconnects do to it.
LiveConnsBounded ==
    \A s \in Sessions : activeConns[s] <= Cardinality(OpenRows(s))

\* account_aggregates.active_sessions never exceeds the account's active
\* sessions, although every handler that shared a session closes it again.
AccountCountBounded ==
    \A a \in Accounts : accountActive[a] <= Cardinality(AccountSessions(a))

\* proxy_aggregates.current_active_connections never exceeds the connections
\* recorded on the proxy that were not closed.
ProxyConnsBounded ==
    \A p \in Proxies : proxyConns[p] <= Cardinality(UnendedRows(p))

\* Until Redis fails, a handler dies after its commit, or a commit fails after
\* Redis was written, the workers see all active sessions and no other, but perhaps
\* for the one whose handler is between its two writes: that one they may miss.
CountExact ==
    Never({"redis", "open", "commit"}) =>
        \E missed \in SUBSET {w.session : w \in pending} :
            SessionsSeen = Cardinality(ActiveSessions \ missed)

\* Handlers that die or fail to commit make the workers miss sessions but, as
\* long as Redis answers, never see one that is not there.
NeverOvercounted ==
    Never({"redis"}) => SessionsSeen <= Cardinality(ActiveSessions)

\* A killed session stays killed when the gateway closes it, and no session
\* that ended becomes active again (close_session, open_session).
EndedStays ==
    \A s \in Sessions :
        /\ status[s] = "killed" => status'[s] = "killed"
        /\ status[s] = "closed" => status'[s] \in {"closed", "killed"}
EndedForever == [][EndedStays]_storeVars

\* Once the gateway can see a kill it goes on seeing it: the key may disappear
\* only when the row says killed, or the commit that follows in the same handler
\* will.  A failed commit or a Redis outage breaks this.
KillHolds(s) == \/ KillSeen(s)
                \/ \E w \in pending : w.write = "row" /\ w.session = s /\ w.status = "killed"
KillStays ==
    Never({"redis", "commit"})' =>
        \A s \in Sessions : KillHolds(s) => KillHolds(s)'
KillSticks == [][KillStays]_storeVars
=============================================================================
