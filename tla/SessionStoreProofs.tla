------------------------- MODULE SessionStoreProofs -------------------------
(***************************************************************************)
(* Proofs about SessionStore, for every set of clients, accounts, proxies, *)
(* sessions and connections, and every number of faults of each kind.      *)
(***************************************************************************)
EXTENDS SessionStore, FiniteSetTheorems, TLAPS

\* Sets of rows are finite, so counting them gives a number.
LEMMA RowsFinite ==
    /\ \A S \in SUBSET Sessions : IsFiniteSet(S) /\ Cardinality(S) \in Nat
    /\ \A C \in SUBSET Conns : IsFiniteSet(C) /\ Cardinality(C) \in Nat
BY StoreAssumption, FS_Subset, FS_CardinalityType

\* Every live counter goes down by one, or stays at zero.
LEMMA DecrementNat ==
    ASSUME NEW n \in Nat
    PROVE  /\ Decrement(n) \in Nat
           /\ Decrement(n) <= n
           /\ n # 0 => Decrement(n) = n - 1
           /\ n = 0 => Decrement(n) = 0
BY DEF Decrement

-----------------------------------------------------------------------------
\* The initial state is well typed.
LEMMA InitType == StoreInit => TypeOK
BY StoreAssumption DEF StoreInit, TypeOK, SessionStatus, ConnStates

\* Failures are counted, by kind.
LEMMA FaultType ==
    ASSUME TypeOK, NEW kind \in FaultKinds, Fault(kind)
    PROVE  faults' \in [FaultKinds -> Nat]
BY DEF TypeOK, Fault

LEMMA FaultNames == {"redis", "open", "kill", "commit"} = FaultKinds
BY DEF FaultKinds

\* What the handler at work has yet to write, and that it is alone.
LEMMA PendingType ==
    ASSUME TypeOK, NEW w \in pending
    PROVE  /\ w.session \in Sessions
           /\ pending = {w}
           /\ \/ w.write = "count"
              \/ /\ w.write = "row"
                 /\ w.status \in {"closed", "killed"} /\ w.proxy \in Proxies \cup {None}
BY DEF TypeOK, CountWrites, RowWrites

\* Every handler keeps the variables well typed.
LEMMA TypeStep ==
    ASSUME TypeOK, [StoreNext]_storeVars
    PROVE  TypeOK'
<1> USE DEF TypeOK
<1>a. /\ Cardinality(ActiveSessions) \in Nat
      /\ \A s : Cardinality(ActiveSessions \ {s}) \in Nat
  BY RowsFinite DEF ActiveSessions
<1>1. ASSUME NEW k \in Clients, NEW s \in Sessions, NEW p \in Proxies \cup {None},
             OpenSession(k, s, p)
      PROVE  TypeOK'
  <2>1. AccountOf[k] \in Accounts
    BY StoreAssumption
  <2>2. pending' \subseteq CountWrites /\ \A v, w \in pending' : v = w
    BY <1>1 DEF OpenSession, CountWrites
  <2> QED
    BY <1>1, <2>1, <2>2 DEF OpenSession, SessionStatus, Incremented, connVars, redisVars
<1>2. ASSUME NEW s \in Sessions, NEW c \in Conns,
             NEW p \in Proxies \cup {None}, NEW q \in Proxies \cup {None},
             OpenConnection(s, c, p, q)
      PROVE  TypeOK'
  BY <1>2 DEF OpenConnection, ConnStates, Incremented, redisVars
<1>3. ASSUME NEW s \in Sessions, NEW q \in Proxies \cup {None},
             Reroute(s, q) \/ Failover(s, q)
      PROVE  TypeOK'
  BY <1>3 DEF Reroute, Failover, connVars, aggVars, redisVars
<1>4. ASSUME NEW c \in Conns, NEW st \in {"closed", "failed", "killed"},
             CloseConnection(c, st)
      PROVE  TypeOK'
  BY <1>4, DecrementNat DEF CloseConnection, ConnStates, Decremented, redisVars
<1>5. ASSUME NEW s \in Sessions, NEW st \in {"closed", "killed"}, CloseSession(s, st)
      PROVE  TypeOK'
  <2>1. killFlag' \in SUBSET Sessions /\ activeCount' \in Nat \cup {None} /\ redisUp' \in BOOLEAN
    BY <1>5, <1>a DEF CloseSession, PublishClosed
  <2>2. FinalStatus(s, st) \in {"closed", "killed"} /\ assigned[s] \in Proxies \cup {None}
    BY DEF FinalStatus
  <2>3. pending' \subseteq RowWrites /\ \A v, w \in pending' : v = w
    BY <1>5, <2>2 DEF CloseSession, RowWrites
  <2> QED
    BY <1>5, <2>1, <2>3 DEF CloseSession, dbVars, sessionVars, connVars, aggVars
<1>6. ASSUME NEW w \in pending, PublishOpened(w)
      PROVE  TypeOK'
  <2>1. activeCount' \in Nat \cup {None}
    BY <1>6, <1>a DEF PublishOpened
  <2> QED
    BY <1>6, <2>1 DEF PublishOpened, dbVars, sessionVars, connVars, aggVars
<1>7. ASSUME NEW w \in pending, CommitClosed(w)
      PROVE  TypeOK'
  <2>1. status' \in [Sessions -> SessionStatus]
    BY <1>7, PendingType DEF CommitClosed, SessionStatus
  <2>2. accountActive' \in [Accounts -> Nat] /\ proxySessions' \in [Proxies -> Nat]
    BY <1>7, DecrementNat DEF CommitClosed, Decremented
  <2> QED
    BY <1>7, <2>1, <2>2 DEF CommitClosed, connVars, redisVars
<1>8. ASSUME NEW w \in pending, OpenInterrupted(w) \/ CloseCommitFails(w)
      PROVE  TypeOK'
  <2>1. faults' \in [FaultKinds -> Nat]
    BY <1>8, FaultType, FaultNames DEF OpenInterrupted, CloseCommitFails
  <2> QED
    BY <1>8, <2>1 DEF OpenInterrupted, CloseCommitFails, dbVars, sessionVars, connVars, aggVars,
       redisVars
<1>9. ASSUME NEW s \in Sessions, KillInterrupted(s)
      PROVE  TypeOK'
  BY <1>9, FaultType, FaultNames DEF KillInterrupted, dbVars, sessionVars, connVars, aggVars
<1>10. ASSUME NEW s \in Sessions, DisconnectConnections(s)
       PROVE  TypeOK'
  BY <1>10 DEF DisconnectConnections, ConnStates, aggVars, redisVars
<1>11. CASE RedisDown
  <2>1. faults' \in [FaultKinds -> Nat]
    BY <1>11, FaultType, FaultNames DEF RedisDown
  <2>2. redisUp' \in BOOLEAN
    BY <1>11, Zenon DEF RedisDown
  <2>3. UNCHANGED <<dbVars, killFlag, activeCount, pending>>
    BY <1>11 DEF RedisDown
  <2> QED
    BY <2>1, <2>2, <2>3 DEF dbVars, sessionVars, connVars, aggVars
<1>12. CASE RedisBack
  <2>1. killFlag' \subseteq Sessions /\ activeCount' \in Nat \cup {None} /\ redisUp' \in BOOLEAN
    BY <1>12 DEF RedisBack
  <2> QED
    BY <1>12, <2>1 DEF RedisBack, dbVars, sessionVars, connVars, aggVars
<1>13. CASE UNCHANGED storeVars
  BY <1>13 DEF storeVars, dbVars, sessionVars, connVars, aggVars, redisVars
<1> QED
  BY <1>1, <1>2, <1>3, <1>4, <1>5, <1>6, <1>7, <1>8, <1>9, <1>10, <1>11, <1>12, <1>13
     DEF StoreNext, GatewayCall, AdminCall, SecondWrite, Environment, KillSession

\* Type correctness of the session store, over every row, counter and key.
THEOREM TypeCorrect == StoreSpec => []TypeOK
<1>1. StoreInit => TypeOK
  BY InitType
<1>2. TypeOK /\ [StoreNext]_storeVars => TypeOK'
  BY TypeStep
<1> QED
  BY <1>1, <1>2, PTL DEF StoreSpec

-----------------------------------------------------------------------------
\* What a row holds before and after it is inserted.
RowsOK ==
    /\ \A s \in Sessions : Exists(s) => client[s] \in Clients
    /\ \A c \in Conns :
          IF connState[c] = "none"
          THEN connSession[c] = None /\ connProxy[c] = None /\ ~connEnded[c]
          ELSE connSession[c] \in Sessions

\* What a handler between its two writes has read is still so: nobody else is served.
PendingOK ==
    \A w \in pending :
        /\ Exists(w.session)
        /\ w.write = "count" => status[w.session] = "active"
        /\ w.write = "row" /\ status[w.session] = "killed" => w.status = "killed"

\* Only three handlers touch connection rows and the counters over them ...
LEMMA ConnFrame ==
    ASSUME [StoreNext]_storeVars
    PROVE  \/ \E s \in Sessions, c \in Conns, p, q \in Proxies \cup {None} : OpenConnection(s, c, p, q)
           \/ \E c \in Conns, st \in {"closed", "failed", "killed"} : CloseConnection(c, st)
           \/ \E s \in Sessions : DisconnectConnections(s)
           \/ UNCHANGED <<connVars, activeConns, proxyConns>>
BY DEF StoreNext, GatewayCall, AdminCall, SecondWrite, Environment, storeVars, dbVars,
       sessionVars, connVars, aggVars, OpenSession, PublishOpened, OpenInterrupted, Reroute,
       Failover, CloseSession, CommitClosed, CloseCommitFails, KillSession, KillInterrupted,
       RedisDown, RedisBack

\* ... only two commits the status and client of a session and the account counter ...
LEMMA SessionFrame ==
    ASSUME [StoreNext]_storeVars
    PROVE  \/ \E k \in Clients, s \in Sessions, p \in Proxies \cup {None} : OpenSession(k, s, p)
           \/ \E w \in pending : CommitClosed(w)
           \/ UNCHANGED <<status, client, accountActive>>
BY DEF StoreNext, GatewayCall, AdminCall, SecondWrite, Environment, storeVars, dbVars,
       sessionVars, connVars, aggVars, PublishOpened, OpenInterrupted, OpenConnection, Reroute,
       Failover, CloseConnection, CloseSession, CloseCommitFails, KillSession,
       DisconnectConnections, KillInterrupted, RedisDown, RedisBack

\* ... and only two handlers stop half-way.
LEMMA PendingFrame ==
    ASSUME [StoreNext]_storeVars
    PROVE  \/ \E k \in Clients, s \in Sessions, p \in Proxies \cup {None} : OpenSession(k, s, p)
           \/ \E s \in Sessions, st \in {"closed", "killed"} : CloseSession(s, st)
           \/ pending' = {}
           \/ UNCHANGED <<status, pending>>
BY DEF StoreNext, GatewayCall, AdminCall, SecondWrite, Environment, storeVars, dbVars,
       sessionVars, PublishOpened, OpenInterrupted, OpenConnection, Reroute, Failover,
       CloseConnection, CommitClosed, CloseCommitFails, KillSession, DisconnectConnections,
       KillInterrupted, RedisDown, RedisBack

\* Nothing happens to the row while its handler is between its two writes.
LEMMA PendingStep ==
    ASSUME TypeOK, PendingOK, [StoreNext]_storeVars
    PROVE  PendingOK'
<1> USE DEF TypeOK, PendingOK, Exists
<1>1. ASSUME NEW k \in Clients, NEW s \in Sessions, NEW p \in Proxies \cup {None},
             OpenSession(k, s, p)
      PROVE  PendingOK'
  BY <1>1 DEF OpenSession
<1>2. ASSUME NEW s \in Sessions, NEW st \in {"closed", "killed"}, CloseSession(s, st)
      PROVE  PendingOK'
  <2>1. status' = status /\ status[s] # "none"
    BY <1>2 DEF CloseSession, dbVars, sessionVars
  <2>2. \A w \in pending' : w.write = "row" /\ w.session = s /\ w.status = FinalStatus(s, st)
    BY <1>2 DEF CloseSession
  <2> QED
    BY <2>1, <2>2 DEF FinalStatus
<1>3. CASE pending' = {}
  BY <1>3
<1>4. CASE UNCHANGED <<status, pending>>
  BY <1>4
<1> QED
  BY <1>1, <1>2, <1>3, <1>4, PendingFrame

\* Every handler keeps the rows consistent: an ended or open row belongs to an
\* existing session, an open row is not ended.
LEMMA RowsStep ==
    ASSUME TypeOK, PendingOK, RowsOK, [StoreNext]_storeVars
    PROVE  RowsOK'
<1> USE DEF TypeOK, RowsOK, Exists
<1>1. \A s \in Sessions : Exists(s)' => client'[s] \in Clients
  <2>1. ASSUME NEW k \in Clients, NEW s \in Sessions, NEW p \in Proxies \cup {None},
               OpenSession(k, s, p)
        PROVE  \A t \in Sessions : Exists(t)' => client'[t] \in Clients
    BY <2>1 DEF OpenSession
  <2>2. ASSUME NEW w \in pending, CommitClosed(w)
        PROVE  \A t \in Sessions : Exists(t)' => client'[t] \in Clients
    BY <2>2, PendingType DEF CommitClosed, PendingOK
  <2> QED
    BY <2>1, <2>2, SessionFrame
<1>2. \A c \in Conns : IF connState'[c] = "none"
                       THEN connSession'[c] = None /\ connProxy'[c] = None /\ ~connEnded'[c]
                       ELSE connSession'[c] \in Sessions
  <2>1. ASSUME NEW s \in Sessions, NEW c \in Conns, NEW p \in Proxies \cup {None},
               NEW q \in Proxies \cup {None}, OpenConnection(s, c, p, q), NEW d \in Conns
        PROVE  IF connState'[d] = "none"
               THEN connSession'[d] = None /\ connProxy'[d] = None /\ ~connEnded'[d]
               ELSE connSession'[d] \in Sessions
    BY <2>1 DEF OpenConnection
  <2>2. ASSUME NEW c \in Conns, NEW st \in {"closed", "failed", "killed"},
               CloseConnection(c, st), NEW d \in Conns
        PROVE  IF connState'[d] = "none"
               THEN connSession'[d] = None /\ connProxy'[d] = None /\ ~connEnded'[d]
               ELSE connSession'[d] \in Sessions
    BY <2>2 DEF CloseConnection
  <2>3. ASSUME NEW s \in Sessions, DisconnectConnections(s), NEW d \in Conns
        PROVE  IF connState'[d] = "none"
               THEN connSession'[d] = None /\ connProxy'[d] = None /\ ~connEnded'[d]
               ELSE connSession'[d] \in Sessions
    BY <2>3 DEF DisconnectConnections, OpenRows
  <2>4. CASE UNCHANGED <<connVars, activeConns, proxyConns>>
    BY <2>4 DEF connVars
  <2> QED
    BY <2>1, <2>2, <2>3, <2>4, ConnFrame
<1> QED
  BY <1>1, <1>2

-----------------------------------------------------------------------------
\* Counting a set of rows that one row enters or leaves.
LEMMA CountAdd ==
    ASSUME NEW S, NEW x, NEW T, IsFiniteSet(S), x \notin S, T = S \cup {x}
    PROVE  Cardinality(T) = Cardinality(S) + 1
BY FS_AddElement

\* ... or leaves.
LEMMA CountRemove ==
    ASSUME NEW S, NEW x, NEW T, IsFiniteSet(S), T = S \ {x}
    PROVE  /\ Cardinality(S) \in Nat
           /\ Cardinality(T) \in Nat
           /\ Cardinality(T) >= Decrement(Cardinality(S))
<1>1. /\ IsFiniteSet(T)
      /\ Cardinality(T) = IF x \in S THEN Cardinality(S) - 1 ELSE Cardinality(S)
  BY FS_RemoveElement
<1>2. Cardinality(S) \in Nat /\ Cardinality(T) \in Nat
  BY <1>1, FS_CardinalityType
<1> QED
  BY <1>1, <1>2 DEF Decrement

\* A counter bounded by a number stays below it when both go down by one.
LEMMA DecrementMonotone ==
    ASSUME NEW m \in Nat, NEW n \in Nat, m <= n
    PROVE  Decrement(m) <= Decrement(n)
BY DEF Decrement

-----------------------------------------------------------------------------
\* No handler lets active_connections_count exceed the session's open rows.
LEMMA LiveConnsStep ==
    ASSUME TypeOK, RowsOK, LiveConnsBounded, [StoreNext]_storeVars
    PROVE  LiveConnsBounded'
<1> USE DEF TypeOK, RowsOK, LiveConnsBounded
<1>f. \A s \in Sessions : IsFiniteSet(OpenRows(s)) /\ Cardinality(OpenRows(s)) \in Nat
  BY RowsFinite DEF OpenRows
<1>1. ASSUME NEW s \in Sessions, NEW c \in Conns, NEW p \in Proxies \cup {None},
             NEW q \in Proxies \cup {None}, OpenConnection(s, c, p, q)
      PROVE  LiveConnsBounded'
  <2>1. /\ OpenRows(s)' = OpenRows(s) \cup {c}
        /\ c \notin OpenRows(s)
    BY <1>1 DEF OpenConnection, OpenRows
  <2>2. \A t \in Sessions \ {s} : OpenRows(t)' = OpenRows(t)
    BY <1>1, StoreAssumption DEF OpenConnection, OpenRows
  <2>3. Cardinality(OpenRows(s)') = Cardinality(OpenRows(s)) + 1
    BY <1>f, <2>1, CountAdd
  <2>4. activeConns' = [activeConns EXCEPT ![s] = @ + 1]
    BY <1>1 DEF OpenConnection
  <2> QED
    BY <1>f, <2>2, <2>3, <2>4
<1>2. ASSUME NEW c \in Conns, NEW st \in {"closed", "failed", "killed"}, CloseConnection(c, st)
      PROVE  LiveConnsBounded'
  <2>1. PICK s \in Sessions : connSession[c] = s
    BY <1>2 DEF CloseConnection
  <2>2. OpenRows(s)' = OpenRows(s) \ {c}
    <3>1. OpenRows(s)' = {d \in Conns : connSession[d] = s /\ connState'[d] = "open"}
      BY <1>2 DEF CloseConnection, OpenRows
    <3>2. \A d \in Conns : connState'[d] = IF d = c THEN st ELSE connState[d]
      BY <1>2 DEF CloseConnection
    <3> QED
      BY <3>1, <3>2 DEF OpenRows
  <2>3. \A t \in Sessions \ {s} : OpenRows(t)' = OpenRows(t)
    BY <1>2, <2>1 DEF CloseConnection, OpenRows
  <2>4. /\ Cardinality(OpenRows(s)) \in Nat
        /\ Cardinality(OpenRows(s)') \in Nat
        /\ Cardinality(OpenRows(s)') >= Decrement(Cardinality(OpenRows(s)))
    BY <1>f, <2>1, <2>2, CountRemove
  <2>5. activeConns' = [activeConns EXCEPT ![s] = Decrement(@)]
    BY <1>2, <2>1 DEF CloseConnection
  <2>6. activeConns[s] \in Nat /\ activeConns[s] <= Cardinality(OpenRows(s))
    BY <2>1
  <2>7. activeConns'[s] <= Cardinality(OpenRows(s)')
    BY <2>1, <2>4, <2>5, <2>6, DecrementMonotone, DecrementNat
  <2> QED
    BY <2>3, <2>5, <2>7
<1>3. ASSUME NEW s \in Sessions, DisconnectConnections(s)
      PROVE  LiveConnsBounded'
  <2>1. OpenRows(s)' = {}
    BY <1>3 DEF DisconnectConnections, OpenRows
  <2>2. \A t \in Sessions \ {s} : OpenRows(t)' = OpenRows(t)
    BY <1>3 DEF DisconnectConnections, OpenRows
  <2>3. Cardinality(OpenRows(s)') = 0
    BY <2>1, FS_EmptySet
  <2> QED
    BY <1>3, <2>2, <2>3 DEF DisconnectConnections
<1>4. CASE UNCHANGED <<connVars, activeConns, proxyConns>>
  <2>1. \A t : OpenRows(t)' = OpenRows(t)
    BY <1>4 DEF connVars, OpenRows
  <2> QED
    BY <1>4, <2>1
<1> QED
  BY <1>1, <1>2, <1>3, <1>4, ConnFrame

-----------------------------------------------------------------------------
\* No handler lets an account's counter exceed its active sessions.
LEMMA AccountCountStep ==
    ASSUME TypeOK, PendingOK, RowsOK, AccountCountBounded, [StoreNext]_storeVars
    PROVE  AccountCountBounded'
<1> USE DEF TypeOK, RowsOK, AccountCountBounded
<1>f. \A a \in Accounts : /\ IsFiniteSet(AccountSessions(a))
                          /\ Cardinality(AccountSessions(a)) \in Nat
  BY RowsFinite DEF AccountSessions, ActiveSessions
<1>1. ASSUME NEW k \in Clients, NEW s \in Sessions, NEW p \in Proxies \cup {None},
             OpenSession(k, s, p)
      PROVE  AccountCountBounded'
  <2>1. AccountOf[k] \in Accounts
    BY StoreAssumption
  <2>2. /\ AccountSessions(AccountOf[k])' = AccountSessions(AccountOf[k]) \cup {s}
        /\ s \notin AccountSessions(AccountOf[k])
    BY <1>1 DEF OpenSession, AccountSessions, ActiveSessions, Exists
  <2>3. \A a \in Accounts \ {AccountOf[k]} : AccountSessions(a)' = AccountSessions(a)
    BY <1>1 DEF OpenSession, AccountSessions, ActiveSessions, Exists
  <2>4. Cardinality(AccountSessions(AccountOf[k])') = Cardinality(AccountSessions(AccountOf[k])) + 1
    BY <1>f, <2>1, <2>2, CountAdd
  <2>5. accountActive' = [accountActive EXCEPT ![AccountOf[k]] = @ + 1]
    BY <1>1 DEF OpenSession
  <2> QED
    BY <1>f, <2>1, <2>3, <2>4, <2>5
<1>2. ASSUME NEW w \in pending, CommitClosed(w)
      PROVE  AccountCountBounded'
  <2>0. PICK s \in Sessions : w.session = s /\ Exists(s)
    BY PendingType DEF PendingOK
  <2>1. PICK b \in Accounts : AccountOf[client[s]] = b
    BY <2>0, StoreAssumption
  <2>2. status' = [status EXCEPT ![s] = w.status] /\ w.status # "active" /\ client' = client
    BY <1>2, <2>0, PendingType DEF CommitClosed
  <2>3. AccountSessions(b)' = AccountSessions(b) \ {s}
    BY <2>1, <2>2 DEF AccountSessions, ActiveSessions
  <2>4. \A a \in Accounts \ {b} : AccountSessions(a)' = AccountSessions(a)
    BY <2>1, <2>2 DEF AccountSessions, ActiveSessions
  <2>5. /\ Cardinality(AccountSessions(b)) \in Nat
        /\ Cardinality(AccountSessions(b)') \in Nat
        /\ Cardinality(AccountSessions(b)') >= Decrement(Cardinality(AccountSessions(b)))
    BY <1>f, <2>1, <2>3, CountRemove
  <2>6. accountActive' = [accountActive EXCEPT ![b] = Decrement(@)]
    BY <1>2, <2>0, <2>1 DEF CommitClosed
  <2>7. accountActive[b] \in Nat /\ accountActive[b] <= Cardinality(AccountSessions(b))
    BY <2>1
  <2>8. accountActive'[b] <= Cardinality(AccountSessions(b)')
    BY <2>1, <2>5, <2>6, <2>7, DecrementMonotone, DecrementNat
  <2> QED
    BY <2>4, <2>6, <2>8
<1>3. CASE UNCHANGED <<status, client, accountActive>>
  <2>1. \A a : AccountSessions(a)' = AccountSessions(a)
    BY <1>3 DEF AccountSessions, ActiveSessions
  <2> QED
    BY <1>3, <2>1
<1> QED
  BY <1>1, <1>2, <1>3, SessionFrame

\* No handler lets a proxy's counter exceed its rows that were not ended.
LEMMA ProxyConnsStep ==
    ASSUME TypeOK, RowsOK, ProxyConnsBounded, [StoreNext]_storeVars
    PROVE  ProxyConnsBounded'
<1> USE DEF TypeOK, RowsOK, ProxyConnsBounded
<1>f. \A p \in Proxies : IsFiniteSet(UnendedRows(p)) /\ Cardinality(UnendedRows(p)) \in Nat
  BY RowsFinite DEF UnendedRows
<1>1. ASSUME NEW s \in Sessions, NEW c \in Conns, NEW p \in Proxies \cup {None},
             NEW q \in Proxies \cup {None}, OpenConnection(s, c, p, q)
      PROVE  ProxyConnsBounded'
  <2>1. \A r \in Proxies : r # p => UnendedRows(r)' = UnendedRows(r)
    BY <1>1, StoreAssumption DEF OpenConnection, UnendedRows
  <2>2. \A r \in Proxies : r = p => UnendedRows(r)' = UnendedRows(r) \cup {c} /\ c \notin UnendedRows(r)
    BY <1>1 DEF OpenConnection, UnendedRows
  <2>3. \A r \in Proxies : r = p => Cardinality(UnendedRows(r)') = Cardinality(UnendedRows(r)) + 1
    BY <1>f, <2>2, CountAdd
  <2>4. \A r \in Proxies : proxyConns'[r] = IF r = p THEN proxyConns[r] + 1 ELSE proxyConns[r]
    BY <1>1 DEF OpenConnection, Incremented
  <2> QED
    BY <1>f, <2>1, <2>3, <2>4
<1>2. ASSUME NEW c \in Conns, NEW st \in {"closed", "failed", "killed"}, CloseConnection(c, st)
      PROVE  ProxyConnsBounded'
  <2>1. \A d \in Conns : /\ connState'[d] = IF d = c THEN st ELSE connState[d]
                         /\ connEnded'[d] = IF d = c THEN TRUE ELSE connEnded[d]
                         /\ connProxy'[d] = connProxy[d]
    BY <1>2 DEF CloseConnection
  <2>2. \A r \in Proxies : r # connProxy[c] => UnendedRows(r)' = UnendedRows(r)
    BY <2>1 DEF UnendedRows
  <2>3. \A r \in Proxies : r = connProxy[c] => UnendedRows(r)' = UnendedRows(r) \ {c}
    BY <1>2, <2>1 DEF CloseConnection, UnendedRows
  <2>4. \A r \in Proxies : r = connProxy[c] =>
            /\ Cardinality(UnendedRows(r)) \in Nat
            /\ Cardinality(UnendedRows(r)') \in Nat
            /\ Cardinality(UnendedRows(r)') >= Decrement(Cardinality(UnendedRows(r)))
    BY <1>f, <2>3, CountRemove
  <2>5. \A r \in Proxies : proxyConns'[r] = IF r = connProxy[c] THEN Decrement(proxyConns[r])
                                                               ELSE proxyConns[r]
    BY <1>2 DEF CloseConnection, Decremented
  <2>6. \A r \in Proxies : proxyConns[r] \in Nat /\ proxyConns[r] <= Cardinality(UnendedRows(r))
    OBVIOUS
  <2>7. ASSUME NEW r \in Proxies, r = connProxy[c]
        PROVE  proxyConns'[r] <= Cardinality(UnendedRows(r)')
    BY <2>4, <2>5, <2>6, <2>7, DecrementMonotone, DecrementNat
  <2> QED
    BY <2>2, <2>5, <2>7
<1>3. ASSUME NEW s \in Sessions, DisconnectConnections(s)
      PROVE  ProxyConnsBounded'
  <2>1. \A p : UnendedRows(p)' = UnendedRows(p)
    BY <1>3 DEF DisconnectConnections, UnendedRows, OpenRows
  <2> QED
    BY <1>3, <2>1 DEF DisconnectConnections, aggVars
<1>4. CASE UNCHANGED <<connVars, activeConns, proxyConns>>
  <2>1. \A p : UnendedRows(p)' = UnendedRows(p)
    BY <1>4 DEF connVars, UnendedRows
  <2> QED
    BY <1>4, <2>1
<1> QED
  BY <1>1, <1>2, <1>3, <1>4, ConnFrame

\* No handler gives a client a second active session.
LEMMA OneActiveStep ==
    ASSUME TypeOK, OneActivePerClient, [StoreNext]_storeVars
    PROVE  OneActivePerClient'
<1> USE DEF TypeOK, OneActivePerClient, ActiveSessions
<1>1. ASSUME NEW k \in Clients, NEW s \in Sessions, NEW p \in Proxies \cup {None},
             OpenSession(k, s, p)
      PROVE  OneActivePerClient'
  BY <1>1 DEF OpenSession, ActiveOf
<1>2. ASSUME NEW w \in pending, CommitClosed(w)
      PROVE  OneActivePerClient'
  BY <1>2, PendingType DEF CommitClosed
<1>3. CASE UNCHANGED <<status, client, accountActive>>
  BY <1>3
<1> QED
  BY <1>1, <1>2, <1>3, SessionFrame

-----------------------------------------------------------------------------
\* The inductive invariant: the counters are bounded because each handler
\* moves at most one row across the boundary a counter counts, and because a
\* row keeps the session, the client and the proxy it was inserted with, also
\* while the handler that ends it is between its two writes.
StoreInv ==
    /\ TypeOK
    /\ PendingOK
    /\ RowsOK
    /\ OneActivePerClient
    /\ LiveConnsBounded
    /\ AccountCountBounded
    /\ ProxyConnsBounded

\* The inductive invariant holds of the empty tables ...
LEMMA StoreInvInit == StoreInit => StoreInv
<1> SUFFICES ASSUME StoreInit PROVE StoreInv
  OBVIOUS
<1>1. TypeOK
  BY InitType
<1>2. RowsOK /\ PendingOK
  BY DEF StoreInit, RowsOK, PendingOK, Exists
<1>3. OneActivePerClient
  BY DEF StoreInit, OneActivePerClient, ActiveSessions
<1>4. LiveConnsBounded
  BY RowsFinite DEF StoreInit, LiveConnsBounded, OpenRows
<1>5. AccountCountBounded
  BY RowsFinite DEF StoreInit, AccountCountBounded, AccountSessions, ActiveSessions
<1>6. ProxyConnsBounded
  BY RowsFinite DEF StoreInit, ProxyConnsBounded, UnendedRows
<1> QED
  BY <1>1, <1>2, <1>3, <1>4, <1>5, <1>6 DEF StoreInv

\* ... every handler and every failure keeps it ...
LEMMA StoreInvStep == StoreInv /\ [StoreNext]_storeVars => StoreInv'
BY TypeStep, PendingStep, RowsStep, OneActiveStep, LiveConnsStep, AccountCountStep, ProxyConnsStep DEF StoreInv

\* ... so it always holds: types, consistent rows, and the four bounds together.
THEOREM StoreInvariant == StoreSpec => []StoreInv
BY StoreInvInit, StoreInvStep, PTL DEF StoreSpec

\* At most one active session per client, whatever the callers do: the search
\* and the insertion in open_session are one step.
THEOREM OneActiveTheorem == StoreSpec => []OneActivePerClient
BY StoreInvariant, PTL DEF StoreInv

\* active_connections_count never exceeds the session's open rows: a repeated close
\* and a manual disconnect can only make it too small.
THEOREM LiveConnsTheorem == StoreSpec => []LiveConnsBounded
BY StoreInvariant, PTL DEF StoreInv

\* account_aggregates.active_sessions never exceeds the account's active sessions:
\* a session that is closed twice is subtracted twice, never added twice.
THEOREM AccountCountTheorem == StoreSpec => []AccountCountBounded
BY StoreInvariant, PTL DEF StoreInv

\* proxy_aggregates.current_active_connections never exceeds the rows of the proxy
\* that were not ended, although a row the administrator disconnected stays counted.
THEOREM ProxyConnsTheorem == StoreSpec => []ProxyConnsBounded
BY StoreInvariant, PTL DEF StoreInv

-----------------------------------------------------------------------------
\* close_session never turns a killed session into a closed one and nothing
\* makes an ended session active again.
THEOREM EndedForeverTheorem == StoreSpec => EndedForever
<1>1. ASSUME TypeOK, PendingOK, [StoreNext]_storeVars
      PROVE  EndedStays
  <2> USE <1>1 DEF TypeOK
  <2>1. ASSUME NEW k \in Clients, NEW t \in Sessions, NEW p \in Proxies \cup {None},
               OpenSession(k, t, p)
        PROVE  \A s \in Sessions : Exists(s) => status'[s] = status[s]
    BY <2>1 DEF OpenSession, Exists
  <2>2. ASSUME NEW w \in pending, CommitClosed(w)
        PROVE  EndedStays
    BY <2>2, PendingType DEF EndedStays, CommitClosed, PendingOK
  <2> QED
    BY <2>1, <2>2, SessionFrame DEF Exists, EndedStays
<1>2. StoreInv /\ [StoreNext]_storeVars => [EndedStays]_storeVars
  BY <1>1 DEF StoreInv
<1> QED
  BY <1>2, StoreInvariant, PTL DEF StoreSpec, EndedForever

\* A failure is counted, and no handler forgets one.
LEMMA FaultCounted ==
    ASSUME TypeOK, NEW kind \in FaultKinds, Fault(kind)
    PROVE  faults'[kind] # 0 /\ \A other \in FaultKinds : faults[other] <= faults'[other]
BY DEF TypeOK, Fault

LEMMA FaultsRemembered ==
    ASSUME TypeOK, [StoreNext]_storeVars, NEW kind \in FaultKinds, faults'[kind] = 0
    PROVE  faults[kind] = 0
<1>1. CASE \E other \in FaultKinds : Fault(other)
  BY <1>1, FaultCounted DEF TypeOK
<1>2. CASE UNCHANGED faults
  BY <1>2
<1> QED
  BY <1>1, <1>2 DEF StoreNext, GatewayCall, AdminCall, SecondWrite, Environment, storeVars,
     redisVars, OpenSession, PublishOpened, OpenInterrupted, OpenConnection, Reroute, Failover,
     CloseConnection, CloseSession, CommitClosed, CloseCommitFails, KillSession,
     KillInterrupted, DisconnectConnections, RedisDown, RedisBack, FaultKinds

\* Until Redis or a commit fails, a kill the gateway can see stays visible: close_session
\* deletes the key only when it is about to commit `killed'.
THEOREM KillSticksTheorem == StoreSpec => KillSticks
<1>1. ASSUME TypeOK, PendingOK, [StoreNext]_storeVars, Never({"redis", "commit"})',
             NEW s \in Sessions, KillHolds(s)
      PROVE  KillHolds(s)'
  <2> USE <1>1 DEF TypeOK, KillHolds, KillSeen, KillRequested
  <2>0. ~Fault("redis") /\ ~Fault("commit")
    BY <1>1, FaultCounted DEF Never, FaultKinds
  <2>1. ASSUME NEW t \in Sessions, NEW st \in {"closed", "killed"}, CloseSession(t, st)
        PROVE  KillHolds(s)'
    <3>1. KillSeen(s) /\ status' = status
      BY <2>1 DEF CloseSession, Idle, dbVars, sessionVars
    <3>2. CASE s = t
      <4>1. \A w \in pending' : w.write = "row" /\ w.session = s /\ w.status = FinalStatus(s, st)
        BY <2>1, <3>2 DEF CloseSession
      <4>2. pending' # {} /\ FinalStatus(s, st) = "killed"
        BY <2>1, <3>1 DEF CloseSession, FinalStatus
      <4> QED
        BY <4>1, <4>2
    <3>3. CASE s # t
      BY <2>1, <3>1, <3>3 DEF CloseSession, PublishClosed
    <3> QED
      BY <3>2, <3>3
  <2>2. ASSUME NEW w \in pending, CommitClosed(w)
        PROVE  KillHolds(s)'
    <3>1. /\ status' = [status EXCEPT ![w.session] = w.status]
          /\ UNCHANGED redisVars
      BY <2>2 DEF CommitClosed
    <3>2. CASE KillSeen(s)
      BY <2>2, <3>1, <3>2, PendingType DEF PendingOK, CommitClosed, redisVars
    <3>3. CASE ~KillSeen(s)
      BY <3>1, <3>3, PendingType
    <3> QED
      BY <3>2, <3>3
  <2>3. ASSUME NEW w \in pending, PublishOpened(w) \/ OpenInterrupted(w)
        PROVE  KillHolds(s)'
    <3>1. KillSeen(s)
      BY <2>3, PendingType DEF PublishOpened, OpenInterrupted
    <3>2. UNCHANGED <<status, killFlag, redisUp>>
      BY <2>3 DEF PublishOpened, OpenInterrupted, dbVars, sessionVars, redisVars
    <3> QED
      BY <3>1, <3>2
  <2>4. ASSUME NEW t \in Sessions, KillInterrupted(t)
        PROVE  KillHolds(s)'
    BY <2>4 DEF KillInterrupted, dbVars, sessionVars
  <2>5. ASSUME NEW k \in Clients, NEW t \in Sessions, NEW p \in Proxies \cup {None},
               OpenSession(k, t, p)
        PROVE  KillHolds(s)'
    <3>1. KillSeen(s) /\ ~Exists(t)
      BY <2>5 DEF OpenSession, Idle
    <3>2. UNCHANGED <<killFlag, redisUp>> /\ status' = [status EXCEPT ![t] = "active"]
      BY <2>5 DEF OpenSession, redisVars
    <3> QED
      BY <3>1, <3>2 DEF Exists
  <2>6. CASE RedisBack
    BY <2>6 DEF RedisBack, dbVars, sessionVars
  <2>7. CASE UNCHANGED <<status, killFlag, redisUp, pending>>
    BY <2>7
  <2>8. \/ \E t \in Sessions, st \in {"closed", "killed"} : CloseSession(t, st)
        \/ \E w \in pending : CommitClosed(w) \/ PublishOpened(w) \/ OpenInterrupted(w)
        \/ \E t \in Sessions : KillInterrupted(t)
        \/ \E k \in Clients, t \in Sessions, p \in Proxies \cup {None} : OpenSession(k, t, p)
        \/ RedisBack
        \/ UNCHANGED <<status, killFlag, redisUp, pending>>
    BY <2>0 DEF StoreNext, GatewayCall, AdminCall, SecondWrite, Environment, storeVars, dbVars,
       sessionVars, redisVars, OpenConnection, Reroute, Failover, CloseConnection, KillSession,
       DisconnectConnections, CloseCommitFails, RedisDown
  <2> QED
    BY <2>1, <2>2, <2>3, <2>4, <2>5, <2>6, <2>7, <2>8
<1>2. StoreInv /\ [StoreNext]_storeVars => [KillStays]_storeVars
  BY <1>1 DEF KillStays, StoreInv
<1> QED
  BY <1>2, StoreInvariant, PTL DEF StoreSpec, KillSticks

-----------------------------------------------------------------------------
(* The published count *)

\* the session whose handler is between its two writes: none or one
Between == {w.session : w \in pending}

\* The published count against the active rows: between the two writes of a handler
\* it leaves out the handler's session.
PublishedOK ==
    Never({"redis"}) =>
        /\ redisUp
        /\ activeCount # None => activeCount <= Cardinality(ActiveSessions \ Between)
        /\ Never({"open", "commit"}) /\ activeCount # None =>
               activeCount = Cardinality(ActiveSessions \ Between)

\* The sets that are counted are finite, and leaving out sessions counts no more.
LEMMA ActiveFinite ==
    /\ IsFiniteSet(ActiveSessions) /\ Cardinality(ActiveSessions) \in Nat
    /\ \A B : /\ Cardinality(ActiveSessions \ B) \in Nat
              /\ Cardinality(ActiveSessions \ B) <= Cardinality(ActiveSessions)
<1>1. IsFiniteSet(ActiveSessions) /\ Cardinality(ActiveSessions) \in Nat
  BY RowsFinite DEF ActiveSessions
<1>2. \A B : ActiveSessions \ B \subseteq ActiveSessions
  OBVIOUS
<1> QED
  BY <1>1, <1>2, FS_Subset, FS_CardinalityType

\* What each of the handlers that publish or commit does to the rows that are
\* active and to the session it leaves out.
LEMMA OpenBetween ==
    ASSUME TypeOK, NEW k \in Clients, NEW s \in Sessions, NEW p \in Proxies \cup {None},
           OpenSession(k, s, p)
    PROVE  Between = {} /\ ActiveSessions' \ Between' = ActiveSessions \ Between
<1>1. Between = {} /\ Between' = {s}
  BY DEF OpenSession, Idle, Between
<1>2. ActiveSessions' = ActiveSessions \cup {s} /\ s \notin ActiveSessions
  BY DEF OpenSession, ActiveSessions, Exists, TypeOK
<1> QED
  BY <1>1, <1>2

LEMMA CloseBetween ==
    ASSUME TypeOK, NEW s \in Sessions, NEW st \in {"closed", "killed"}, CloseSession(s, st)
    PROVE  Between = {} /\ Between' = {s} /\ ActiveSessions' = ActiveSessions
BY DEF CloseSession, Idle, Between, ActiveSessions, dbVars, sessionVars

LEMMA CommitBetween ==
    ASSUME TypeOK, NEW w \in pending, CommitClosed(w)
    PROVE  /\ Between = {w.session} /\ Between' = {}
           /\ ActiveSessions' = ActiveSessions \ {w.session}
<1>1. Between = {w.session} /\ Between' = {}
  BY PendingType DEF CommitClosed, Between
<1>2. ActiveSessions' = ActiveSessions \ {w.session}
  BY PendingType DEF CommitClosed, ActiveSessions, TypeOK
<1> QED
  BY <1>1, <1>2

\* Every handler and failure keeps the published count right, to the extent
\* the faults considered allow.
LEMMA PublishedStep ==
    ASSUME TypeOK, PublishedOK, [StoreNext]_storeVars
    PROVE  PublishedOK'
<1> SUFFICES ASSUME Never({"redis"})'
             PROVE  PublishedOK'
  BY DEF PublishedOK
<1>n. /\ ~Fault("redis")
      /\ Never({"redis"})
      /\ Never({"open", "commit"})' => Never({"open", "commit"})
  BY FaultCounted, FaultsRemembered DEF Never, FaultKinds
<1>o. Fault("open") \/ Fault("commit") => ~Never({"open", "commit"})'
  BY FaultCounted DEF Never, FaultKinds
<1>0. /\ redisUp
      /\ activeCount # None => activeCount <= Cardinality(ActiveSessions \ Between)
      /\ Never({"open", "commit"}) /\ activeCount # None =>
             activeCount = Cardinality(ActiveSessions \ Between)
      /\ activeCount # None => activeCount \in Nat
  BY <1>n DEF PublishedOK, TypeOK
<1>1. ASSUME NEW k \in Clients, NEW s \in Sessions, NEW p \in Proxies \cup {None},
             OpenSession(k, s, p)
      PROVE  PublishedOK'
  <2>1. UNCHANGED <<activeCount, redisUp>>
    BY <1>1 DEF OpenSession, redisVars
  <2>2. (ActiveSessions \ Between)' = ActiveSessions \ Between
    BY <1>1, OpenBetween
  <2> QED
    BY <1>0, <1>n, <2>1, <2>2 DEF PublishedOK
<1>2. ASSUME NEW w \in pending, PublishOpened(w)
      PROVE  PublishedOK'
  <2>1. /\ redisUp' /\ activeCount' = Cardinality(ActiveSessions)
        /\ ActiveSessions' = ActiveSessions /\ Between' = {}
    BY <1>0, <1>2 DEF PublishOpened, Between, dbVars, sessionVars, ActiveSessions
  <2>2. activeCount' = Cardinality((ActiveSessions \ Between)') /\ activeCount' \in Nat
    BY <2>1, ActiveFinite
  <2> QED
    BY <2>1, <2>2 DEF PublishedOK
<1>3. ASSUME NEW w \in pending, OpenInterrupted(w) \/ CloseCommitFails(w)
      PROVE  PublishedOK'
  <2>1. /\ ~Never({"open", "commit"})'
        /\ UNCHANGED <<activeCount, redisUp>>
        /\ ActiveSessions' = ActiveSessions /\ Between' = {}
    BY <1>3, <1>o DEF OpenInterrupted, CloseCommitFails, Between, dbVars, sessionVars, redisVars,
       ActiveSessions
  <2>2. (ActiveSessions \ Between)' = ActiveSessions
    BY <2>1
  <2>3. activeCount # None => activeCount <= Cardinality(ActiveSessions)
    BY <1>0, ActiveFinite
  <2> QED
    BY <1>0, <2>1, <2>2, <2>3 DEF PublishedOK
<1>4. ASSUME NEW s \in Sessions, NEW st \in {"closed", "killed"}, CloseSession(s, st)
      PROVE  PublishedOK'
  <2>1. (ActiveSessions \ Between)' = ActiveSessions \ {s}
    BY <1>4, CloseBetween
  <2>2. activeCount' = Cardinality(ActiveSessions \ {s}) /\ redisUp'
    BY <1>0, <1>4 DEF CloseSession, PublishClosed
  <2>3. Cardinality(ActiveSessions \ {s}) \in Nat
    BY ActiveFinite
  <2> QED
    BY <2>1, <2>2, <2>3 DEF PublishedOK
<1>5. ASSUME NEW w \in pending, CommitClosed(w)
      PROVE  PublishedOK'
  <2>1. UNCHANGED <<activeCount, redisUp>>
    BY <1>5 DEF CommitClosed, redisVars
  <2>2. (ActiveSessions \ Between)' = ActiveSessions \ Between
    BY <1>5, CommitBetween
  <2> QED
    BY <1>0, <1>n, <2>1, <2>2 DEF PublishedOK
<1>6. CASE UNCHANGED <<status, activeCount, redisUp, pending>>
  <2>1. (ActiveSessions \ Between)' = ActiveSessions \ Between
    BY <1>6 DEF ActiveSessions, Between
  <2> QED
    BY <1>0, <1>6, <1>n, <2>1 DEF PublishedOK
<1>7. \/ \E k \in Clients, s \in Sessions, p \in Proxies \cup {None} : OpenSession(k, s, p)
      \/ \E w \in pending : \/ PublishOpened(w) \/ OpenInterrupted(w) \/ CloseCommitFails(w)
                            \/ CommitClosed(w)
      \/ \E s \in Sessions, st \in {"closed", "killed"} : CloseSession(s, st)
      \/ UNCHANGED <<status, activeCount, redisUp, pending>>
  BY <1>0, <1>n DEF StoreNext, GatewayCall, AdminCall, SecondWrite, Environment, storeVars,
     dbVars, sessionVars, redisVars, OpenConnection, Reroute, Failover, CloseConnection,
     KillSession, DisconnectConnections, KillInterrupted, RedisDown, RedisBack
<1> QED
  BY <1>1, <1>2, <1>3, <1>4, <1>5, <1>6, <1>7

\* The published count is exact but for the session between its two writes, or at
\* least never too high, in every state.
THEOREM PublishedInvariant == StoreSpec => []PublishedOK
<1>1. StoreInit => PublishedOK
  BY DEF StoreInit, PublishedOK, Never
<1>2. TypeOK /\ PublishedOK /\ [StoreNext]_storeVars => PublishedOK'
  BY PublishedStep
<1> QED
  BY <1>1, <1>2, TypeCorrect, PTL DEF StoreSpec

\* As long as handlers only fail half-way through a kill, the workers see the active
\* sessions, but perhaps for the one whose handler is between its two writes.
THEOREM CountExactTheorem == StoreSpec => []CountExact
<1>1. ASSUME PublishedOK, Never({"redis", "open", "commit"})
      PROVE  \E missed \in SUBSET Between : SessionsSeen = Cardinality(ActiveSessions \ missed)
  <2>1. CASE activeCount = None
    <3>1. SessionsSeen = Cardinality(ActiveSessions \ {})
      BY <2>1 DEF SessionsSeen
    <3> QED
      BY <3>1
  <2>2. CASE activeCount # None
    <3>1. SessionsSeen = Cardinality(ActiveSessions \ Between)
      BY <1>1, <2>2 DEF PublishedOK, SessionsSeen, Never
    <3> QED
      BY <3>1
  <2> QED
    BY <2>1, <2>2
<1>2. PublishedOK => CountExact
  BY <1>1 DEF CountExact, Between
<1> QED
  BY <1>2, PublishedInvariant, PTL

\* Handlers that are between their writes, die there or do not commit can hide sessions
\* from the workers, but while Redis answers they never show one that has ended.
THEOREM NeverOvercountedTheorem == StoreSpec => []NeverOvercounted
<1>1. TypeOK /\ PublishedOK => NeverOvercounted
  <2> SUFFICES ASSUME TypeOK, PublishedOK, Never({"redis"})
               PROVE  SessionsSeen <= Cardinality(ActiveSessions)
    BY DEF NeverOvercounted
  <2>1. activeCount # None => activeCount <= Cardinality(ActiveSessions \ Between)
    BY DEF PublishedOK
  <2>2. /\ activeCount # None => activeCount \in Nat
        /\ Cardinality(ActiveSessions) \in Nat
        /\ Cardinality(ActiveSessions \ Between) \in Nat
        /\ Cardinality(ActiveSessions \ Between) <= Cardinality(ActiveSessions)
    BY ActiveFinite DEF TypeOK
  <2> QED
    BY <2>1, <2>2 DEF SessionsSeen
<1> QED
  BY <1>1, PublishedInvariant, TypeCorrect, PTL

-----------------------------------------------------------------------------
(* The store implements the ledger the workers' modules are built on: a    *)
(* handler does one of its two writes, moves a session or leaves the lives *)
(* as they are; what the workers are told is right, but for the session    *)
(* between its writes, because the published count is (PublishedInvariant),*)
(* and is a number of sessions whatever fails (CountBounded).              *)

\* What was published is a number of sessions, right or wrong.
CountBounded == activeCount # None => activeCount \in 0..Cardinality(Sessions)

\* A set of sessions has at most as many members as there are sessions.
LEMMA SomeSessions ==
    ASSUME NEW S \in SUBSET Sessions
    PROVE  Cardinality(S) \in 0..Cardinality(Sessions)
BY RowsFinite, FS_Subset, FS_CardinalityType

\* Whatever is published is the size of a set of sessions.
LEMMA CountBoundedStep ==
    ASSUME TypeOK, CountBounded, [StoreNext]_storeVars
    PROVE  CountBounded'
<1>1. \/ \E S \in SUBSET Sessions : activeCount' = Cardinality(S)
      \/ activeCount' \in {activeCount, None}
  <2>1. ActiveSessions \in SUBSET Sessions
    BY DEF ActiveSessions
  <2>2. ASSUME NEW s \in Sessions, PublishClosed(s)
        PROVE  <1>1
    BY <2>1, <2>2 DEF PublishClosed
  <2>3. ASSUME NEW w \in pending, PublishOpened(w)
        PROVE  <1>1
    BY <2>1, <2>3 DEF PublishOpened
  <2> QED
    BY <2>2, <2>3 DEF StoreNext, GatewayCall, AdminCall, SecondWrite, Environment, storeVars,
       dbVars, sessionVars, redisVars, OpenSession, OpenInterrupted, OpenConnection, Reroute,
       Failover, CloseConnection, CloseSession, CommitClosed, CloseCommitFails, KillSession,
       KillInterrupted, DisconnectConnections, RedisDown, RedisBack
<1> QED
  BY <1>1, SomeSessions DEF CountBounded

\* The invariant under which a step of the store is one of the ledger.
LedgerInv == TypeOK /\ PendingOK /\ PublishedOK /\ CountBounded

\* The count is right, and a number of sessions, in every state.
THEOREM LedgerInvariant == StoreSpec => []LedgerInv
<1>1. StoreInit => CountBounded
  BY DEF StoreInit, CountBounded
<1>2. TypeOK /\ CountBounded /\ [StoreNext]_storeVars => CountBounded'
  BY CountBoundedStep
<1>3. StoreInv => TypeOK /\ PendingOK
  BY DEF StoreInv
<1> QED
  BY <1>1, <1>2, <1>3, StoreInvariant, PublishedInvariant, PTL DEF StoreSpec, LedgerInv

-----------------------------------------------------------------------------
\* Nothing has failed that could make the count wrong.
Exact == Never({"redis", "open", "commit"})

\* A failure is not forgotten.
LEMMA ExactRemembered ==
    ASSUME TypeOK, [StoreNext]_storeVars, Exact'
    PROVE  Exact
BY FaultsRemembered DEF Exact, Never, FaultKinds

\* A session between the two writes of its handler is a pending write's.
LEMMA BetweenPending ==
    ASSUME TypeOK, NEW s \in Sessions
    PROVE  s \in Between <=> CountPending(s) \/ RowPending(s)
BY PendingType DEF Between, CountPending, RowPending

\* The ledger's active sessions are the store's, and the counted ones those that no
\* handler is working on.
LEMMA LedgerActive ==
    ASSUME TypeOK
    PROVE  /\ Ledger!Active = ActiveSessions
           /\ Ledger!Counted = ActiveSessions \ Between
BY BetweenPending DEF Ledger!Active, Ledger!Counted, ActiveSessions, Life

\* The same after a step.
LEMMA LedgerActiveNext ==
    ASSUME TypeOK'
    PROVE  /\ Ledger!Active' = ActiveSessions'
           /\ Ledger!Counted' = ActiveSessions' \ Between'
<1>1. \A w \in pending' : w.session \in Sessions /\ w.write \in {"count", "row"}
  BY DEF TypeOK, CountWrites, RowWrites
<1>2. \A s \in Sessions : s \in Between' <=> CountPending(s)' \/ RowPending(s)'
  BY <1>1 DEF Between, CountPending, RowPending
<1> QED
  BY <1>2 DEF Ledger!Active, Ledger!Counted, ActiveSessions, Life

\* The sizes of the ledger's sets are those of the store's.
LEMMA LedgerCardinality == \A S : Ledger!Cardinality(S) = Cardinality(S)
BY DEF Ledger!Cardinality, Cardinality

\* What the workers are told while nothing has failed.
LEMMA SeenExact ==
    ASSUME PublishedOK, Exact
    PROVE  SessionsSeen \in {Cardinality(ActiveSessions \ Between), Cardinality(ActiveSessions)}
BY DEF PublishedOK, Exact, Never, SessionsSeen

\* The same after a step.
LEMMA SeenExactNext ==
    ASSUME PublishedOK', Exact'
    PROVE  SessionsSeen' \in {Cardinality(ActiveSessions' \ Between'),
                              Cardinality(ActiveSessions')}
BY DEF PublishedOK, Exact, Never, SessionsSeen

\* Every step leaves the workers with an answer the ledger allows.
LEMMA LedgerTold ==
    ASSUME LedgerInv, LedgerInv', [StoreNext]_storeVars
    PROVE  Ledger!Told
<1>1. Exact' \in {Exact, FALSE}
  BY ExactRemembered DEF LedgerInv, Exact, Never
<1>2. SessionsSeen' \in 0..Cardinality(Sessions)
  BY SomeSessions DEF LedgerInv, SessionsSeen, CountBounded, ActiveSessions
<1>3. Exact' => SessionsSeen' \in {Cardinality(ActiveSessions' \ Between'),
                                   Cardinality(ActiveSessions')}
  BY SeenExactNext DEF LedgerInv
<1> QED
  BY <1>1, <1>2, <1>3, LedgerActiveNext, LedgerCardinality DEF Ledger!Told, Exact, LedgerInv

\* A step that changes neither a life nor an assignment is a failure or nothing: the
\* count is not touched, or no active session is between two writes.
LEMMA QuietStep ==
    ASSUME LedgerInv, LedgerInv', [StoreNext]_storeVars, Life' = Life, assigned' = assigned,
           Exact' => \/ UNCHANGED <<status, activeCount, redisUp>>
                     \/ ActiveSessions \cap Between = {}
    PROVE  [Ledger!LedgerNext]_(Ledger!ledgerVars)
<1>1. CASE Exact'
  <2>1. Exact
    BY <1>1, ExactRemembered DEF LedgerInv
  <2>2. CASE UNCHANGED <<status, activeCount, redisUp>>
    <3>1. SessionsSeen' = SessionsSeen
      BY <2>2 DEF SessionsSeen, ActiveSessions
    <3> QED
      BY <1>1, <2>1, <3>1 DEF Ledger!ledgerVars, Exact, Never
  <2>3. CASE ActiveSessions \cap Between = {}
    <3>1. /\ ActiveSessions' = ActiveSessions
          /\ ActiveSessions' \ Between' = ActiveSessions \ Between
      <4>1. Ledger!Active' = Ledger!Active /\ Ledger!Counted' = Ledger!Counted
        BY DEF Ledger!Active, Ledger!Counted
      <4> QED
        BY <4>1, LedgerActive, LedgerActiveNext DEF LedgerInv
    <3>2. ActiveSessions \ Between = ActiveSessions
      BY <2>3
    <3>3. SessionsSeen' = SessionsSeen
      BY <1>1, <2>1, <3>1, <3>2, SeenExact, SeenExactNext DEF LedgerInv
    <3> QED
      BY <1>1, <2>1, <3>3 DEF Ledger!ledgerVars, Exact, Never
  <2> QED
    BY <1>1, <2>2, <2>3
<1>2. CASE ~Exact'
  BY <1>2, LedgerTold DEF Ledger!Told, Ledger!LedgerNext, Ledger!CountFails, Exact, Never
<1> QED
  BY <1>1, <1>2

\* The commit of open_session opens a session that was not there.
LEMMA OpenOpens ==
    ASSUME LedgerInv, LedgerInv', [StoreNext]_storeVars,
           NEW k \in Clients, NEW s \in Sessions, NEW p \in Proxies \cup {None},
           OpenSession(k, s, p)
    PROVE  Ledger!SessionOpens(s, p)
<1> USE DEF LedgerInv
<1>1. Life[s] = "new" /\ Life' = [Life EXCEPT ![s] = "opening"]
  <2>1. status' = [status EXCEPT ![s] = "active"] /\ status[s] = "none"
    BY DEF OpenSession, Exists
  <2>2. \A t \in Sessions : /\ ~CountPending(t) /\ ~RowPending(t)
                            /\ ~RowPending(t)' /\ (CountPending(t)' <=> t = s)
    BY DEF OpenSession, Idle, CountPending, RowPending
  <2> QED
    BY <2>1, <2>2 DEF Life, TypeOK
<1>2. assigned' = [assigned EXCEPT ![s] = p]
  BY DEF OpenSession
<1>3. Ledger!Settled
  BY LedgerActive DEF Ledger!Settled, OpenSession, Idle, Between
<1> QED
  BY <1>1, <1>2, <1>3, LedgerTold DEF Ledger!SessionOpens, Ledger!Becomes

\* What is pending of an active session, by its life.
LEMMA PendingLife ==
    ASSUME TypeOK, PendingOK, NEW w \in pending, status[w.session] = "active"
    PROVE  Life[w.session] = IF w.write = "count" THEN "opening" ELSE "ending"
BY PendingType DEF Life, CountPending, RowPending

\* The second write, or its failure, ends the life it belongs to and no other.
LEMMA SettledLife ==
    ASSUME TypeOK, NEW w \in pending, pending' = {},
           \A s \in Sessions \ {w.session} : status'[s] = status[s],
           status'[w.session] # "none"
    PROVE  \A s \in Sessions :
              Life'[s] = IF s # w.session THEN Life[s]
                         ELSE IF status'[s] = "active" THEN "active" ELSE "ended"
<1>1. \A s \in Sessions : ~CountPending(s)' /\ ~RowPending(s)'
  BY DEF CountPending, RowPending
<1>2. \A s \in Sessions : s # w.session => ~CountPending(s) /\ ~RowPending(s)
  BY PendingType DEF CountPending, RowPending
<1> QED
  BY <1>1, <1>2 DEF Life

\* The publication counts the session that was opened.
LEMMA PublishCounts ==
    ASSUME LedgerInv, LedgerInv', [StoreNext]_storeVars, NEW w \in pending, PublishOpened(w)
    PROVE  Ledger!SessionCounted(w.session)
<1> USE DEF LedgerInv
<1>1. /\ w.session \in Sessions /\ status[w.session] = "active"
      /\ pending' = {} /\ status' = status /\ assigned' = assigned
  BY PendingType DEF PublishOpened, PendingOK, dbVars, sessionVars
<1>2. Life[w.session] = "opening"
  BY <1>1, PendingLife DEF PublishOpened
<1>3. Life' = [Life EXCEPT ![w.session] = "active"]
  <2>1. \A s \in Sessions : Life'[s] = IF s # w.session THEN Life[s] ELSE "active"
    BY <1>1, SettledLife
  <2> QED
    BY <2>1 DEF Life
<1> QED
  BY <1>1, <1>2, <1>3, LedgerTold DEF Ledger!SessionCounted, Ledger!Becomes

\* close_session stops counting an active session; otherwise it changes no life.
LEMMA CloseLeaves ==
    ASSUME LedgerInv, LedgerInv', [StoreNext]_storeVars,
           NEW s \in Sessions, NEW st \in {"closed", "killed"}, CloseSession(s, st)
    PROVE  [Ledger!LedgerNext]_(Ledger!ledgerVars)
<1> USE DEF LedgerInv
<1>1. status' = status /\ assigned' = assigned
  BY DEF CloseSession, dbVars, sessionVars
<1>2. \A t \in Sessions : /\ ~CountPending(t) /\ ~RowPending(t)
                          /\ ~CountPending(t)' /\ (RowPending(t)' <=> t = s)
  BY DEF CloseSession, Idle, CountPending, RowPending
<1>3. ActiveSessions \cap Between = {} /\ Ledger!Settled
  BY LedgerActive DEF Ledger!Settled, CloseSession, Idle, Between
<1>4. CASE status[s] = "active"
  <2>1. Life[s] = "active" /\ Life' = [Life EXCEPT ![s] = "ending"]
    BY <1>1, <1>2, <1>4 DEF Life
  <2>2. Ledger!SessionLeaves(s)
    BY <1>1, <1>3, <2>1, LedgerTold DEF Ledger!SessionLeaves, Ledger!Becomes
  <2> QED
    BY <2>2 DEF Ledger!LedgerNext
<1>5. CASE status[s] # "active"
  <2>1. Life' = Life
    BY <1>1, <1>2, <1>5 DEF Life
  <2> QED
    BY <1>1, <1>3, <2>1, QuietStep
<1> QED
  BY <1>4, <1>5

\* Its commit ends the session, if it was active.
LEMMA CommitEnds ==
    ASSUME LedgerInv, LedgerInv', [StoreNext]_storeVars, NEW w \in pending, CommitClosed(w)
    PROVE  [Ledger!LedgerNext]_(Ledger!ledgerVars)
<1> USE DEF LedgerInv
<1>1. /\ w.session \in Sessions /\ w.write = "row" /\ w.status \in {"closed", "killed"}
      /\ status' = [status EXCEPT ![w.session] = w.status]
      /\ pending' = {} /\ assigned' = assigned /\ status[w.session] # "none"
  BY PendingType DEF CommitClosed, PendingOK, Exists
<1>2. \A s \in Sessions : Life'[s] = IF s = w.session THEN "ended" ELSE Life[s]
  BY <1>1, SettledLife DEF TypeOK
<1>3. CASE status[w.session] = "active"
  <2>1. Life[w.session] = "ending" /\ Life' = [Life EXCEPT ![w.session] = "ended"]
    BY <1>1, <1>2, <1>3, PendingLife DEF Life
  <2>2. Ledger!SessionEnds(w.session)
    BY <1>1, <2>1, LedgerTold DEF Ledger!SessionEnds, Ledger!Becomes
  <2> QED
    BY <1>1, <2>2 DEF Ledger!LedgerNext
<1>4. CASE status[w.session] # "active"
  <2>1. Life[w.session] = "ended"
    BY <1>1, <1>4 DEF Life
  <2>2. Life' = Life
    BY <1>2, <2>1 DEF Life
  <2>3. ActiveSessions \cap Between = {}
    BY <1>4, CommitBetween DEF ActiveSessions
  <2> QED
    BY <1>1, <2>2, <2>3, QuietStep
<1> QED
  BY <1>3, <1>4

\* A handler that fails between its writes leaves its session active.
LEMMA FailureInterrupts ==
    ASSUME LedgerInv, LedgerInv', [StoreNext]_storeVars, NEW w \in pending,
           OpenInterrupted(w) \/ CloseCommitFails(w)
    PROVE  [Ledger!LedgerNext]_(Ledger!ledgerVars)
<1> USE DEF LedgerInv
<1>1. /\ w.session \in Sessions /\ pending' = {} /\ status' = status /\ assigned' = assigned
      /\ ~Exact' /\ status[w.session] # "none"
  <2>1. ~Exact'
    BY FaultCounted DEF OpenInterrupted, CloseCommitFails, Exact, Never, FaultKinds
  <2> QED
    BY <2>1, PendingType DEF OpenInterrupted, CloseCommitFails, dbVars, sessionVars, PendingOK,
       Exists
<1>2. CASE status[w.session] = "active"
  <2>1. \A s \in Sessions : Life'[s] = IF s # w.session THEN Life[s] ELSE "active"
    BY <1>1, <1>2, SettledLife
  <2>2. /\ Life[w.session] \in {"opening", "ending"}
        /\ Life' = [Life EXCEPT ![w.session] = "active"]
    BY <1>1, <1>2, <2>1, PendingLife DEF Life
  <2>3. Ledger!SessionInterrupted(w.session)
    BY <1>1, <2>2, LedgerTold DEF Ledger!SessionInterrupted, Ledger!Becomes, Exact, Never
  <2> QED
    BY <1>1, <2>3 DEF Ledger!LedgerNext
<1>3. CASE status[w.session] # "active"
  <2>1. \A s \in Sessions : Life'[s] = Life[s]
    BY <1>1, <1>3, SettledLife DEF Life
  <2>2. Life' = Life
    BY <2>1 DEF Life
  <2> QED
    BY <1>1, <2>2, QuietStep
<1> QED
  BY <1>2, <1>3

\* The gateway or the monitor moves a session that exists.
LEMMA MoveMoves ==
    ASSUME LedgerInv, NEW s \in Sessions, NEW q \in Proxies \cup {None},
           Exists(s), assigned' = [assigned EXCEPT ![s] = q],
           UNCHANGED <<status, activeCount, redisUp, pending, faults>>
    PROVE  Ledger!SessionMoves(s, q)
<1>1. Life[s] # "new" /\ Life' = Life
  BY DEF Life, Exists, CountPending, RowPending
<1>2. SessionsSeen' = SessionsSeen
  BY DEF SessionsSeen, ActiveSessions
<1> QED
  BY <1>1, <1>2 DEF Ledger!SessionMoves, Never

\* Each step of the store is one of the ledger, or none.
LEMMA LedgerStep ==
    ASSUME LedgerInv, LedgerInv', [StoreNext]_storeVars
    PROVE  [Ledger!LedgerNext]_(Ledger!ledgerVars)
<1>1. ASSUME NEW k \in Clients, NEW s \in Sessions, NEW p \in Proxies \cup {None},
             OpenSession(k, s, p)
      PROVE  [Ledger!LedgerNext]_(Ledger!ledgerVars)
  BY <1>1, OpenOpens DEF Ledger!LedgerNext
<1>2. ASSUME NEW w \in pending, PublishOpened(w)
      PROVE  [Ledger!LedgerNext]_(Ledger!ledgerVars)
  BY <1>2, PublishCounts, PendingType DEF Ledger!LedgerNext, LedgerInv
<1>3. ASSUME NEW s \in Sessions, NEW st \in {"closed", "killed"}, CloseSession(s, st)
      PROVE  [Ledger!LedgerNext]_(Ledger!ledgerVars)
  BY <1>3, CloseLeaves
<1>4. ASSUME NEW w \in pending, CommitClosed(w)
      PROVE  [Ledger!LedgerNext]_(Ledger!ledgerVars)
  BY <1>4, CommitEnds
<1>5. ASSUME NEW w \in pending, OpenInterrupted(w) \/ CloseCommitFails(w)
      PROVE  [Ledger!LedgerNext]_(Ledger!ledgerVars)
  BY <1>5, FailureInterrupts
<1>6. ASSUME NEW s \in Sessions, NEW q \in Proxies \cup {None},
             Exists(s), assigned' = [assigned EXCEPT ![s] = q],
             UNCHANGED <<status, activeCount, redisUp, pending, faults>>
      PROVE  [Ledger!LedgerNext]_(Ledger!ledgerVars)
  BY <1>6, MoveMoves DEF Ledger!LedgerNext
<1>7. CASE /\ UNCHANGED <<status, assigned, pending>>
           /\ Exact' => UNCHANGED <<status, activeCount, redisUp>>
  <2>1. Life' = Life
    BY <1>7 DEF Life, CountPending, RowPending
  <2> QED
    BY <1>7, <2>1, QuietStep
<1>8. \/ \E k \in Clients, s \in Sessions, p \in Proxies \cup {None} : OpenSession(k, s, p)
      \/ \E w \in pending : \/ PublishOpened(w) \/ CommitClosed(w)
                            \/ OpenInterrupted(w) \/ CloseCommitFails(w)
      \/ \E s \in Sessions, st \in {"closed", "killed"} : CloseSession(s, st)
      \/ \E s \in Sessions, q \in Proxies \cup {None} :
            /\ Exists(s) /\ assigned' = [assigned EXCEPT ![s] = q]
            /\ UNCHANGED <<status, activeCount, redisUp, pending, faults>>
      \/ /\ UNCHANGED <<status, assigned, pending>>
         /\ Exact' => UNCHANGED <<status, activeCount, redisUp>>
  <2>1. RedisDown => ~Exact'
    BY FaultCounted DEF RedisDown, Exact, Never, FaultKinds, LedgerInv
  <2>2. RedisBack => ~Exact'
    BY ExactRemembered DEF RedisBack, Exact, Never, LedgerInv, PublishedOK
  <2> QED
    BY <2>1, <2>2 DEF StoreNext, GatewayCall, AdminCall, SecondWrite, Environment, storeVars,
       dbVars, sessionVars, redisVars, Exists, OpenConnection, Reroute, Failover,
       CloseConnection, KillSession, KillInterrupted, DisconnectConnections, RedisDown, RedisBack
<1> QED
  BY <1>1, <1>2, <1>3, <1>4, <1>5, <1>6, <1>7, <1>8

\* Whatever the callers do and whatever fails, the workers see sessions that are active
\* once, move only while they exist, and are counted right until Redis, a publication
\* or a commit fails, but for the one between the two writes of its handler.
THEOREM StoreImplementsLedger == StoreSpec => ImplementsLedger
<1>1. StoreInit => Ledger!LedgerInit
  <2> SUFFICES ASSUME StoreInit PROVE Ledger!LedgerInit
    OBVIOUS
  <2>1. ActiveSessions = {} /\ SessionsSeen = 0
    BY FS_EmptySet DEF StoreInit, ActiveSessions, SessionsSeen
  <2> QED
    BY <2>1 DEF StoreInit, Ledger!LedgerInit, Life, Never, FaultKinds
<1>2. LedgerInv /\ LedgerInv' /\ [StoreNext]_storeVars
      => [Ledger!LedgerNext]_(Ledger!ledgerVars)
  BY LedgerStep
<1> QED
  BY <1>1, <1>2, LedgerInvariant, PTL DEF StoreSpec, ImplementsLedger, Ledger!LedgerSpec
=============================================================================
