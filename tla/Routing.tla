------------------------------- MODULE Routing -------------------------------
(***************************************************************************)
(* Which upstream proxy a connection goes through: the selection by        *)
(* rating, the session's assigned and sticky proxies, the gateway's        *)
(* attempts with a proxy excluded for each failure, and the session        *)
(* monitor moving a session at any time, over the changing pool of         *)
(* ProxyPool.                                                              *)
(*                                                                         *)
(* A handler of the backend is one step.  Abstracted: the order among      *)
(* proxies of one rating (by latency and speed, in an order that depends   *)
(* on the session's strategy), which is left open; the end of sessions.    *)
(***************************************************************************)
EXTENDS ProxyPool, FiniteSets

CONSTANTS
    Sessions, AccountCountry,  \* [Sessions -> Countries or None]
    Handlers, SessionOf,       \* [Handlers -> Sessions]
    Ratings,
    Threshold,                 \* sticky_rating_threshold
    Limit,                     \* rows a selection reads: limit(50)
    MaxAttempts,               \* attempts of a connection: range(3)
    MaxMoves                   \* bound: steps that are not a handler's

ASSUME RoutingAssumption ==
    /\ AccountCountry \in [Sessions -> Countries \cup {None}]
    /\ SessionOf \in [Handlers -> Sessions]
    /\ IsFiniteSet(Proxies)
    /\ Ratings \subseteq Nat
    /\ Threshold \in Nat
    /\ Limit \in Nat \ {0}
    /\ MaxAttempts \in Nat \ {0}
    /\ MaxMoves \in Nat

VARIABLES
    rating,             \* proxy_aggregates.rating_score
    assigned, sticky,   \* columns of the session; opened: the row exists
    opened,
    phase, using, tried, attempt,  \* of a handler: its await, proxy, attempted_proxy_ids
    moves

routeVars   == <<rating, assigned, sticky, opened>>
handlerVars == <<phase, using, tried, attempt>>
vars == <<poolVars, routeVars, handlerVars, moves>>

RoutingTypeOK ==
    /\ PoolTypeOK
    /\ rating   \in [Proxies -> Ratings]
    /\ assigned \in [Sessions -> Proxies \cup {None}]
    /\ sticky   \in [Sessions -> Proxies \cup {None}]
    /\ opened   \in [Sessions -> BOOLEAN]
    /\ phase    \in [Handlers -> {"idle", "open", "dial", "refused", "reroute"}]
    /\ using    \in [Handlers -> Proxies \cup {None}]
    /\ tried    \in [Handlers -> SUBSET Proxies]
    /\ attempt  \in [Handlers -> 0..MaxAttempts - 1]
    /\ moves    \in 0..MaxMoves

\* any pool after its first checks and ratings
RoutingInit ==
    /\ status      \in [Proxies -> {"online", "offline"}]
    /\ enabled     = [p \in Proxies |-> TRUE]
    /\ quarantined \in [Proxies -> BOOLEAN]
    /\ country     \in [Proxies -> Countries \cup {None}]
    /\ override    = [p \in Proxies |-> FALSE]
    /\ authPending = {}
    /\ geoPending  = {}
    /\ changes     = 0
    /\ rating      \in [Proxies -> Ratings]
    /\ assigned    = [s \in Sessions |-> None]
    /\ sticky      = [s \in Sessions |-> None]
    /\ opened      = [s \in Sessions |-> FALSE]
    /\ phase       = [h \in Handlers |-> "idle"]
    /\ using       = [h \in Handlers |-> None]
    /\ tried       = [h \in Handlers |-> {}]
    /\ attempt     = [h \in Handlers |-> 0]
    /\ moves       = 0

-----------------------------------------------------------------------------
Usable(p) == enabled[p] /\ status[p] \in {"online", "degraded"}

Matches(p, cc) == cc = None \/ country[p] = cc

Candidates(cc, excluded) ==
    {p \in Proxies \ excluded : Usable(p) /\ Matches(p, cc)}

\* mutant of Preferred: a pool in quarantine is no pool
PreferredOnly(S) == {p \in S : ~quarantined[p]}

\* quarantined proxies only when there is nothing else
Preferred(S) == IF \E p \in S : ~quarantined[p] THEN {p \in S : ~quarantined[p]} ELSE S

\* the rows read: the Limit best, in some order among equals
Tops(S) == {T \in SUBSET S :
               /\ Cardinality(T) = IF Cardinality(S) < Limit THEN Cardinality(S) ELSE Limit
               /\ \A p \in T, q \in S \ T : rating[p] >= rating[q]}

Best(T) == {b \in T : \A p \in T : rating[b] >= rating[p]}

\* mutant of CloseToBest: one close row is enough
CloseToBestAny(T, p) == \E b \in T : rating[b] - rating[p] <= Threshold

CloseToBest(T, p) == \A b \in T : rating[b] - rating[p] <= Threshold

\* select_proxy_for_account: the sticky proxy if it is close to the best
Selections(cc, stickyProxy, excluded) ==
    LET S == Preferred(Candidates(cc, excluded))
    IN  IF S = {} THEN {None}
        ELSE {q \in S : \E T \in Tops(S) :
                 IF stickyProxy \in T /\ CloseToBest(T, stickyProxy)
                 THEN q = stickyProxy ELSE q \in Best(T)}

\* what reroute_session_proxy and open_session write
Assign(s, q) ==
    /\ assigned' = [assigned EXCEPT ![s] = q]
    /\ sticky'   = [sticky EXCEPT ![s] = IF q = None THEN @ ELSE q]

\* mutant of Kept: quarantine does not move a session
KeptQuarantined(s) == assigned[s] # None /\ Usable(assigned[s])

\* ensure_connection_proxy keeps the assigned proxy, whatever its country
Kept(s) == assigned[s] # None /\ Usable(assigned[s]) /\ ~quarantined[assigned[s]]

\* ... or reroutes, with nothing excluded
Ensure(s, q) ==
    \/ Kept(s) /\ q = assigned[s] /\ UNCHANGED <<assigned, sticky>>
    \/ ~Kept(s) /\ q \in Selections(AccountCountry[s], sticky[s], {}) /\ Assign(s, q)

-----------------------------------------------------------------------------
Finish(h) ==
    /\ phase'   = [phase EXCEPT ![h] = "idle"]
    /\ using'   = [using EXCEPT ![h] = None]
    /\ tried'   = [tried EXCEPT ![h] = {}]
    /\ attempt' = [attempt EXCEPT ![h] = 0]

\* open_session: the client's session, or a new one with a first assignment
OpenSession(h) ==
    /\ phase[h] = "idle"
    /\ phase' = [phase EXCEPT ![h] = "open"]
    /\ LET s == SessionOf[h] IN
          IF opened[s] THEN UNCHANGED <<assigned, sticky, opened>>
          ELSE /\ opened' = [opened EXCEPT ![s] = TRUE]
               /\ \E q \in Selections(AccountCountry[s], None, {}) : Assign(s, q)
    /\ UNCHANGED <<poolVars, rating, using, tried, attempt, moves>>

OpenConnection(h) ==
    /\ phase[h] = "open"
    /\ \E q \in Proxies \cup {None} :
          /\ Ensure(SessionOf[h], q)
          /\ using' = [using EXCEPT ![h] = q]
          /\ phase' = [phase EXCEPT ![h] = IF q = None THEN "refused" ELSE "dial"]
    /\ UNCHANGED <<poolVars, rating, opened, tried, attempt, moves>>

\* the connection is relayed, or refused to the client, and ends some time
Leaves(h) ==
    /\ phase[h] \in {"dial", "refused"}
    /\ Finish(h)
    /\ UNCHANGED <<poolVars, routeVars, moves>>

\* the last attempt's failure is among Leaves
DialFails(h) ==
    /\ phase[h] = "dial" /\ attempt[h] + 1 < MaxAttempts
    /\ phase' = [phase EXCEPT ![h] = "reroute"]
    /\ tried' = [tried EXCEPT ![h] = @ \cup {using[h]}]
    /\ UNCHANGED <<poolVars, routeVars, using, attempt, moves>>

\* mutant of Reroute: only the proxy that failed last is excluded
RerouteLastOnly(h) ==
    /\ phase[h] = "reroute"
    /\ \E q \in Selections(AccountCountry[SessionOf[h]], None, {using[h]}) :
          /\ Assign(SessionOf[h], q)
          /\ IF q = None THEN Finish(h)
             ELSE /\ phase'   = [phase EXCEPT ![h] = "open"]
                  /\ using'   = [using EXCEPT ![h] = None]
                  /\ attempt' = [attempt EXCEPT ![h] = @ + 1]
                  /\ UNCHANGED tried
    /\ UNCHANGED <<poolVars, rating, opened, moves>>

\* the gateway asks for a proxy it has not tried, without regard to the sticky
\* one; without an answer the connection fails
Reroute(h) ==
    /\ phase[h] = "reroute"
    /\ \E q \in Selections(AccountCountry[SessionOf[h]], None, tried[h]) :
          /\ Assign(SessionOf[h], q)
          /\ IF q = None THEN Finish(h)
             ELSE /\ phase'   = [phase EXCEPT ![h] = "open"]
                  /\ using'   = [using EXCEPT ![h] = None]
                  /\ attempt' = [attempt EXCEPT ![h] = @ + 1]
                  /\ UNCHANGED tried
    /\ UNCHANGED <<poolVars, rating, opened, moves>>

-----------------------------------------------------------------------------
Move == moves < MaxMoves /\ moves' = moves + 1

\* The session monitor moves the session to a fallback it chose some time ago,
\* whatever has become of it, and leaves the sticky proxy.
Failover(s, q) ==
    /\ Move /\ opened[s]
    /\ assigned' = [assigned EXCEPT ![s] = q]
    /\ UNCHANGED <<poolVars, rating, sticky, opened, handlerVars>>

\* the aggregate agent rates a proxy anew
Rate(p, r) ==
    /\ Move /\ enabled[p]
    /\ rating' = [rating EXCEPT ![p] = r]
    /\ UNCHANGED <<poolVars, assigned, sticky, opened, handlerVars>>

PoolChanges == Move /\ PoolNext /\ UNCHANGED <<routeVars, handlerVars>>

HandlerStep(h) ==
    OpenSession(h) \/ OpenConnection(h) \/ DialFails(h) \/ Reroute(h) \/ Leaves(h)

RoutingNext ==
    \/ \E h \in Handlers : HandlerStep(h)
    \/ \E s \in Sessions, q \in Proxies : Failover(s, q)
    \/ \E p \in Proxies, r \in Ratings : Rate(p, r)
    \/ PoolChanges

RoutingSpec == RoutingInit /\ [][RoutingNext]_vars

-----------------------------------------------------------------------------
Dials(h) == phase[h] # "dial" /\ phase'[h] = "dial"

\* A connection is sent through a proxy in use, and through a quarantined one
\* only when every candidate of its account is in quarantine: also after the
\* proxy assigned by a reroute, a failover or another handler has changed.
DialsUsable ==
    [][\A h \in Handlers : Dials(h) =>
          /\ Usable(using'[h])
          /\ quarantined[using'[h]] =>
                \A p \in Candidates(AccountCountry[SessionOf[h]], {}) : quarantined[p]]_vars

\* A client is refused only if its account has no candidate at all, the proxies
\* that failed before included.
RefusedOnlyIfNone ==
    [][\A h \in Handlers : phase[h] # "refused" /\ phase'[h] = "refused" =>
          Candidates(AccountCountry[SessionOf[h]], {}) = {}]_vars

\* Opening a connection moves the session only to a proxy that is worse than
\* any other it might use by no more than the threshold: stickiness, also to a
\* proxy left in a failover long ago, costs no more than that.
StickyCostBounded ==
    [][\A h \in Handlers : Dials(h) /\ assigned'[SessionOf[h]] # assigned[SessionOf[h]] =>
          \A p \in Preferred(Candidates(AccountCountry[SessionOf[h]], {})) :
              rating[p] - rating[using'[h]] <= Threshold]_vars

\* Unless somebody else moves the session or changes the pool, and as long as
\* nothing is in quarantine, a proxy that failed is not dialled again for the
\* same connection.
RetryIsAlternate ==
    moves = 0 /\ (\A p \in Proxies : ~quarantined[p]) =>
        \A h \in Handlers :
            /\ phase[h] = "dial"
            /\ \A g \in Handlers \ {h} : SessionOf[g] # SessionOf[h]
            => using[h] \notin tried[h]
=============================================================================
