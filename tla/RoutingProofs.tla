--------------------------- MODULE RoutingProofs ---------------------------
(***************************************************************************)
(* Proofs about Routing and the pool it works on, for any number of        *)
(* proxies, sessions and handlers and any sequence of changes.             *)
(***************************************************************************)
EXTENDS Routing, NatLemmas, FiniteSetTheorems, TLAPS

-----------------------------------------------------------------------------
\* The pool's steps keep its rows well typed.
LEMMA PoolTypeStep ==
    ASSUME PoolTypeOK, PoolNext
    PROVE  PoolTypeOK'
<1> USE PoolAssumption
<1>1. ASSUME NEW p \in Proxies, Administer(p)
      PROVE  PoolTypeOK'
  <2>1. CASE Import(p)
    BY <2>1 DEF Import, PoolTypeOK, ProxyStatus
  <2>2. CASE Enable(p) \/ Disable(p)
    <3>1. /\ status'  \in [Proxies -> ProxyStatus]
          /\ enabled' \in [Proxies -> BOOLEAN]
      BY <2>2 DEF Enable, Disable, PoolTypeOK, ProxyStatus
    <3>2. quarantined' \in [Proxies -> BOOLEAN]
      BY <2>2 DEF Enable, Disable, PoolTypeOK
    <3> QED
      BY <2>2, <3>1, <3>2 DEF Enable, Disable, Change, PoolTypeOK
  <2>3. CASE Quarantine(p) \/ Unquarantine(p)
    <3>1. /\ status'  \in [Proxies -> ProxyStatus]
          /\ enabled' \in [Proxies -> BOOLEAN]
      BY <2>3 DEF Quarantine, Unquarantine, PoolTypeOK, ProxyStatus
    <3>2. quarantined' \in [Proxies -> BOOLEAN]
      BY <2>3 DEF Quarantine, Unquarantine, PoolTypeOK
    <3> QED
      BY <2>3, <3>1, <3>2 DEF Quarantine, Unquarantine, Change, PoolTypeOK
  <2>4. CASE Recheck(p)
    BY <2>4 DEF Recheck, Change, PoolTypeOK, ProxyStatus
  <2>5. ASSUME NEW c \in Countries \cup {None}, SetCountry(p, c)
        PROVE  PoolTypeOK'
    BY <2>5 DEF SetCountry, Change, PoolTypeOK
  <2> QED
    BY <1>1, <2>1, <2>2, <2>3, <2>4, <2>5 DEF Administer
<1>2. CASE AuthSelect \/ AuthAborts \/ GeoSelect
  BY <1>2 DEF AuthSelect, AuthAborts, GeoSelect, Change, rowVars, PoolTypeOK
<1>3. CASE AuthBatch
  BY <1>3 DEF AuthBatch, PoolTypeOK, ProxyStatus
<1>4. CASE GeoCommit
  <2>1. PICK found \in [geoPending -> Countries \cup {None}] :
           country' = [p \in Proxies |-> IF p \in geoPending /\ found[p] # None
                                         THEN found[p] ELSE country[p]]
    BY <1>4 DEF GeoCommit
  <2>2. country' \in [Proxies -> Countries \cup {None}]
    BY <2>1 DEF PoolTypeOK
  <2> QED
    BY <1>4, <2>2 DEF GeoCommit, PoolTypeOK
<1> QED
  BY <1>1, <1>2, <1>3, <1>4 DEF PoolNext, Agents

\* What a selection returns: nothing exactly when nothing is selectable, else a
\* preferred candidate that is worse than none by more than the threshold.
LEMMA SelectionLemma ==
    ASSUME RoutingTypeOK, NEW cc, NEW st, NEW ex, NEW q \in Selections(cc, st, ex)
    PROVE  LET S == Preferred(Candidates(cc, ex))
           IN  IF S = {} THEN q = None
               ELSE q \in S /\ \A p \in S : rating[p] - rating[q] <= Threshold
<1> DEFINE S == Preferred(Candidates(cc, ex))
<1>1. CASE S = {}
  BY <1>1 DEF Selections
<1>2. CASE S # {}
  <2>1. q \in S
    BY <1>2 DEF Selections
  <2>2. PICK T \in Tops(S) :
           IF st \in T /\ CloseToBest(T, st) THEN q = st ELSE q \in Best(T)
    BY <1>2 DEF Selections
  <2>3. T \subseteq S /\ \A p \in T, r \in S \ T : rating[p] >= rating[r]
    BY <2>2 DEF Tops
  <2>4. \A p \in S : rating[p] \in Nat
    BY RoutingAssumption DEF RoutingTypeOK, Preferred, Candidates
  <2>5. q \in T /\ \A b \in T : rating[b] - rating[q] <= Threshold
    <3>1. CASE st \in T /\ CloseToBest(T, st)
      BY <2>2, <3>1 DEF CloseToBest
    <3>2. CASE ~(st \in T /\ CloseToBest(T, st))
      <4>1. q \in T /\ \A b \in T : rating[q] >= rating[b]
        BY <2>2, <3>2 DEF Best
      <4> QED
        BY <2>3, <2>4, <4>1, RoutingAssumption
    <3> QED
      BY <3>1, <3>2
  <2>6. \A p \in S : rating[p] - rating[q] <= Threshold
    BY <2>3, <2>4, <2>5, RoutingAssumption
  <2> QED
    BY <1>2, <2>1, <2>6
<1> QED
  BY <1>1, <1>2

\* The preferred candidates are candidates, some if there are any, and none is
\* in quarantine unless all are.
LEMMA PreferredLemma ==
    ASSUME NEW cc, NEW ex
    PROVE  LET C == Candidates(cc, ex)
           IN  /\ Preferred(C) \subseteq C
               /\ Preferred(C) = {} => C = {}
               /\ \A q \in Preferred(C) : quarantined[q] => \A p \in C : quarantined[p]
BY DEF Preferred

\* Selections return proxies or nothing.
LEMMA SelectionType ==
    ASSUME RoutingTypeOK, NEW cc, NEW st, NEW ex, NEW q \in Selections(cc, st, ex)
    PROVE  q \in Proxies \cup {None}
<1>1. Preferred(Candidates(cc, ex)) \subseteq Proxies
  BY PreferredLemma DEF Candidates
<1>2. q = None \/ q \in Preferred(Candidates(cc, ex))
  BY SelectionLemma
<1> QED
  BY <1>1, <1>2

(* Types are not inductive alone: the proxy a failure adds to `tried' is    *)
(* one only because who dials has a proxy, and the attempts stay in range  *)
(* because who reroutes was not at the last one.                           *)
RoutingInv ==
    /\ RoutingTypeOK
    /\ \A h \in Handlers :
          /\ phase[h] = "dial" => using[h] # None
          /\ phase[h] = "reroute" => attempt[h] + 1 < MaxAttempts

\* What a handler's step leaves alone or writes as the selection says.
LEMMA AssignType ==
    ASSUME RoutingTypeOK, NEW s \in Sessions, NEW q \in Proxies \cup {None},
           Assign(s, q) \/ UNCHANGED <<assigned, sticky>>
    PROVE  /\ assigned' \in [Sessions -> Proxies \cup {None}]
           /\ sticky' \in [Sessions -> Proxies \cup {None}]
BY DEF Assign, RoutingTypeOK

\* A handler without a connection has what Init gave it.
LEMMA FinishType ==
    ASSUME RoutingInv, NEW h \in Handlers, Finish(h), RoutingTypeOK'
    PROVE  RoutingInv'
<1>1. phase'[h] = "idle"
  <2>1. phase \in [Handlers -> {"idle", "open", "dial", "refused", "reroute"}]
    BY DEF RoutingInv, RoutingTypeOK
  <2> QED
    BY <2>1 DEF Finish
<1>2. \A g \in Handlers \ {h} : phase'[g] = phase[g] /\ using'[g] = using[g] /\ attempt'[g] = attempt[g]
  BY DEF Finish, RoutingInv, RoutingTypeOK
<1> QED
  BY <1>1, <1>2 DEF RoutingInv

\* Each step of a handler keeps the invariant.
LEMMA HandlerStepInv ==
    ASSUME RoutingInv, NEW h \in Handlers, HandlerStep(h)
    PROVE  RoutingInv'
<1> USE PoolAssumption, RoutingAssumption DEF RoutingInv
<1>1. UNCHANGED poolVars /\ UNCHANGED rating /\ UNCHANGED moves
  BY DEF HandlerStep, OpenSession, OpenConnection, DialFails, Reroute, Leaves, routeVars
<1>2. PoolTypeOK' /\ rating' \in [Proxies -> Ratings] /\ moves' \in 0..MaxMoves
  BY <1>1 DEF RoutingTypeOK, PoolTypeOK, poolVars, rowVars
<1>3. SessionOf[h] \in Sessions
  OBVIOUS
<1>4. CASE OpenSession(h)
  <2>1. /\ assigned' \in [Sessions -> Proxies \cup {None}]
        /\ sticky' \in [Sessions -> Proxies \cup {None}]
    <3>1. CASE opened[SessionOf[h]]
      BY <1>4, <3>1 DEF OpenSession, RoutingTypeOK
    <3>2. CASE ~opened[SessionOf[h]]
      <4>1. PICK q \in Selections(AccountCountry[SessionOf[h]], None, {}) : Assign(SessionOf[h], q)
        BY <1>4, <3>2 DEF OpenSession
      <4> QED
        BY <1>3, <4>1, SelectionType, AssignType
    <3> QED
      BY <3>1, <3>2
  <2>2. opened' \in [Sessions -> BOOLEAN]
    BY <1>4 DEF OpenSession, RoutingTypeOK
  <2> QED
    BY <1>2, <1>4, <2>1, <2>2 DEF OpenSession, RoutingTypeOK
<1>5. CASE OpenConnection(h)
  <2>1. PICK q \in Proxies \cup {None} :
           /\ Ensure(SessionOf[h], q)
           /\ using' = [using EXCEPT ![h] = q]
           /\ phase' = [phase EXCEPT ![h] = IF q = None THEN "refused" ELSE "dial"]
    BY <1>5 DEF OpenConnection
  <2>2. /\ assigned' \in [Sessions -> Proxies \cup {None}]
        /\ sticky' \in [Sessions -> Proxies \cup {None}]
    BY <1>3, <2>1, AssignType DEF Ensure
  <2> QED
    BY <1>2, <1>5, <2>1, <2>2 DEF OpenConnection, RoutingTypeOK
<1>6. CASE DialFails(h)
  <2>1. using[h] \in Proxies
    BY <1>6 DEF DialFails, RoutingTypeOK
  <2> QED
    BY <1>2, <1>6, <2>1 DEF DialFails, RoutingTypeOK, routeVars
<1>7. CASE Reroute(h)
  <2>1. PICK q \in Selections(AccountCountry[SessionOf[h]], None, tried[h]) :
           /\ Assign(SessionOf[h], q)
           /\ IF q = None THEN Finish(h)
              ELSE /\ phase'   = [phase EXCEPT ![h] = "open"]
                   /\ using'   = [using EXCEPT ![h] = None]
                   /\ attempt' = [attempt EXCEPT ![h] = @ + 1]
                   /\ UNCHANGED tried
    BY <1>7 DEF Reroute
  <2>2. /\ assigned' \in [Sessions -> Proxies \cup {None}]
        /\ sticky' \in [Sessions -> Proxies \cup {None}]
    BY <1>3, <2>1, SelectionType, AssignType
  <2>3. CASE Finish(h)
    <3>1. RoutingTypeOK'
      BY <1>2, <1>7, <2>2, <2>3 DEF Reroute, Finish, RoutingTypeOK
    <3> QED
      BY <2>3, <3>1, FinishType
  <2>4. CASE /\ phase'   = [phase EXCEPT ![h] = "open"]
             /\ using'   = [using EXCEPT ![h] = None]
             /\ attempt' = [attempt EXCEPT ![h] = @ + 1]
             /\ UNCHANGED tried
    <3>1. attempt[h] + 1 \in 0..MaxAttempts - 1
      BY <1>7 DEF Reroute, RoutingTypeOK
    <3> QED
      BY <1>2, <1>7, <2>2, <2>4, <3>1 DEF Reroute, RoutingTypeOK
  <2> QED
    BY <2>1, <2>3, <2>4
<1>8. CASE Leaves(h)
  <2>1. RoutingTypeOK'
    BY <1>2, <1>8 DEF Leaves, Finish, RoutingTypeOK, routeVars
  <2> QED
    BY <1>8, <2>1, FinishType DEF Leaves
<1> QED
  BY <1>4, <1>5, <1>6, <1>7, <1>8 DEF HandlerStep

\* The invariant holds of every behaviour.
THEOREM RoutingInvariant == RoutingSpec => []RoutingInv
<1>1. RoutingInit => RoutingInv
  BY PoolAssumption, RoutingAssumption
     DEF RoutingInit, RoutingInv, RoutingTypeOK, PoolTypeOK, ProxyStatus
<1>2. RoutingInv /\ [RoutingNext]_vars => RoutingInv'
  <2> SUFFICES ASSUME RoutingInv, [RoutingNext]_vars
               PROVE  RoutingInv'
    OBVIOUS
  <2>1. ASSUME NEW h \in Handlers, HandlerStep(h)
        PROVE  RoutingInv'
    BY <2>1, HandlerStepInv
  <2>2. ASSUME NEW s \in Sessions, NEW q \in Proxies, Failover(s, q)
        PROVE  RoutingInv'
    BY <2>2, RoutingAssumption DEF Failover, Move, RoutingInv, RoutingTypeOK, PoolTypeOK, poolVars, rowVars,
       handlerVars
  <2>3. ASSUME NEW p \in Proxies, NEW r \in Ratings, Rate(p, r)
        PROVE  RoutingInv'
    BY <2>3, RoutingAssumption DEF Rate, Move, RoutingInv, RoutingTypeOK, PoolTypeOK, poolVars, rowVars,
       handlerVars
  <2>4. CASE PoolChanges
    <3>1. PoolTypeOK'
      BY <2>4, PoolTypeStep DEF PoolChanges, RoutingInv, RoutingTypeOK
    <3> QED
      BY <2>4, <3>1, RoutingAssumption DEF PoolChanges, Move, RoutingInv, RoutingTypeOK, routeVars, handlerVars
  <2>5. CASE UNCHANGED vars
    BY <2>5 DEF vars, poolVars, rowVars, routeVars, handlerVars, RoutingInv, RoutingTypeOK, PoolTypeOK
  <2> QED
    BY <2>1, <2>2, <2>3, <2>4, <2>5 DEF RoutingNext
<1> QED
  BY <1>1, <1>2, PTL DEF RoutingSpec

\* Type correctness of the pool, the assignments and the handlers' attempts.
THEOREM RoutingTypeCorrect == RoutingSpec => []RoutingTypeOK
<1>1. RoutingInv => RoutingTypeOK
  BY DEF RoutingInv
<1> QED
  BY <1>1, RoutingInvariant, PTL

-----------------------------------------------------------------------------
\* Only OpenConnection makes a handler dial or be refused; it sets what it uses
\* to the kept or the selected proxy.
LEMMA OpensByEnsure ==
    ASSUME RoutingInv, [RoutingNext]_vars, NEW h \in Handlers,
           phase'[h] \in {"dial", "refused"}, phase[h] # phase'[h]
    PROVE  \E q \in Proxies \cup {None} :
              /\ Ensure(SessionOf[h], q)
              /\ using'[h] = q
              /\ phase'[h] = (IF q = None THEN "refused" ELSE "dial")
<1>1. PICK g \in Handlers : HandlerStep(g)
  BY DEF RoutingNext, Failover, Rate, PoolChanges, handlerVars, vars
<1>2. OpenConnection(g) /\ g = h
  BY <1>1 DEF HandlerStep, OpenSession, OpenConnection, DialFails, Reroute, Leaves, Finish,
     RoutingInv, RoutingTypeOK
<1> QED
  BY <1>2 DEF OpenConnection, RoutingInv, RoutingTypeOK

\* A connection never goes through a proxy that is out of use, nor through a
\* quarantined one when its account has another, whatever moved the session.
THEOREM DialsUsableTheorem == RoutingSpec => DialsUsable
<1>1. ASSUME RoutingInv, [RoutingNext]_vars, NEW h \in Handlers, Dials(h)
      PROVE  /\ Usable(using'[h])
             /\ quarantined[using'[h]] =>
                   \A p \in Candidates(AccountCountry[SessionOf[h]], {}) : quarantined[p]
  <2>1. PICK q \in Proxies \cup {None} :
           Ensure(SessionOf[h], q) /\ using'[h] = q /\ phase'[h] = (IF q = None THEN "refused" ELSE "dial")
    BY <1>1, OpensByEnsure DEF Dials
  <2>2. q # None
    BY <1>1, <2>1 DEF Dials
  <2>3. CASE Kept(SessionOf[h]) /\ q = assigned[SessionOf[h]]
    BY <2>1, <2>3 DEF Kept
  <2>4. CASE q \in Selections(AccountCountry[SessionOf[h]], sticky[SessionOf[h]], {})
    <3>1. q \in Preferred(Candidates(AccountCountry[SessionOf[h]], {}))
      BY <1>1, <2>2, <2>4, SelectionLemma DEF RoutingInv
    <3>2. q \in Candidates(AccountCountry[SessionOf[h]], {})
      BY <3>1, PreferredLemma
    <3> QED
      BY <2>1, <3>1, <3>2, PreferredLemma DEF Candidates
  <2> QED
    BY <2>1, <2>3, <2>4 DEF Ensure
<1>2. RoutingInv /\ [RoutingNext]_vars =>
         [\A h \in Handlers : Dials(h) =>
             /\ Usable(using'[h])
             /\ quarantined[using'[h]] =>
                   \A p \in Candidates(AccountCountry[SessionOf[h]], {}) : quarantined[p]]_vars
  BY <1>1
<1> QED
  BY <1>2, RoutingInvariant, PTL DEF RoutingSpec, DialsUsable

\* A client is refused only for want of any candidate.
THEOREM RefusedTheorem == RoutingSpec => RefusedOnlyIfNone
<1>1. ASSUME RoutingInv, [RoutingNext]_vars, NEW h \in Handlers,
             phase[h] # "refused", phase'[h] = "refused"
      PROVE  Candidates(AccountCountry[SessionOf[h]], {}) = {}
  <2>1. PICK q \in Proxies \cup {None} :
           Ensure(SessionOf[h], q) /\ using'[h] = q /\ phase'[h] = (IF q = None THEN "refused" ELSE "dial")
    BY <1>1, OpensByEnsure
  <2>2. q = None
    BY <1>1, <2>1
  <2>3. q \in Selections(AccountCountry[SessionOf[h]], sticky[SessionOf[h]], {})
    BY <2>1, <2>2 DEF Ensure, Kept
  <2>4. None \notin Preferred(Candidates(AccountCountry[SessionOf[h]], {}))
    BY PoolAssumption DEF Preferred, Candidates
  <2>5. Preferred(Candidates(AccountCountry[SessionOf[h]], {})) = {}
    BY <1>1, <2>2, <2>3, <2>4, SelectionLemma DEF RoutingInv
  <2> QED
    BY <2>5, PreferredLemma
<1>2. RoutingInv /\ [RoutingNext]_vars =>
         [\A h \in Handlers : phase[h] # "refused" /\ phase'[h] = "refused" =>
             Candidates(AccountCountry[SessionOf[h]], {}) = {}]_vars
  BY <1>1
<1> QED
  BY <1>2, RoutingInvariant, PTL DEF RoutingSpec, RefusedOnlyIfNone

\* Stickiness costs no more than the threshold, for every rating and limit.
THEOREM StickyCostTheorem == RoutingSpec => StickyCostBounded
<1>1. ASSUME RoutingInv, [RoutingNext]_vars, NEW h \in Handlers, Dials(h),
             assigned'[SessionOf[h]] # assigned[SessionOf[h]]
      PROVE  \A p \in Preferred(Candidates(AccountCountry[SessionOf[h]], {})) :
                rating[p] - rating[using'[h]] <= Threshold
  <2>1. PICK q \in Proxies \cup {None} :
           Ensure(SessionOf[h], q) /\ using'[h] = q /\ phase'[h] = (IF q = None THEN "refused" ELSE "dial")
    BY <1>1, OpensByEnsure DEF Dials
  <2>2. q \in Selections(AccountCountry[SessionOf[h]], sticky[SessionOf[h]], {})
    BY <1>1, <2>1 DEF Ensure
  <2> QED
    BY <1>1, <2>1, <2>2, SelectionLemma DEF RoutingInv
<1>2. RoutingInv /\ [RoutingNext]_vars =>
         [\A h \in Handlers : Dials(h) /\ assigned'[SessionOf[h]] # assigned[SessionOf[h]] =>
             \A p \in Preferred(Candidates(AccountCountry[SessionOf[h]], {})) :
                 rating[p] - rating[using'[h]] <= Threshold]_vars
  BY <1>1
<1> QED
  BY <1>2, RoutingInvariant, PTL DEF RoutingSpec, StickyCostBounded

-----------------------------------------------------------------------------
(* Retries.  A handler that has its session for itself, over a pool nobody *)
(* has touched, starts with nothing tried; a reroute leaves its session    *)
(* with a proxy that is kept, and that was not tried.                      *)
Undisturbed == moves = 0 /\ \A p \in Proxies : ~quarantined[p]
Alone(h)    == \A g \in Handlers \ {h} : SessionOf[g] # SessionOf[h]

TriedOK(h) ==
    /\ phase[h] = "idle" => tried[h] = {}
    /\ phase[h] = "open" /\ tried[h] # {} =>
          Kept(SessionOf[h]) /\ assigned[SessionOf[h]] \notin tried[h]
    /\ phase[h] = "dial" => using[h] \notin tried[h]

RetryInv == Undisturbed => \A h \in Handlers : Alone(h) => TriedOK(h)

\* Without a step of somebody else the pool and the ratings are as they were.
LEMMA UndisturbedStep ==
    ASSUME RoutingInv, [RoutingNext]_vars, Undisturbed'
    PROVE  /\ Undisturbed
           /\ UNCHANGED <<poolVars, rating, moves>>
           /\ UNCHANGED vars \/ \E h \in Handlers : HandlerStep(h)
<1>1. ~Move
  BY DEF Undisturbed, Move, RoutingInv, RoutingTypeOK
<1>2. UNCHANGED vars \/ \E h \in Handlers : HandlerStep(h)
  BY <1>1 DEF RoutingNext, Failover, Rate, PoolChanges
<1>3. UNCHANGED <<poolVars, rating, moves>>
  BY <1>2 DEF HandlerStep, OpenSession, OpenConnection, DialFails, Reroute, Leaves, routeVars,
     vars
<1> QED
  BY <1>2, <1>3 DEF Undisturbed, poolVars, rowVars

\* A step of another handler leaves what is tried, and the session, to who is alone.
LEMMA OthersLeaveAlone ==
    ASSUME RoutingInv, NEW h \in Handlers, Alone(h), NEW g \in Handlers \ {h}, HandlerStep(g)
    PROVE  /\ phase'[h] = phase[h] /\ using'[h] = using[h] /\ tried'[h] = tried[h]
           /\ assigned'[SessionOf[h]] = assigned[SessionOf[h]]
<1>1. SessionOf[g] # SessionOf[h] /\ SessionOf[g] \in Sessions /\ SessionOf[h] \in Sessions
  BY RoutingAssumption DEF Alone
<1> QED
  BY <1>1 DEF HandlerStep, OpenSession, OpenConnection, DialFails, Reroute, Leaves, Finish,
     Ensure, Assign, routeVars, RoutingInv, RoutingTypeOK

\* What a handler does itself: what it reroutes to is selectable and untried, and with
\* nobody to move the session that is what it connects through.
LEMMA OwnRetry ==
    ASSUME RoutingInv, Undisturbed, NEW h \in Handlers, TriedOK(h), HandlerStep(h),
           UNCHANGED poolVars
    PROVE  TriedOK(h)'
<1> USE DEF RoutingInv, RoutingTypeOK
<1>s. SessionOf[h] \in Sessions
  BY RoutingAssumption
<1>k. \A s : Kept(s)' <=> assigned'[s] # None /\ Usable(assigned'[s]) /\ ~quarantined[assigned'[s]]
  BY DEF Kept, Usable, poolVars, rowVars
<1>1. CASE OpenSession(h)
  BY <1>1 DEF OpenSession, TriedOK
<1>2. CASE OpenConnection(h)
  <2>1. PICK q \in Proxies \cup {None} :
           /\ Ensure(SessionOf[h], q)
           /\ using' = [using EXCEPT ![h] = q]
           /\ phase' = [phase EXCEPT ![h] = IF q = None THEN "refused" ELSE "dial"]
    BY <1>2 DEF OpenConnection
  <2>2. tried[h] # {} => q = assigned[SessionOf[h]] /\ q \notin tried[h]
    BY <1>2, <2>1 DEF OpenConnection, TriedOK, Ensure
  <2> QED
    BY <1>2, <2>1, <2>2 DEF OpenConnection, TriedOK
<1>3. CASE DialFails(h)
  BY <1>3 DEF DialFails, TriedOK
<1>4. CASE Reroute(h)
  <2>1. PICK q \in Selections(AccountCountry[SessionOf[h]], None, tried[h]) :
           /\ Assign(SessionOf[h], q)
           /\ IF q = None THEN Finish(h)
              ELSE /\ phase'   = [phase EXCEPT ![h] = "open"]
                   /\ using'   = [using EXCEPT ![h] = None]
                   /\ attempt' = [attempt EXCEPT ![h] = @ + 1]
                   /\ UNCHANGED tried
    BY <1>4 DEF Reroute
  <2>2. CASE q = None
    BY <2>1, <2>2 DEF Finish, TriedOK
  <2>3. CASE q # None
    <3>1. q \in Preferred(Candidates(AccountCountry[SessionOf[h]], tried[h]))
      BY <2>1, <2>3, SelectionLemma
    <3>2. q \in Proxies \ tried[h] /\ Usable(q) /\ ~quarantined[q]
      BY <3>1, PreferredLemma DEF Candidates, Undisturbed
    <3>3. assigned'[SessionOf[h]] = q
      BY <1>s, <2>1 DEF Assign
    <3>4. phase'[h] = "open" /\ tried'[h] = tried[h]
      BY <2>1, <2>3
    <3> QED
      BY <1>k, <2>3, <3>2, <3>3, <3>4 DEF TriedOK
  <2> QED
    BY <2>2, <2>3
<1>5. CASE Leaves(h)
  BY <1>5 DEF Leaves, Finish, TriedOK
<1> QED
  BY <1>1, <1>2, <1>3, <1>4, <1>5 DEF HandlerStep

LEMMA RetryStep ==
    ASSUME RoutingInv, RetryInv, [RoutingNext]_vars
    PROVE  RetryInv'
<1> SUFFICES ASSUME Undisturbed', NEW h \in Handlers, Alone(h)
             PROVE  TriedOK(h)'
  BY DEF RetryInv, Alone
<1>1. Undisturbed /\ UNCHANGED <<poolVars, rating, moves>>
  BY UndisturbedStep
<1>2. TriedOK(h)
  BY <1>1 DEF RetryInv
<1>3. CASE UNCHANGED vars
  BY <1>2, <1>3 DEF vars, poolVars, rowVars, routeVars, handlerVars, TriedOK, Kept, Usable
<1>4. ASSUME NEW g \in Handlers \ {h}, HandlerStep(g)
      PROVE  TriedOK(h)'
  <2>1. Kept(SessionOf[h])' <=> Kept(SessionOf[h])
    BY <1>1, <1>4, OthersLeaveAlone DEF Kept, Usable, poolVars, rowVars
  <2> QED
    BY <1>2, <1>4, <2>1, OthersLeaveAlone DEF TriedOK
<1>5. CASE HandlerStep(h)
  BY <1>1, <1>2, <1>5, OwnRetry
<1> QED
  BY <1>3, <1>4, <1>5, UndisturbedStep

THEOREM RetryInvariant == RoutingSpec => []RetryInv
<1>1. RoutingInit => RetryInv
  BY DEF RoutingInit, RetryInv, TriedOK
<1> QED
  BY <1>1, RetryStep, RoutingInvariant, PTL DEF RoutingSpec

\* Three attempts over three proxies are three proxies: the monitor, the agents, the
\* administrator and other connections of the client are all that can make a
\* connection dial the same proxy twice.
THEOREM RetryIsAlternateTheorem == RoutingSpec => []RetryIsAlternate
<1>1. RetryInv => RetryIsAlternate
  BY DEF RetryInv, RetryIsAlternate, Undisturbed, Alone, TriedOK
<1> QED
  BY <1>1, RetryInvariant, PTL

-----------------------------------------------------------------------------
(* Selections answer.  The rows a query reads, ordered by rating and cut   *)
(* at its limit, are there for every set of candidates, and so is a best   *)
(* one: by induction over the number of rows.                              *)

\* Some proxies have one of the highest rating.
LEMMA HighestRated ==
    ASSUME RoutingTypeOK, NEW X \in SUBSET Proxies, X # {}
    PROVE  \E b \in X : \A p \in X : rating[b] >= rating[p]
<1> DEFINE Has(Y) == \E b \in Y : \A p \in Y : rating[b] >= rating[p]
           S == {n \in Nat : \A Y \in SUBSET Proxies : Cardinality(Y) = n /\ Y # {} => Has(Y)}
<1>r. \A p \in Proxies : rating[p] \in Nat
  BY RoutingAssumption DEF RoutingTypeOK
<1>f. \A Y \in SUBSET Proxies : IsFiniteSet(Y) /\ Cardinality(Y) \in Nat
  BY RoutingAssumption, FS_Subset, FS_CardinalityType
<1>1. 0 \in S
  <2>1. \A Y \in SUBSET Proxies : Cardinality(Y) = 0 => Y = {}
    BY <1>f, FS_EmptySet
  <2> QED
    BY <2>1
<1>2. ASSUME NEW n \in Nat, n \in S
      PROVE  n + 1 \in S
  <2> SUFFICES ASSUME NEW Y \in SUBSET Proxies, Cardinality(Y) = n + 1, Y # {}
               PROVE  Has(Y)
    OBVIOUS
  <2>1. PICK x \in Y : TRUE
    OBVIOUS
  <2>2. Cardinality(Y \ {x}) = n
    <3>1. Cardinality(Y \ {x}) = Cardinality(Y) - 1
      BY <1>f, <2>1, FS_RemoveElement
    <3> QED
      BY <3>1
  <2>3. CASE Y \ {x} = {}
    <3>1. \A p \in Y : p = x
      BY <2>3
    <3> QED
      BY <1>r, <2>1, <3>1
  <2>4. CASE Y \ {x} # {}
    <3>1. Has(Y \ {x})
      BY <1>2, <2>2, <2>4
    <3>2. PICK b \in Y \ {x} : \A p \in Y \ {x} : rating[b] >= rating[p]
      BY <3>1
    <3>3. CASE rating[b] >= rating[x]
      BY <3>2, <3>3
    <3>4. CASE ~(rating[b] >= rating[x])
      <4>1. rating[b] \in Nat /\ rating[x] \in Nat /\ \A p \in Y : rating[p] \in Nat
        BY <1>r, <2>1, <3>2
      <4>2. ASSUME NEW p \in Y
            PROVE  rating[x] >= rating[p]
        <5>1. CASE p = x
          BY <4>1, <5>1
        <5>2. CASE p # x
          <6>1. rating[b] >= rating[p]
            BY <3>2, <5>2
          <6>2. rating[p] \in Nat
            BY <4>1
          <6> QED
            BY <3>4, <4>1, <6>1, <6>2
        <5> QED
          BY <5>1, <5>2
      <4> QED
        BY <2>1, <4>2
    <3> QED
      BY <3>3, <3>4
  <2> QED
    BY <2>3, <2>4
<1> HIDE DEF S
<1>3. Nat \subseteq S
  BY <1>1, <1>2, SetInduction
<1> QED
  BY <1>f, <1>3 DEF S

\* The n highest rated of S, for any n up to its size.
LEMMA HighestRows ==
    ASSUME RoutingTypeOK, NEW S \in SUBSET Proxies, NEW k \in Nat, k <= Cardinality(S)
    PROVE  \E T \in SUBSET S : /\ Cardinality(T) = k
                              /\ \A p \in T, q \in S \ T : rating[p] >= rating[q]
<1> DEFINE Cut(n, T) == Cardinality(T) = n /\ \A p \in T, q \in S \ T : rating[p] >= rating[q]
           N == {n \in Nat : n <= Cardinality(S) => \E T \in SUBSET S : Cut(n, T)}
<1>r. \A p \in Proxies : rating[p] \in Nat
  BY RoutingAssumption DEF RoutingTypeOK
<1>f. \A Y \in SUBSET S : IsFiniteSet(Y) /\ Cardinality(Y) \in Nat
  BY RoutingAssumption, FS_Subset, FS_CardinalityType
<1>1. 0 \in N
  <2>1. Cut(0, {})
    BY FS_EmptySet
  <2> QED
    BY <2>1
<1>2. ASSUME NEW n \in Nat, n \in N
      PROVE  n + 1 \in N
  <2> SUFFICES ASSUME n + 1 <= Cardinality(S)
               PROVE  \E T \in SUBSET S : Cut(n + 1, T)
    OBVIOUS
  <2>1. PICK T \in SUBSET S : Cut(n, T)
    BY <1>2, <1>f
  <2>2. S \ T # {} /\ S \ T \subseteq Proxies
    <3>1. T # S
      BY <1>f, <2>1
    <3> QED
      BY <3>1
  <2>3. PICK b \in S \ T : \A q \in S \ T : rating[b] >= rating[q]
    BY <2>2, HighestRated
  <2>4. Cardinality(T \cup {b}) = n + 1
    BY <1>f, <2>1, <2>3, FS_AddElement
  <2>5. \A p \in T \cup {b}, q \in S \ (T \cup {b}) : rating[p] >= rating[q]
    BY <2>1, <2>3
  <2> QED
    BY <2>4, <2>5
<1> HIDE DEF N
<1>3. Nat \subseteq N
  BY <1>1, <1>2, SetInduction
<1> QED
  BY <1>3 DEF N

LEMMA SelectionAnswers ==
    ASSUME RoutingTypeOK, NEW cc, NEW st, NEW ex
    PROVE  Selections(cc, st, ex) # {}
<1> DEFINE S == Preferred(Candidates(cc, ex))
<1>1. CASE S = {}
  BY <1>1 DEF Selections
<1>2. CASE S # {}
  <2>1. S \in SUBSET Proxies /\ IsFiniteSet(S) /\ Cardinality(S) \in Nat
    BY PreferredLemma, RoutingAssumption, FS_Subset, FS_CardinalityType DEF Candidates
  <2> HIDE DEF S
  <2>2. Cardinality(S) # 0
    BY <1>2, <2>1, FS_EmptySet
  <2> DEFINE n == IF Cardinality(S) < Limit THEN Cardinality(S) ELSE Limit
  <2>3. n \in Nat /\ n <= Cardinality(S) /\ n # 0
    BY <2>1, <2>2, RoutingAssumption
  <2>4. PICK T \in SUBSET S : /\ Cardinality(T) = n
                             /\ \A p \in T, q \in S \ T : rating[p] >= rating[q]
    BY <2>1, <2>3, HighestRows
  <2>5. T \in Tops(S)
    BY <2>4 DEF Tops
  <2>6. T # {} /\ T \in SUBSET Proxies
    BY <2>1, <2>3, <2>4, FS_EmptySet
  <2>7. PICK b \in T : \A p \in T : rating[b] >= rating[p]
    BY <2>6, HighestRated
  <2>8. b \in Best(T)
    BY <2>7 DEF Best
  <2>9. \E q \in S : IF st \in T /\ CloseToBest(T, st) THEN q = st ELSE q \in Best(T)
    BY <2>4, <2>7, <2>8
  <2>10. PICK q \in S : IF st \in T /\ CloseToBest(T, st) THEN q = st ELSE q \in Best(T)
    BY <2>9
  <2>11. q \in Selections(cc, st, ex)
    BY <1>2, <2>5, <2>10 DEF Selections, S
  <2> QED
    BY <2>11
<1> QED
  BY <1>1, <1>2

\* What select_proxy_for_account is for, whatever the pool, the sticky proxy and the
\* exclusions: it always answers; with nothing only if there is no candidate; else
\* with a candidate that is in quarantine only if all are, and that is at most the
\* threshold worse than the best.
SelectionCorrect ==
    \A cc \in Countries \cup {None}, st \in Proxies \cup {None}, ex \in SUBSET Proxies :
        LET answers == Selections(cc, st, ex)
            C       == Candidates(cc, ex)
        IN  /\ answers # {}
            /\ None \in answers <=> C = {}
            /\ \A q \in answers \ {None} :
                  /\ q \in C
                  /\ quarantined[q] => \A p \in C : quarantined[p]
                  /\ \A p \in Preferred(C) : rating[p] - rating[q] <= Threshold

\* The selection is right in every state of the pool and of the ratings.
THEOREM SelectionTheorem == RoutingSpec => []SelectionCorrect
<1>1. ASSUME RoutingTypeOK
      PROVE  SelectionCorrect
  <2> SUFFICES ASSUME NEW cc \in Countries \cup {None}, NEW st \in Proxies \cup {None},
                      NEW ex \in SUBSET Proxies
               PROVE  LET answers == Selections(cc, st, ex)
                          C       == Candidates(cc, ex)
                      IN  /\ answers # {}
                          /\ None \in answers <=> C = {}
                          /\ \A q \in answers \ {None} :
                                /\ q \in C
                                /\ quarantined[q] => \A p \in C : quarantined[p]
                                /\ \A p \in Preferred(C) : rating[p] - rating[q] <= Threshold
    BY DEF SelectionCorrect
  <2> DEFINE answers == Selections(cc, st, ex)
             C       == Candidates(cc, ex)
  <2>1. answers # {}
    BY <1>1, SelectionAnswers
  <2>2. \A q \in answers : IF Preferred(C) = {} THEN q = None
                           ELSE q \in Preferred(C) /\ \A p \in Preferred(C) :
                                                         rating[p] - rating[q] <= Threshold
    BY <1>1, SelectionLemma
  <2>3. /\ Preferred(C) \subseteq C
        /\ Preferred(C) = {} => C = {}
        /\ \A q \in Preferred(C) : quarantined[q] => \A p \in C : quarantined[p]
    BY PreferredLemma
  <2>4. None \notin C
    BY PoolAssumption DEF Candidates
  <2> HIDE DEF answers, C
  <2>5. None \in answers <=> C = {}
    BY <2>1, <2>2, <2>3, <2>4
  <2>6. \A q \in answers \ {None} :
           /\ q \in C
           /\ quarantined[q] => \A p \in C : quarantined[p]
           /\ \A p \in Preferred(C) : rating[p] - rating[q] <= Threshold
    BY <2>2, <2>3
  <2> QED
    BY <2>1, <2>5, <2>6 DEF answers, C
<1> QED
  BY <1>1, RoutingTypeCorrect, PTL
=============================================================================
