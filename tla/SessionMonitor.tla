--------------------------- MODULE SessionMonitor ---------------------------
(***************************************************************************)
(* The session monitor: a thread for each watched session measures the     *)
(* proxy it was told and moves the session to a fallback when it has       *)
(* failed often enough.  The threads run beside the gateway and the        *)
(* administrator (SessionLedger) and beside their caller, which starts     *)
(* them for the sessions of a list it has read and stops them all at once. *)
(* Here the caller is arbitrary; module Orchestrator is the real one.      *)
(*                                                                         *)
(* A thread looks at its stop event at the top of its loop only: stopped   *)
(* in the middle of an iteration, it completes it (`lingering').           *)
(*                                                                         *)
(* Abstracted: the pool (the best other proxy is any other, or none), the  *)
(* intervals (the TCP check may be due in any iteration), and what is      *)
(* measured of the fallback, which is only logged.                         *)
(***************************************************************************)
EXTENDS SessionLedger

CONSTANTS
    Threshold,   \* FAIL_THRESHOLD
    Ailments,    \* the conditions a proxy may fall into
    MayMiscount, \* bound: whether failures that make the count wrong are considered
    MaxTurns,    \* bound: changes of a proxy's condition
    MaxErrors    \* bound: updates that fail

Conditions == {"up", "silent", "refusing", "down"}

ASSUME MonitorAssumption ==
    /\ None \notin Proxies /\ IsFiniteSet(Sessions)
    /\ Threshold \in Nat \ {0}
    /\ Ailments \subseteq Conditions
    /\ MayMiscount \in BOOLEAN /\ MaxTurns \in Nat /\ MaxErrors \in Nat

VARIABLES
    thread,     \* the thread of each session in _threads, or None
    lingering,  \* threads told to stop in the middle of an iteration
    found,      \* the proxies of the listed sessions that are not started yet
    health, turns, errors

monitorVars == <<thread, lingering, found>>
worldVars   == <<health, turns>>
vars        == <<ledgerVars, monitorVars, worldVars, errors>>

Threads == [session: Sessions, assigned: Proxies, fallback: Proxies \cup {None},
            fails: 0..Threshold + 1, at: {"top", "measure", "failover", "pick"}]

MonitorTypeOK ==
    /\ LedgerTypeOK
    /\ thread    \in [Sessions -> Threads \cup {None}]
    /\ lingering \subseteq Threads
    /\ found     \in [Sessions -> Proxies \cup {None}]
    /\ health    \in [Proxies -> Conditions]
    /\ turns     \in 0..MaxTurns
    /\ errors    \in 0..MaxErrors

NoThreads == [s \in Sessions |-> None]

MonitorInit ==
    /\ LedgerInit
    /\ thread = NoThreads /\ lingering = {} /\ found = NoThreads
    /\ health = [p \in Proxies |-> "up"]
    /\ turns = 0 /\ errors = 0

-----------------------------------------------------------------------------
(* Measuring.  "silent" proxies do not answer pings, "refusing" ones do    *)
(* but refuse the SOCKS connection.                                        *)
Pings(p)    == health[p] \in {"up", "refusing"}
Connects(p) == health[p] \in {"up", "silent"}

\* mutant of Fails: the count is not carried from one iteration to the next
FailsOfIteration(t, due) ==
    LET pinged == IF Pings(t.assigned) THEN 0 ELSE 1
    IN CASE ~due                 -> pinged
         [] Connects(t.assigned) -> 0
         [] OTHER                -> pinged + 1

\* assigned_fails after an iteration: a ping that is answered forgets everything
Fails(t, due) ==
    LET pinged == IF Pings(t.assigned) THEN 0 ELSE t.fails + 1
    IN CASE ~due                 -> pinged
         [] Connects(t.assigned) -> IF pinged = 0 THEN 0 ELSE pinged - 1
         [] OTHER                -> pinged + 1

\* without a fallback the count leads to nothing, and none is looked for again
Measured(t, due) ==
    LET fails == IF t.fallback = None THEN 0 ELSE Fails(t, due)
    IN [t EXCEPT !.fails = fails, !.at = IF fails >= Threshold THEN "failover" ELSE "top"]

Measure(t, u) ==
    /\ t.at = "measure"
    /\ \E due \in BOOLEAN : u = Measured(t, due)
    /\ UNCHANGED <<assigned, errors>>

Swapped(t) == [t EXCEPT !.assigned = t.fallback, !.at = "pick"]

\* _trigger_failover updates the row of an active session, or fails; the thread
\* goes on with the fallback in either case
FailOver(t, u) ==
    /\ t.at = "failover"
    /\ u = Swapped(t)
    /\ \/ /\ assigned' = IF t.session \in Active
                         THEN [assigned EXCEPT ![t.session] = t.fallback] ELSE assigned
          /\ UNCHANGED errors
       \/ errors < MaxErrors /\ errors' = errors + 1 /\ UNCHANGED assigned

\* the thread at the top of its loop, with fallback f
Renewed(t, f) == [t EXCEPT !.fallback = f, !.fails = 0, !.at = "top"]

\* mutant of Pick: the best proxy, which may be the one just swapped in
PickBest(t, u) ==
    /\ t.at = "pick"
    /\ \E f \in Proxies \cup {None} : u = Renewed(t, f)
    /\ UNCHANGED <<assigned, errors>>

\* _get_next_fallback (None when the query fails)
Pick(t, u) ==
    /\ t.at = "pick"
    /\ \E f \in (Proxies \ {t.assigned}) \cup {None} : u = Renewed(t, f)
    /\ UNCHANGED <<assigned, errors>>

Body(t, u) == Measure(t, u) \/ FailOver(t, u) \/ Pick(t, u)

\* what t can be after its next step, for TLC to enumerate
After(t) == {Swapped(t)} \cup {Measured(t, due) : due \in BOOLEAN}
            \cup {Renewed(t, f) : f \in Proxies \cup {None}}

ThreadRuns(s) ==
    LET t == thread[s] IN
    /\ t # None
    /\ \/ /\ t.at = "top"
          /\ thread' = [thread EXCEPT ![s].at = "measure"]
          /\ UNCHANGED <<assigned, errors>>
       \/ \E u \in After(t) : Body(t, u) /\ thread' = [thread EXCEPT ![s] = u]
    /\ UNCHANGED <<life, seen, exact, lingering, found, worldVars>>

\* back at the top it sees that it was stopped
LingeringRuns(t) ==
    /\ t \in lingering
    /\ \E u \in After(t) :
          /\ Body(t, u)
          /\ lingering' = (lingering \ {t}) \cup (IF u.at = "top" THEN {} ELSE {u})
    /\ UNCHANGED <<life, seen, exact, thread, found, worldVars>>

-----------------------------------------------------------------------------
(* The caller's side *)

\* get_active_sessions, less those that are watched already
FindSessions ==
    /\ found' = [s \in Sessions |-> IF s \in Active /\ thread[s] = None
                                    THEN assigned[s] ELSE None]
    /\ UNCHANGED <<thread, lingering>>

\* get_fallback_proxy and start_monitoring for the next session of the list
StartMonitoring(s) ==
    /\ found[s] # None
    /\ \E f \in (Proxies \ {found[s]}) \cup {None} :
          thread' = [thread EXCEPT ![s] =
                        [session |-> s, assigned |-> found[s], fallback |-> f,
                         fails |-> 0, at |-> "top"]]
    /\ found' = [found EXCEPT ![s] = None]
    /\ UNCHANGED lingering

StopAll ==
    /\ lingering' = lingering \cup
          {thread[s] : s \in {r \in Sessions : thread[r] # None /\ thread[r].at # "top"}}
    /\ thread' = NoThreads
    /\ UNCHANGED found

-----------------------------------------------------------------------------
\* a proxy falls ill or recovers
HealthTurns ==
    /\ turns < MaxTurns /\ turns' = turns + 1
    /\ \E p \in Proxies, h \in Ailments \cup {"up"} :
          h # health[p] /\ health' = [health EXCEPT ![p] = h]
    /\ UNCHANGED <<ledgerVars, monitorVars, errors>>

\* Sessions open, move and end, and counts fail, at any time.  The backend moves one
\* when no other handler is between its two writes; the proxy of a session that has
\* ended is read by nobody, and its moves are left out.
\* bound: a wrong count, if any, is none or all; the caller asks if there are any
SessionsGoOn ==
    /\ LedgerNext
    /\ assigned' # assigned => Settled
    /\ \A s \in Sessions : life[s] = "ended" => assigned'[s] = assigned[s]
    /\ exact' \/ (MayMiscount /\ seen' \in {0, Cardinality(Sessions)})
    /\ UNCHANGED <<monitorVars, worldVars, errors>>

ThreadsRun == (\E s \in Sessions : ThreadRuns(s)) \/ (\E t \in lingering : LingeringRuns(t))

\* bound: threads are stopped when those stopped before have left
Caller == /\ \/ found = NoThreads /\ FindSessions
             \/ \E s \in Sessions : StartMonitoring(s)
             \/ found = NoThreads /\ lingering = {} /\ StopAll
          /\ UNCHANGED <<ledgerVars, worldVars, errors>>

MonitorNext == Caller \/ ThreadsRun \/ SessionsGoOn \/ HealthTurns

\* threads run, whatever their caller does
MonitorSpec == /\ MonitorInit /\ [][MonitorNext]_vars
               /\ \A s \in Sessions : WF_vars(ThreadRuns(s))

-----------------------------------------------------------------------------
\* The proxy a thread would fall back to is never the one it watches, not even
\* for the threads that were stopped, whose fallback was picked after a swap.
FallbackIsOther ==
    \A t \in lingering \cup {thread[s] : s \in Sessions} :
        t # None /\ t.at # "pick" => t.assigned # t.fallback

\* the thread of s watches p and has a proxy to go to
Watches(s, p) == /\ thread[s] # None /\ thread[s].at # "pick"
                 /\ thread[s].assigned = p /\ thread[s].fallback # None

\* A session whose proxy has failed for good is moved away from it, as long as a
\* thread watches that proxy for it and the update of its row does not fail.
FailedIsLeft ==
    \A s \in Sessions, p \in Proxies :
        (s \in Active /\ assigned[s] = p /\ Watches(s, p) /\ health[p] = "down" /\ errors = 0)
            ~> (assigned[s] # p \/ s \notin Active \/ thread[s] = None \/ health[p] # "down"
                \/ errors > 0)
=============================================================================
