--------------------------- MODULE SessionLedger ---------------------------
(***************************************************************************)
(* What the session store promises the workers: the life of a session, the *)
(* proxy its row names, and the number of sessions they are told.  Module  *)
(* SessionStore implements it (ImplementsLedger); modules SessionMonitor   *)
(* and Orchestrator are built on it.                                       *)
(***************************************************************************)
EXTENDS Naturals, FiniteSets

CONSTANTS Sessions, Proxies, None

VARIABLES
    life,      \* of each session: its row is active once, and for a while
    assigned,  \* the proxy its row names, or None
    seen,      \* what active_sessions_count answers
    exact      \* nothing has failed that could make the answer wrong

ledgerVars == <<life, assigned, seen, exact>>

(* "opening"  the row is committed, the count that includes it is not      *)
(*            published yet                                                *)
(* "active"   the row is active, and counted                               *)
(* "ending"   the count that leaves it out is published, the row is not    *)
(*            committed yet                                                *)
Lives == {"new", "opening", "active", "ending", "ended"}

Counted == {s \in Sessions : life[s] = "active"}
Active  == {s \in Sessions : life[s] \in {"opening", "active", "ending"}}

\* no handler of the backend is between its two writes
Settled == Active = Counted

LedgerTypeOK ==
    /\ life     \in [Sessions -> Lives]
    /\ assigned \in [Sessions -> Proxies \cup {None}]
    /\ seen     \in 0..Cardinality(Sessions)
    /\ exact    \in BOOLEAN

LedgerInit ==
    /\ life     = [s \in Sessions |-> "new"]
    /\ assigned = [s \in Sessions |-> None]
    /\ seen     = 0
    /\ exact    = TRUE

-----------------------------------------------------------------------------
Becomes(s, l) == life' = [life EXCEPT ![s] = l]

\* the workers are told a count, which may leave out the session between its two
\* writes; once something has failed it may be any number
Told ==
    /\ exact' \in {exact, FALSE}
    /\ seen'  \in 0..Cardinality(Sessions)
    /\ exact' => seen' \in {Cardinality(Counted'), Cardinality(Active')}

\* open_session commits the row, then publishes the count
SessionOpens(s, p) ==
    /\ Settled /\ life[s] = "new"
    /\ Becomes(s, "opening")
    /\ assigned' = [assigned EXCEPT ![s] = p]
    /\ Told

SessionCounted(s) ==
    /\ life[s] = "opening" /\ Becomes(s, "active")
    /\ Told
    /\ UNCHANGED assigned

\* close_session publishes the count, then commits the row
SessionLeaves(s) ==
    /\ Settled /\ life[s] = "active"
    /\ Becomes(s, "ending")
    /\ Told
    /\ UNCHANGED assigned

SessionEnds(s) ==
    /\ life[s] = "ending" /\ Becomes(s, "ended")
    /\ Told
    /\ UNCHANGED assigned

\* ... and either may fail in between, with the row active and the count too low
SessionInterrupted(s) ==
    /\ life[s] \in {"opening", "ending"} /\ Becomes(s, "active")
    /\ exact' = FALSE
    /\ Told
    /\ UNCHANGED assigned

\* the gateway or the monitor moves a session; the gateway moves ended ones too
SessionMoves(s, p) ==
    /\ life[s] # "new"
    /\ assigned' = [assigned EXCEPT ![s] = p]
    /\ UNCHANGED <<life, seen, exact>>

\* Redis fails
CountFails ==
    /\ exact' = FALSE
    /\ seen' \in 0..Cardinality(Sessions)
    /\ UNCHANGED <<life, assigned>>

LedgerNext ==
    \/ \E s \in Sessions, p \in Proxies \cup {None} :
          SessionOpens(s, p) \/ SessionMoves(s, p)
    \/ \E s \in Sessions :
          \/ SessionCounted(s) \/ SessionLeaves(s) \/ SessionEnds(s)
          \/ SessionInterrupted(s)
    \/ CountFails

LedgerSpec == LedgerInit /\ [][LedgerNext]_ledgerVars
=============================================================================
