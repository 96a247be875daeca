------------------------- MODULE OrchestratorProofs -------------------------
(***************************************************************************)
(* Proofs about SessionMonitor and about Orchestrator, which starts and    *)
(* stops its threads.  First the monitor, whoever calls it: its types, and *)
(* that no thread falls back to the proxy it watches; each operation keeps *)
(* the invariant by a lemma of its own, because the orchestrator calls the *)
(* same ones.  Then the orchestrator: its types, that the queue runs       *)
(* unwatched, and that the threads told to stop belong to sessions that    *)
(* are over or were not counted yet.                                       *)
(***************************************************************************)
EXTENDS Orchestrator, FiniteSetTheorems, TLAPS

\* Between two measurements a thread has counted fewer failures than the threshold,
\* and it goes to its fallback only when it has one, which is another proxy.
ThreadOK(t) ==
    /\ t \in Threads
    /\ t.at \in {"top", "measure"} => t.fails < Threshold
    /\ t.at = "failover" => t.fallback # None
    /\ t.at # "pick" => t.assigned # t.fallback

\* The threads in the list are those of their sessions, and the threads that were
\* stopped are as good as they.
ThreadsOK ==
    /\ \A s \in Sessions : thread[s] # None => ThreadOK(thread[s]) /\ thread[s].session = s
    /\ \A t \in lingering : ThreadOK(t)

\* The inductive invariant of the monitor.
MonitorInv == MonitorTypeOK /\ ThreadsOK

LEMMA MonitorInvInit == MonitorInit => MonitorInv
<1> SUFFICES ASSUME MonitorInit PROVE MonitorInv
  OBVIOUS
<1>1. 0 \in 0..Cardinality(Sessions)
  BY MonitorAssumption, FS_CardinalityType
<1>2. MonitorTypeOK
  BY <1>1, MonitorAssumption
     DEF MonitorInit, MonitorTypeOK, LedgerInit, LedgerTypeOK, Lives, NoThreads, Conditions
<1>3. ThreadsOK
  BY DEF MonitorInit, ThreadsOK, NoThreads
<1> QED
  BY <1>2, <1>3 DEF MonitorInv

-----------------------------------------------------------------------------
(* The threads *)

\* An iteration counts at most two failures, and leads to a failover only of a
\* thread that has a fallback.
LEMMA MeasuredOK ==
    ASSUME NEW t, ThreadOK(t), t.at = "measure", NEW tcp \in BOOLEAN
    PROVE  ThreadOK(Measured(t, tcp)) /\ Measured(t, tcp).session = t.session
<1> USE MonitorAssumption
<1>1. t.fails \in Nat /\ t.fails < Threshold
  BY DEF ThreadOK, Threads
<1>2. Fails(t, tcp) \in 0..Threshold + 1
  BY <1>1 DEF Fails
<1> DEFINE fails == IF t.fallback = None THEN 0 ELSE Fails(t, tcp)
           at    == IF fails >= Threshold THEN "failover" ELSE "top"
<1>3. fails \in 0..Threshold + 1
  BY <1>2
<1>4. at = "failover" => t.fallback # None
  OBVIOUS
<1>5. at = "top" => fails < Threshold
  BY <1>3
<1>6. Measured(t, tcp) = [t EXCEPT !.fails = fails, !.at = at]
  BY DEF Measured
<1>7. at \in {"top", "failover"}
  OBVIOUS
<1>8. t \in Threads /\ t.assigned # t.fallback
  BY DEF ThreadOK
<1> HIDE DEF fails, at
<1> QED
  BY <1>3, <1>4, <1>5, <1>6, <1>7, <1>8 DEF ThreadOK, Threads

\* Each of a thread's steps leaves it as it should be, watching the same session.
LEMMA BodyOK ==
    ASSUME NEW t, ThreadOK(t), NEW u, Body(t, u)
    PROVE  ThreadOK(u) /\ u.session = t.session
<1>1. CASE Measure(t, u)
  BY <1>1, MeasuredOK DEF Measure
<1>2. CASE FailOver(t, u)
  BY <1>2 DEF FailOver, Swapped, ThreadOK, Threads
<1>3. CASE Pick(t, u)
  <2>1. PICK f \in (Proxies \ {t.assigned}) \cup {None} : u = Renewed(t, f)
    BY <1>3 DEF Pick
  <2>2. t \in Threads /\ t.assigned \in Proxies
    BY DEF ThreadOK, Threads
  <2>3. f \in Proxies \cup {None} /\ f # t.assigned
    BY <2>1, <2>2, MonitorAssumption
  <2>4. u = [session |-> t.session, assigned |-> t.assigned, fallback |-> f,
             fails |-> 0, at |-> "top"]
    BY <2>1, <2>2 DEF Renewed, Threads
  <2>5. t.session \in Sessions /\ 0 \in 0..Threshold + 1 /\ 0 < Threshold
    BY <2>2, MonitorAssumption DEF Threads
  <2> QED
    BY <2>2, <2>3, <2>4, <2>5 DEF ThreadOK, Threads
<1> QED
  BY <1>1, <1>2, <1>3 DEF Body

\* A thread writes nothing but the row's proxy and its failure to write it.
LEMMA BodyWrites ==
    ASSUME MonitorTypeOK, NEW t, ThreadOK(t), NEW u, Body(t, u)
    PROVE  assigned' \in [Sessions -> Proxies \cup {None}] /\ errors' \in 0..MaxErrors
<1>1. CASE FailOver(t, u)
  <2>1. t.fallback \in Proxies \cup {None}
    BY DEF ThreadOK, Threads
  <2> QED
    BY <1>1, <2>1, MonitorAssumption DEF FailOver, MonitorTypeOK, LedgerTypeOK
<1> QED
  BY <1>1 DEF Body, Measure, Pick, MonitorTypeOK, LedgerTypeOK

\* The threads keep the invariant, be they stopped or not.
LEMMA ThreadRunsOK ==
    ASSUME MonitorInv, NEW s \in Sessions, ThreadRuns(s)
    PROVE  MonitorInv'
<1> DEFINE t == thread[s]
<1>1. t # None /\ ThreadOK(t) /\ t.session = s
  BY DEF ThreadRuns, MonitorInv, ThreadsOK
<1>2. \E u : /\ thread' = [thread EXCEPT ![s] = u]
             /\ ThreadOK(u) /\ u.session = s
             /\ assigned' \in [Sessions -> Proxies \cup {None}] /\ errors' \in 0..MaxErrors
  <2>1. CASE t.at = "top" /\ thread' = [thread EXCEPT ![s].at = "measure"]
             /\ UNCHANGED <<assigned, errors>>
    <3>1. thread' = [thread EXCEPT ![s] = [t EXCEPT !.at = "measure"]]
      BY <2>1 DEF MonitorInv, MonitorTypeOK
    <3>2. ThreadOK([t EXCEPT !.at = "measure"]) /\ [t EXCEPT !.at = "measure"].session = s
      BY <1>1, <2>1 DEF ThreadOK, Threads
    <3> QED
      BY <2>1, <3>1, <3>2 DEF MonitorInv, MonitorTypeOK, LedgerTypeOK
  <2>2. CASE \E u \in After(t) : Body(t, u) /\ thread' = [thread EXCEPT ![s] = u]
    <3>1. PICK u : Body(t, u) /\ thread' = [thread EXCEPT ![s] = u]
      BY <2>2
    <3> QED
      BY <1>1, <3>1, BodyOK, BodyWrites DEF MonitorInv
  <2> QED
    BY <2>1, <2>2 DEF ThreadRuns
<1>3. UNCHANGED <<life, seen, exact, lingering, found, worldVars>>
  BY DEF ThreadRuns
<1>4. MonitorTypeOK'
  BY <1>2, <1>3 DEF MonitorInv, MonitorTypeOK, LedgerTypeOK, ThreadOK, worldVars
<1>5. ThreadsOK'
  BY <1>2, <1>3 DEF MonitorInv, MonitorTypeOK, ThreadsOK
<1> QED
  BY <1>4, <1>5 DEF MonitorInv

LEMMA LingeringRunsOK ==
    ASSUME MonitorInv, NEW t \in lingering, LingeringRuns(t)
    PROVE  MonitorInv'
<1>1. ThreadOK(t)
  BY DEF MonitorInv, ThreadsOK
<1>2. PICK u : /\ Body(t, u)
               /\ lingering' = (lingering \ {t}) \cup (IF u.at = "top" THEN {} ELSE {u})
  BY DEF LingeringRuns
<1>3. /\ ThreadOK(u)
      /\ assigned' \in [Sessions -> Proxies \cup {None}] /\ errors' \in 0..MaxErrors
  BY <1>1, <1>2, BodyOK, BodyWrites DEF MonitorInv
<1>4. UNCHANGED <<life, seen, exact, thread, found, worldVars>>
  BY DEF LingeringRuns
<1>5. MonitorTypeOK'
  BY <1>2, <1>3, <1>4 DEF MonitorInv, MonitorTypeOK, LedgerTypeOK, ThreadOK, worldVars
<1>6. ThreadsOK'
  BY <1>2, <1>3, <1>4 DEF MonitorInv, ThreadsOK
<1> QED
  BY <1>5, <1>6 DEF MonitorInv

-----------------------------------------------------------------------------
(* Their caller and the world *)

LEMMA FindSessionsOK ==
    ASSUME MonitorInv, FindSessions, UNCHANGED <<ledgerVars, worldVars, errors>>
    PROVE  MonitorInv'
BY DEF FindSessions, MonitorInv, MonitorTypeOK, LedgerTypeOK, ThreadsOK, ledgerVars, worldVars

\* A thread starts with a fallback that is not its proxy, and without failures.
LEMMA StartMonitoringOK ==
    ASSUME MonitorInv, NEW s \in Sessions, StartMonitoring(s),
           UNCHANGED <<ledgerVars, worldVars, errors>>
    PROVE  MonitorInv'
<1>1. found[s] \in Proxies
  BY DEF StartMonitoring, MonitorInv, MonitorTypeOK
<1>2. PICK f \in (Proxies \ {found[s]}) \cup {None} :
          thread' = [thread EXCEPT ![s] = [session |-> s, assigned |-> found[s], fallback |-> f,
                                           fails |-> 0, at |-> "top"]]
  BY DEF StartMonitoring
<1> DEFINE u == [session |-> s, assigned |-> found[s], fallback |-> f, fails |-> 0, at |-> "top"]
<1>3. ThreadOK(u) /\ u.session = s
  BY <1>1, MonitorAssumption DEF ThreadOK, Threads
<1>4. thread' = [thread EXCEPT ![s] = u]
  BY <1>2
<1> HIDE DEF u
<1>5. found' \in [Sessions -> Proxies \cup {None}] /\ lingering' = lingering
  BY DEF StartMonitoring, MonitorInv, MonitorTypeOK
<1>6. MonitorTypeOK'
  BY <1>3, <1>4, <1>5
     DEF MonitorInv, MonitorTypeOK, LedgerTypeOK, ThreadOK, ledgerVars, worldVars
<1>7. ThreadsOK'
  BY <1>3, <1>4, <1>5 DEF MonitorInv, MonitorTypeOK, ThreadsOK
<1> QED
  BY <1>6, <1>7 DEF MonitorInv

LEMMA StopAllOK ==
    ASSUME MonitorInv, StopAll, UNCHANGED <<ledgerVars, worldVars, errors>>
    PROVE  MonitorInv'
<1>1. \A s \in Sessions : thread'[s] = None
  BY DEF StopAll, NoThreads
<1>2. \A t \in lingering' : ThreadOK(t)
  BY DEF StopAll, MonitorInv, ThreadsOK
<1>3. MonitorTypeOK'
  BY <1>2 DEF StopAll, NoThreads, MonitorInv, MonitorTypeOK, LedgerTypeOK, ThreadOK,
     ledgerVars, worldVars
<1> QED
  BY <1>1, <1>2, <1>3 DEF MonitorInv, ThreadsOK

LEMMA HealthTurnsOK ==
    ASSUME MonitorInv, HealthTurns
    PROVE  MonitorInv'
BY MonitorAssumption DEF HealthTurns, MonitorInv, MonitorTypeOK, LedgerTypeOK, ThreadsOK,
   ledgerVars, monitorVars, Conditions

\* The ledger's types do not depend on the monitor.
LEMMA LedgerTypeStep ==
    ASSUME LedgerTypeOK, LedgerNext
    PROVE  LedgerTypeOK'
<1> USE DEF LedgerTypeOK
<1>1. ASSUME NEW s \in Sessions, NEW p \in Proxies \cup {None},
             SessionOpens(s, p) \/ SessionMoves(s, p)
      PROVE  LedgerTypeOK'
  BY <1>1 DEF SessionOpens, SessionMoves, Told, Becomes, Lives
<1>2. ASSUME NEW s \in Sessions,
             \/ SessionCounted(s) \/ SessionLeaves(s) \/ SessionEnds(s)
             \/ SessionInterrupted(s)
      PROVE  LedgerTypeOK'
  BY <1>2 DEF SessionCounted, SessionLeaves, SessionEnds, SessionInterrupted, Told, Becomes,
     Lives
<1>3. CASE CountFails
  BY <1>3 DEF CountFails
<1> QED
  BY <1>1, <1>2, <1>3 DEF LedgerNext

LEMMA SessionsGoOnOK ==
    ASSUME MonitorInv, SessionsGoOn
    PROVE  MonitorInv'
BY LedgerTypeStep DEF SessionsGoOn, MonitorInv, MonitorTypeOK, ThreadsOK, monitorVars, worldVars

-----------------------------------------------------------------------------
\* The invariant holds whoever starts and stops the threads, and when.
THEOREM MonitorInvariant == MonitorSpec => []MonitorInv
<1>1. ASSUME MonitorInv, [MonitorNext]_vars
      PROVE  MonitorInv'
  <2> USE <1>1
  <2>1. CASE Caller
    BY <2>1, FindSessionsOK, StartMonitoringOK, StopAllOK DEF Caller
  <2>2. CASE ThreadsRun
    BY <2>2, ThreadRunsOK, LingeringRunsOK DEF ThreadsRun
  <2>3. CASE SessionsGoOn \/ HealthTurns
    BY <2>3, SessionsGoOnOK, HealthTurnsOK
  <2>4. CASE UNCHANGED vars
    BY <2>4 DEF vars, MonitorInv, MonitorTypeOK, LedgerTypeOK, ThreadsOK, ledgerVars,
       monitorVars, worldVars
  <2> QED
    BY <2>1, <2>2, <2>3, <2>4 DEF MonitorNext
<1> QED
  BY <1>1, MonitorInvInit, PTL DEF MonitorSpec

\* The threads, the lists and the counts stay well typed; in particular no thread
\* counts more failures than one iteration can add to the threshold.
THEOREM MonitorTypeCorrect == MonitorSpec => []MonitorTypeOK
BY MonitorInvariant, PTL DEF MonitorInv

\* No thread, stopped or not, would fall back to the proxy it watches: the fallback
\* is picked anew after every swap, and never among one proxy.
LEMMA OkIsOther == MonitorInv => FallbackIsOther
BY DEF MonitorInv, ThreadsOK, ThreadOK, FallbackIsOther

THEOREM FallbackIsOtherTheorem == MonitorSpec => []FallbackIsOther
BY MonitorInvariant, OkIsOther, PTL

-----------------------------------------------------------------------------
\* The modes in which threads of the monitor may be there.
WatchModes == {"find", "start", "frozen", "thaw"}

Control ==
    /\ step \in 1..Len(Program)
    /\ mode \in Modes
    /\ due \in BOOLEAN
    /\ missed \subseteq Sessions

\* Elsewhere there are none.
OthersUnwatched == mode \notin WatchModes => thread = NoThreads

\* Until something fails the count is the number of active sessions, but for the one
\* whose handler is between its two writes.
SeenExact == exact => seen \in {Cardinality(Counted), Cardinality(Active)}

\* Sessions are listed and watched that have been open.
KnownSessions == \A s \in Sessions : thread[s] # None \/ found[s] # None => life[s] # "new"

\* A session that is counted out, or was not counted in when the count was read.
Over(s) == life[s] \in {"ending", "ended"} \/ s \in missed

\* When the threads are about to be stopped their sessions are over.
ThawOver == mode = "thaw" /\ exact => \A s \in Sessions : thread[s] # None => Over(s)

\* The inductive invariant.
OrchInv ==
    /\ OrchTypeOK
    /\ ThreadsOK
    /\ OthersUnwatched
    /\ SeenExact
    /\ KnownSessions
    /\ ThawOver
    /\ StoppedAreOver

\* OrchTypeOK by parts.
LEMMA TypeParts ==
    OrchTypeOK <=> MonitorTypeOK /\ Control /\ (mode # "start" => found = NoThreads)
BY DEF OrchTypeOK, Control

-----------------------------------------------------------------------------
(* The program *)

LEMMA ProgramLength == Len(Startup) = 10 /\ Len(Cycle) = 8 /\ Len(Program) = 18
BY DEF Startup, Cycle, Program

\* The next step begins at a loop test, at a check or in the agent.
LEMMA AdvanceControl ==
    ASSUME Control, Advance
    PROVE  Control' /\ mode' \in {"wait", "gate", "run"} /\ missed' = missed
<1>1. step' \in 1..Len(Program)
  BY ProgramLength DEF Control, Advance
<1>2. mode' \in {"wait", "gate", "run"}
  BY DEF Advance, Entry
<1>3. due' \in BOOLEAN /\ missed' = missed
  BY DEF Advance
<1> QED
  BY <1>1, <1>2, <1>3 DEF Control, Modes

LEMMA BecomeControl ==
    ASSUME Control, NEW m \in Modes, Become(m)
    PROVE  Control' /\ mode' = m /\ missed' = missed
BY DEF Control, Become

LEMMA ProceedControl ==
    ASSUME Control, Proceed
    PROVE  Control' /\ mode' \in {"nap", "run"} /\ missed' = missed
BY BecomeControl DEF Proceed, Modes

\* Reading the count leads to one of two modes, and what was missed before stays so.
LEMMA ReadControl ==
    ASSUME Control, NEW m \in Modes, NEW n \in Modes, ReadCount(m, n)
    PROVE  Control' /\ mode' \in {m, n} /\ missed \subseteq missed'
BY DEF Control, ReadCount, Uncounted

-----------------------------------------------------------------------------
(* Steps that leave the monitor and the sessions alone *)

LEMMA UnmonitoredVars == Unmonitored <=> UNCHANGED vars
BY DEF Unmonitored, vars

\* Such a step is harmless between modes without threads, and from a check that
\* saw sessions to the list of them.
LEMMA QuietStep ==
    ASSUME OrchInv, UNCHANGED vars, Control', missed \subseteq missed',
           \/ mode' = mode
           \/ /\ mode # "start" /\ mode' \notin {"start", "thaw"}
              /\ mode \in WatchModes => mode' \in WatchModes
    PROVE  OrchInv'
<1> USE DEF vars, ledgerVars, monitorVars, worldVars
<1>1. MonitorTypeOK' /\ ThreadsOK'
  BY DEF OrchInv, OrchTypeOK, MonitorTypeOK, LedgerTypeOK, ThreadsOK
<1>2. OrchTypeOK'
  BY <1>1 DEF OrchInv, OrchTypeOK, Control, NoThreads
<1>3. OthersUnwatched'
  BY DEF OrchInv, OthersUnwatched, NoThreads
<1>4. SeenExact' /\ KnownSessions' /\ ThawOver' /\ StoppedAreOver'
  BY DEF OrchInv, SeenExact, Counted, Active, KnownSessions, ThawOver, Over, StoppedAreOver
<1> QED
  BY <1>1, <1>2, <1>3, <1>4 DEF OrchInv

\* Nobody is counted when the count that is read is none and nothing has failed.
LEMMA NoneCounted ==
    ASSUME OrchInv, exact, ~(seen > 0)
    PROVE  Counted = {}
<1>1. IsFiniteSet(Active) /\ IsFiniteSet(Counted)
  BY MonitorAssumption, FS_Subset DEF Active, Counted
<1>2. seen = Cardinality(Counted) \/ seen = Cardinality(Active)
  BY DEF OrchInv, SeenExact
<1>3. seen = 0
  BY <1>1, <1>2, FS_CardinalityType
<1>4. Counted \subseteq Active
  BY DEF Counted, Active
<1> QED
  BY <1>1, <1>2, <1>3, <1>4, FS_EmptySet

LEMMA FrozenStep ==
    ASSUME OrchInv, Frozen
    PROVE  OrchInv'
<1>1. UNCHANGED vars /\ mode = "frozen"
  BY UnmonitoredVars DEF Frozen
<1>2. Control' /\ missed \subseteq missed'
  BY TypeParts, ReadControl DEF OrchInv, Frozen, Modes
<1>3. CASE mode' = "find"
  BY <1>1, <1>2, <1>3, QuietStep DEF WatchModes
<1>4. CASE mode' = "thaw" /\ ~(seen > 0) /\ missed' = missed \cup Uncounted
  <2> USE <1>1 DEF vars, ledgerVars, monitorVars, worldVars
  <2>1. MonitorTypeOK' /\ ThreadsOK' /\ found = NoThreads /\ found' = NoThreads
    BY DEF OrchInv, OrchTypeOK, MonitorTypeOK, LedgerTypeOK, ThreadsOK, NoThreads
  <2>2. OrchTypeOK'
    BY <1>2, <2>1 DEF OrchTypeOK, Control
  <2>3. OthersUnwatched'
    BY <1>4 DEF OthersUnwatched, WatchModes
  <2>4. SeenExact' /\ KnownSessions' /\ StoppedAreOver'
    BY <1>4 DEF OrchInv, SeenExact, Counted, Active, KnownSessions, StoppedAreOver
  <2>5. ThawOver'
    <3> SUFFICES ASSUME exact, NEW s \in Sessions, thread[s] # None
                 PROVE  Over(s)'
      BY DEF ThawOver
    <3>1. life[s] # "active"
      BY <1>4, NoneCounted DEF Counted
    <3>2. life[s] \in Lives /\ life[s] # "new"
      BY DEF OrchInv, OrchTypeOK, MonitorTypeOK, LedgerTypeOK, KnownSessions
    <3> QED
      BY <1>4, <3>1, <3>2 DEF Over, Lives, Uncounted
  <2> QED
    BY <2>1, <2>2, <2>3, <2>4, <2>5 DEF OrchInv
<1> QED
  BY <1>3, <1>4 DEF Frozen, ReadCount

\* The queue's own steps but for those that list, start and stop threads.
LEMMA QueueStep ==
    ASSUME OrchInv,
           TargetPasses \/ WaitTest \/ CheckSessions \/ Cooldown \/ Again \/ Finish \/ Restart
    PROVE  OrchInv'
<1>0. Control
  BY TypeParts DEF OrchInv
<1> USE <1>0
<1>1. UNCHANGED vars
  BY UnmonitoredVars DEF TargetPasses, WaitTest, CheckSessions, Cooldown, Again, Finish, Restart
<1>2. CASE TargetPasses
  <2>1. Control' /\ mode' = mode /\ missed' = missed
    BY <1>2 DEF TargetPasses, Control
  <2> QED
    BY <1>1, <2>1, QuietStep
<1>3. CASE WaitTest \/ CheckSessions \/ Cooldown \/ Again \/ Finish \/ Restart
  <2>1. /\ Control' /\ missed \subseteq missed'
        /\ mode' \in {"wait", "gate", "find", "clear", "nap", "run"}
    <3>1. CASE Advance \/ Proceed
      BY <3>1, AdvanceControl, ProceedControl
    <3>2. CASE Become("gate")
      BY <3>2, BecomeControl DEF Modes
    <3>4. CASE ReadCount("find", "clear")
      BY <3>4, ReadControl DEF Modes
    <3>3. CASE Restart
      <4>1. step' = 1 /\ mode' = "wait" /\ due' = FALSE /\ missed' = missed
        BY <3>3 DEF Restart
      <4>2. step' \in 1..Len(Program)
        BY <4>1, ProgramLength
      <4> QED
        BY <4>1, <4>2 DEF Control, Modes
    <3> QED
      BY <1>3, <3>1, <3>2, <3>3, <3>4 DEF WaitTest, CheckSessions, Cooldown, Again, Finish
  <2>2. mode \notin WatchModes
    BY <1>3 DEF WaitTest, CheckSessions, Cooldown, Again, Finish, Restart, WatchModes
  <2> QED
    BY <1>1, <2>1, <2>2, QuietStep DEF WatchModes
<1> QED
  BY <1>2, <1>3

-----------------------------------------------------------------------------
(* Listing, starting and stopping *)

LEMMA FindStep ==
    ASSUME OrchInv, Find
    PROVE  OrchInv'
<1>1. MonitorTypeOK' /\ ThreadsOK'
  BY FindSessionsOK DEF OrchInv, OrchTypeOK, Find, MonitorInv
<1>2. Control' /\ mode' = "start" /\ missed' = missed
  BY TypeParts, BecomeControl DEF OrchInv, Find, Modes
<1>3. OrchTypeOK'
  BY <1>1, <1>2 DEF OrchTypeOK, Control
<1>4. UNCHANGED <<ledgerVars, thread, lingering>>
  BY DEF Find, FindSessions
<1>5. OthersUnwatched' /\ ThawOver'
  BY <1>2 DEF OthersUnwatched, WatchModes, ThawOver
<1>6. SeenExact' /\ StoppedAreOver'
  BY <1>2, <1>4 DEF OrchInv, SeenExact, Counted, Active, StoppedAreOver, ledgerVars
<1>7. KnownSessions'
  BY <1>4 DEF OrchInv, KnownSessions, Active, Find, FindSessions, ledgerVars
<1> QED
  BY <1>1, <1>3, <1>5, <1>6, <1>7 DEF OrchInv

LEMMA StartStep ==
    ASSUME OrchInv, Start
    PROVE  OrchInv'
<1>0. Control /\ mode = "start"
  BY TypeParts DEF OrchInv, Start
<1>1. CASE found = NoThreads /\ Become("frozen") /\ UNCHANGED monitorVars
  <2> USE <1>1 DEF Start, ledgerVars, monitorVars, worldVars
  <2>1. MonitorTypeOK' /\ ThreadsOK'
    BY DEF OrchInv, OrchTypeOK, MonitorTypeOK, LedgerTypeOK, ThreadsOK
  <2>2. Control' /\ mode' = "frozen" /\ missed' = missed
    BY <1>0, BecomeControl DEF Modes
  <2>3. OrchTypeOK'
    BY <2>1, <2>2 DEF OrchTypeOK, Control, NoThreads
  <2>4. OthersUnwatched' /\ ThawOver'
    BY <2>2 DEF OthersUnwatched, WatchModes, ThawOver
  <2>5. SeenExact' /\ KnownSessions' /\ StoppedAreOver'
    BY <2>2 DEF OrchInv, SeenExact, Counted, Active, KnownSessions, StoppedAreOver
  <2> QED
    BY <2>1, <2>3, <2>4, <2>5 DEF OrchInv
<1>2. CASE \E s \in Sessions : StartMonitoring(s) /\ Become("start")
  <2>0. PICK s \in Sessions : StartMonitoring(s) /\ Become("start")
    BY <1>2
  <2>1. UNCHANGED <<ledgerVars, worldVars, errors>>
    BY DEF Start
  <2>2. MonitorTypeOK' /\ ThreadsOK'
    BY <2>0, <2>1, StartMonitoringOK DEF OrchInv, OrchTypeOK, MonitorInv
  <2>3. Control' /\ mode' = "start" /\ missed' = missed
    BY <1>0, <2>0, BecomeControl DEF Modes
  <2>4. OrchTypeOK'
    BY <2>2, <2>3 DEF OrchTypeOK, Control
  <2>5. OthersUnwatched' /\ ThawOver'
    BY <2>3 DEF OthersUnwatched, WatchModes, ThawOver
  <2>6. SeenExact' /\ StoppedAreOver'
    BY <2>0, <2>1, <2>3 DEF OrchInv, SeenExact, Counted, Active, StoppedAreOver, StartMonitoring, ledgerVars
  <2>7. KnownSessions'
    <3>1. /\ found[s] # None
          /\ \A r \in Sessions : r # s => thread'[r] = thread[r] /\ found'[r] = found[r]
      BY <2>0 DEF StartMonitoring, OrchInv, OrchTypeOK, MonitorTypeOK
    <3> QED
      BY <2>1, <3>1 DEF OrchInv, KnownSessions, ledgerVars
  <2> QED
    BY <2>2, <2>4, <2>5, <2>6, <2>7 DEF OrchInv
<1> QED
  BY <1>1, <1>2 DEF Start

\* Stopping leaves no threads, and stops those of sessions that are over.
LEMMA StopStep ==
    ASSUME OrchInv, StopAll, UNCHANGED <<ledgerVars, worldVars, errors>>,
           Control', mode' \notin {"start", "thaw"}, mode \notin {"start"}, missed' = missed,
           exact => \A s \in Sessions : thread[s] # None => Over(s)
    PROVE  OrchInv'
<1>1. MonitorTypeOK' /\ ThreadsOK'
  BY StopAllOK DEF OrchInv, OrchTypeOK, MonitorInv
<1>2. thread' = NoThreads /\ found' = NoThreads
  BY DEF StopAll, OrchInv, OrchTypeOK
<1>3. OrchTypeOK'
  BY <1>1, <1>2 DEF OrchTypeOK, Control, NoThreads
<1>4. OthersUnwatched' /\ ThawOver'
  BY <1>2 DEF OthersUnwatched, ThawOver, NoThreads
<1>5. SeenExact'
  BY DEF OrchInv, SeenExact, Counted, Active, ledgerVars
<1>6. KnownSessions'
  BY <1>2 DEF KnownSessions, NoThreads
<1>7. StoppedAreOver'
  <2>1. \A t \in lingering' : t \in lingering \/ \E s \in Sessions : thread[s] # None /\ t = thread[s]
    BY DEF StopAll
  <2>2. \A s \in Sessions : thread[s] # None => thread[s].session = s
    BY DEF OrchInv, ThreadsOK
  <2>3. UNCHANGED <<exact, life>>
    BY DEF ledgerVars
  <2> QED
    BY <2>1, <2>2, <2>3 DEF OrchInv, StoppedAreOver, Over
<1> QED
  BY <1>1, <1>3, <1>4, <1>5, <1>6, <1>7 DEF OrchInv

LEMMA ClearStep ==
    ASSUME OrchInv, Clear
    PROVE  OrchInv'
<1>1. Control' /\ mode' \in {"nap", "run"} /\ missed' = missed
  BY TypeParts, ProceedControl DEF OrchInv, Clear
<1>2. thread = NoThreads
  BY DEF OrchInv, OthersUnwatched, WatchModes, Clear
<1> QED
  BY <1>1, <1>2, StopStep DEF Clear, NoThreads

LEMMA ThawStep ==
    ASSUME OrchInv, Thaw
    PROVE  OrchInv'
<1>1. Control' /\ mode' = "cool" /\ missed' = missed
  BY TypeParts, BecomeControl DEF OrchInv, Thaw, Modes
<1> QED
  BY <1>1, StopStep DEF Thaw, OrchInv, ThawOver

\* The end of the process takes its threads along.
LEMMA EndStep ==
    ASSUME OrchInv, Nap \/ Crash
    PROVE  OrchInv'
<1>0. Control
  BY TypeParts DEF OrchInv
<1>1. CASE Nap /\ ~due
  <2>1. UNCHANGED vars /\ Become("wait") /\ mode = "nap"
    BY <1>1 DEF Nap, vars
  <2>2. Control' /\ mode' = "wait" /\ missed' = missed
    BY <1>0, <2>1, BecomeControl DEF Modes
  <2> QED
    BY <2>1, <2>2, QuietStep DEF WatchModes
<1>2. CASE (Nap /\ due) \/ Crash
  <2>1. /\ thread' = NoThreads /\ lingering' = {} /\ found' = NoThreads
        /\ UNCHANGED <<ledgerVars, worldVars, errors>>
    BY <1>2 DEF Nap, Crash, OrchInv, OrchTypeOK
  <2>2. Control' /\ mode' \in {"raised", "killed"}
    <3>1. CASE Nap /\ due
      BY <1>0, <3>1, BecomeControl DEF Nap, Modes
    <3>2. CASE Crash
      BY <1>0, <3>2 DEF Crash, Control, Modes
    <3> QED
      BY <1>2, <3>1, <3>2
  <2>3. MonitorTypeOK'
    BY <2>1 DEF NoThreads, OrchInv, OrchTypeOK, MonitorTypeOK, LedgerTypeOK, ledgerVars, worldVars
  <2>4. ThreadsOK' /\ OrchTypeOK' /\ OthersUnwatched' /\ KnownSessions' /\ ThawOver' /\ StoppedAreOver'
    BY <2>1, <2>2, <2>3 DEF NoThreads, ThreadsOK, OrchTypeOK, Control, OthersUnwatched,
       KnownSessions, ThawOver, StoppedAreOver
  <2>5. SeenExact'
    BY <2>1 DEF OrchInv, SeenExact, Counted, Active, ledgerVars
  <2> QED
    BY <2>3, <2>4, <2>5 DEF OrchInv
<1> QED
  BY <1>1, <1>2 DEF Nap

-----------------------------------------------------------------------------
(* The monitor's threads, the sessions and the proxies *)

\* A session that was opened stays so, and once it is counted out it ends, unless its
\* handler fails.
LifeForward ==
    \A s \in Sessions :
        /\ life[s] # "new" => life'[s] # "new"
        /\ exact' /\ life[s] \in {"ending", "ended"} => life'[s] \in {"ending", "ended"}

\* Sessions go on, are over for good, and are counted until something fails.
LEMMA LedgerForward ==
    ASSUME LedgerTypeOK, SeenExact, LedgerNext
    PROVE  (exact' => exact) /\ LifeForward /\ SeenExact'
<1>1. ASSUME Told
      PROVE  (exact' => exact) /\ SeenExact'
  <2>1. exact' => exact
    BY <1>1 DEF Told
  <2>2. SeenExact'
    BY <1>1 DEF Told, SeenExact
  <2> QED
    BY <2>1, <2>2
<1>2. ASSUME NEW s \in Sessions, NEW p \in Proxies \cup {None}, SessionOpens(s, p)
      PROVE  Told /\ LifeForward
  BY <1>2 DEF SessionOpens, Becomes, LifeForward, LedgerTypeOK
<1>3. ASSUME NEW s \in Sessions,
             SessionCounted(s) \/ SessionLeaves(s) \/ SessionEnds(s) \/ SessionInterrupted(s)
      PROVE  Told /\ LifeForward
  BY <1>3 DEF SessionCounted, SessionLeaves, SessionEnds, SessionInterrupted, Becomes,
     LifeForward, LedgerTypeOK
<1>4. ASSUME NEW s \in Sessions, NEW p \in Proxies \cup {None}, SessionMoves(s, p)
      PROVE  UNCHANGED <<life, seen, exact>>
  BY <1>4 DEF SessionMoves
<1>5. CASE UNCHANGED <<life, seen, exact>>
  BY <1>5 DEF SeenExact, Counted, Active, LifeForward
<1>6. CASE CountFails
  <2>1. exact' = FALSE /\ life' = life
    BY <1>6 DEF CountFails
  <2> QED
    BY <2>1 DEF SeenExact, LifeForward
<1> QED
  BY <1>1, <1>2, <1>3, <1>4, <1>5, <1>6 DEF LedgerNext

LEMMA SessionsStep ==
    ASSUME OrchInv, SessionsGoOn, UNCHANGED queueVars
    PROVE  OrchInv'
<1> USE DEF queueVars
<1>1. MonitorTypeOK' /\ ThreadsOK'
  BY SessionsGoOnOK DEF OrchInv, OrchTypeOK, MonitorInv
<1>2. UNCHANGED <<thread, lingering, found>>
  BY DEF SessionsGoOn, monitorVars
<1>3. OrchTypeOK' /\ OthersUnwatched'
  BY <1>1, <1>2 DEF OrchInv, OrchTypeOK, OthersUnwatched, NoThreads
<1>4. (exact' => exact) /\ LifeForward /\ SeenExact'
  BY LedgerForward DEF SessionsGoOn, OrchInv, OrchTypeOK, MonitorTypeOK
<1>9. LifeForward
  BY <1>4
<1>5. KnownSessions'
  BY <1>2, <1>9 DEF OrchInv, KnownSessions, LifeForward
<1>6. ThawOver'
  <2> SUFFICES ASSUME mode' = "thaw", exact', NEW s \in Sessions, thread'[s] # None
               PROVE  Over(s)'
    BY DEF ThawOver
  <2>1. exact /\ mode = "thaw" /\ thread[s] # None
    BY <1>2, <1>4
  <2>2. Over(s)
    BY <2>1 DEF OrchInv, ThawOver
  <2> QED
    BY <1>9, <2>2 DEF LifeForward, Over
<1>7. StoppedAreOver'
  <2> SUFFICES ASSUME exact', NEW t \in lingering'
               PROVE  Over(t.session)'
    BY DEF StoppedAreOver, Over
  <2>1. exact /\ t \in lingering
    BY <1>2, <1>4
  <2>2. Over(t.session) /\ t.session \in Sessions
    BY <2>1 DEF OrchInv, StoppedAreOver, ThreadsOK, ThreadOK, Threads, Over
  <2> QED
    BY <1>9, <2>2 DEF LifeForward, Over
<1> QED
  BY <1>1, <1>3, <1>4, <1>5, <1>6, <1>7 DEF OrchInv

LEMMA ThreadsStep ==
    ASSUME OrchInv, ThreadsRun, UNCHANGED queueVars
    PROVE  OrchInv'
<1> USE DEF queueVars
<1>1. MonitorTypeOK' /\ ThreadsOK'
  BY ThreadRunsOK, LingeringRunsOK DEF OrchInv, OrchTypeOK, MonitorInv, ThreadsRun
<1>2. UNCHANGED <<life, seen, exact, found>>
  BY DEF ThreadsRun, ThreadRuns, LingeringRuns
<1>3. \A s \in Sessions : thread[s] = None => thread'[s] = None
  BY DEF ThreadsRun, ThreadRuns, LingeringRuns, OrchInv, OrchTypeOK, MonitorTypeOK
<1>4. OrchTypeOK' /\ SeenExact'
  BY <1>1, <1>2 DEF OrchInv, OrchTypeOK, NoThreads, SeenExact, Counted, Active
<1>5. OthersUnwatched'
  BY <1>1, <1>3 DEF OrchInv, OthersUnwatched, NoThreads, MonitorTypeOK
<1>6. KnownSessions' /\ ThawOver'
  BY <1>2, <1>3 DEF OrchInv, KnownSessions, ThawOver, Over
<1>7. StoppedAreOver'
  <2>1. \A u \in lingering' : \E t \in lingering : u.session = t.session
    <3>1. ASSUME NEW t \in lingering, LingeringRuns(t)
          PROVE  <2>1
      <4>1. PICK u : /\ Body(t, u)
                     /\ lingering' = (lingering \ {t}) \cup (IF u.at = "top" THEN {} ELSE {u})
        BY <3>1 DEF LingeringRuns
      <4>2. u.session = t.session
        BY <4>1, BodyOK DEF OrchInv, ThreadsOK
      <4> QED
        BY <4>1, <4>2
    <3>2. ASSUME NEW s \in Sessions, ThreadRuns(s)
          PROVE  <2>1
      BY <3>2 DEF ThreadRuns
    <3> QED
      BY <3>1, <3>2 DEF ThreadsRun
  <2> QED
    BY <1>2, <2>1 DEF OrchInv, StoppedAreOver
<1> QED
  BY <1>1, <1>4, <1>5, <1>6, <1>7 DEF OrchInv

LEMMA HealthStep ==
    ASSUME OrchInv, HealthTurns, UNCHANGED queueVars
    PROVE  OrchInv'
<1> USE DEF queueVars, ledgerVars, monitorVars
<1>1. MonitorTypeOK' /\ ThreadsOK'
  BY HealthTurnsOK DEF OrchInv, OrchTypeOK, MonitorInv
<1>2. UNCHANGED <<ledgerVars, monitorVars>>
  BY DEF HealthTurns
<1>3. OrchTypeOK' /\ OthersUnwatched'
  BY <1>1, <1>2 DEF OrchInv, OrchTypeOK, OthersUnwatched, NoThreads
<1>4. SeenExact' /\ KnownSessions' /\ ThawOver' /\ StoppedAreOver'
  BY <1>2 DEF OrchInv, SeenExact, Counted, Active, KnownSessions, ThawOver, Over, StoppedAreOver
<1> QED
  BY <1>1, <1>3, <1>4 DEF OrchInv

-----------------------------------------------------------------------------
LEMMA OrchInvInit == OrchInit => OrchInv
<1> SUFFICES ASSUME OrchInit PROVE OrchInv
  OBVIOUS
<1>1. MonitorTypeOK /\ ThreadsOK
  BY MonitorInvInit DEF OrchInit, MonitorInv
<1>2. Control
  <2>1. step \in 1..Len(Program) /\ missed \subseteq Sessions
    BY ProgramLength DEF OrchInit
  <2>2. mode \in Modes /\ due \in BOOLEAN
    BY DEF OrchInit, Modes
  <2> QED
    BY <2>1, <2>2 DEF Control
<1>3. thread = NoThreads /\ lingering = {} /\ found = NoThreads /\ mode = "wait"
  BY DEF OrchInit, MonitorInit
<1>4. OrchTypeOK
  BY <1>1, <1>2, <1>3 DEF OrchTypeOK, Control
<1>5. Active = {} /\ seen = 0
  BY DEF OrchInit, MonitorInit, LedgerInit, Active
<1>6. SeenExact
  BY <1>5, FS_EmptySet DEF SeenExact
<1>7. OthersUnwatched /\ KnownSessions /\ ThawOver /\ StoppedAreOver
  BY <1>3 DEF OthersUnwatched, KnownSessions, ThawOver, StoppedAreOver, NoThreads
<1> QED
  BY <1>1, <1>4, <1>6, <1>7 DEF OrchInv

\* The invariant holds for any sessions, proxies, thresholds, crashes and restarts.
THEOREM OrchInvariant == OrchSpec => []OrchInv
<1>1. ASSUME OrchInv, [OrchNext]_allVars
      PROVE  OrchInv'
  <2> USE <1>1
  <2>1. CASE Orchestrate
    BY <2>1, QueueStep, FindStep, StartStep, FrozenStep, ClearStep, ThawStep, EndStep
       DEF Orchestrate
  <2>2. CASE TargetPasses \/ Crash
    BY <2>2, QueueStep, EndStep
  <2>3. CASE Others
    BY <2>3, SessionsStep, ThreadsStep, HealthStep DEF Others
  <2>4. CASE UNCHANGED allVars
    <3>1. Control' /\ mode' = mode /\ missed' = missed
      BY <2>4, TypeParts DEF OrchInv, allVars, queueVars, Control
    <3> QED
      BY <2>4, <3>1, QuietStep DEF allVars
  <2> QED
    BY <2>1, <2>2, <2>3, <2>4 DEF OrchNext
<1> QED
  BY <1>1, OrchInvInit, PTL DEF OrchSpec

\* The program, the threads and the counts stay well typed, and a list of sessions
\* is empty before the next one is read.
THEOREM OrchTypeCorrect == OrchSpec => []OrchTypeOK
BY OrchInvariant, PTL DEF OrchInv

\* The agents and the sleep run with no thread left unstopped: threads are started
\* in a freeze only, and every freeze ends with _stop_session_monitoring.
THEOREM QueueUnwatchedTheorem == OrchSpec => []QueueUnwatched
<1>1. OrchInv => QueueUnwatched
  BY DEF OrchInv, OthersUnwatched, WatchModes, QueueUnwatched
<1> QED
  BY <1>1, OrchInvariant, PTL

\* Until the count has been wrong, a thread that was stopped in the middle of an
\* iteration can move no session that was counted when the count was read: its session
\* has ended, its end is about to be committed, or its open was about to be counted.
THEOREM StoppedAreOverTheorem == OrchSpec => []StoppedAreOver
BY OrchInvariant, PTL DEF OrchInv

\* With its real caller the monitor keeps to what was shown of it with any caller,
\* through crashes and freezes: no thread, stopped or not, falls back to its own proxy.
THEOREM OrchFallbackIsOther == OrchSpec => []FallbackIsOther
<1>1. OrchInv => MonitorInv
  BY DEF OrchInv, OrchTypeOK, MonitorInv
<1> QED
  BY <1>1, OkIsOther, OrchInvariant, PTL

-----------------------------------------------------------------------------
(* The workers keep to the ledger: of what the session store promises them *)
(* a thread changes one thing, the proxy of a session that is active when  *)
(* its row is written; the caller, the queue and the agents change none.   *)

\* A thread that moves a session, stopped or not, moves one that was opened.
LEMMA BodyKeepsLedger ==
    ASSUME MonitorTypeOK, NEW t, ThreadOK(t), NEW u, Body(t, u), UNCHANGED <<life, seen, exact>>
    PROVE  [LedgerNext]_ledgerVars
<1>1. CASE FailOver(t, u)
  <2>1. t.session \in Sessions /\ t.fallback \in Proxies \cup {None}
    BY DEF ThreadOK, Threads
  <2>2. CASE t.session \in Active
             /\ assigned' = [assigned EXCEPT ![t.session] = t.fallback]
    <3>1. SessionMoves(t.session, t.fallback)
      BY <2>2 DEF SessionMoves, Active
    <3> QED
      BY <2>1, <3>1 DEF LedgerNext
  <2>3. CASE UNCHANGED assigned
    BY <2>3 DEF ledgerVars
  <2> QED
    BY <1>1, <2>2, <2>3 DEF FailOver
<1>2. CASE Measure(t, u) \/ Pick(t, u)
  BY <1>2 DEF Measure, Pick, ledgerVars
<1> QED
  BY <1>1, <1>2 DEF Body

LEMMA ThreadsKeepLedger ==
    ASSUME MonitorInv, ThreadsRun
    PROVE  [LedgerNext]_ledgerVars
<1>1. ASSUME NEW s \in Sessions, ThreadRuns(s)
      PROVE  [LedgerNext]_ledgerVars
  <2>1. ThreadOK(thread[s]) /\ MonitorTypeOK
    BY <1>1 DEF ThreadRuns, MonitorInv, ThreadsOK
  <2>2. UNCHANGED <<life, seen, exact>>
    BY <1>1 DEF ThreadRuns
  <2>3. UNCHANGED assigned \/ \E u : Body(thread[s], u)
    BY <1>1 DEF ThreadRuns
  <2> QED
    BY <2>1, <2>2, <2>3, BodyKeepsLedger DEF ledgerVars
<1>2. ASSUME NEW t \in lingering, LingeringRuns(t)
      PROVE  [LedgerNext]_ledgerVars
  <2>1. ThreadOK(t) /\ MonitorTypeOK
    BY DEF MonitorInv, ThreadsOK
  <2>2. UNCHANGED <<life, seen, exact>> /\ \E u : Body(t, u)
    BY <1>2 DEF LingeringRuns
  <2> QED
    BY <2>1, <2>2, BodyKeepsLedger
<1> QED
  BY <1>1, <1>2 DEF ThreadsRun

\* What the session monitor adds to the ledger is a step of it, whoever its caller is.
THEOREM MonitorKeepsLedger == MonitorSpec => LedgerSpec
<1>1. MonitorInit => LedgerInit
  BY DEF MonitorInit
<1>2. MonitorInv /\ [MonitorNext]_vars => [LedgerNext]_ledgerVars
  BY ThreadsKeepLedger DEF MonitorNext, Caller, SessionsGoOn, HealthTurns, vars
<1> QED
  BY <1>1, <1>2, MonitorInvariant, PTL DEF MonitorSpec, LedgerSpec

\* The orchestrator, its monitor and all their crashes leave the sessions' lives and
\* the published count to the store: what StoreImplementsLedger gives the workers is
\* all they use, and they give the store no behaviour it does not already have.
THEOREM OrchKeepsLedger == OrchSpec => LedgerSpec
<1>1. OrchInit => LedgerInit
  BY DEF OrchInit, MonitorInit
<1>2. OrchInv /\ [OrchNext]_allVars => [LedgerNext]_ledgerVars
  <2> SUFFICES ASSUME OrchInv, [OrchNext]_allVars
               PROVE  [LedgerNext]_ledgerVars
    OBVIOUS
  <2>1. CASE ThreadsRun
    BY <2>1, ThreadsKeepLedger DEF OrchInv, OrchTypeOK, MonitorInv
  <2>2. CASE SessionsGoOn
    BY <2>2 DEF SessionsGoOn
  <2>3. CASE UNCHANGED ledgerVars
    BY <2>3
  <2>4. ThreadsRun \/ SessionsGoOn \/ UNCHANGED ledgerVars
    BY DEF OrchNext, Orchestrate, Others, HealthTurns, TargetPasses, Crash, WaitTest, Nap,
       CheckSessions, Find, Start, Frozen, Clear, Thaw, Cooldown, Again, Finish, Restart,
       Unmonitored, allVars, vars
  <2> QED
    BY <2>1, <2>2, <2>3, <2>4
<1> QED
  BY <1>1, <1>2, OrchInvariant, PTL DEF OrchSpec, LedgerSpec
=============================================================================
