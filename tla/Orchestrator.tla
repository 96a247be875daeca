---------------------------- MODULE Orchestrator ----------------------------
(***************************************************************************)
(* The orchestrator: one thread that runs the agents one after the other,  *)
(* looks for active sessions before each, and while there are any freezes  *)
(* the queue and has them watched by the session monitor, whose caller it  *)
(* is (module SessionMonitor).                                             *)
(*                                                                         *)
(* Abstracted: what the agents do (ProxyPool, DayStats, Accounts), and the *)
(* clock: the target of a start-up wait passes at some time, and the loops *)
(* with a deadline (speed tests, the sleep between cycles) end some time.  *)
(***************************************************************************)
EXTENDS SessionMonitor, Sequences

VARIABLES
    step,   \* which step of the program it is at
    mode,   \* and where in that step
    due,    \* the target of the current wait has passed
    missed  \* history: watched sessions whose open was not counted yet when the count was
            \* read and there was none

queueVars == <<step, mode, due, missed>>
allVars   == <<vars, queueVars>>

\* the start-up schedule, and the cycle that follows it for ever
Startup == <<"wait", "ping", "wait", "auth", "aggregate", "wait", "speedtest ready",
             "wait", "geo", "reconcile">>
Cycle   == <<"rollover", "ping", "auth", "aggregate", "speedtest", "geo", "reconcile", "sleep">>
Program == Startup \o Cycle
Step    == Program[step]

(* "wait"   the loop test of _wait_until                                   *)
(* "gate"   _check_sessions is called                                      *)
(* "find"   it, or the frozen loop, saw sessions and lists them            *)
(* "start"  the threads of the listed sessions are started                 *)
(* "frozen" the loop test of _wait_for_session_end                         *)
(* "clear"  _check_sessions saw none and stops the threads                 *)
(* "thaw"   _wait_for_session_end saw none and stops the threads           *)
(* "cool"   its cooldown                                                   *)
(* "nap"    the sleep of _wait_until is computed                           *)
(* "run"    the agent runs, or the queue sleeps between cycles             *)
(* "raised" the sleep has raised, and the program is aborted               *)
(* "killed" it was aborted by something else                               *)
Modes == {"wait", "gate", "find", "start", "frozen", "clear", "thaw", "cool", "nap", "run",
          "raised", "killed"}

OrchTypeOK ==
    /\ MonitorTypeOK
    /\ step \in 1..Len(Program)
    /\ mode \in Modes
    /\ due \in BOOLEAN
    /\ missed \subseteq Sessions
    /\ mode # "start" => found = NoThreads

Gated == {"ping", "auth", "speedtest ready", "speedtest", "geo"}

\* the mode in which a step begins
Entry(i) == CASE Program[i] = "wait"   -> "wait"
              [] Program[i] \in Gated  -> "gate"
              [] OTHER                 -> "run"

OrchInit ==
    /\ MonitorInit
    /\ step = 1 /\ mode = "wait" /\ due = FALSE /\ missed = {}

-----------------------------------------------------------------------------
Unmonitored == UNCHANGED <<ledgerVars, monitorVars, worldVars, errors>>
Become(m)   == mode' = m /\ UNCHANGED <<step, due, missed>>

\* the next step of the program; the target of a wait may have passed already
Advance ==
    /\ step' = IF step = Len(Program) THEN Len(Startup) + 1 ELSE step + 1
    /\ mode' = Entry(step')
    /\ due' \in (IF Program[step'] = "wait" THEN BOOLEAN ELSE {FALSE})
    /\ UNCHANGED missed

\* what follows _check_sessions and, but for the speed tests, a freeze
Proceed == Become(IF Step = "wait" THEN "nap" ELSE "run")

TargetPasses ==
    /\ Step = "wait" /\ ~due /\ due' = TRUE
    /\ UNCHANGED <<step, mode, missed>> /\ Unmonitored

WaitTest ==
    /\ mode = "wait"
    /\ IF due THEN Advance ELSE Become("gate")
    /\ Unmonitored

\* min(5, target - now) is negative when the target has passed: sleep raises
Nap ==
    /\ mode = "nap"
    /\ \/ ~due /\ Become("wait") /\ UNCHANGED monitorVars
       \/ due /\ Become("raised")
             /\ thread' = NoThreads /\ lingering' = {} /\ UNCHANGED found
    /\ UNCHANGED <<ledgerVars, worldVars, errors>>

Uncounted == {s \in Sessions : life[s] = "opening" /\ thread[s] # None}

\* the count is read: where the queue goes if there are sessions, and if there are none
ReadCount(some, none) ==
    /\ mode' = IF seen > 0 THEN some ELSE none
    /\ missed' = IF seen > 0 THEN missed ELSE missed \cup Uncounted
    /\ UNCHANGED <<step, due>>

\* _check_sessions
CheckSessions ==
    /\ mode = "gate"
    /\ ReadCount("find", "clear")
    /\ Unmonitored

\* get_active_sessions, in _start_session_monitoring
Find ==
    /\ mode = "find"
    /\ FindSessions
    /\ Become("start")
    /\ UNCHANGED <<ledgerVars, worldVars, errors>>

\* mutant of Start: the first session of the list only
StartFirst ==
    /\ mode = "start"
    /\ \/ \E s \in Sessions : StartMonitoring(s) /\ Become("frozen")
       \/ found = NoThreads /\ Become("frozen") /\ UNCHANGED monitorVars
    /\ UNCHANGED <<ledgerVars, worldVars, errors>>

\* a thread for each session of the list
Start ==
    /\ mode = "start"
    /\ \/ \E s \in Sessions : StartMonitoring(s) /\ Become("start")
       \/ found = NoThreads /\ Become("frozen") /\ UNCHANGED monitorVars
    /\ UNCHANGED <<ledgerVars, worldVars, errors>>

\* mutants of Frozen: sessions that open during the freeze are not watched, the loop
\* waits until nothing is watched any more, or it waits but once
FrozenStartsNone ==
    /\ mode = "frozen"
    /\ ReadCount("frozen", "thaw")
    /\ Unmonitored
FrozenWhileWatched ==
    /\ mode = "frozen"
    /\ Become(IF thread # NoThreads THEN "find" ELSE "thaw")
    /\ Unmonitored

FrozenOnce ==
    /\ mode = "frozen"
    /\ Become("thaw")
    /\ Unmonitored

\* _wait_for_session_end reads the count, every 5 s
Frozen ==
    /\ mode = "frozen"
    /\ ReadCount("find", "thaw")
    /\ Unmonitored

\* _stop_session_monitoring, from _check_sessions
Clear ==
    /\ mode = "clear"
    /\ StopAll /\ Proceed
    /\ UNCHANGED <<ledgerVars, worldVars, errors>>

\* mutant of Thaw: the threads run on through the cooldown, for the next check
ThawKeepsThreads ==
    /\ mode = "thaw"
    /\ Become("cool")
    /\ Unmonitored

\* _stop_session_monitoring, from _wait_for_session_end
Thaw ==
    /\ mode = "thaw"
    /\ StopAll /\ Become("cool")
    /\ UNCHANGED <<ledgerVars, worldVars, errors>>

\* after the cooldown nobody looks again; the speed tests are over for this cycle
Cooldown ==
    /\ mode = "cool"
    /\ IF Step = "speedtest" THEN Advance ELSE Proceed
    /\ Unmonitored

\* a turn of a loop is over: the next speed test, or five more seconds of sleep
Again ==
    /\ mode = "run" /\ Step \in {"speedtest", "sleep"}
    /\ Become("gate")
    /\ Unmonitored

\* an agent is through, or has failed after the start-up; a loop is at its end
Finish ==
    /\ \/ mode = "run"
       \/ mode = "gate" /\ Step = "speedtest"
    /\ Advance
    /\ Unmonitored

\* an agent fails during the start-up, a query for sessions fails, or the process
\* is killed: its threads die with it
Crash ==
    /\ mode \notin {"raised", "killed"} /\ mode' = "killed"
    /\ thread' = NoThreads /\ lingering' = {} /\ found' = NoThreads
    /\ UNCHANGED <<ledgerVars, worldVars, errors, step, due, missed>>

\* restart: unless-stopped
Restart ==
    /\ mode \in {"raised", "killed"}
    /\ step' = 1 /\ mode' = "wait" /\ due' = FALSE
    /\ UNCHANGED missed /\ Unmonitored

Orchestrate == WaitTest \/ Nap \/ CheckSessions \/ Find \/ Start \/ Frozen \/ Clear \/ Thaw
               \/ Cooldown \/ Again \/ Finish \/ Restart

Others == (ThreadsRun \/ SessionsGoOn \/ HealthTurns) /\ UNCHANGED queueVars

OrchNext == Orchestrate \/ TargetPasses \/ Crash \/ Others

\* the orchestrator's thread runs, time passes, loops with a deadline end
OrchSpec == /\ OrchInit /\ [][OrchNext]_allVars
            /\ WF_allVars(Orchestrate) /\ WF_allVars(TargetPasses) /\ SF_allVars(Finish)

-----------------------------------------------------------------------------
\* The agents and the sleep between cycles run unwatched: no thread of the
\* monitor is left unstopped when the queue runs.
QueueUnwatched == mode = "run" => thread = NoThreads

\* The count is read some time before the threads are stopped, and they are stopped
\* in the middle of an iteration that may move a session.  Until something fails it
\* is one that has ended, one whose close is about to be committed (it is counted out
\* before), or one that was being opened when the count was read (it is counted in
\* after): never a session that was counted.
StoppedAreOver ==
    exact => \A t \in lingering :
                life[t.session] \in {"ending", "ended"} \/ t.session \in missed

\* An active session is watched, or it ends: sooner or later the queue looks, and
\* while it is frozen it goes on looking for sessions that opened meanwhile; unless
\* the orchestrator is killed first, and again after each of its restarts.
ActiveIsWatched ==
    \A s \in Sessions :
        (exact /\ life[s] = "active" /\ assigned[s] # None)
            ~> (thread[s] # None \/ life[s] # "active" \/ assigned[s] = None \/ ~exact
                \/ mode = "killed")

\* When the sessions are gone the queue runs on, unless the orchestrator keeps
\* dying during its start-up.
QueueRunsOn ==
    <>[](exact /\ Active = {})
        => []<>(mode = "run" /\ Step = "ping") \/ []<>(mode \in {"raised", "killed"})

\* Claimed by the docstring of _wait_until, not kept by the code (see the README):
\* it sleeps until the target, checking sessions.  The sleep does not raise.
NeverRaises == mode # "raised"
=============================================================================
