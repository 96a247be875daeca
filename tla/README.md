# NanoredProxy in TLA+

NanoredProxy is a SOCKS5 proxy-pool manager: a gateway accepts clients, a FastAPI
backend keeps sessions, connections and counters in PostgreSQL and two kinds of
keys in Redis, and workers measure the upstream proxies and move sessions off the
ones that fail. This directory holds TLA+ models of the parts where several of
these processes touch the same session or the same proxy, TLC runs that check them on
small instances, and TLAPS proofs of their main safety properties for every instance.

    tlc -workers 2 -config MCSessionStore.cfg MCSessionStore
    tlapm SessionStoreProofs.tla

Each run below is a `.cfg` beside its module; each `*Proofs.tla` and
`NatLemmas.tla` is checked with `tlapm`.

## The system

| component | state it keeps | operations | model |
|---|---|---|---|
| Session store: `routing_service`, `traffic_service`, `runtime_state`, `internal/gateway.py`, `api/v1/sessions.py` | tables `sessions`, `session_connections`, live counters in the account, proxy and country aggregates; Redis `session:<id>:kill`, `runtime:active_sessions` | session open, reroute, close; connection open, close; update-traffic; kill; disconnect | `SessionStore`, `TrafficMeter` (bytes) |
| SOCKS5 gateway: `server.py`, `auth.py`, `traffic_meter.py`, `kill_switch.py` | one `handle_client` task per connection with its session, connection and upstream; two relay tasks; meter entries | accept, read request, dial (up to 3 proxies), relay, drain, close; HTTP calls with retries | `Gateway`, `TrafficMeter` |
| Proxy selection: `routing_service` | ratings, sticky assignment | select, reroute, ensure | `Routing`; any choice in `SessionStore` |
| Orchestrator: `workers/orchestrator/main.py` | place in the schedule, frozen flag, set of monitored sessions | start-up schedule, cycle of agents, freeze while sessions are active, cooldown, waits | `Orchestrator` |
| Session monitor: `agents/session_monitor.py` | a thread per session with its assigned and fallback proxy and a failure count | start, stop, measure, fail over | `SessionMonitor`; its write also in `SessionStore` and `Routing` |
| Proxy lifecycle: `proxy_service`, `proxies.py`, auth and geo agents | `status`, `is_enabled`, `is_quarantined`, country | import, enable, disable, quarantine, recheck, set country; selections and writes of the agents | `ProxyPool` |
| Accounts: `accounts.py`, `account_service`, `reconcile_agent` | one account per country, enabled or not, dynamic or not | create, patch, two reconciliations | `Accounts` |
| Statistics: ping, auth, speedtest and aggregate agents, `daily_rollover`, `rating.py` | the row of the day per proxy, the archive, ratings, the last day rolled over | add, rate, archive and reset | `DayStats`, `Rating` |
| Admin auth, settings, read-only API, UI, parser, legacy workers, deployment | | | not modelled |

How they interact. The gateway calls the backend over HTTP, 15 s per try and three
tries, and is the only one that opens sessions and connections. The administrator
kills sessions and disconnects connections through the backend; the gateway learns of
a kill by polling. The workers never call the backend: they read the published
number of active sessions (or count the rows when Redis does not have it), and the
session monitor writes `assigned_proxy_id` directly.

What is hard here:

* every connection of one client shares one session, and each handler ends it;
* a retried POST may be executed twice, the second time after the caller moved on;
* Redis and the database are written one after the other, on opposite sides of the
  commit for open and for close, and the workers read both;
* the kill key is deleted by the same handler that is told to obey it;
* relays suspend between reading a counter and resetting it;
* a cancelled relay takes the handler's own clean-up with it;
* nothing waits with a timeout for a silent peer, and nothing closes the sessions of
  a gateway that was restarted;
* the monitor's threads are told to stop in the middle of an iteration, and their
  fallbacks were chosen some time ago;
* the start-up has no exception handler, and a wait computes its sleep after its test;
* two reconciliations with different rules and an administrator share the accounts;
* the last day rolled over is kept in memory only.

`PROJECT.json` lists these hazards with the lines where they bite and the properties
that cover them.

## The modules

How they build on each other:

    SessionLedger   <- implemented by - SessionStore <- Gateway
      <- SessionMonitor <- Orchestrator
    ProxyPool       <- Routing, Accounts
    Rating          <- DayStats
    TrafficMeter

### SessionStore

Endpoints are `async def` functions that never await, run by one uvicorn process, so
that no handler runs while another does: one action per endpoint, except where another
process can look in between. The workers read the rows and the published number of
active sessions, and two handlers write both: `open_session` commits the row
(`routing_service.py:130`) and then publishes (`:131`), `close_session` publishes
(`traffic_service.py:148`) and then commits (`routing_service.py:202`). Each is two
actions. `OpenSession` and `CloseSession` do the first write and leave the second in
`pending`; `PublishOpened` and `CommitClosed` do it (`SecondWrite`). Meanwhile the
actions of other handlers wait (`Idle`), and those of the workers and of Redis do not. A
handler that stops half-way is an action of its own (`OpenInterrupted`,
`CloseCommitFails`, `KillInterrupted`). `OpenConnection` has an earlier commit inside it
when it reroutes; stopping after that one leaves what a `Reroute` step leaves.

| variable | code |
|---|---|
| `status`, `client`, `assigned`, `activeConns` | `sessions.status`, `(client_ip, client_login)`, `assigned_proxy_id`, `active_connections_count` |
| `connState`, `connSession`, `connProxy`, `connEnded` | `session_connections.state`, `session_id`, `proxy_id`, `ended_at is not null` |
| `accountActive`, `proxySessions`, `proxyConns` | `account_aggregates.active_sessions`, `proxy_aggregates.current_active_sessions`, `current_active_connections` |
| `killFlag`, `activeCount` | Redis keys `session:<id>:kill`, `runtime:active_sessions` |
| `pending` | the second write of the handler between its two: the count to publish, or the row to commit with the status and the proxy that were read |
| `redisUp`, `faults` | whether Redis answers; failures so far |

`"none"` is the status of a row not inserted yet. The callers are arbitrary: any
handler on any existing row at any time. That is more than the gateway does, and it is
what retries, shared sessions and late requests require; all properties of the store
hold in this generality.

`MaxFaults` says how many failures of each kind there may be: `"redis"` (Redis stops
answering, later comes back with or without its data; the helpers swallow the errors),
`"open"` (a handler dies between the commit of `open_session` and the publication),
`"kill"` (between the kill key and the row), `"commit"` (the commit of `close_session`
fails after Redis was written). `faults` counts those that happened; `Never(kinds)` in a
property limits its promise to the time before the first of them.

`status` may only be read with `KillSeen`: what the gateway is told is the key or the
row. `SessionsSeen` is what the workers are told: the key or, without it, the rows.

### Gateway

EXTENDS `SessionStore` and constrains its callers. `pc[h]` names the await a
`handle_client` task is in: a call of the backend (`CallPoints`) or a wait for its
peers (`PeerPoints`). The variables `session`, `conn`, `attempt` are the locals of the
same meaning, `running` the relay tasks that have not ended, `verdict` the state the
next close will be given, `tries` the attempts of the current call. `late` holds the
requests that timed out at the gateway and that the backend may execute still: a call
that is executed but whose answer is lost is a time-out followed by `LateCall`. A restart
(`GatewayCrash`) puts what its handlers have asked for there, too.

A call of the store is taken with its answer. For opens and closes of a session, whose
handler still has a write to do, `HandlerEnds` does it. The gateway has the answer only
after that write; taking it earlier adds behaviours in which steps of the gateway's own
come before the write, and no other call can.

The paths that are easy to miss: `CallOpenConn` returns without closing its row when
there is no proxy; `DrainTimeout` goes straight to the finally block; the except
clauses close the row again when the normal close failed; the finally block closes
the session even when another handler shares it; a call that gives up leads where
its exception is caught (`GiveUp`).

Here the store's own faults are switched off (`NoFaults`) and the session
monitor does not move sessions; both are covered by the store's runs and proofs.

### TrafficMeter

The meter's entry of one connection, the relays' flushes, the final flush and the
closing totals. `recorded` is what the backend added up; the same increments go to
the connection, the session, the aggregates and the rollups. Chunks are counted
in units, and the flush threshold is a number of chunks.

### ProxyPool

The rows of table `proxies` and their writers. `status`, `enabled`, `quarantined`,
`country`, `override` are the columns of the same meaning. The agents select proxies in
one step and write results by id in later ones: `authPending` and `geoPending` are what
is selected and not written yet. Any part of the selection may be the next batch, and
any answer may be measured. The ping and speedtest agents write none of these columns.

### Routing

EXTENDS `ProxyPool` with ratings, the session's `assigned` and `sticky` proxies, and the
gateway's attempts: `phase[h]` is the await of a handler between `OpenSession` and its
end, `tried[h]` is `attempted_proxy_ids`, `using[h]` the proxy it was answered.
`Selections` is `select_proxy_for_account` as a set, because the order among equal
ratings is left open: `Tops` are the possible results of the query with its limit.
`Failover` may assign any proxy: the fallback was chosen some time ago, and anything may
have happened to it since. `Gateway` and `SessionStore` know nothing of selection and
`Routing` nothing of calls lost: a retried open selects again, which is one more step of
another handler of the session.

### SessionLedger

What the workers can see of the sessions: the life of each, the proxy its row names, and
the number they are told (`seen`). A life is `new`, `opening` (the row is committed and
not counted yet), `active`, `ending` (counted out and not committed yet) and `ended`.
`Active` are the sessions whose row is active, in any of the three; `Counted` those in the
middle one. Until something fails (`exact`) the number is that of one of the two sets
(`Told`): right, but for the session between its two writes. After a failure it is any
number. `SessionStore` implements it: `Ledger` in that module instantiates it with
`life <- Life` (closed and killed are both ended), `seen <- SessionsSeen` and `exact` the
time before the first failed commit, dead publisher or outage. `Gateway` implements the
store, hence the ledger. The two modules about the workers are built on the ledger
instead of the store, which hides connections, counters and keys from them and makes the
state space small.

### SessionMonitor

| variable | code |
|---|---|
| `thread[s]` | the thread of `s` in `_threads`: its arguments, `assigned_fails`, and `at`, its place in the loop |
| `lingering` | threads whose stop event was set inside an iteration |
| `found` | the rows `get_active_sessions` returned that are not started yet |
| `health` | what pings and connections to a proxy find |

The caller is arbitrary here: it lists sessions, starts threads and stops them at any
time. A thread is at the top of its loop, about to measure, in `_trigger_failover` or in
`_get_next_fallback`; between these the world moves. `Fails` is the counting as it is
written: a ping that is answered resets the count before the connection is tried. The
update of the row is guarded by the session's status as in the SQL, may fail
(`MaxErrors`), and the swap happens in either case.

`SessionsGoOn` is any step of the ledger, less what no worker can tell: moves of sessions
that have ended, and moves by the backend while a handler is between its writes. With
`MayMiscount` a failure may make the count wrong; the caller asks only whether it is
zero, so a wrong one is none or all.

### Orchestrator

EXTENDS `SessionMonitor` and is its caller. `step` is the position in `Program`, the
start-up schedule and then the cycle for ever; `mode` is where in a step it is, one
mode per read of the count, list of sessions, loop of starts, stop or sleep, so that
sessions open and end between any two of them. `due` says that the target of a wait has
passed: it may do so at any time, also between the loop test and the sleep, and may have
passed before the wait begins. `Crash` is an exception of the start-up or of a query, or
a kill of the process; threads are daemons and die with it. It may happen at any point
and any number of times (`killed`); that the sleep raises is told apart from it
(`raised`). `missed` is a history variable: the watched sessions that were not counted
yet when the queue read that there is no session.

### Rating and DayStats

`Rating` has the four functions of `rating.py` over integers: an average is given as a
sum and a count, a time in tenths of a millisecond, so that no division is rounded
before the code rounds. `RatingTable` is the reference, the docstrings' tables and nothing
else, as a count of limits kept. `KeepsTable` says of which averages the code keeps to
them. `DayStats` has a row per proxy for the current day and per
date in the archive. Agents and rollover run in one thread, but with failures, freezes
and restarts any order of them is possible, and any is allowed. A transaction that fails
changes nothing and is no step, except when the commit is executed and the answer lost
(`RolloverUnanswered`). `measured` is a history variable. Averages are
archived as the sums they are made of. The tables are those of `migration.sql`.

### Accounts

EXTENDS `ProxyPool` with the account named like each country. `Served(states)` is the
query both reconciliations make, with different states: the agent counts degraded
proxies, the backend does not. The agent goes by the country column when it closes
accounts and by the username when it opens them; the backend by the username in both,
and its transaction fails when a manual account has the name of a dynamic one it wants
to insert. `MinWorking` is the 2 of both.

### Mutants

A definition introduced by a comment "mutant of D" is not part of the model: it is D
with a slip (a guard dropped, a counter taken at the wrong moment), kept to show
that the properties notice it. Nothing refers to these definitions.

## The runs

| run | question | instance |
|---|---|---|
| `MCSessionStore` | types; no live counter exceeds its rows; one active session per client; ended sessions stay ended; the workers' count, also between the two writes of a handler; a kill stays visible; the store implements the ledger | 2 clients of one account, 2 sessions, 1 connection row, 1 proxy, 1 failure of each kind |
| `MCGateway_safety` | types; a handler's row is its own; no more sessions are left open than calls lost and handlers killed, late opens included; the gateway implements the store | 2 handlers of one client, 2 attempts, one lost call, one restart, one admin call |
| `MCGateway_finish` | liveness, with peers that keep sending and read: rows end, half-closed connections finish, kills stop connections | 1 handler, 2 attempts, one lost call, one admin call |
| `Accounts` | no override without a country; no status quarantine outside quarantine; waiting proxies are judged; manual accounts are left alone; liveness: served countries are open, unserved closed | 2 proxies, 2 countries, 2 changes, 2 proxies needed |
| `MCRouting` | undisturbed attempts use other proxies; the cost of stickiness is bounded; connections use proxies in use; refusals are due | 3 proxies, selections of 2 rows, 1 handler of a country account, 3 attempts, 2 outside steps |
| `TrafficMeter` | nothing is missing; over-count bounded by 3 | 4 chunks each way, flush at 2, one lost answer |
| `SessionMonitor` | a fallback is another proxy; liveness: failed proxies are left | 1 session, 2 proxies, threshold 3, 2 changes of health, 1 failed update, counts that may become wrong |
| `Orchestrator` | types; agents run unwatched; stopped threads belong to sessions that are over or were not counted; liveness: active sessions are watched, the queue runs on | 2 sessions, 1 proxy, any number of crashes |
| `DayStats` | types; nothing lost, nothing twice; ratings by the tables, where the code keeps them | 1 proxy, 3 results, 2 midnights, 1 lost answer |
| `MCGateway_connected` (violated) | do the workers see a connected user? | 2 handlers of one client |
| `ProxyPool_enabled` (violated) | is every enabled proxy checked? | 1 proxy |
| `Orchestrator_raises` (violated) | does a wait sleep until its target? | 1 session, 1 proxy |

Bounds. Two handlers are enough for a shared session to be closed by one of them
while the other uses it. In the store's run two session rows let a client come
back after its session ended, or two clients be active at once; one connection row can be
closed twice, disconnected and closed again, or closed after its session; two clients of
one account share a counter; `NULL` proxies come for free. That the bounds hold for
any number of rows is proved. `MaxFaults` allows one failure of each kind.
Three proxies are a sticky one, a better one and one
that a limit of two cuts off; three ratings and a threshold of 1 lie below, at and above
it. `MaxMoves` bounds the steps that are not a handler's in `Routing`, `MaxChanges` the
administrator's calls and aborted cycles in `ProxyPool` and `Accounts`; the agents and reconciliations themselves are not
bounded there. Two handlers of one session were too many for `MCRouting`; that they share
a session is covered by the proofs, which are for any number of them. Two sessions are what a freeze
needs for one to open while the other is watched; with one proxy no thread has a
fallback in that run, and failovers are the subject of `SessionMonitor`, where two
proxies and two changes of health suffice for the fallback to fail after the
assigned proxy. Counts that a failure made wrong are left out of that run: none of its
properties promises anything after one, and the proofs about the types and
`QueueUnwatched` are for any count. A day's row is a proxy's own, so one proxy is enough; the times lie
below 1 ms, on either side of the bracket at 20 ms, and beyond the last; three results
and two midnights put measurements before, between and after rollovers. Two attempts exercise both the reroute and the last failure of the three in the code,
and two tries the retry and the give-up of the three in the code. Ids are symmetric
in the safety runs; liveness runs use no symmetry. Deadlock is not checked: every
bounded run ends when its rows or its accepts are used up.

The type invariants of `Routing`, `Accounts`, `SessionMonitor` and `TrafficMeter` are
proved for every instance and not checked again by the runs; `OrchTypeOK` includes
the monitor's.

Fairness. The event loop runs every task that can run, the backend answers or the
call times out, and timers fire: weak fairness of each handler's own steps and of
the backend's second writes (`Scheduling`). A call waits while another handler of the
backend is between its writes; weak fairness is enough for it, because the number of
calls is bounded, and so is how often it can be made to wait. Nothing is assumed of clients and upstreams, because the code waits
for them without a timeout, except in `Talkative`: both peers keep sending and read
what they are sent, so that each relay reaches its poll and the sockets close.
The liveness properties of `MCGateway_finish` are all checked with `Talkative`.
Each thread of the monitor runs, whatever its caller does. The orchestrator's thread runs
and time passes (`TargetPasses`), both weakly fair; `Finish` is strongly fair, because
loops that go round for as long as a deadline allows could otherwise go round for ever:
the clock ends them. Nothing is assumed of sessions, health or failures; the properties
name the orchestrator's crashes as the reason why a promise may be void. In `Accounts`
the auth agent's cycle and the reconcile agent come round, and nobody need call the
backend's reconciliation or do anything else.

## What the violated runs show

* `ConnectedIsSeen`. The orchestrator's and the session monitor's docstrings say that
  the queue is frozen and the proxies are watched while a user is connected. Two
  connections of one client share the session (`routing_service.py:108`), the first
  to end closes it (`server.py:279`), and the workers then see none.
* `EnabledIsJudged`. Disabling writes the status `disabled`, enabling leaves it, and the
  auth agent, which says it checks all enabled proxies, skips that status.
* `NeverRaises`. "Sleep until target monotonic time, checking sessions", says
  `_wait_until`. The shortest counterexample lets the target pass between the loop test
  and the sleep. A session in the first wait of 60 s makes it certain: its cooldown alone
  takes 120 s, and the sleep that follows is negative. The start-up aborts and the
  container begins it again.

What else was found, and is not a run because it follows from a line or two:

* Every flushed byte is counted twice (`routing_service.py:158` and `:177`), against
  "full traffic accounting" in the README of the repository. `OvercountBounded` and
  `NothingMissing` say what is true instead.
* The monitor's fallback is chosen over all countries (`main.py:219`), and the assigned
  proxy is kept without a look at its country (`routing_service.py:138`): after a failover a country
  account is sent through another country.
* A proxy that answers pings but refuses connections, or connects but does not answer
  pings, hardly ever reaches three failures, because each iteration gives back what it
  took (`session_monitor.py:91` and `:104`). `FailedIsLeft` is stated for proxies that do neither.
* The monitor is told the assigned proxy once; when the gateway reroutes the session it
  goes on watching the old one. `FailedIsLeft` excludes that, too.
* An average time between 0 and 1 ms gives 110 points (`rating.py:10`: the bracket is -1),
  against "0-20ms=100" (`rating.py:5`), "each 0-100" and "0-600" (`rating.py:42`) and "out
  of 600" (`routing_service.py:34`). `RatingByTable` as the docstrings have it, for every
  average, is false of the code: one ping of 0.5 ms violates it. It is stated for the
  averages that `KeepsTable`, and `DayTypeOK` has the range 0 to 620.
* The workers' count is not exact with nothing failed. On open the row is committed at
  `routing_service.py:130` and counted at `:131`; on close the count is published at
  `traffic_service.py:148` and the row committed at `routing_service.py:202`. In between
  the workers miss that session: the orchestrator may read 0 and stop the thread of a
  session whose row is still active, and the thread, in the middle of an iteration, may
  still move it. `CountExact`, the ledger and `StoppedAreOver` say how far this goes, and
  that the count is never too high.
* A restart, or a queue frozen over midnight, merges days (`daily_rollover.py:21`, `:28`);
  nothing is lost by it.
* Of proxies that share a host only the last of a batch gets a ping result
  (`ping_agent.py:45`).
* The tables `init_db` creates lack the column defaults of `migration.sql`
  (`models.py:119`), so that an agent's insert into the day's row would fail if the backend
  made the table first; the models assume the migration.
* The agent enables an account of the administrator that is named like a served
  country (`reconcile_agent.py:33`), also one that was disabled by hand.

Four properties that hold are narrower than one might expect, for a reason:

* `KillStopsTalkers` speaks of peers that send. The relays ask for a kill only after a
  chunk has passed (`server.py:146`), so a silent client's connections survive it.
* `RetryIsAlternate` excludes quarantine. A reroute excludes the proxies that failed,
  but the `connection/open` after it does not: it rejects a quarantined alternative
  (`routing_service.py:138`) and may select the failed proxy again.
* `OverrideHasCountry` says only that the flag has a country. The geo agent selects
  rows without one but updates by id, so a country set by hand in between is
  overwritten and keeps its flag.
* `NothingLost` excludes lost answers. The commit of a rollover whose answer is lost is
  repeated with the next cycle's rows and overwrites the day (`daily_rollover.py:56`).

## The proofs

`SessionStoreProofs` proves, for every choice of the constants that satisfies
`StoreAssumption` (finite sets of rows, a `None` outside the other sets):

| theorem | property | argument |
|---|---|---|
| `TypeCorrect` | `TypeOK` | inductive as it stands |
| `OneActiveTheorem` | `OneActivePerClient` | lookup and insert are one step |
| `LiveConnsTheorem`, `AccountCountTheorem`, `ProxyConnsTheorem` | `LiveConnsBounded`, `AccountCountBounded`, `ProxyConnsBounded` | `StoreInv` below |
| `EndedForeverTheorem` | `EndedForever` | each handler against `FinalStatus` |
| `KillSticksTheorem` | `KillSticks` | the key goes only when the row says killed, or its handler is about to commit that |
| `CountExactTheorem`, `NeverOvercountedTheorem` | `CountExact`, `NeverOvercounted` | `PublishedOK` below |

The bounds are not inductive alone. A close that decrements a counter must not be able
to remove more from the set of rows than from the counter, which needs the row to
belong to an existing session and to have kept its session, client and proxy since it
was inserted: `RowsOK`. `StoreInv` is the conjunction of types, rows and the four
bounds, and of `PendingOK`: a session whose count is to be published is active, and a row
that says killed is not about to be committed as closed. Each step moves at most one row over the boundary of a set (two counting
lemmas, `CountAdd` and `CountRemove`), or leaves the counter alone, or, in
`DisconnectConnections`, empties the set and zeroes the counter; `ConnFrame` and
`SessionFrame` say which handlers can touch which part, so each bound is proved
against those only. `Between` is the session whose handler is between its two writes,
if there is one. `PublishedOK` says what the key holds between its updates: until
a handler dies or a commit fails the number of active sessions without that one, whichever
of the two writes came first, and until Redis fails never more than that.
`FaultsRemembered` (no step forgets a failure) lets a promise about the next state be
used in this one.

The same module proves `StoreImplementsLedger`. Each first write makes a session
`opening` or `ending`, each second one `active` or `ended`, a failure in between `active`
with a wrong count (`OpenOpens`, `PublishCounts`, `CloseLeaves`, `CommitEnds`,
`FailureInterrupts`); reroutes and failovers move one; a second close of a session that
has ended changes nothing the workers see. The count is what `Told` asks, because it is one of the
two numbers until a failure (`PublishedOK`) and a number of sessions always
(`CountBounded`). `GatewayImplementsLedger`, in `GatewayProofs`, follows from it and
`GatewayImplementsStore`.

`GatewayProofs` proves, under `StoreAssumption` and `GatewayAssumption`, for any
number of handlers, attempts, retries and restarts:

| theorem | property | argument |
|---|---|---|
| `GatewayTypeCorrect` | `GatewayTypeOK` | with `LocalsOK`: a handler that calls the backend has the session or the row the call names |
| `GatewayImplementsStore` | `ImplementsStore` | with `LocalsOK`, each step runs one handler of the store or none |
| `RowIsOwnTheorem` | `RowIsOwn` | `RowInv` below |
| `OrphansTheorem` | `OrphansAccounted` | `OrphanInv` below |
| `ActiveIsHeldTheorem` | `ActiveIsHeld`, its case without failures | `OrphanInv`, and `GatewayInv` for the types |

`ImplementsStore` says that the gateway's specification, its variables hidden but for
the store's, is `StoreSpec`: the theorems about the store's arbitrary callers hold of
the real ones. `RowIsOwn` is not inductive. A late close could end a row in use, and a
handler could hold a row without using it that another one gets; `RowInv` excludes
both. From insertion to the end of an attempt a row has one holder (`RowsHeld`), and a
close that is still under way names a row whose holder, if it has one, is past using it
and cannot use it again (`LateCloses`): every await after a close leads to another
close, to the next attempt without the row, or to the end.

`OrphansAccounted` is a debt: sessions that stay active and no handler will end, and opens
that may still be executed without anybody waiting for them, are at most the calls lost
and the handlers there were at a restart. It needs that a handler without a session holds
none, or the answer to its open would drop one (`OrphanInv`). A handler leaves a session
only by a close that is answered, by a close that is given up, which is a lost call, or
in a restart; a late open trades one late request for one orphan (`LateOpenDebt`), a
restart adds at most one per handler, the session it held or the open it was waiting for
(`CrashDebt`), and all else adds
nothing (`NoNewDebt`).

`RoutingProofs` proves, under `PoolAssumption` and `RoutingAssumption`, for any number
of proxies, sessions and handlers, any ratings, threshold and limit:

| theorem | property | argument |
|---|---|---|
| `RoutingTypeCorrect` | `RoutingTypeOK` | `RoutingInv`: who dials has a proxy, who reroutes has an attempt left |
| `RetryIsAlternateTheorem` | `RetryIsAlternate` | `RetryInv` below |
| `SelectionTheorem` | `SelectionCorrect`, in `RoutingProofs` | the lemmas below, in any state of the right types |
| `DialsUsableTheorem`, `RefusedTheorem`, `StickyCostTheorem` | `DialsUsable`, `RefusedOnlyIfNone`, `StickyCostBounded` | `OpensByEnsure` and the lemmas below |

`SelectionLemma` is the specification of `select_proxy_for_account`: nothing exactly when
there is no preferred candidate, else one that none beats by more than the threshold,
also when the query is cut off. `PreferredLemma` says when a quarantined one is preferred.
`SelectionAnswers` adds that it always answers: some rows are the best
ones up to the limit (`HighestRows`) and some row is the best of them (`HighestRated`),
whatever the ratings, by induction over the number of rows. `SelectionCorrect` puts the
three together.

`RetryIsAlternate` looks at the moment of a dial only. `RetryInv` says what holds in
between, for a handler nobody disturbs: it starts with nothing tried, and once a reroute
has answered the session's proxy is one that was not tried and that the
`connection/open` after it keeps (`Kept`), because what a reroute selects is usable
(`PreferredLemma`).

`OrchestratorProofs` is about `SessionMonitor` first, with `MonitorAssumption`, for any
sessions, proxies and threshold:

| theorem | property | argument |
|---|---|---|
| `MonitorTypeCorrect` | `MonitorTypeOK` | with `ThreadsOK`: fewer failures than the threshold before a measurement, a fallback before a failover |
| `FallbackIsOtherTheorem` | `FallbackIsOther` | `ThreadsOK`, of running and of lingering threads |
| `MonitorKeepsLedger` | `LedgerSpec` | of a thread's steps only the update of the row touches the ledger, and it is `SessionMoves` of an active session |

Then it reuses the lemmas about each operation for `Orchestrator`:

| theorem | property | argument |
|---|---|---|
| `OrchTypeCorrect` | `OrchTypeOK` | `OrchInv` |
| `QueueUnwatchedTheorem` | `QueueUnwatched` | threads exist in four modes only (`OthersUnwatched`), and every way to an agent passes a stop |
| `StoppedAreOverTheorem` | `StoppedAreOver` | `SeenExact`, `KnownSessions` and `ThawOver` |
| `OrchFallbackIsOther` | `FallbackIsOther` | `ThreadsOK` again, through freezes and crashes |
| `OrchKeepsLedger` | `LedgerSpec` | `BodyKeepsLedger`, `ThreadsKeepLedger`; the orchestrator itself only reads |

`StoppedAreOver` is not inductive. The count that was zero is read before the threads are
stopped; what carries the fact from the read to the stop is `ThawOver`. It rests on the
count being that of the rows but for one (`SeenExact`): when it is zero and nothing has
failed, no session is counted (`NoneCounted`), so that a watched one, which has been open
(`KnownSessions`), is on its way out, over, or on its way in. The last is what `missed`
remembers; and in the ledger what was counted out comes back by a failure only
(`LedgerForward`).

With `OrchKeepsLedger` and `GatewayImplementsLedger` the two halves meet in one
specification: the workers do nothing to the sessions that `LedgerSpec` does not allow, and
what the workers' modules assume of the sessions is what store and gateway do. That the
orchestrator is a caller of the monitor like any other, `OrchSpec => MonitorSpec`, is not a
refinement as the modules stand: a crash takes all threads at once. Nor is
`AccountsSpec => PoolSpec`, because a call to the accounts uses up one of the bounded
`changes`, which no step of the pool does alone. The invariants are proved of each
instead.

`AccountsProofs`, under `PoolAssumption` and `AccountsAssumption`:

| theorem | property | argument |
|---|---|---|
| `AccountsTypeCorrect` | `AccountsTypeOK` | with the pool's invariant `PoolInv` |
| `OverrideHasCountryTheorem`, `ReleasedTheorem` | `OverrideHasCountry`, `ReleasedIsNotQuarantine` | `PoolInv`, for any pending selections of the agents |
| `ManualTheorem` | `ManualStaysEnabled` | both reconciliations close dynamic accounts only |

`TrafficMeterProofs`, under `MeterAssumption`, for any threshold, traffic and retries:

| theorem | property | argument |
|---|---|---|
| `MeterTypeCorrect` | `TypeOK` | with `CallsOK`: who may await a call |
| `NothingMissingTheorem` | `NothingMissing` | a closed row has the totals added |
| `OvercountTheorem` | `OvercountBounded` | `MeterInv` below |

The bound of three needs to know what is under way: a byte may be pending, in the
snapshot of either relay's call and recorded by each. `MeterInv` bounds, for each caller,
what it has sent and what it still may (`Sent`): between two of its own zeroings a
relay sends a byte once, so that both together add each byte at most twice and the
close once more.

`DayStatsProofs`, under `DayAssumption`, for any number of proxies, days, results and
lost answers, and any times and speeds:

| theorem | property | argument |
|---|---|---|
| `DayTypeCorrect` | `DayTypeOK` | inductive as it stands; a rating is at most 620 because each of its parts is bounded |
| `RatingByTableTheorem` | `RatingByTable` | for every row of statistics that `KeepsTable`, not only reachable ones: each chain of comparisons picks the bracket its table counts |
| `NothingTwiceTheorem` | `NothingTwice` | a rollover replaces one day's share by the row it zeroes; what it replaces is lost, not doubled |
| `NothingLostTheorem` | `NothingLost` | `Unarchived` below |

`Unarchived` says that while no answer was lost nothing is archived under today or
later, nor under the day last rolled over or later: a rollover writes to an empty day,
also after a restart, because the first check only remembers the day. What is added up
over the days is a recursive function; that it is defined, and that changing one day
changes the sum by as much, is shown by induction.

`NatLemmas` makes these inductions possible. The induction theorems of the library have an
operator as a parameter, which the provers at hand cannot instantiate; `SetInduction` is
about a set of numbers instead, and follows from `<` on the naturals being well
founded. `DayStatsProofs` uses it for sums, `RoutingProofs` for finite sets of rows.

Only model-checked are the liveness properties: `RelayedRowEnds`, `HalfClosedFinishes`,
`KillStopsTalkers`, `WaitingIsJudged`, `ServedIsOpen`, `UnservedIsClosed`,
`ActiveIsWatched`, `QueueRunsOn` and `FailedIsLeft`. They stay with TLC: the proof system
handles neither ENABLED nor fairness. What the three violated runs refute cannot be proved,
of course.

## Plan

What could follow:

1. `Orchestrator` over the real store instead of the ledger, with a gateway that is
   restarted: how long a queue stays frozen by sessions nobody closes.
2. `Routing` with the failovers of `SessionMonitor` instead of arbitrary ones, and the
   country of the account in both.
3. The safety half of the liveness properties: that the states their arguments pass
   through are the only ones (a relay that ended leaves its handler in `relay` or
   `drain`; a frozen queue has a session or a deadline to wait for).
4. `NothingTwice` for one day at a time, and `OrphansAccounted` carried to the number
   the workers are told.

## Not modelled

Authentication, formatting, settings, the parser, the UI and read-only endpoints have no
protocol state. The legacy workers (`workers/aggregate`, `availability`, `geo`, `reconcile`,
`speedtest`, and `scoring.py` and `quarantine.py`, which only they call) run in the
development deployment, where the orchestrator does not. The measurement inside the
speedtest agent is network I/O; what it leaves in the statistics is in `DayStats`. The
country aggregates are the result of a query over rows that are modelled. The worker
control API writes flags that no orchestrated agent reads. `proxySessions` is modelled, but
no bound on it holds (reroutes do not move it) and none is promised, so no property mentions
it. Gateway maps keyed by session or connection (`session_manager`, `connection_manager`)
are never read by the code and are left out.
