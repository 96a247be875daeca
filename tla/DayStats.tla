------------------------------ MODULE DayStats ------------------------------
(***************************************************************************)
(* The statistics of the day: the agents add what they measure to a row    *)
(* per proxy, the aggregate agent rates the proxies by it, and the daily   *)
(* rollover archives the rows under the day that ended and zeroes them.    *)
(*                                                                         *)
(* All of it runs in the orchestrator's one thread, whose order an agent   *)
(* that fails, a frozen queue or a restart may disturb: any action may     *)
(* follow any other.  The last day that was rolled over is kept in the     *)
(* memory of that process.  A transaction that is rolled back changes      *)
(* nothing and is no step here; one whose commit is executed although the  *)
(* caller sees an error is (RolloverUnanswered).                           *)
(*                                                                         *)
(* Abstracted: which proxies an agent selects, the columns of the tables   *)
(* of single checks, and the averages, kept as the sums they come from.    *)
(***************************************************************************)
EXTENDS Rating

CONSTANTS
    Proxies, None,
    Packets,       \* PACKETS_PER_IP, ATTEMPTS_PER_PROXY
    Times,         \* what a ping or a connection may take, in tenths of a ms
    Speeds,        \* what a speed test may find, in Mbps
    MaxDay, MaxBatches, MaxLost   \* bounds: midnights, results, lost commits

Fields == {"pingOk", "pingErr", "pingMs", "authOk", "authErr", "authMs",
           "download", "upload", "tests"}
Stats  == [Fields -> Nat]
Days   == 0..MaxDay

ASSUME DayAssumption ==
    /\ None \notin Stats /\ None \notin Nat
    /\ Packets \in Nat \ {0} /\ Times \subseteq Nat /\ Speeds \subseteq Nat
    /\ MaxDay \in Nat /\ MaxBatches \in Nat /\ MaxLost \in Nat

VARIABLES
    today,      \* in Moscow
    last,       \* _last_rollover_date, or None
    current,    \* proxy_current_day_stats: a row per proxy, or None
    archive,    \* proxy_daily_stats, by date: a row per proxy, or None
    rating,     \* proxy_aggregates.rating_score
    measured,   \* ghost: all that was measured
    batches, lost

vars == <<today, last, current, archive, rating, measured, batches, lost>>

\* A rating may reach 620, not the 600 its comments name: two of its metrics may
\* reach 110, see README.
DayTypeOK ==
    /\ today \in Days
    /\ last \in Days \cup {None}
    /\ current \in [Proxies -> Stats \cup {None}]
    /\ archive \in [Days -> [Proxies -> Stats \cup {None}]]
    /\ rating \in [Proxies -> 0..620]
    /\ measured \in [Proxies -> Stats]
    /\ batches \in 0..MaxBatches /\ lost \in 0..MaxLost
    /\ last # None => last <= today

Zero == [f \in Fields |-> 0]

DayInit ==
    /\ today = 0 /\ last = None
    /\ current = [p \in Proxies |-> None]
    /\ archive = [d \in Days |-> [p \in Proxies |-> None]]
    /\ rating = [p \in Proxies |-> 0]
    /\ measured = [p \in Proxies |-> Zero]
    /\ batches = 0 /\ lost = 0

-----------------------------------------------------------------------------
\* a row, a missing one being all zeros
Row(r) == IF r = None THEN Zero ELSE r
Plus(a, b) == [f \in Fields |-> a[f] + b[f]]

\* insert ... on conflict do update: what is measured is added to the row
Add(p, r) ==
    /\ batches < MaxBatches /\ batches' = batches + 1
    /\ current'  = [current EXCEPT ![p] = Plus(Row(@), r)]
    /\ measured' = [measured EXCEPT ![p] = Plus(@, r)]
    /\ UNCHANGED <<today, last, archive, rating, lost>>

\* _ping_batch: the packets that came back, and their average time
Ping(p) ==
    \E ok \in 0..Packets, ms \in Times :
        Add(p, [Zero EXCEPT !["pingOk"] = ok, !["pingErr"] = Packets - ok, !["pingMs"] = ms * ok])

\* _auth_batch: the attempts that succeeded, and the sum of their times
Auth(p) ==
    \E ok \in 0..Packets, ms \in Times :
        Add(p, [Zero EXCEPT !["authOk"] = ok, !["authErr"] = Packets - ok, !["authMs"] = ms * ok])

\* run_speedtest_single, with success; a failed test leaves the row alone
Speedtest(p) ==
    \E down, up \in Speeds :
        Add(p, [Zero EXCEPT !["download"] = down, !["upload"] = up, !["tests"] = 1])

\* run_aggregate_cycle rates the proxies that are enabled
Aggregate ==
    /\ \E enabled \in SUBSET Proxies :
          rating' = [p \in Proxies |-> IF p \in enabled THEN ComputeRating(Row(current[p]))
                                       ELSE rating[p]]
    /\ UNCHANGED <<today, last, current, archive, measured, batches, lost>>

-----------------------------------------------------------------------------
\* mutant of Reset: a counter is left out
ResetButTests == [p \in Proxies |-> IF current[p] = None THEN None
                                    ELSE [Zero EXCEPT !["tests"] = current[p]["tests"]]]

Reset == [p \in Proxies |-> IF current[p] = None THEN None ELSE Zero]

\* the rows are archived under yesterday, over what was archived there, and zeroed
ArchiveAndReset ==
    /\ last # None /\ last < today
    /\ archive' = [archive EXCEPT ![today - 1] =
                      [p \in Proxies |-> IF current[p] = None THEN @[p] ELSE current[p]]]
    /\ current' = Reset
    /\ UNCHANGED <<today, rating, measured, batches>>

\* mutant of Rollover: the day is not remembered
RolloverForgets == ArchiveAndReset /\ UNCHANGED <<last, lost>>

Rollover == ArchiveAndReset /\ last' = today /\ UNCHANGED lost

\* the commit is executed and its answer lost: the day counts as not rolled over
RolloverUnanswered ==
    /\ ArchiveAndReset
    /\ lost < MaxLost /\ lost' = lost + 1
    /\ UNCHANGED last

\* mutant of FirstCheck: the first check rolls over, whatever was archived before
FirstCheckYesterday ==
    /\ last = None
    /\ last' = today - 1
    /\ UNCHANGED <<today, current, archive, rating, measured, batches, lost>>

\* the first check after a start rolls nothing over
FirstCheck ==
    /\ last = None
    /\ last' = today
    /\ UNCHANGED <<today, current, archive, rating, measured, batches, lost>>

Restart ==
    /\ last' = None
    /\ UNCHANGED <<today, current, archive, rating, measured, batches, lost>>

\* the queue may be frozen for days: nothing need happen between two midnights
Midnight ==
    /\ today < MaxDay /\ today' = today + 1
    /\ UNCHANGED <<last, current, archive, rating, measured, batches, lost>>

DayNext ==
    \/ \E p \in Proxies : Ping(p) \/ Auth(p) \/ Speedtest(p)
    \/ Aggregate
    \/ Rollover \/ RolloverUnanswered \/ FirstCheck
    \/ Restart
    \/ Midnight

DaySpec == DayInit /\ [][DayNext]_vars

-----------------------------------------------------------------------------
\* the sum over all days
Total(amount) ==
    LET before[d \in 0..MaxDay + 1] == IF d = 0 THEN 0 ELSE before[d - 1] + amount[d - 1]
    IN  before[MaxDay + 1]

Archived(p, f) == [d \in Days |-> Row(archive[d][p])[f]]

\* what the archive and the current day hold of f for p
Kept(p, f) == Row(current[p])[f] + Total(Archived(p, f))

\* Restarts and days without a rollover merge days, but whatever was measured is in
\* the archive or in the current row.  A lost answer breaks this: the same day is
\* archived once more, over the row that holds it.
NothingLost ==
    lost = 0 => \A p \in Proxies, f \in Fields : Kept(p, f) >= measured[p][f]

\* Nothing is counted in two days, not even then.
NothingTwice == \A p \in Proxies, f \in Fields : Kept(p, f) <= measured[p][f]

\* Whatever the day brings, the rating is what the documented tables say, unless an
\* average time is between 0 and 1 ms: there the code leaves the tables, see README.
RatingByTable ==
    \A p \in Proxies : LET row == Row(current[p]) IN
        KeepsTable(row["pingMs"], row["pingOk"]) /\ KeepsTable(row["authMs"], row["authOk"])
            => ComputeRating(row) = RatingTable(row)
=============================================================================
