------------------------------- MODULE Rating -------------------------------
(***************************************************************************)
(* The quality rating of a proxy: six metrics of up to 100 points each.    *)
(* Averages are given as a sum and a count, because that is how the day's  *)
(* statistics keep them; times are in tenths of a millisecond.             *)
(***************************************************************************)
EXTENDS Integers, FiniteSets

AtLeastZero(n) == IF n < 0 THEN 0 ELSE n

\* mutant of MsToPoints: a bracket begins at a multiple of 20 ms
MsToPointsEarly(sum, count) ==
    CASE count = 0 -> 0
      [] count > 0 /\ sum = 0 -> 100
      [] OTHER -> AtLeastZero(100 - 10 * (sum \div (200 * count)))

\* 10 points less for every 20 ms; the bracket of an average below 1 ms is -1
MsToPoints(sum, count) ==
    CASE count = 0 -> 0
      [] count > 0 /\ sum = 0 -> 100
      [] OTHER -> AtLeastZero(100 - 10 * ((sum - 10 * count) \div (200 * count)))

SuccessRateToPoints(ok, error) ==
    IF ok + error = 0 THEN 0 ELSE 10 * ((10 * ok) \div (ok + error))

SpeedToPoints(sum, count) ==
    CASE count = 0 -> 0
      [] count > 0 /\ sum >= 100 * count -> 100
      [] OTHER -> 10 * (sum \div (10 * count))

\* stats: one day's counters of one proxy
ComputeRating(stats) ==
      MsToPoints(stats["pingMs"], stats["pingOk"])
    + SuccessRateToPoints(stats["pingOk"], stats["pingErr"])
    + MsToPoints(stats["authMs"], stats["authOk"])
    + SuccessRateToPoints(stats["authOk"], stats["authErr"])
    + SpeedToPoints(stats["download"], stats["tests"])
    + SpeedToPoints(stats["upload"], stats["tests"])

-----------------------------------------------------------------------------
(* The tables of the docstrings, read as: the points are 10 for every      *)
(* limit the average keeps, or reaches.                                    *)

\* 0-20 ms = 100, 21-40 = 90, ..., above 200 = 0
MsTable(sum, count) ==
    IF count = 0 THEN 0
    ELSE 10 * Cardinality({k \in 1..10 : sum < (200 * k + 10) * count})

\* 100 % = 100, 90 % = 90, ...
RateTable(ok, error) ==
    IF ok = 0 THEN 0 ELSE 10 * Cardinality({k \in 1..10 : 10 * ok >= k * (ok + error)})

\* from 100 Mbps 100, 90-99 = 90, ..., 0-9 = 0
SpeedTable(sum, count) ==
    IF count = 0 THEN 0 ELSE 10 * Cardinality({k \in 1..10 : sum >= 10 * k * count})

RatingTable(stats) ==
      MsTable(stats["pingMs"], stats["pingOk"])
    + RateTable(stats["pingOk"], stats["pingErr"])
    + MsTable(stats["authMs"], stats["authOk"])
    + RateTable(stats["authOk"], stats["authErr"])
    + SpeedTable(stats["download"], stats["tests"])
    + SpeedTable(stats["upload"], stats["tests"])

\* The average is not between 0 and 1 ms, where MsToPoints gives 110 points and the
\* table, which ends at 100, does not.
KeepsTable(sum, count) == sum = 0 \/ sum >= 10 * count
=============================================================================
