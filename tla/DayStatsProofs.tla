--------------------------- MODULE DayStatsProofs ---------------------------
(***************************************************************************)
(* Proofs about DayStats and Rating: the types, that the archive and the   *)
(* current day hold what was measured, and that the rating is the tables'. *)
(*                                                                         *)
(* What is archived is summed over the days, so the first part is about    *)
(* sums; they are reasoned about by induction over the days (NatLemmas).   *)
(***************************************************************************)
EXTENDS DayStats, NatLemmas, FiniteSetTheorems, TLAPS

-----------------------------------------------------------------------------
(* Sums over the days *)

\* t[n] is the sum over the first n days.
IsSum(t, amount, days) ==
    /\ t \in [0..days -> Nat]
    /\ t[0] = 0
    /\ \A d \in 1..days : t[d] = t[d - 1] + amount[d - 1]

\* There are such sums, however many days there are.
LEMMA SumsExist ==
    ASSUME NEW amount \in [Days -> Nat]
    PROVE  \E t : IsSum(t, amount, MaxDay + 1)
<1>n. MaxDay \in Nat
  BY DayAssumption
<1> USE <1>n
<1> DEFINE S == {n \in Nat : n <= MaxDay + 1 => \E t : IsSum(t, amount, n)}
<1>1. 0 \in S
  <2>1. IsSum([d \in 0..0 |-> 0], amount, 0)
    BY DEF IsSum
  <2> QED
    BY <2>1
<1>2. ASSUME NEW n \in Nat, n \in S
      PROVE  n + 1 \in S
  <2> SUFFICES ASSUME n + 1 <= MaxDay + 1
               PROVE  \E t : IsSum(t, amount, n + 1)
    OBVIOUS
  <2>1. PICK t : IsSum(t, amount, n)
    BY <1>2
  <2>2. amount[n] \in Nat /\ t[n] \in Nat
    BY <2>1 DEF IsSum, Days
  <2> DEFINE u == [d \in 0..n + 1 |-> IF d = n + 1 THEN t[n] + amount[n] ELSE t[d]]
  <2>3. \A d \in 0..n : t[d] \in Nat
    BY <2>1 DEF IsSum
  <2>4. (\A d \in 0..n : u[d] = t[d]) /\ u[n + 1] = t[n] + amount[n]
    OBVIOUS
  <2>5. u \in [0..n + 1 -> Nat]
    BY <2>2, <2>3
  <2> HIDE DEF u
  <2>6. ASSUME NEW d \in 1..n + 1
        PROVE  u[d] = u[d - 1] + amount[d - 1]
    <3>1. CASE d = n + 1
      BY <2>4, <3>1
    <3>2. CASE d \in 1..n
      <4>1. t[d] = t[d - 1] + amount[d - 1]
        BY <2>1, <3>2 DEF IsSum
      <4>2. d - 1 \in 0..n
        BY <3>2
      <4> QED
        BY <2>4, <3>2, <4>1, <4>2
    <3> QED
      BY <3>1, <3>2
  <2>7. u[0] = 0
    BY <2>1, <2>4 DEF IsSum
  <2>8. IsSum(u, amount, n + 1)
    BY <2>5, <2>6, <2>7, Zenon DEF IsSum
  <2> QED
    BY <2>8
<1> HIDE DEF S
<1>3. Nat \subseteq S
  BY <1>1, <1>2, SetInduction
<1> QED
  BY <1>3 DEF S

\* Total is the last of them.
LEMMA TotalIsSum ==
    ASSUME NEW amount \in [Days -> Nat]
    PROVE  \E t : IsSum(t, amount, MaxDay + 1) /\ Total(amount) = t[MaxDay + 1]
<1>n. MaxDay \in Nat
  BY DayAssumption
<1> USE <1>n
<1> DEFINE Step(b) == [d \in 0..MaxDay + 1 |-> IF d = 0 THEN 0 ELSE b[d - 1] + amount[d - 1]]
           before  == CHOOSE b : b = Step(b)
<1>1. PICK t : IsSum(t, amount, MaxDay + 1)
  BY SumsExist
<1>2. t = Step(t)
  BY <1>1 DEF IsSum
<1>3. before = Step(before)
  BY <1>2, Zenon
<1>4. Total(amount) = before[MaxDay + 1]
  BY DEF Total
<1> HIDE DEF before
<1>5. /\ before[0] = 0
      /\ \A d \in 1..MaxDay + 1 : before[d] = before[d - 1] + amount[d - 1]
  BY <1>3
<1> DEFINE S == {n \in Nat : n <= MaxDay + 1 => before[n] \in Nat}
<1>6. 0 \in S
  BY <1>5
<1>7. ASSUME NEW n \in Nat, n \in S
      PROVE  n + 1 \in S
  <2> SUFFICES ASSUME n + 1 <= MaxDay + 1
               PROVE  before[n + 1] \in Nat
    OBVIOUS
  <2>1. before[n] \in Nat /\ amount[n] \in Nat
    BY <1>7 DEF Days
  <2> QED
    BY <1>5, <2>1
<1> HIDE DEF S
<1>8. Nat \subseteq S
  BY <1>6, <1>7, SetInduction
<1>9. \A n \in 0..MaxDay + 1 : before[n] \in Nat
  BY <1>8 DEF S
<1>10. IsSum(before, amount, MaxDay + 1)
  BY <1>3, <1>5, <1>9 DEF IsSum
<1> QED
  BY <1>4, <1>10

\* One day more or less by so much is as much more or less in total.
LEMMA TotalChange ==
    ASSUME NEW old \in [Days -> Nat], NEW new \in [Days -> Nat], NEW e \in Days,
           \A d \in Days \ {e} : new[d] = old[d]
    PROVE  /\ Total(old) \in Nat /\ Total(new) \in Nat
           /\ Total(new) + old[e] = Total(old) + new[e]
<1>n. MaxDay \in Nat
  BY DayAssumption
<1> USE <1>n
<1> USE DEF Days
<1>1. PICK t : IsSum(t, old, MaxDay + 1) /\ Total(old) = t[MaxDay + 1]
  BY TotalIsSum
<1>2. PICK u : IsSum(u, new, MaxDay + 1) /\ Total(new) = u[MaxDay + 1]
  BY TotalIsSum
<1> DEFINE S == {n \in Nat : n <= MaxDay + 1 =>
                    IF n <= e THEN u[n] = t[n] ELSE u[n] + old[e] = t[n] + new[e]}
<1>3. 0 \in S
  BY <1>1, <1>2 DEF IsSum
<1>4. ASSUME NEW n \in Nat, n \in S
      PROVE  n + 1 \in S
  <2> SUFFICES ASSUME n + 1 <= MaxDay + 1
               PROVE  IF n + 1 <= e THEN u[n + 1] = t[n + 1]
                      ELSE u[n + 1] + old[e] = t[n + 1] + new[e]
    OBVIOUS
  <2>1. u[n + 1] = u[n] + new[n] /\ t[n + 1] = t[n] + old[n]
    BY <1>1, <1>2 DEF IsSum
  <2>2. u[n] \in Nat /\ t[n] \in Nat /\ old[n] \in Nat /\ new[n] \in Nat
    BY <1>1, <1>2 DEF IsSum
  <2>3. IF n <= e THEN u[n] = t[n] ELSE u[n] + old[e] = t[n] + new[e]
    BY <1>4
  <2>4. n # e => new[n] = old[n]
    OBVIOUS
  <2>5. old[e] \in Nat /\ new[e] \in Nat /\ e \in Int
    OBVIOUS
  <2>6. CASE n + 1 <= e
    BY <2>1, <2>3, <2>4, <2>5, <2>6
  <2>7. CASE n = e
    BY <2>1, <2>2, <2>3, <2>7
  <2>8. CASE n > e
    <3>1. u[n] + old[e] = t[n] + new[e] /\ new[n] = old[n]
      BY <2>3, <2>4, <2>5, <2>8
    <3>2. (u[n] + old[n]) + old[e] = (t[n] + old[n]) + new[e]
      <4> DEFINE un == u[n]  tn == t[n]  on == old[n]  oe == old[e]  ne == new[e]
      <4>1. /\ un \in Nat /\ tn \in Nat /\ on \in Nat /\ oe \in Nat /\ ne \in Nat
            /\ un + oe = tn + ne
        BY <2>2, <2>5, <3>1
      <4> HIDE DEF un, tn, on, oe, ne
      <4>2. (un + on) + oe = (tn + on) + ne
        BY <4>1
      <4> QED
        BY <4>2 DEF un, tn, on, oe, ne
    <3>3. u[n + 1] + old[e] = t[n + 1] + new[e]
      BY <2>1, <3>1, <3>2, Zenon
    <3> QED
      BY <2>5, <2>8, <3>3
  <2> QED
    BY <2>5, <2>6, <2>7, <2>8
<1> HIDE DEF S
<1>5. Nat \subseteq S
  BY <1>3, <1>4, SetInduction
<1>6. u[MaxDay + 1] + old[e] = t[MaxDay + 1] + new[e]
  BY <1>5 DEF S
<1> QED
  BY <1>1, <1>2, <1>6 DEF IsSum

\* Nothing on any day is nothing in total.
LEMMA TotalOfNothing == Total([d \in Days |-> 0]) = 0
<1>n. MaxDay \in Nat
  BY DayAssumption
<1> USE <1>n
<1> DEFINE zeros == [d \in Days |-> 0]
<1>1. zeros \in [Days -> Nat] /\ \A d \in Days : zeros[d] = 0
  OBVIOUS
<1> HIDE DEF zeros
<1>2. PICK t : IsSum(t, zeros, MaxDay + 1) /\ Total(zeros) = t[MaxDay + 1]
  BY <1>1, TotalIsSum
<1> DEFINE S == {n \in Nat : n <= MaxDay + 1 => t[n] = 0}
<1>3. 0 \in S
  BY <1>2 DEF IsSum
<1>4. ASSUME NEW n \in Nat, n \in S
      PROVE  n + 1 \in S
  <2> SUFFICES ASSUME n + 1 <= MaxDay + 1
               PROVE  t[n + 1] = 0
    OBVIOUS
  <2>1. t[n + 1] = t[n] + zeros[n]
    BY <1>2 DEF IsSum
  <2>2. t[n] = 0 /\ zeros[n] = 0
    BY <1>1, <1>4 DEF Days
  <2> QED
    BY <2>1, <2>2
<1> HIDE DEF S
<1>5. Nat \subseteq S
  BY <1>3, <1>4, SetInduction
<1>6. t[MaxDay + 1] = 0
  BY <1>5 DEF S
<1> QED
  BY <1>2, <1>6 DEF zeros

-----------------------------------------------------------------------------
(* Averages: a sum divided by a count is compared to a limit by comparing  *)
(* the sum to a multiple of the count                                      *)

LEMMA DivBounds ==
    ASSUME NEW x \in Int, NEW d \in Nat \ {0}
    PROVE  x \div d \in Int /\ (x \div d) * d <= x /\ x < (x \div d + 1) * d
OBVIOUS

LEMMA TimesMonotone ==
    ASSUME NEW x \in Int, NEW y \in Int, NEW d \in Nat \ {0}
    PROVE  x * d \in Int /\ (x <= y => x * d <= y * d)
OBVIOUS

LEMMA DivBelow ==
    ASSUME NEW x \in Int, NEW d \in Nat \ {0}, NEW k \in Int
    PROVE  x \div d \in Int /\ (x < k * d <=> x \div d < k)
<1> DEFINE q == x \div d
<1>1. q \in Int /\ q * d <= x /\ x < (q + 1) * d
  BY DivBounds
<1> HIDE DEF q
<1>2. q < k => (q + 1) * d <= k * d
  BY <1>1, TimesMonotone
<1>3. k <= q => k * d <= q * d
  BY <1>1, TimesMonotone
<1>4. k * d \in Int /\ q * d \in Int /\ (q + 1) * d \in Int
  BY <1>1, TimesMonotone
<1> QED
  BY <1>1, <1>2, <1>3, <1>4 DEF q

LEMMA TenLimits == IsFiniteSet(1..10) /\ Cardinality(1..10) = 10
<1>1. /\ 1 \in Int /\ 10 \in Int /\ ~(1 > 10) /\ 10 - 1 + 1 = 10
  OBVIOUS
<1>2. IsFiniteSet(1..10) /\ Cardinality(1..10) = IF 1 > 10 THEN 0 ELSE 10 - 1 + 1
  BY <1>1, FS_Interval, Zenon
<1> QED
  BY <1>2

LEMMA LimitsFrom ==
    ASSUME NEW a \in Int, NEW b \in Int, a <= b + 1
    PROVE  Cardinality(a..b) = b - a + 1
<1>1. Cardinality(a..b) = IF a > b THEN 0 ELSE b - a + 1
  BY FS_Interval, Zenon
<1>2. CASE a > b
  <2>1. b - a + 1 = 0
    BY <1>2
  <2> QED
    BY <1>1, <1>2, <2>1, Zenon
<1>3. CASE ~(a > b)
  BY <1>1, <1>3, Zenon
<1> QED
  BY <1>2, <1>3

\* Of ten limits those up to q are reached, or those beyond it are kept.
LEMMA Reached ==
    ASSUME NEW q \in 0..10
    PROVE  Cardinality({k \in 1..10 : k <= q}) = q
<1>1. {k \in 1..10 : k <= q} = 1..q
  OBVIOUS
<1>2. 1 \in Int /\ q \in Int /\ 1 <= q + 1 /\ q - 1 + 1 = q
  OBVIOUS
<1>3. Cardinality(1..q) = q - 1 + 1
  BY <1>2, LimitsFrom, Zenon
<1> QED
  BY <1>1, <1>2, <1>3, Zenon

LEMMA LimitsKept ==
    ASSUME NEW q \in Int, -1 <= q
    PROVE  /\ q = -1 => Cardinality({k \in 1..10 : q < k}) = 10
           /\ q >= 0 => Cardinality({k \in 1..10 : q < k}) = AtLeastZero(10 - q)
<1>1. CASE q = -1
  <2>1. {k \in 1..10 : q < k} = 1..10 /\ ~(q >= 0)
    BY <1>1
  <2> QED
    BY <2>1, TenLimits, Zenon
<1>2. CASE q \in 0..10
  <2>1. {k \in 1..10 : q < k} = q + 1..10
    BY <1>2
  <2>2. q + 1 \in Int /\ 10 \in Int /\ q + 1 <= 10 + 1 /\ 10 - (q + 1) + 1 = 10 - q
    BY <1>2
  <2>3. Cardinality(q + 1..10) = 10 - (q + 1) + 1
    BY <2>2, LimitsFrom, Zenon
  <2>4. AtLeastZero(10 - q) = 10 - q /\ ~(q = -1)
    BY <1>2 DEF AtLeastZero
  <2> QED
    BY <2>1, <2>2, <2>3, <2>4, Zenon
<1>3. CASE q > 10
  <2>1. {k \in 1..10 : q < k} = {}
    BY <1>3
  <2> QED
    BY <1>3, <2>1, FS_EmptySet DEF AtLeastZero
<1> QED
  BY <1>1, <1>2, <1>3

-----------------------------------------------------------------------------
(* The metrics *)

\* The average is rated as the table says, and 10 points above it below 1 ms.
LEMMA MsByTable ==
    ASSUME NEW sum \in Nat, NEW count \in Nat
    PROVE  /\ MsToPoints(sum, count) =
                  MsTable(sum, count) + (IF KeepsTable(sum, count) THEN 0 ELSE 10)
           /\ MsToPoints(sum, count) \in 0..110
<1>1. CASE count = 0
  BY <1>1 DEF MsToPoints, MsTable, KeepsTable
<1>2. CASE count > 0 /\ sum = 0
  <2>1. \A k \in 1..10 : 0 < (200 * k + 10) * count
    <3> SUFFICES ASSUME NEW k \in 1..10 PROVE 0 < (200 * k + 10) * count
      OBVIOUS
    <3>1. 1 * count <= (200 * k + 10) * count
      BY <1>2, TimesMonotone
    <3> QED
      BY <1>2, <3>1
  <2>2. {k \in 1..10 : sum < (200 * k + 10) * count} = 1..10
    BY <1>2, <2>1
  <2> QED
    BY <1>2, <2>2, TenLimits DEF MsToPoints, MsTable, KeepsTable
<1>3. CASE count > 0 /\ sum > 0
  <2> DEFINE d == 200 * count
             x == sum - 10 * count
             q == x \div d
  <2>1. d \in Nat \ {0} /\ x \in Int
    BY <1>3
  <2>2. q \in Int
    BY <2>1, DivBelow
  <2>3. \A k \in 1..10 : sum < (200 * k + 10) * count <=> q < k
    <3> SUFFICES ASSUME NEW k \in 1..10
                 PROVE  sum < (200 * k + 10) * count <=> q < k
      OBVIOUS
    <3>1. x < k * d <=> q < k
      BY <2>1, DivBelow
    <3>2. (200 * k + 10) * count = k * d + 10 * count
      OBVIOUS
    <3> QED
      BY <3>1, <3>2
  <2>4. -1 <= q
    <3>1. x < (-1) * d <=> q < -1
      BY <2>1, DivBelow
    <3> QED
      BY <1>3, <2>2, <3>1
  <2>5. q = -1 <=> sum < 10 * count
    <3>1. x < 0 * d <=> q < 0
      BY <2>1, DivBelow
    <3> QED
      BY <2>2, <2>4, <3>1
  <2>6. MsToPoints(sum, count) = AtLeastZero(100 - 10 * q)
    BY <1>3 DEF MsToPoints
  <2>7. MsTable(sum, count) = 10 * Cardinality({k \in 1..10 : q < k})
    <3>1. {k \in 1..10 : sum < (200 * k + 10) * count} = {k \in 1..10 : q < k}
      BY <2>3
    <3> QED
      BY <1>3, <3>1 DEF MsTable
  <2>8. KeepsTable(sum, count) <=> q # -1
    BY <1>3, <2>5 DEF KeepsTable
  <2> HIDE DEF q
  <2> QED
    BY <2>2, <2>4, <2>6, <2>7, <2>8, LimitsKept DEF AtLeastZero
<1> QED
  BY <1>1, <1>2, <1>3

LEMMA MsTableType ==
    ASSUME NEW sum \in Nat, NEW count \in Nat
    PROVE  MsTable(sum, count) \in Int
<1>1. Cardinality({k \in 1..10 : sum < (200 * k + 10) * count}) \in Nat
  BY TenLimits, FS_Subset, FS_CardinalityType
<1> QED
  BY <1>1 DEF MsTable

LEMMA RateByTable ==
    ASSUME NEW ok \in Nat, NEW error \in Nat
    PROVE  /\ SuccessRateToPoints(ok, error) = RateTable(ok, error)
           /\ SuccessRateToPoints(ok, error) \in 0..100
<1>1. CASE ok = 0
  <2>1. error > 0 => 0 \div error = 0
    OBVIOUS
  <2> QED
    BY <1>1, <2>1 DEF SuccessRateToPoints, RateTable
<1>2. CASE ok > 0
  <2> DEFINE d == ok + error
             q == (10 * ok) \div d
  <2>1. d \in Nat \ {0} /\ 10 * ok \in Int
    BY <1>2
  <2>2. q \in Int /\ (10 * ok < 0 * d <=> q < 0) /\ (10 * ok < 11 * d <=> q < 11)
    BY <2>1, DivBelow
  <2>3. q \in 0..10
    BY <1>2, <2>2
  <2>4. \A k \in 1..10 : 10 * ok >= k * (ok + error) <=> k <= q
    <3> SUFFICES ASSUME NEW k \in 1..10
                 PROVE  10 * ok >= k * d <=> k <= q
      OBVIOUS
    <3>1. 10 * ok < k * d <=> q < k
      BY <2>1, DivBelow
    <3>2. k * d \in Int
      BY <2>1, TimesMonotone
    <3> QED
      BY <2>1, <2>2, <3>1, <3>2
  <2>5. {k \in 1..10 : 10 * ok >= k * (ok + error)} = {k \in 1..10 : k <= q}
    BY <2>4
  <2>6. RateTable(ok, error) = 10 * q
    <3>1. Cardinality({k \in 1..10 : k <= q}) = q
      BY <2>3, Reached
    <3>2. RateTable(ok, error) = 10 * Cardinality({k \in 1..10 : k <= q})
      BY <1>2, <2>5 DEF RateTable
    <3> QED
      BY <3>1, <3>2, Zenon
  <2>7. SuccessRateToPoints(ok, error) = 10 * q
    BY <1>2 DEF SuccessRateToPoints
  <2> HIDE DEF q
  <2> QED
    BY <2>3, <2>6, <2>7
<1> QED
  BY <1>1, <1>2

LEMMA SpeedByTable ==
    ASSUME NEW sum \in Nat, NEW count \in Nat
    PROVE  /\ SpeedToPoints(sum, count) = SpeedTable(sum, count)
           /\ SpeedToPoints(sum, count) \in 0..100
<1>1. CASE count = 0
  BY <1>1 DEF SpeedToPoints, SpeedTable
<1>2. CASE count > 0
  <2> DEFINE d == 10 * count
             q == sum \div d
  <2>1. d \in Nat \ {0} /\ sum \in Int
    BY <1>2
  <2>2. q \in Int /\ (sum < 0 * d <=> q < 0) /\ (sum < 10 * d <=> q < 10)
    BY <2>1, DivBelow
  <2>3. \A k \in 1..10 : sum >= 10 * k * count <=> k <= q
    <3> SUFFICES ASSUME NEW k \in 1..10
                 PROVE  sum >= 10 * k * count <=> k <= q
      OBVIOUS
    <3>1. sum < k * d <=> q < k
      BY <2>1, DivBelow
    <3>2. k * d = 10 * k * count
      OBVIOUS
    <3> QED
      BY <2>1, <2>2, <3>1, <3>2
  <2>4. {k \in 1..10 : sum >= 10 * k * count} = {k \in 1..10 : k <= q}
    BY <2>3
  <2>5. SpeedTable(sum, count) = 10 * Cardinality({k \in 1..10 : k <= q})
    BY <1>2, <2>4 DEF SpeedTable
  <2>6. SpeedToPoints(sum, count) = IF q >= 10 THEN 100 ELSE 10 * q
    BY <1>2, <2>2 DEF SpeedToPoints
  <2>7. q >= 0
    BY <2>2
  <2> HIDE DEF q
  <2>8. CASE q < 10
    BY <2>2, <2>5, <2>6, <2>7, <2>8, Reached
  <2>9. CASE q >= 10
    <3>1. {k \in 1..10 : k <= q} = 1..10
      BY <2>2, <2>9
    <3> QED
      BY <2>5, <2>6, <2>9, <3>1, TenLimits
  <2> QED
    BY <2>2, <2>8, <2>9
<1> QED
  BY <1>1, <1>2

\* The rating of any day is within its range, and the tables' but below 1 ms.
LEMMA StatsByTable ==
    ASSUME NEW stats \in Stats
    PROVE  /\ ComputeRating(stats) \in 0..620
           /\ KeepsTable(stats["pingMs"], stats["pingOk"])
              /\ KeepsTable(stats["authMs"], stats["authOk"])
                  => ComputeRating(stats) = RatingTable(stats)
<1>1. \A f \in Fields : stats[f] \in Nat
  BY DEF Stats
<1> DEFINE pms == MsToPoints(stats["pingMs"], stats["pingOk"])
           prt == SuccessRateToPoints(stats["pingOk"], stats["pingErr"])
           ams == MsToPoints(stats["authMs"], stats["authOk"])
           art == SuccessRateToPoints(stats["authOk"], stats["authErr"])
           dwn == SpeedToPoints(stats["download"], stats["tests"])
           up  == SpeedToPoints(stats["upload"], stats["tests"])
<1>2. pms \in 0..110 /\ ams \in 0..110
  BY <1>1, MsByTable DEF Fields
<1>3. prt \in 0..100 /\ art \in 0..100
  BY <1>1, RateByTable DEF Fields
<1>4. dwn \in 0..100 /\ up \in 0..100
  BY <1>1, SpeedByTable DEF Fields
<1>5. ComputeRating(stats) = pms + prt + ams + art + dwn + up
  BY DEF ComputeRating
<1>6. /\ pms = MsTable(stats["pingMs"], stats["pingOk"])
                + (IF KeepsTable(stats["pingMs"], stats["pingOk"]) THEN 0 ELSE 10)
      /\ ams = MsTable(stats["authMs"], stats["authOk"])
                + (IF KeepsTable(stats["authMs"], stats["authOk"]) THEN 0 ELSE 10)
      /\ prt = RateTable(stats["pingOk"], stats["pingErr"])
      /\ art = RateTable(stats["authOk"], stats["authErr"])
      /\ dwn = SpeedTable(stats["download"], stats["tests"])
      /\ up = SpeedTable(stats["upload"], stats["tests"])
  BY <1>1, MsByTable, RateByTable, SpeedByTable DEF Fields
<1>7. /\ MsTable(stats["pingMs"], stats["pingOk"]) \in Int
      /\ MsTable(stats["authMs"], stats["authOk"]) \in Int
  BY <1>1, MsTableType DEF Fields
<1> HIDE DEF pms, prt, ams, art, dwn, up
<1>8. ComputeRating(stats) \in 0..620
  BY <1>2, <1>3, <1>4, <1>5
<1>9. ASSUME KeepsTable(stats["pingMs"], stats["pingOk"]),
             KeepsTable(stats["authMs"], stats["authOk"])
      PROVE  ComputeRating(stats) = RatingTable(stats)
  BY <1>2, <1>3, <1>4, <1>5, <1>6, <1>7, <1>9 DEF RatingTable
<1> QED
  BY <1>8, <1>9

-----------------------------------------------------------------------------
(* The rows *)

LEMMA RowType ==
    ASSUME NEW r \in Stats \cup {None}
    PROVE  Row(r) \in Stats /\ (r \in Stats => Row(r) = r)
BY DayAssumption DEF Row, Zero, Stats

LEMMA PlusType ==
    ASSUME NEW a \in Stats, NEW b \in Stats
    PROVE  Plus(a, b) \in Stats /\ \A f \in Fields : Plus(a, b)[f] = a[f] + b[f]
BY DEF Plus, Stats

\* Every agent adds a row of numbers.
LEMMA AgentsAdd ==
    ASSUME NEW p \in Proxies, Ping(p) \/ Auth(p) \/ Speedtest(p)
    PROVE  \E r \in Stats : Add(p, r)
<1> USE DayAssumption
<1>1. \A ok \in 0..Packets, ms \in Times :
          ok \in Nat /\ Packets - ok \in Nat /\ ms * ok \in Nat
  OBVIOUS
<1>2. CASE Ping(p)
  <2>1. PICK ok \in 0..Packets, ms \in Times :
            Add(p, [Zero EXCEPT !["pingOk"] = ok, !["pingErr"] = Packets - ok,
                                !["pingMs"] = ms * ok])
    BY <1>2 DEF Ping
  <2> QED
    BY <1>1, <2>1 DEF Zero, Stats, Fields
<1>3. CASE Auth(p)
  <2>1. PICK ok \in 0..Packets, ms \in Times :
            Add(p, [Zero EXCEPT !["authOk"] = ok, !["authErr"] = Packets - ok,
                                !["authMs"] = ms * ok])
    BY <1>3 DEF Auth
  <2> QED
    BY <1>1, <2>1 DEF Zero, Stats, Fields
<1>4. CASE Speedtest(p)
  BY <1>4 DEF Speedtest, Zero, Stats, Fields
<1> QED
  BY <1>2, <1>3, <1>4

-----------------------------------------------------------------------------
(* Types *)

LEMMA DayInitType == DayInit => DayTypeOK
<1> SUFFICES ASSUME DayInit PROVE DayTypeOK
  OBVIOUS
<1>1. Zero \in Stats /\ 0 \in Days /\ 0 \in 0..MaxBatches /\ 0 \in 0..MaxLost /\ 0 \in 0..620
  BY DayAssumption DEF Zero, Stats, Days
<1> QED
  BY <1>1 DEF DayInit, DayTypeOK

LEMMA AddType ==
    ASSUME DayTypeOK, NEW p \in Proxies, NEW r \in Stats, Add(p, r)
    PROVE  DayTypeOK'
<1>1. Plus(Row(current[p]), r) \in Stats /\ Plus(measured[p], r) \in Stats
  BY RowType, PlusType DEF DayTypeOK
<1>2. current' \in [Proxies -> Stats \cup {None}] /\ measured' \in [Proxies -> Stats]
  BY <1>1 DEF Add, DayTypeOK
<1>3. batches' \in 0..MaxBatches
  BY DayAssumption DEF Add, DayTypeOK
<1> QED
  BY <1>2, <1>3 DEF Add, DayTypeOK

\* A rollover archives under a day that has been.
LEMMA Yesterday ==
    ASSUME DayTypeOK, last # None, last < today
    PROVE  today - 1 \in Days /\ last <= today - 1
BY DayAssumption DEF DayTypeOK, Days

LEMMA RolloverType ==
    ASSUME DayTypeOK, ArchiveAndReset, last' \in {last, today}, lost' \in 0..MaxLost
    PROVE  DayTypeOK'
<1>1. today - 1 \in Days /\ today \in Days
  BY Yesterday DEF ArchiveAndReset, DayTypeOK
<1>2. archive' \in [Days -> [Proxies -> Stats \cup {None}]]
  BY <1>1 DEF ArchiveAndReset, DayTypeOK
<1>3. Zero \in Stats
  BY DEF Zero, Stats
<1>4. current' \in [Proxies -> Stats \cup {None}]
  BY <1>3 DEF ArchiveAndReset, Reset, DayTypeOK
<1>5. last' \in Days \cup {None} /\ (last' # None => last' <= today)
  BY <1>1 DEF DayTypeOK, Days
<1> QED
  BY <1>2, <1>4, <1>5 DEF ArchiveAndReset, DayTypeOK

LEMMA DayTypeStep ==
    ASSUME DayTypeOK, [DayNext]_vars
    PROVE  DayTypeOK'
<1>1. ASSUME NEW p \in Proxies, Ping(p) \/ Auth(p) \/ Speedtest(p)
      PROVE  DayTypeOK'
  BY <1>1, AgentsAdd, AddType
<1>2. CASE Aggregate
  <2>1. \A p \in Proxies : ComputeRating(Row(current[p])) \in 0..620
    BY RowType, StatsByTable DEF DayTypeOK
  <2>2. rating' \in [Proxies -> 0..620]
    BY <1>2, <2>1 DEF Aggregate, DayTypeOK
  <2> QED
    BY <1>2, <2>2 DEF Aggregate, DayTypeOK
<1>3. CASE Rollover \/ RolloverUnanswered
  <2>1. lost' \in 0..MaxLost
    BY <1>3, DayAssumption DEF Rollover, RolloverUnanswered, DayTypeOK
  <2> QED
    BY <1>3, <2>1, RolloverType DEF Rollover, RolloverUnanswered
<1>4. CASE FirstCheck
  <2>1. today \in Days /\ today <= today
    BY DayAssumption DEF DayTypeOK, Days
  <2> QED
    BY <1>4, <2>1 DEF FirstCheck, DayTypeOK
<1>5. CASE Restart
  BY <1>5 DEF Restart, DayTypeOK
<1>6. CASE Midnight
  <2>1. today + 1 \in Days /\ (last # None => last <= today + 1)
    BY <1>6, DayAssumption DEF Midnight, DayTypeOK, Days
  <2> QED
    BY <1>6, <2>1 DEF Midnight, DayTypeOK
<1>7. CASE UNCHANGED vars
  BY <1>7 DEF vars, DayTypeOK
<1> QED
  BY <1>1, <1>2, <1>3, <1>4, <1>5, <1>6, <1>7 DEF DayNext

\* The rows and the archive hold numbers, the rating stays in its range, which is up
\* to 620, and the day rolled over last is not after today.
THEOREM DayTypeCorrect == DaySpec => []DayTypeOK
BY DayInitType, DayTypeStep, PTL DEF DaySpec

\* The rating of a day, whatever it brought, is what the documented tables say, unless
\* an average time is between 0 and 1 ms.
THEOREM RatingByTableTheorem == DaySpec => []RatingByTable
<1>1. DayTypeOK => RatingByTable
  BY RowType, StatsByTable DEF DayTypeOK, RatingByTable
<1> QED
  BY <1>1, DayTypeCorrect, PTL

-----------------------------------------------------------------------------
(* What is kept *)

\* What is archived of a field is a number for each day.
LEMMA ArchivedType ==
    ASSUME DayTypeOK, NEW p \in Proxies, NEW f \in Fields
    PROVE  /\ Archived(p, f) \in [Days -> Nat]
           /\ \A d \in Days : Row(archive[d][p])[f] \in Nat
           /\ Row(current[p])[f] \in Nat
<1>1. Row(current[p]) \in Stats /\ \A d \in Days : Row(archive[d][p]) \in Stats
  BY RowType DEF DayTypeOK
<1>2. Row(current[p])[f] \in Nat /\ \A d \in Days : Row(archive[d][p])[f] \in Nat
  BY <1>1 DEF Stats
<1> QED
  BY <1>2 DEF Archived

LEMMA KeptType ==
    ASSUME DayTypeOK, NEW p \in Proxies, NEW f \in Fields
    PROVE  Kept(p, f) \in Nat /\ measured[p][f] \in Nat
<1>1. 0 \in Days
  BY DayAssumption DEF Days
<1>2. Total(Archived(p, f)) \in Nat
  BY <1>1, ArchivedType, TotalChange
<1>3. measured[p][f] \in Nat
  BY DEF DayTypeOK, Stats
<1> QED
  BY <1>2, <1>3, ArchivedType DEF Kept

\* The same after a step.
LEMMA KeptTypeNext ==
    ASSUME DayTypeOK', NEW p \in Proxies, NEW f \in Fields
    PROVE  Archived(p, f)' \in [Days -> Nat] /\ Kept(p, f)' \in Nat
<1>1. Row(current'[p]) \in Stats /\ \A d \in Days : Row(archive'[d][p]) \in Stats
  BY RowType DEF DayTypeOK
<1>2. Row(current'[p])[f] \in Nat /\ \A d \in Days : Row(archive'[d][p])[f] \in Nat
  BY <1>1 DEF Stats
<1>3. Archived(p, f)' \in [Days -> Nat]
  BY <1>2 DEF Archived
<1>4. 0 \in Days
  BY DayAssumption DEF Days
<1>5. Total(Archived(p, f)') \in Nat
  BY <1>3, <1>4, TotalChange
<1> QED
  BY <1>2, <1>3, <1>5 DEF Kept

\* The empty tables keep nothing.
LEMMA NothingArchived ==
    ASSUME DayInit, NEW p \in Proxies, NEW f \in Fields
    PROVE  Kept(p, f) = 0
<1>1. \A r : r = None => Row(r)[f] = 0
  BY DEF Row, Zero
<1>2. Archived(p, f) = [d \in Days |-> 0] /\ Row(current[p])[f] = 0
  BY <1>1 DEF Archived, DayInit
<1>3. Total([d \in Days |-> 0]) = 0
  BY TotalOfNothing
<1> QED
  BY <1>2, <1>3 DEF Kept

\* A result is kept.
LEMMA AddKept ==
    ASSUME DayTypeOK, NEW p \in Proxies, NEW r \in Stats, Add(p, r),
           NEW q \in Proxies, NEW f \in Fields
    PROVE  LET more == IF q = p THEN r[f] ELSE 0
           IN  /\ Kept(q, f)' = Kept(q, f) + more
               /\ measured'[q][f] = measured[q][f] + more
<1>1. Archived(q, f)' = Archived(q, f)
  BY DEF Add, Archived
<1>2. /\ Row(current[q])[f] \in Nat /\ Total(Archived(q, f)) \in Nat
      /\ measured[q][f] \in Nat /\ r[f] \in Nat
  <2>1. 0 \in Days
    BY DayAssumption DEF Days
  <2> QED
    BY <2>1, ArchivedType, KeptType, TotalChange DEF Stats
<1>3. CASE q = p
  <2>1. current'[q] = Plus(Row(current[q]), r) /\ measured'[q] = Plus(measured[q], r)
    BY <1>3 DEF Add, DayTypeOK
  <2>2. Row(current[q]) \in Stats /\ measured[q] \in Stats
    BY RowType DEF DayTypeOK
  <2>3. /\ Row(current'[q])[f] = Row(current[q])[f] + r[f]
        /\ measured'[q][f] = measured[q][f] + r[f]
    BY <2>1, <2>2, RowType, PlusType
  <2> QED
    BY <1>1, <1>2, <1>3, <2>3 DEF Kept
<1>4. CASE q # p
  <2>1. current'[q] = current[q] /\ measured'[q] = measured[q]
    BY <1>4 DEF Add, DayTypeOK
  <2> QED
    BY <1>1, <1>2, <1>4, <2>1 DEF Kept
<1> QED
  BY <1>3, <1>4

\* A rollover keeps everything but what it archives a row over.
LEMMA RolloverKept ==
    ASSUME DayTypeOK, ArchiveAndReset, NEW p \in Proxies, NEW f \in Fields, DayTypeOK'
    PROVE  Kept(p, f)' + (IF current[p] = None THEN 0 ELSE Row(archive[today - 1][p])[f])
              = Kept(p, f)
<1> DEFINE y == today - 1
<1>1. y \in Days
  BY Yesterday DEF ArchiveAndReset
<1>2. Archived(p, f) \in [Days -> Nat] /\ Archived(p, f)' \in [Days -> Nat]
  BY ArchivedType, KeptTypeNext
<1>3. \A d \in Days : archive'[d][p] =
         IF d = y /\ current[p] # None THEN current[p] ELSE archive[d][p]
  BY DEF ArchiveAndReset, DayTypeOK
<1>4. \A d \in Days \ {y} : Archived(p, f)'[d] = Archived(p, f)[d]
  BY <1>3 DEF Archived
<1>5. /\ Archived(p, f)[y] = Row(archive[y][p])[f]
      /\ Archived(p, f)'[y] = IF current[p] # None THEN Row(current[p])[f]
                              ELSE Row(archive[y][p])[f]
  BY <1>1, <1>3 DEF Archived
<1>6. /\ Total(Archived(p, f)) \in Nat /\ Total(Archived(p, f)') \in Nat
      /\ Total(Archived(p, f)') + Archived(p, f)[y] = Total(Archived(p, f)) + Archived(p, f)'[y]
  BY <1>1, <1>2, <1>4, TotalChange
<1>7. Row(current'[p])[f] = 0
  BY DayAssumption DEF ArchiveAndReset, Reset, Row, Zero, DayTypeOK
<1>8. current[p] = None => Row(current[p])[f] = 0
  BY DEF Row, Zero
<1>9. Row(current[p])[f] \in Nat /\ Row(archive[y][p])[f] \in Nat
  BY <1>1, ArchivedType
<1>10. /\ Kept(p, f) = Row(current[p])[f] + Total(Archived(p, f))
       /\ Kept(p, f)' = Row(current'[p])[f] + Total(Archived(p, f)')
  BY DEF Kept
<1>11. CASE current[p] = None
  BY <1>5, <1>6, <1>7, <1>8, <1>9, <1>10, <1>11
<1>12. CASE current[p] # None
  BY <1>5, <1>6, <1>7, <1>9, <1>10, <1>12
<1> QED
  BY <1>11, <1>12

\* A step that leaves the rows alone leaves what they hold.
LEMMA SameKept ==
    ASSUME UNCHANGED <<current, archive, measured>>
    PROVE  \A p, f : Kept(p, f)' = Kept(p, f) /\ measured'[p][f] = measured[p][f]
BY DEF Kept, Archived

\* The steps that do not.
LEMMA RowSteps ==
    ASSUME [DayNext]_vars
    PROVE  \/ \E p \in Proxies, r \in Stats : Add(p, r)
           \/ Rollover \/ RolloverUnanswered
           \/ UNCHANGED <<current, archive, measured, lost>>
BY AgentsAdd DEF DayNext, Aggregate, FirstCheck, Restart, Midnight, vars

\* Nothing is counted in two days: a rollover zeroes the row in the transaction that
\* archives it, and may archive it over another but never beside it.
THEOREM NothingTwiceTheorem == DaySpec => []NothingTwice
<1>1. DayInit => NothingTwice
  <2> SUFFICES ASSUME DayInit, NEW p \in Proxies, NEW f \in Fields
               PROVE  Kept(p, f) <= measured[p][f]
    BY DEF NothingTwice
  <2>1. Kept(p, f) = 0
    BY NothingArchived
  <2>2. measured[p][f] = 0
    BY DEF DayInit, Zero
  <2> QED
    BY <2>1, <2>2
<1>2. ASSUME DayTypeOK, DayTypeOK', NothingTwice, [DayNext]_vars
      PROVE  NothingTwice'
  <2> SUFFICES ASSUME NEW p \in Proxies, NEW f \in Fields
               PROVE  Kept(p, f)' <= measured'[p][f]
    BY DEF NothingTwice
  <2>1. /\ Kept(p, f) \in Nat /\ measured[p][f] \in Nat
        /\ Kept(p, f) <= measured[p][f]
    BY <1>2, KeptType DEF NothingTwice
  <2>2. ASSUME NEW q \in Proxies, NEW r \in Stats, Add(q, r)
        PROVE  Kept(p, f)' <= measured'[p][f]
    <3>1. r[f] \in Nat
      BY DEF Stats
    <3> QED
      BY <1>2, <2>1, <2>2, <3>1, AddKept
  <2>3. CASE Rollover \/ RolloverUnanswered
    <3>1. ArchiveAndReset
      BY <2>3 DEF Rollover, RolloverUnanswered
    <3>2. today - 1 \in Days
      BY <1>2, <3>1, Yesterday DEF ArchiveAndReset
    <3>3. Row(archive[today - 1][p])[f] \in Nat
      BY <1>2, <3>2, ArchivedType
    <3>4. Kept(p, f)' + (IF current[p] = None THEN 0 ELSE Row(archive[today - 1][p])[f])
             = Kept(p, f)
      BY <1>2, <3>1, RolloverKept
    <3>5. Kept(p, f)' \in Nat
      BY <1>2, KeptTypeNext
    <3>6. measured' = measured
      BY <3>1 DEF ArchiveAndReset
    <3> QED
      BY <2>1, <3>3, <3>4, <3>5, <3>6
  <2>4. CASE UNCHANGED <<current, archive, measured, lost>>
    BY <2>1, <2>4, SameKept
  <2> QED
    BY <1>2, <2>2, <2>3, <2>4, RowSteps
<1> QED
  BY <1>1, <1>2, DayTypeCorrect, PTL DEF DaySpec

-----------------------------------------------------------------------------
(* Nothing is lost unless an answer is: a rollover archives under          *)
(* yesterday, and nothing is archived there or later before, because what  *)
(* is archived is archived before the day remembered as rolled over.       *)
Unarchived ==
    lost = 0 => \A d \in Days : d >= today \/ (last # None /\ d >= last) =>
                    \A p \in Proxies : archive[d][p] = None

LEMMA UnarchivedStep ==
    ASSUME DayTypeOK, Unarchived, [DayNext]_vars
    PROVE  Unarchived'
<1> SUFFICES ASSUME lost' = 0, NEW d \in Days, d >= today' \/ (last' # None /\ d >= last'),
                    NEW p \in Proxies
             PROVE  archive'[d][p] = None
  BY DEF Unarchived
<1>n. today \in Int /\ d \in Int /\ (last # None => last \in Int /\ last <= today)
  BY DayAssumption DEF DayTypeOK, Days
<1>1. CASE Rollover
  <2>1. lost = 0 /\ d >= today
    BY <1>1 DEF Rollover, ArchiveAndReset
  <2>2. archive[d][p] = None /\ d # today - 1
    BY <1>n, <2>1 DEF Unarchived
  <2> QED
    BY <1>1, <2>2 DEF Rollover, ArchiveAndReset, DayTypeOK
<1>2. CASE RolloverUnanswered
  BY <1>2, DayAssumption DEF RolloverUnanswered, DayTypeOK
<1>3. CASE UNCHANGED <<archive, lost>> /\ (d >= today \/ (last # None /\ d >= last))
  BY <1>3 DEF Unarchived
<1>4. Rollover \/ RolloverUnanswered \/ UNCHANGED <<archive, lost>>
  BY RowSteps DEF Add
<1>5. Rollover \/ RolloverUnanswered \/ d >= today \/ (last # None /\ d >= last)
  <2>1. CASE FirstCheck \/ Restart
    BY <2>1 DEF FirstCheck, Restart
  <2>2. CASE Midnight
    <3>1. d >= today + 1 => d >= today
      BY <1>n
    <3> QED
      BY <2>2, <3>1 DEF Midnight
  <2>3. CASE UNCHANGED <<today, last>>
    BY <2>3
  <2>4. Rollover \/ RolloverUnanswered \/ FirstCheck \/ Restart \/ Midnight
        \/ UNCHANGED <<today, last>>
    BY AgentsAdd DEF DayNext, Add, Aggregate, vars
  <2> QED
    BY <2>1, <2>2, <2>3, <2>4
<1> QED
  BY <1>1, <1>2, <1>3, <1>4, <1>5

THEOREM DayInvariant == DaySpec => []Unarchived
<1>1. DayInit => Unarchived
  BY DEF DayInit, Unarchived
<1> QED
  BY <1>1, UnarchivedStep, DayTypeCorrect, PTL DEF DaySpec

\* Whatever was measured is in the archive or in the row of the day, over restarts,
\* days without a rollover and failed transactions, until an answer is lost.
THEOREM NothingLostTheorem == DaySpec => []NothingLost
<1>1. DayInit => NothingLost
  <2> SUFFICES ASSUME DayInit, NEW p \in Proxies, NEW f \in Fields
               PROVE  Kept(p, f) >= measured[p][f]
    BY DEF NothingLost
  <2>1. Kept(p, f) = 0
    BY NothingArchived
  <2>2. measured[p][f] = 0
    BY DEF DayInit, Zero
  <2> QED
    BY <2>1, <2>2
<1>2. ASSUME DayTypeOK, DayTypeOK', Unarchived, NothingLost, [DayNext]_vars
      PROVE  NothingLost'
  <2> SUFFICES ASSUME lost' = 0, NEW p \in Proxies, NEW f \in Fields
               PROVE  Kept(p, f)' >= measured'[p][f]
    BY DEF NothingLost
  <2>1. Kept(p, f) \in Nat /\ measured[p][f] \in Nat
    BY <1>2, KeptType
  <2>2. lost = 0 => Kept(p, f) >= measured[p][f]
    BY <1>2 DEF NothingLost
  <2>3. ASSUME NEW q \in Proxies, NEW r \in Stats, Add(q, r)
        PROVE  Kept(p, f)' >= measured'[p][f]
    <3>1. r[f] \in Nat /\ lost = 0
      BY <2>3 DEF Stats, Add
    <3> QED
      BY <1>2, <2>1, <2>2, <2>3, <3>1, AddKept
  <2>4. CASE Rollover
    <3>1. ArchiveAndReset /\ lost = 0
      BY <2>4 DEF Rollover
    <3>2. today - 1 \in Days /\ last # None /\ last <= today - 1
      BY <1>2, <3>1, Yesterday DEF ArchiveAndReset
    <3>3. archive[today - 1][p] = None
      BY <1>2, <3>1, <3>2, DayAssumption DEF Unarchived, DayTypeOK, Days
    <3>4. Row(archive[today - 1][p])[f] = 0
      BY <3>3 DEF Row, Zero
    <3>5. Kept(p, f)' + (IF current[p] = None THEN 0 ELSE Row(archive[today - 1][p])[f])
             = Kept(p, f)
      BY <1>2, <3>1, RolloverKept
    <3>6. Kept(p, f)' \in Nat
      BY <1>2, KeptTypeNext
    <3>7. measured' = measured
      BY <3>1 DEF ArchiveAndReset
    <3> QED
      BY <2>1, <2>2, <3>1, <3>4, <3>5, <3>6, <3>7
  <2>5. CASE RolloverUnanswered
    BY <1>2, <2>5, DayAssumption DEF RolloverUnanswered, DayTypeOK
  <2>6. CASE UNCHANGED <<current, archive, measured, lost>>
    BY <2>1, <2>2, <2>6, SameKept
  <2> QED
    BY <1>2, <2>3, <2>4, <2>5, <2>6, RowSteps
<1> QED
  BY <1>1, <1>2, DayInvariant, DayTypeCorrect, PTL DEF DaySpec
=============================================================================
