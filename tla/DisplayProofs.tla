--------------------------- MODULE DisplayProofs ---------------------------
(***************************************************************************)
(* Proofs about Display: whatever numbers the API answers, the figures can *)
(* be read back and the marks are true, and wherever the mouse goes the    *)
(* tooltip is of the point nearest to it.  A picture is a function of its  *)
(* input, so the invariant is that what is shown is the view of the input, *)
(* and the work is in the lemmas about the formats and the chart.          *)
(***************************************************************************)
EXTENDS Display, WellFoundedInduction, TLAPS

---------------------------------------------------------------------------
(* Numbers *)

\* A set of natural numbers that has a member has a least one.
LEMMA LeastOfSet ==
    ASSUME NEW S \in SUBSET Nat, S # {}
    PROVE  \E m \in S : \A n \in S : m <= n
<1>1. PICK m \in S : \A n \in S : ~ (<<n, m>> \in OpToRel(<, Nat))
  <2>1. IsWellFoundedOn(OpToRel(<, Nat), Nat)
    BY NatLessThanWellFounded
  <2>2. S \subseteq Nat
    OBVIOUS
  <2> QED BY <2>1, <2>2, WFMin
<1>2. \A n \in S : ~ (n < m)
  BY <1>1 DEF OpToRel
<1> QED BY <1>2

\* The quotient by a positive number, bounded from both sides.
LEMMA Quotient ==
    ASSUME NEW a \in Int, NEW d \in Nat, d > 0
    PROVE  /\ a \div d \in Int /\ a % d \in 0..(d - 1)
           /\ a = d * (a \div d) + (a % d)
OBVIOUS

---------------------------------------------------------------------------
(* Figures *)

LEMMA SecondsType == ASSUME NEW ms \in Int PROVE seconds(ms) \in Nat
BY DEF seconds

\* The parts of a duration read back to its seconds.
LEMMA PartsReadBack ==
    ASSUME NEW s \in Nat
    PROVE  LET p == parts(s)
               said == 3600 * orZero(p.h) + 60 * orZero(p.m) + orZero(p.s)
           IN /\ said <= s /\ s < said + (IF p.h = Null THEN 1 ELSE 60)
              /\ orZero(p.m) < 60 /\ orZero(p.s) < 60
<1> DEFINE h == s \div 3600
           m == (s % 3600) \div 60
           r == s % 60
<1>1. /\ h \in Nat /\ m \in 0..59 /\ r \in 0..59
      /\ s = 3600 * h + 60 * m + r
  OBVIOUS
<1>2. /\ parts(s).h = IF h > 0 THEN h ELSE Null
      /\ parts(s).m = IF h > 0 \/ m > 0 THEN m ELSE Null
      /\ parts(s).s = IF h > 0 THEN Null ELSE r
  BY DEF parts
<1> HIDE DEF h, m, r
<1>3. CASE h > 0
  BY <1>1, <1>2, <1>3, DisplayAssumption DEF orZero
<1>4. CASE h = 0 /\ m > 0
  BY <1>1, <1>2, <1>4, DisplayAssumption DEF orZero
<1>5. CASE h = 0 /\ m = 0
  BY <1>1, <1>2, <1>5, DisplayAssumption DEF orZero
<1> QED BY <1>1, <1>3, <1>4, <1>5

\* A period is its number of units, and no larger unit divides it.
LEMMA SecondsReadBack ==
    ASSUME NEW s \in Nat
    PROVE  /\ fmtSeconds(s).n * fmtSeconds(s).unit = s
           /\ \A unit \in {86400, 3600, 60} : unit > fmtSeconds(s).unit => s % unit # 0
<1>1. fmtSeconds(s).n = s \div unitOf(s) /\ fmtSeconds(s).unit = unitOf(s)
  BY DEF fmtSeconds
<1>2. CASE s % 86400 = 0
  BY <1>1, <1>2 DEF unitOf
<1>3. CASE s % 86400 # 0 /\ s % 3600 = 0
  BY <1>1, <1>3 DEF unitOf
<1>4. CASE s % 86400 # 0 /\ s % 3600 # 0 /\ s % 60 = 0
  BY <1>1, <1>4 DEF unitOf
<1>5. CASE s % 86400 # 0 /\ s % 3600 # 0 /\ s % 60 # 0
  BY <1>1, <1>5 DEF unitOf
<1> QED BY <1>2, <1>3, <1>4, <1>5

\* "100%" is said when all checks succeeded.
LEMMA PctWhole ==
    ASSUME NEW ok, NEW total, total # 0
    PROVE  fmtPct(ok, total).decimals = 0 <=> ok = total
BY DEF fmtPct

\* The share of checks that succeeded, rounded, is a percentage, and off by at
\* most half a hundredth of one.
LEMMA PctInRange ==
    ASSUME NEW ok \in Nat, NEW total \in Nat, ok <= total, total # 0
    PROVE  LET h == fmtPct(ok, total).hundredths
           IN /\ 0 <= h /\ h <= 10000
              /\ -total <= 2 * h * total - 20000 * ok /\ 2 * h * total - 20000 * ok <= total
<1> DEFINE a == 20000 * ok + total
           d == 2 * total
           q == a \div d
<1>1. a \in Nat /\ d \in Nat /\ d > 0 /\ a < 10001 * d
  OBVIOUS
<1>2. q \in Int /\ a % d \in 0..(d - 1) /\ a = d * q + (a % d)
  BY <1>1, Quotient
<1>3. fmtPct(ok, total).hundredths = q
  BY DEF fmtPct
<1> DEFINE rest == a % d
<1>4. rest \in Int /\ 0 <= rest /\ rest <= 2 * total - 1 /\ 20000 * ok + total = d * q + rest
  BY <1>1, <1>2
<1> HIDE DEF a, q, rest
<1>5. 2 * q * total = d * q
  BY <1>2
<1>6. -total <= 2 * q * total - 20000 * ok /\ 2 * q * total - 20000 * ok <= total
  BY <1>1, <1>2, <1>4, <1>5
<1> HIDE DEF d
<1>7. q >= 0
  <2>1. SUFFICES ASSUME q <= -1 PROVE FALSE
    BY <1>2
  <2>2. d * q <= d * (-1)
    BY <1>1, <1>2, <2>1
  <2> QED BY <1>1, <1>2, <2>2
<1>8. q <= 10000
  <2>1. SUFFICES ASSUME q >= 10001 PROVE FALSE
    BY <1>2
  <2>2. d * q >= d * 10001
    BY <1>1, <1>2, <2>1
  <2> QED BY <1>1, <1>2, <2>2
<1> QED BY <1>3, <1>6, <1>7, <1>8

\* The segments are the readings, and add up to the connection or to the first
\* byte, the longer.
LEMMA SegmentsReadBack ==
    ASSUME NEW check, check.dns \in Nat \cup {Null}, check.tcp \in Nat \cup {Null},
           check.tls \in Nat \cup {Null}, check.ttfb \in Nat \cup {Null}
    PROVE  LET p == segments(check)
               connection == p.dns + p.tcp + p.tls
               total == connection + p.server
           IN /\ p.dns = orZero(check.dns) /\ p.tcp = orZero(check.tcp)
              /\ p.tls = orZero(check.tls)
              /\ total >= connection /\ total >= orZero(check.ttfb)
              /\ total \in {connection, orZero(check.ttfb)}
<1>1. /\ orZero(check.dns) \in Nat /\ orZero(check.tcp) \in Nat
      /\ orZero(check.tls) \in Nat /\ orZero(check.ttfb) \in Nat
  BY DEF orZero
<1> DEFINE rest == orZero(check.ttfb) - orZero(check.dns) - orZero(check.tcp) - orZero(check.tls)
<1>2. /\ segments(check).dns = orZero(check.dns) /\ segments(check).tcp = orZero(check.tcp)
      /\ segments(check).tls = orZero(check.tls)
      /\ segments(check).server = IF rest > 0 THEN rest ELSE 0
  BY DEF segments
<1> QED BY <1>1, <1>2

---------------------------------------------------------------------------
(* Marks *)

\* The chip follows the ladder of the mails, and says "expired" of the past.
LEMMA ChipOfLead ==
    ASSUME NEW hours \in Int
    PROVE  /\ hours <= 24 * certUrgentDays => chip(hours).tone = "alert"
           /\ hours <= 24 * certWarnDays => chip(hours).tone # "calm"
           /\ chip(hours).tone = "alert" => hours < 24 * (certUrgentDays + 1)
           /\ chip(hours).tone = "signal" => hours < 24 * (certWarnDays + 1)
           /\ chip(hours).text = "expired" <=> hours < 0
<1> DEFINE days == hours \div 24
<1>1. days \in Int /\ 24 * days <= hours /\ hours < 24 * (days + 1)
  OBVIOUS
<1>2. /\ chip(hours).tone = IF days <= 3 THEN "alert" ELSE IF days <= 14 THEN "signal" ELSE "calm"
      /\ chip(hours).text = IF days < 0 THEN "expired" ELSE IF days = 0 THEN "today" ELSE "valid"
  BY DEF chip, tone, daysLeft
<1> HIDE DEF days
<1>3. days < 0 <=> hours < 0
  BY <1>1
<1>4. chip(hours).text = "expired" <=> hours < 0
  BY <1>2, <1>3
<1>5. CASE days <= 3
  BY <1>1, <1>2, <1>4, <1>5 DEF certUrgentDays, certWarnDays
<1>6. CASE days > 3 /\ days <= 14
  BY <1>1, <1>2, <1>4, <1>6 DEF certUrgentDays, certWarnDays
<1>7. CASE days > 14
  BY <1>1, <1>2, <1>4, <1>7 DEF certUrgentDays, certWarnDays
<1> QED BY <1>1, <1>5, <1>6, <1>7

\* The measures of the plot.
LEMMA Measures ==
    /\ W = 720 /\ H = 180
    /\ PAD.top = 12 /\ PAD.right = 12 /\ PAD.bottom = 24 /\ PAD.left = 48
    /\ innerW = 660 /\ innerH = 144
BY DEF W, H, PAD, innerW, innerH

\* What the lemmas about the chart ask of its input.
OfSeries(b, n) == n \in Nat \ {0} /\ b \in Series(n)

LEMMA DrawnAverages ==
    ASSUME NEW n, NEW b, OfSeries(b, n), NEW i \in drawn(b, n)
    PROVE  i \in 0..(n - 1) /\ b[i] \in Nat
BY DisplayAssumption DEF OfSeries, Series, drawn

\* Among the first k buckets some average, or 100, is the highest: the least
\* k for which it is not would leave k - 1 with a highest, and adding one
\* average cannot take it away.
LEMMA HighestExists ==
    ASSUME NEW n, NEW b, OfSeries(b, n)
    PROVE  \E a \in {100} \cup {b[i] : i \in drawn(b, n)} :
              \A other \in {100} \cup {b[i] : i \in drawn(b, n)} : other <= a
<1> DEFINE averages == {100} \cup {b[i] : i \in drawn(b, n)}
           highest(a, k) == a >= 100 /\ \A i \in drawn(b, n) : i < k => b[i] <= a
           Bad == {k \in 0..n : ~ \E a \in averages : highest(a, k)}
<1>0. n \in Nat /\ averages \in SUBSET Nat
  BY DrawnAverages DEF OfSeries
<1>1. Bad = {}
  <2>1. SUFFICES ASSUME Bad # {} PROVE FALSE
    OBVIOUS
  <2>2. Bad \in SUBSET Nat
    BY <1>0
  <2>3. PICK k \in Bad : \A m \in Bad : k <= m
    BY <2>1, <2>2, LeastOfSet
  <2>4. k \in 0..n
    OBVIOUS
  <2>5. k # 0
    <3>1. highest(100, 0)
      BY DrawnAverages, <1>0 DEF OfSeries
    <3>2. \E a \in averages : highest(a, 0)
      BY <3>1
    <3> QED BY <2>3, <3>2
  <2>6. k - 1 \in 0..n /\ k - 1 \notin Bad
    BY <1>0, <2>3, <2>4, <2>5
  <2>7. PICK a \in averages : highest(a, k - 1)
    BY <2>6
  <2>8. \E c \in averages : highest(c, k)
    <3>1. CASE \E i \in drawn(b, n) : i = k - 1 /\ b[i] > a
      <4>1. PICK i \in drawn(b, n) : i = k - 1 /\ b[i] > a
        BY <3>1
      <4>2. b[i] \in averages
        OBVIOUS
      <4>3. \A j \in drawn(b, n) : j < k => b[j] <= b[i]
        BY <4>1, <2>4, <2>7, <1>0, DrawnAverages
      <4> QED BY <4>1, <4>2, <4>3, <2>7, <1>0, DrawnAverages
    <3>2. CASE \A i \in drawn(b, n) : i = k - 1 => b[i] <= a
      BY <3>2, <2>4, <2>7, <1>0, DrawnAverages
    <3> QED BY <3>1, <3>2, <1>0, DrawnAverages
  <2> QED BY <2>3, <2>8
<1>2. n \in 0..n
  BY <1>0
<1>3. PICK a \in averages : highest(a, n)
  BY <1>1, <1>2
<1>4. \A other \in averages : other <= a
  BY <1>0, <1>3, DrawnAverages
<1> QED BY <1>4

\* The scale is positive and no average is above it.
LEMMA ScaleCovers ==
    ASSUME NEW n, NEW b, OfSeries(b, n)
    PROVE  /\ yMax(b, n) \in Nat \ {0}
           /\ \A i \in drawn(b, n) : b[i] <= yMax(b, n)
<1> DEFINE averages == {100} \cup {b[i] : i \in drawn(b, n)}
<1>1. averages \in SUBSET Nat
  BY DrawnAverages
<1>2. rawMax(b, n) \in averages /\ \A other \in averages : other <= rawMax(b, n)
  <2>1. \E a \in averages : \A other \in averages : other <= a
    BY HighestExists
  <2>2. rawMax(b, n) = CHOOSE a \in averages : \A other \in averages : other <= a
    BY DEF rawMax
  <2> HIDE DEF averages
  <2> QED BY <2>1, <2>2
<1>3. /\ rawMax(b, n) \in Nat /\ rawMax(b, n) >= 100
      /\ \A i \in drawn(b, n) : b[i] <= rawMax(b, n)
  BY <1>1, <1>2
<1>4. yMax(b, n) \in Nat /\ yMax(b, n) >= rawMax(b, n)
  BY <1>3 DEF yMax
<1> QED BY <1>3, <1>4, DrawnAverages

\* Points lie between the margins, from left to right.
LEMMA PointsAcross ==
    ASSUME NEW n \in Nat \ {0}, NEW i \in 0..(n - 1)
    PROVE  /\ xAt(i, n) \in Int
           /\ PAD.left * gaps(n) <= xAt(i, n) /\ xAt(i, n) <= (W - PAD.right) * gaps(n)
           /\ \A j \in 0..(n - 1) : i < j => xAt(i, n) < xAt(j, n)
<1>1. CASE n = 1
  BY <1>1, Measures DEF xAt, gaps
<1>2. CASE n # 1
  BY <1>2, Measures DEF xAt, gaps
<1> QED BY <1>1, <1>2

\* ... and between its upper and its lower edge.
LEMMA PointsWithin ==
    ASSUME NEW top \in Nat, NEW avg \in Nat, avg <= top
    PROVE  PAD.top * top <= yAt(avg, top) /\ yAt(avg, top) <= (H - PAD.bottom) * top
BY Measures DEF yAt

\* The longer response time is the higher point.
LEMMA HigherIsLonger ==
    ASSUME NEW top \in Nat, NEW a \in Nat, NEW c \in Nat
    PROVE  a < c <=> yAt(c, top) < yAt(a, top)
BY Measures DEF yAt

LEMMA DistanceType ==
    ASSUME NEW n \in Nat \ {0}, NEW i \in 0..(n - 1), NEW x \in Int
    PROVE  distance(i, n, x) \in Nat
<1>1. xAt(i, n) \in Int /\ gaps(n) \in Int
  BY PointsAcross DEF gaps
<1>2. xAt(i, n) - x * gaps(n) \in Int
  BY <1>1
<1> QED BY <1>2 DEF distance

\* Of the points at the least distance one is leftmost, and the tooltip has it.
LEMMA NearestIsNearest ==
    ASSUME NEW n, NEW b, OfSeries(b, n), NEW x \in Int, drawn(b, n) # {}
    PROVE  /\ nearest(b, n, x) \in drawn(b, n)
           /\ \A j \in drawn(b, n) :
                distance(nearest(b, n, x), n, x) <= distance(j, n, x)
<1> DEFINE d(i) == distance(i, n, x)
           closest(i) == \A j \in drawn(b, n) : d(i) < d(j) \/ (d(i) = d(j) /\ i <= j)
<1>1. \A i \in drawn(b, n) : i \in Nat /\ d(i) \in Nat
  BY DrawnAverages, DistanceType DEF OfSeries
<1> DEFINE lengths == {d(i) : i \in drawn(b, n)}
<1>2. PICK least \in lengths : \A l \in lengths : least <= l
  <2>1. lengths \in SUBSET Nat /\ lengths # {}
    BY <1>1
  <2> HIDE DEF lengths
  <2> QED BY <2>1, LeastOfSet
<1> DEFINE ties == {i \in drawn(b, n) : d(i) = least}
<1>3. PICK m \in ties : \A i \in ties : m <= i
  <2>1. ties \in SUBSET Nat /\ ties # {}
    BY <1>1
  <2> HIDE DEF ties
  <2> QED BY <2>1, LeastOfSet
<1>4. \A j \in drawn(b, n) : least <= d(j)
  BY <1>2
<1>5. m \in drawn(b, n) /\ d(m) = least
  BY <1>3
<1> HIDE DEF d
<1>6. closest(m)
  <2>1. SUFFICES ASSUME NEW j \in drawn(b, n) PROVE d(m) < d(j) \/ (d(m) = d(j) /\ m <= j)
    OBVIOUS
  <2>2. CASE d(j) = least
    BY <1>3, <1>5, <2>2
  <2>3. CASE d(j) # least
    BY <1>1, <1>4, <1>5, <2>3
  <2> QED BY <2>2, <2>3
<1>7. nearest(b, n, x) = CHOOSE i \in drawn(b, n) : closest(i)
  BY DEF nearest, d
<1> HIDE DEF closest
<1>8. nearest(b, n, x) \in drawn(b, n) /\ closest(nearest(b, n, x))
  BY <1>5, <1>6, <1>7
<1>9. \A j \in drawn(b, n) : d(nearest(b, n, x)) <= d(j)
  BY <1>1, <1>8 DEF closest
<1> QED BY <1>8, <1>9 DEF d

---------------------------------------------------------------------------
(* What is shown *)

\* An input of a kind carries what the API may answer of that kind.
LEMMA InputTypes ==
    ASSUME NEW i \in Inputs
    PROVE  /\ i.kind = "span" => i.ms \in Int
           /\ i.kind = "window" => i.s \in Nat
           /\ i.kind = "phases" => /\ i.dns \in Nat \cup {Null} /\ i.tcp \in Nat \cup {Null}
                                   /\ i.tls \in Nat \cup {Null} /\ i.ttfb \in Nat \cup {Null}
           /\ i.kind = "uptime" => i.ok \in Nat /\ i.total \in Nat /\ i.ok <= i.total
           /\ i.kind = "certificate" => i.hours \in Int
           /\ i.kind = "chart" => i.n \in Nat /\ i.b \in Series(i.n)
<1>1. CASE i \in [kind : {"span"}, ms : Spans]
  BY <1>1, DisplayAssumption
<1>2. CASE i \in [kind : {"window"}, s : Windows]
  BY <1>2, DisplayAssumption
<1>3. CASE i \in [kind : {"phases"}, dns : Readings \cup {Null}, tcp : Readings \cup {Null},
                  tls : Readings \cup {Null}, ttfb : Readings \cup {Null}]
  BY <1>3, DisplayAssumption
<1>4. CASE i \in Uptimes
  BY <1>4, DisplayAssumption DEF Uptimes
<1>5. CASE i \in [kind : {"certificate"}, hours : Leads]
  BY <1>5, DisplayAssumption
<1>6. CASE i \in Charts
  <2>1. PICK n \in Buckets : i \in [kind : {"chart"}, n : {n}, b : Series(n)]
    BY <1>6 DEF Charts
  <2>2. i.kind = "chart" /\ i.n = n /\ i.b \in Series(n)
    BY <2>1
  <2> QED BY <2>2, DisplayAssumption
<1> QED BY <1>1, <1>2, <1>3, <1>4, <1>5, <1>6 DEF Inputs

\* Each kind of input has a view of its own.
LEMMA ViewOfKind ==
    ASSUME NEW i
    PROVE  /\ i.kind = "span" => view(i) = fmtDuration(i.ms)
           /\ i.kind = "window" => view(i) = fmtSeconds(i.s)
           /\ i.kind = "phases" => view(i) = phases(i)
           /\ i.kind = "uptime" => view(i) = fmtPct(i.ok, i.total)
           /\ i.kind = "certificate" => view(i) = chip(i.hours)
           /\ i.kind = "chart" => view(i) = chart(i.b, i.n)
BY Zenon DEF view

Shows == input \in Inputs /\ (shown = Blank \/ shown = view(input))

LEMMA AlwaysShows == Spec => []Shows
<1>1. Init => Shows
  BY DEF Init, Shows
<1>2. Shows /\ [Next]_vars => Shows'
  BY DEF Shows, Next, render, onMove, onLeave, newSeries, Inputs, vars
<1> QED BY <1>1, <1>2, PTL DEF Spec

\* An uptime is as exact as its two decimals.
LEMMA UptimeOfChecks ==
    ASSUME input.ok \in Nat, input.total \in Nat, input.ok <= input.total,
           shown = fmtPct(input.ok, input.total)
    PROVE  UptimeReadsBack
<1>1. CASE input.total = 0
  BY <1>1 DEF UptimeReadsBack, fmtPct
<1>2. CASE input.total # 0
  <2>1. shown.decimals = 0 <=> input.ok = input.total
    BY <1>2, PctWhole
  <2> QED BY <1>2, <2>1, PctInRange DEF UptimeReadsBack
<1> QED BY <1>1, <1>2

\* What a page says in figures can be read back to what the API answered, for
\* every duration to its last unit, every period and phase exactly, and every
\* uptime to half a hundredth of a percent.
THEOREM FiguresAreTrue == Spec => []FiguresReadBack
<1>1. Shows => FiguresReadBack
  <2> SUFFICES ASSUME Shows PROVE FiguresReadBack
    OBVIOUS
  <2> USE DEF Shows, Rendered
  <2>1. Rendered("span") => DurationReadsBack
    <3> SUFFICES ASSUME Rendered("span") PROVE DurationReadsBack
      OBVIOUS
    <3>1. input.ms \in Int /\ shown = parts(seconds(input.ms))
      BY InputTypes, ViewOfKind DEF fmtDuration
    <3>2. seconds(input.ms) \in Nat
      BY <3>1, SecondsType
    <3> QED BY <3>1, <3>2, PartsReadBack DEF DurationReadsBack
  <2>2. Rendered("window") => WindowReadsBack
    <3> SUFFICES ASSUME Rendered("window") PROVE WindowReadsBack
      OBVIOUS
    <3>1. input.s \in Nat /\ shown = fmtSeconds(input.s)
      BY InputTypes, ViewOfKind
    <3> QED BY <3>1, SecondsReadBack DEF WindowReadsBack
  <2>3. Rendered("phases") => PhasesReadBack
    <3> SUFFICES ASSUME Rendered("phases"), shown # Null PROVE PhasesReadBack
      BY DEF PhasesReadBack
    <3>1. /\ input.dns \in Nat \cup {Null} /\ input.tcp \in Nat \cup {Null}
          /\ input.tls \in Nat \cup {Null} /\ input.ttfb \in Nat \cup {Null}
      BY InputTypes
    <3>2. shown = segments(input)
      BY ViewOfKind DEF phases
    <3> QED BY <3>1, <3>2, SegmentsReadBack DEF PhasesReadBack
  <2>4. Rendered("uptime") => UptimeReadsBack
    <3> SUFFICES ASSUME Rendered("uptime") PROVE UptimeReadsBack
      OBVIOUS
    <3>1. /\ input.ok \in Nat /\ input.total \in Nat /\ input.ok <= input.total
          /\ shown = fmtPct(input.ok, input.total)
      BY InputTypes, ViewOfKind
    <3> QED BY <3>1, UptimeOfChecks
  <2> QED BY <2>1, <2>2, <2>3, <2>4 DEF FiguresReadBack
<1> QED BY <1>1, AlwaysShows, PTL

\* The points of any series lie in the plot.
LEMMA ChartOfSeries ==
    ASSUME input.n \in Nat, input.b \in Series(input.n), shown = chart(input.b, input.n)
    PROVE  PointsInPlot
<1> DEFINE n == input.n
           b == input.b
           top == yMax(b, n)
<1> SUFFICES ASSUME shown # Null PROVE PointsInPlot
  BY DEF PointsInPlot
<1>1. OfSeries(b, n) /\ shown = [i \in drawn(b, n) |-> point(b, n, i)]
  BY DEF chart, OfSeries
<1>2. /\ DOMAIN shown = drawn(b, n)
      /\ \A i \in drawn(b, n) :
           /\ shown[i].x = xAt(i, n) /\ shown[i].gaps = gaps(n)
           /\ shown[i].y = yAt(b[i], top) /\ shown[i].top = top
  BY <1>1 DEF point
<1>3. ASSUME NEW i \in drawn(b, n)
      PROVE  /\ PAD.left * shown[i].gaps <= shown[i].x
             /\ shown[i].x <= (W - PAD.right) * shown[i].gaps
             /\ \A j \in drawn(b, n) : i < j => shown[i].x < shown[j].x
  <2>1. \A j \in drawn(b, n) : j \in 0..(n - 1)
    BY <1>1, DrawnAverages
  <2> QED BY <1>1, <1>2, <1>3, <2>1, PointsAcross DEF OfSeries
<1>4. ASSUME NEW i \in drawn(b, n)
      PROVE  /\ PAD.top * shown[i].top <= shown[i].y
             /\ shown[i].y <= (H - PAD.bottom) * shown[i].top
             /\ \A j \in drawn(b, n) : b[i] < b[j] <=> shown[j].y < shown[i].y
  <2>1. /\ top \in Nat /\ b[i] <= top
        /\ \A j \in drawn(b, n) : b[j] \in Nat
    BY <1>1, <1>4, ScaleCovers, DrawnAverages
  <2>2. PAD.top * top <= yAt(b[i], top) /\ yAt(b[i], top) <= (H - PAD.bottom) * top
    BY <2>1, PointsWithin
  <2>3. \A j \in drawn(b, n) : b[i] < b[j] <=> yAt(b[j], top) < yAt(b[i], top)
    BY <2>1, HigherIsLonger
  <2> QED BY <1>2, <1>4, <2>2, <2>3
<1> QED BY <1>2, <1>3, <1>4, Zenon DEF PointsInPlot

\* What a page says in marks and colours is what the API answered, for every
\* certificate and every series of averages, of any length.
THEOREM MarksTellTheTruth == Spec => []MarksAreTrue
<1>1. Shows => MarksAreTrue
  <2> SUFFICES ASSUME Shows PROVE MarksAreTrue
    OBVIOUS
  <2> USE DEF Shows, Rendered
  <2>1. Rendered("certificate") => ChipFollowsMail
    <3> SUFFICES ASSUME Rendered("certificate") PROVE ChipFollowsMail
      OBVIOUS
    <3>1. input.hours \in Int /\ shown = chip(input.hours)
      BY InputTypes, ViewOfKind
    <3> QED BY <3>1, ChipOfLead DEF ChipFollowsMail
  <2>2. Rendered("chart") => PointsInPlot
    BY InputTypes, ViewOfKind, ChartOfSeries
  <2> QED BY <2>1, <2>2 DEF MarksAreTrue
<1> QED BY <1>1, AlwaysShows, PTL

---------------------------------------------------------------------------
(* The tooltip *)

LEMMA Moves ==
    ASSUME Shows, NEW x \in Pointers, onMove(x)
    PROVE  TooltipIsTrue'
<1> DEFINE n == input.n
           b == input.b
<1>1. shown = chart(b, n) /\ n \in Nat /\ b \in Series(n) /\ shown # Null
  BY InputTypes, ViewOfKind DEF onMove, charted, Shows
<1>2. OfSeries(b, n)
  BY <1>1 DEF chart, OfSeries
<1>3. /\ input' = input /\ moved' = x /\ moved' # Null /\ x \in Int
      /\ drawn(b, n) # {} => hover' = point(b, n, nearest(b, n, x))
  BY DisplayAssumption DEF onMove
<1>4. drawn(b, n) # {} =>
        \E i \in drawn(b, n) : /\ hover' = point(b, n, i)
                               /\ \A j \in drawn(b, n) : distance(i, n, x) <= distance(j, n, x)
  BY <1>2, <1>3, NearestIsNearest
<1> QED BY <1>3, <1>4 DEF TooltipIsTrue

\* Wherever the mouse moves, and whatever series comes under it, the tooltip of
\* a series the mouse has moved over is of the nearest point.
THEOREM TooltipTellsTheTruth == Spec => []TooltipIsTrue
<1>1. Null \notin Pointers /\ Blank \notin Pointers /\ Blank # Null
  BY DisplayAssumption
<1>2. Init => Shows /\ TooltipIsTrue
  BY <1>1 DEF Init, Shows, TooltipIsTrue
<1>3. Shows /\ TooltipIsTrue /\ [Next]_vars => TooltipIsTrue'
  <2> SUFFICES ASSUME Shows, TooltipIsTrue, [Next]_vars PROVE TooltipIsTrue'
    OBVIOUS
  <2>1. CASE render \/ UNCHANGED vars
    BY <2>1 DEF render, vars, TooltipIsTrue
  <2>2. CASE onLeave
    BY <1>1, <2>2 DEF onLeave, TooltipIsTrue
  <2>3. CASE newSeries
    <3>1. moved' \in {Null, Blank} /\ (moved' = Null => hover' = Null)
      BY <1>1, <2>3 DEF newSeries, TooltipIsTrue
    <3> QED BY <1>1, <3>1 DEF TooltipIsTrue
  <2>4. CASE \E x \in Pointers : onMove(x)
    BY <2>4, Moves
  <2> QED BY <2>1, <2>2, <2>3, <2>4 DEF Next
<1> QED BY <1>2, <1>3, AlwaysShows, PTL DEF Spec
=============================================================================
