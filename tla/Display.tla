------------------------------ MODULE Display ------------------------------
(***************************************************************************)
(* What the dashboard makes of the numbers it is given: the formats of     *)
(* lib/format.ts and ping-url.tsx, the phases and the certificate chip of  *)
(* phase-breakdown.tsx, and the chart of latency-chart.tsx.                *)
(*                                                                         *)
(* Each is a function of what the API answered; a behaviour renders one    *)
(* input.  A chart goes on: polls and range buttons give it other series,  *)
(* and the mouse moves over it, whose tooltip is state of the component.   *)
(* Fractions of the plot are compared after multiplication with their      *)
(* denominators, so that all arithmetic is exact.                          *)
(***************************************************************************)
EXTENDS Integers

CONSTANTS
    Spans,     \* milliseconds from the start of an incident to its end
    Windows,   \* periods and graces of heartbeats, in seconds
    Readings,  \* milliseconds of the phases of a check
    Checks,    \* numbers of checks in an uptime window
    Averages,  \* average response times of a bucket, in milliseconds
    Buckets,   \* numbers of buckets of a series
    Pointers,  \* positions of the mouse over the chart
    Leads,     \* hours until a certificate expires
    Null, Blank

ASSUME DisplayAssumption ==
    /\ Spans \subseteq Int /\ Pointers \subseteq Int /\ Leads \subseteq Int
    /\ Windows \subseteq Nat /\ Readings \subseteq Nat /\ Checks \subseteq Nat
    /\ Averages \subseteq Nat /\ Buckets \subseteq Nat
    /\ Null \notin Int /\ Blank \notin Int /\ Blank # Null

VARIABLES
    input,  \* what the API answered
    shown,  \* what stands on the page; Blank before it is rendered
    hover,  \* the point of the tooltip, or Null
    moved   \* history: where the mouse last moved over this very series; Null if
            \* it is not over the chart, Blank if the series has changed since

vars == <<input, shown, hover, moved>>

---------------------------------------------------------------------------
(* fmtDuration *)

\* Math.round, which takes halves up; a clock behind the server's counts as 0.
seconds(ms) == LET s == (ms + 500) \div 1000 IN IF s > 0 THEN s ELSE 0

\* The hours hide the seconds; a part before the first that counts is hidden.
parts(s) ==
    LET h == s \div 3600
        m == (s % 3600) \div 60
        r == s % 60
    IN [h |-> IF h > 0 THEN h ELSE Null,
        m |-> IF h > 0 \/ m > 0 THEN m ELSE Null,
        s |-> IF h > 0 THEN Null ELSE r]

\* Slip: the seconds are rounded after the minutes are taken off.
fmtDurationLate(ms) ==
    LET whole == parts(IF ms > 0 THEN ms \div 1000 ELSE 0)
    IN IF whole.s = Null \/ ms <= 0 THEN whole
       ELSE [whole EXCEPT !.s = ((ms % 60000) + 500) \div 1000]

fmtDuration(ms) == parts(seconds(ms))

---------------------------------------------------------------------------
(* fmtSeconds and fmtPct *)

\* The largest of days, hours, minutes and seconds that divides the period.
unitOf(s) ==
    IF s % 86400 = 0 THEN 86400
    ELSE IF s % 3600 = 0 THEN 3600
    ELSE IF s % 60 = 0 THEN 60 ELSE 1

fmtSeconds(s) == [n |-> s \div unitOf(s), unit |-> unitOf(s)]

\* In hundredths of a percent; only "100%" is written without decimals.  A share
\* halfway between two is rounded up here (the code's float may fall just below).
fmtPct(ok, total) ==
    IF total = 0 THEN Null
    ELSE [decimals |-> IF ok = total THEN 0 ELSE 2,
          hundredths |-> (20000 * ok + total) \div (2 * total)]

---------------------------------------------------------------------------
(* PhaseBreakdown and TLSChip *)

orZero(reading) == IF reading = Null THEN 0 ELSE reading

\* The server's share is what the connection phases leave of the first byte.
segments(check) ==
    LET dns == orZero(check.dns)
        tcp == orZero(check.tcp)
        tls == orZero(check.tls)
        rest == orZero(check.ttfb) - dns - tcp - tls
    IN [dns |-> dns, tcp |-> tcp, tls |-> tls, server |-> IF rest > 0 THEN rest ELSE 0]

\* A check with neither a first byte nor a connection has no breakdown.
phases(check) ==
    IF check.ttfb = Null /\ check.tcp = Null THEN Null ELSE segments(check)

daysLeft(hours) == hours \div 24

tone(hours) ==
    IF daysLeft(hours) <= 3 THEN "alert"
    ELSE IF daysLeft(hours) <= 14 THEN "signal" ELSE "calm"

chip(hours) ==
    [tone |-> tone(hours),
     text |-> IF daysLeft(hours) < 0 THEN "expired"
              ELSE IF daysLeft(hours) = 0 THEN "today" ELSE "valid"]

---------------------------------------------------------------------------
(* LatencyChart: buckets are numbered from 0, as in the code *)

W == 720
H == 180
PAD == [top |-> 12, right |-> 12, bottom |-> 24, left |-> 48]
innerW == W - PAD.left - PAD.right
innerH == H - PAD.top - PAD.bottom

\* The average of each bucket, Null where no check of it was answered.
Series(n) == [0..(n - 1) -> Averages \cup {Null}]

drawn(b, n) == {i \in 0..(n - 1) : b[i] # Null}

\* The highest average, at least 100; the scale ends at the full hundred above.
rawMax(b, n) ==
    LET averages == {100} \cup {b[i] : i \in drawn(b, n)}
    IN CHOOSE a \in averages : \A other \in averages : other <= a

\* Slip: the scale ends at the nearest full hundred.
yMaxNearest(b, n) == 100 * ((rawMax(b, n) + 50) \div 100)

yMax(b, n) == 100 * ((rawMax(b, n) + 99) \div 100)

\* xAt, times gaps(n); a single bucket stands in the middle.
gaps(n) == IF n = 1 THEN 1 ELSE n - 1
xAt(i, n) == IF n = 1 THEN PAD.left + innerW \div 2 ELSE PAD.left * (n - 1) + i * innerW

\* y, times the top of the scale.
yAt(avg, top) == (PAD.top + innerH) * top - avg * innerH

distance(i, n, x) ==
    LET d == xAt(i, n) - x * gaps(n) IN IF d < 0 THEN -d ELSE d

\* Slip: the distances are compared with their signs.
nearestSigned(b, n, x) ==
    CHOOSE i \in drawn(b, n) :
        \A j \in drawn(b, n) : xAt(i, n) - x * gaps(n) <= xAt(j, n) - x * gaps(n)

\* onMove: the leftmost of the nearest points.
nearest(b, n, x) ==
    CHOOSE i \in drawn(b, n) :
        \A j \in drawn(b, n) : distance(i, n, x) < distance(j, n, x)
                               \/ (distance(i, n, x) = distance(j, n, x) /\ i <= j)

\* A point with its bucket; x and y stand over gaps and top.
point(b, n, i) ==
    [avg |-> b[i], x |-> xAt(i, n), gaps |-> gaps(n),
     y |-> yAt(b[i], yMax(b, n)), top |-> yMax(b, n)]

\* Without buckets there is a line of text in the place of the chart.
chart(b, n) == IF n = 0 THEN Null ELSE [i \in drawn(b, n) |-> point(b, n, i)]

---------------------------------------------------------------------------
Uptimes == {u \in [kind : {"uptime"}, ok : Checks, total : Checks] : u.ok <= u.total}
Charts == UNION {[kind : {"chart"}, n : {n}, b : Series(n)] : n \in Buckets}

Inputs ==
    [kind : {"span"}, ms : Spans]
    \cup [kind : {"window"}, s : Windows]
    \cup [kind : {"phases"}, dns : Readings \cup {Null}, tcp : Readings \cup {Null},
          tls : Readings \cup {Null}, ttfb : Readings \cup {Null}]
    \cup [kind : {"certificate"}, hours : Leads] \cup Uptimes \cup Charts

view(i) ==
    CASE i.kind = "span" -> fmtDuration(i.ms)
      [] i.kind = "window" -> fmtSeconds(i.s)
      [] i.kind = "phases" -> phases(i)
      [] i.kind = "uptime" -> fmtPct(i.ok, i.total)
      [] i.kind = "certificate" -> chip(i.hours)
      [] i.kind = "chart" -> chart(i.b, i.n)

Init == input \in Inputs /\ shown = Blank /\ hover = Null /\ moved = Null

render ==
    /\ shown = Blank
    /\ shown' = view(input)
    /\ UNCHANGED <<input, hover, moved>>

\* The chart is there to be moved over.
charted == shown \notin {Blank, Null} /\ input.kind = "chart"

\* Without a point the mouse changes nothing.
onMove(x) ==
    /\ charted
    /\ hover' = IF drawn(input.b, input.n) = {} THEN hover
                ELSE point(input.b, input.n, nearest(input.b, input.n, x))
    /\ moved' = x
    /\ UNCHANGED <<input, shown>>

onLeave ==
    /\ charted /\ moved # Null
    /\ hover' = Null /\ moved' = Null
    /\ UNCHANGED <<input, shown>>

\* Another series, or none: what the mouse pointed at stays in the tooltip.
newSeries ==
    /\ shown # Blank /\ input.kind = "chart"
    /\ input' \in Charts \ {input}
    /\ shown' = view(input')
    /\ moved' = IF moved = Null THEN Null ELSE Blank
    /\ UNCHANGED hover

Next == render \/ onLeave \/ newSeries \/ \E x \in Pointers : onMove(x)

Spec == Init /\ [][Next]_vars

---------------------------------------------------------------------------
Rendered(kind) == shown # Blank /\ input.kind = kind

\* A duration says, to the second or under hours to the minute, how long it
\* was, with no part as large as the next unit.
DurationReadsBack ==
    LET said == 3600 * orZero(shown.h) + 60 * orZero(shown.m) + orZero(shown.s)
    IN /\ said <= seconds(input.ms)
       /\ seconds(input.ms) < said + (IF shown.h = Null THEN 1 ELSE 60)
       /\ orZero(shown.m) < 60 /\ orZero(shown.s) < 60

\* A period is named exactly, in the largest unit that allows it.
WindowReadsBack ==
    /\ shown.n * shown.unit = input.s
    /\ \A unit \in {86400, 3600, 60} : unit > shown.unit => input.s % unit # 0

\* The connection phases stand as they were measured; with the server's share
\* they make the first byte, or the connection if that took longer.
PhasesReadBack ==
    shown # Null =>
      LET connection == shown.dns + shown.tcp + shown.tls
          total == connection + shown.server
      IN /\ shown.dns = orZero(input.dns) /\ shown.tcp = orZero(input.tcp)
         /\ shown.tls = orZero(input.tls)
         /\ total >= connection /\ total >= orZero(input.ttfb)
         /\ total \in {connection, orZero(input.ttfb)}

\* An uptime is within half a hundredth of a percent of the share of the checks
\* that succeeded.  "100%" is said of a window in which no check failed, and of
\* no other (one in which hardly any failed may say "100.00%").
UptimeReadsBack ==
    IF input.total = 0 THEN shown = Null
    ELSE LET off == 2 * shown.hundredths * input.total - 20000 * input.ok
         IN /\ -input.total <= off /\ off <= input.total
            /\ 0 <= shown.hundredths /\ shown.hundredths <= 10000
            /\ shown.decimals = 0 <=> input.ok = input.total

\* What a page says in figures can be read back to what the API answered, as
\* exactly as it is said: durations (format.ts:19-29), periods
\* (ping-url.tsx:87-92), phases (phase-breakdown.tsx:18-48) and uptimes
\* (format.ts:13-17), at and around every boundary between two units.
FiguresReadBack ==
    /\ Rendered("span") => DurationReadsBack
    /\ Rendered("window") => WindowReadsBack
    /\ Rendered("phases") => PhasesReadBack
    /\ Rendered("uptime") => UptimeReadsBack

\* The ladder of services/scheduler/certexpiry.go: 14 days, then 3.
certWarnDays == 14
certUrgentDays == 3

\* Whoever is mailed about a certificate finds its chip coloured, red for the
\* last warning, and sees it coloured at most a day before the mail.
ChipFollowsMail ==
    /\ input.hours <= 24 * certUrgentDays => shown.tone = "alert"
    /\ input.hours <= 24 * certWarnDays => shown.tone # "calm"
    /\ shown.tone = "alert" => input.hours < 24 * (certUrgentDays + 1)
    /\ shown.tone = "signal" => input.hours < 24 * (certWarnDays + 1)
    /\ shown.text = "expired" <=> input.hours < 0

\* Every point lies in the plot, from left to right in the order of time, and of
\* two points the one with the longer response time is the higher.
PointsInPlot ==
    shown # Null =>
      \A i \in DOMAIN shown :
        LET p == shown[i]
        IN /\ PAD.left * p.gaps <= p.x /\ p.x <= (W - PAD.right) * p.gaps
           /\ PAD.top * p.top <= p.y /\ p.y <= (H - PAD.bottom) * p.top
           /\ \A j \in DOMAIN shown :
                /\ i < j => p.x < shown[j].x
                /\ input.b[i] < input.b[j] <=> shown[j].y < p.y

\* What a page says in marks and colours is what the API answered: the chip
\* agrees with the mails of the scheduler (phase-breakdown.tsx:94-109), and the
\* chart keeps to its plot, whatever the averages (latency-chart.tsx:24-46).
MarksAreTrue ==
    /\ Rendered("certificate") => ChipFollowsMail
    /\ Rendered("chart") => PointsInPlot

\* The tooltip is of a point that is drawn, and no other is nearer to where the
\* mouse moved last; once the mouse has left there is none
\* (latency-chart.tsx:67-87).  Nothing is said of a tooltip whose series was
\* replaced under a mouse at rest: it still shows the old one's point.
TooltipIsTrue ==
    /\ moved = Null => hover = Null
    /\ moved \in Pointers /\ drawn(input.b, input.n) # {} =>
         \E i \in drawn(input.b, input.n) :
            /\ hover = point(input.b, input.n, i)
            /\ \A j \in drawn(input.b, input.n) :
                 distance(i, input.n, moved) <= distance(j, input.n, moved)
=============================================================================
