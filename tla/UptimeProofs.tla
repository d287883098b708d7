---------------------------- MODULE UptimeProofs ----------------------------
(***************************************************************************)
(* What Uptime guarantees for every value of its constants: any number of  *)
(* monitors, workers, thresholds and targets, any capacity of the channel. *)
(***************************************************************************)
EXTENDS Uptime, TLAPS

USE DEF Live, IsOpen, HasOpen

(***************************************************************************)
(* evaluate is a total function on states, counters and thresholds.        *)
(***************************************************************************)
LEMMA EvaluateType ==
    ASSUME NEW state \in States, NEW fails \in Fails, NEW threshold \in Thresholds,
           NEW ok \in BOOLEAN
    PROVE  evaluate(state, fails, threshold, ok) \in Transitions
<1>1. fails \in Int /\ 0 <= fails /\ fails <= FailCap /\ FailCap \in Nat /\ threshold \in Int
    BY CapAssumption DEF Fails
<1>2. countFailure(fails) \in Fails
    BY <1>1 DEF countFailure, Fails
<1>3. 0 \in Fails
    BY <1>1 DEF Fails
<1> QED BY <1>2, <1>3 DEF evaluate, Transitions, States

LEMMA BlankRowType == \A s \in {"absent", "deleted"} : BlankRow(s) \in MonitorRow
<1>1. 0 \in Fails
    BY CapAssumption DEF Fails
<1>2. (CHOOSE u \in URLs : TRUE) \in URLs /\ (CHOOSE t \in Thresholds : TRUE) \in Thresholds
    BY UptimeAssumption
<1> QED BY <1>1, <1>2 DEF BlankRow, MonitorRow, States

LEMMA TypeInit == Init => TypeOK
<1> SUFFICES ASSUME Init PROVE TypeOK
    OBVIOUS
<1> USE DEF Init
<1>1. monitor \in [Monitors -> MonitorRow]
    BY BlankRowType
<1>2. incident \in [Incidents -> IncidentRow]
    BY DEF NoRow, IncidentRow, NotifyStates
<1>3. batch \subseteq Job /\ queue \in Seq(Job) /\ Len(queue) <= QueueCap
    BY UptimeAssumption
<1>4. worker \in [Workers -> Job \cup {NoJob}]
    OBVIOUS
<1> QED BY <1>1, <1>2, <1>3, <1>4 DEF TypeOK

(***************************************************************************)
(* The statements on the incidents table keep its rows well-formed.        *)
(***************************************************************************)
LEMMA IncidentStatements ==
    ASSUME incident \in [Incidents -> IncidentRow], NEW m \in Monitors,
           \/ openIncident(m) \/ resolveIncident(m)
           \/ closeIncident(m) \/ cascadeIncidents(m)
           \/ UNCHANGED incident
    PROVE  incident' \in [Incidents -> IncidentRow]
<1> USE DEF IncidentRow, NotifyStates
<1>1. CASE openIncident(m)
    BY <1>1 DEF openIncident
<1>2. CASE resolveIncident(m)
    BY <1>2 DEF resolveIncident
<1>3. CASE closeIncident(m)
    BY <1>3 DEF closeIncident
<1>4. CASE cascadeIncidents(m)
    BY <1>4 DEF cascadeIncidents, DeletedRow
<1> QED BY <1>1, <1>2, <1>3, <1>4

LEMMA UserType ==
    ASSUME TypeOK, NEW m \in Monitors, UserStep(m)
    PROVE  TypeOK'
<1> USE DEF TypeOK
<1>1. ASSUME NEW url \in URLs, NEW threshold \in Thresholds, CreateMonitor(m, url, threshold)
      PROVE  TypeOK'
  <2>1. 0 \in Fails
      BY CapAssumption DEF Fails
  <2>2. monitor' \in [Monitors -> MonitorRow]
      BY <1>1, <2>1 DEF CreateMonitor, MonitorRow, States
  <2> QED BY <1>1, <2>2 DEF CreateMonitor
<1>2. ASSUME NEW p \in Patch, UpdateMonitor(m, p) PROVE TypeOK'
  <2>1. 0 \in Fails
      BY CapAssumption DEF Fails
  <2>2. /\ patched(p.url, monitor[m].url) \in URLs
        /\ patched(p.threshold, monitor[m].threshold) \in Thresholds
        /\ patched(p.enabled, monitor[m].enabled) \in BOOLEAN
        /\ (monitor[m].due /\ ~p.postpone) \in BOOLEAN
      BY DEF Patch, patched, MonitorRow
  <2> DEFINE row == [monitor[m] EXCEPT
                 !.url = patched(p.url, @),
                 !.threshold = patched(p.threshold, @),
                 !.enabled = patched(p.enabled, @),
                 !.due = @ /\ ~p.postpone,
                 !.state = IF urlChanged(p) THEN "unknown" ELSE @,
                 !.fails = IF urlChanged(p) THEN 0 ELSE @]
  <2>6. row \in MonitorRow
      BY <2>1, <2>2 DEF MonitorRow, States
  <2>7. monitor' = [monitor EXCEPT ![m] = row]
      BY <1>2 DEF UpdateMonitor
  <2>3. monitor' \in [Monitors -> MonitorRow]
    <3> HIDE DEF row
    <3> QED BY <2>6, <2>7
  <2>4. closeIncident(m) \/ UNCHANGED incident
      BY <1>2 DEF UpdateMonitor
  <2>5. incident' \in [Incidents -> IncidentRow]
      BY <2>4, IncidentStatements
  <2> QED BY <1>2, <2>3, <2>5 DEF UpdateMonitor
<1>3. CASE RecordPing(m)
  <2>1. 0 \in Fails
      BY CapAssumption DEF Fails
  <2> DEFINE row == [monitor[m] EXCEPT !.state = "up", !.fails = 0]
  <2>4. row \in MonitorRow
      BY <2>1 DEF MonitorRow, States
  <2>5. monitor' = [monitor EXCEPT ![m] = row]
      BY <1>3 DEF RecordPing
  <2>2. monitor' \in [Monitors -> MonitorRow]
    <3> HIDE DEF row
    <3> QED BY <2>4, <2>5
  <2>3. incident' \in [Incidents -> IncidentRow]
      BY <1>3, IncidentStatements DEF RecordPing
  <2> QED BY <1>3, <2>2, <2>3 DEF RecordPing
<1>4. CASE DeleteMonitor(m)
  <2>1. monitor' \in [Monitors -> MonitorRow]
      BY <1>4, BlankRowType DEF DeleteMonitor
  <2>2. incident' \in [Incidents -> IncidentRow]
      BY <1>4, IncidentStatements DEF DeleteMonitor
  <2> QED BY <1>4, <2>1, <2>2 DEF DeleteMonitor
<1> QED BY <1>1, <1>2, <1>3, <1>4 DEF UserStep

LEMMA ApplyType ==
    ASSUME TypeOK, NEW w \in Workers, NEW ok \in BOOLEAN, apply(w, ok)
    PROVE  TypeOK'
<1> USE DEF TypeOK
<1> DEFINE j == worker[w]
           tr == evaluate(j.state, j.fails, j.threshold, ok)
<1>1. j \in Job
    BY DEF apply
<1>2. tr \in Transitions
    BY <1>1, EvaluateType DEF Job
<1>3. monitor' \in [Monitors -> MonitorRow]
  <2>1. monitor' = [monitor EXCEPT ![j.monitor].state = tr.state, ![j.monitor].fails = tr.fails]
      BY DEF apply
  <2>2. tr.state \in States /\ tr.fails \in Fails /\ j.monitor \in Monitors
      BY <1>1, <1>2 DEF Transitions, Job
  <2> HIDE DEF j, tr
  <2> QED BY <2>1, <2>2 DEF MonitorRow
<1>4. incident' \in [Incidents -> IncidentRow]
  <2>1. j.monitor \in Monitors
      BY <1>1 DEF Job
  <2>2. openIncident(j.monitor) \/ resolveIncident(j.monitor) \/ UNCHANGED incident
      BY DEF apply
  <2> HIDE DEF j
  <2> QED BY <2>1, <2>2, IncidentStatements
<1>5. UNCHANGED <<batch, queue>> /\ worker' \in [Workers -> Job \cup {NoJob}]
    BY DEF apply
<1> QED BY <1>3, <1>4, <1>5

LEMMA SnapshotType == ASSUME TypeOK, NEW m \in Monitors PROVE snapshot(m) \in Job
BY DEF TypeOK, MonitorRow, snapshot, Job

LEMMA ProberType ==
    ASSUME TypeOK,
           \/ \E m \in Monitors : IntervalElapses(m)
           \/ \E S \in SUBSET Monitors : claimDue(S)
           \/ \E j \in batch : enqueue(j)
           \/ \E w \in Workers : takeJob(w) \/ abandon(w)
           \/ Restart
           \/ \E i \in Incidents : advanceNotify(i)
    PROVE  TypeOK'
<1> USE DEF TypeOK
<1>1. CASE \E m \in Monitors : IntervalElapses(m)
  <2>1. PICK m \in Monitors : IntervalElapses(m)
      BY <1>1
  <2>2. monitor' \in [Monitors -> MonitorRow]
      BY <2>1 DEF IntervalElapses, MonitorRow
  <2> QED BY <2>1, <2>2 DEF IntervalElapses
<1>2. CASE \E S \in SUBSET Monitors : claimDue(S)
  <2>1. PICK S \in SUBSET Monitors : claimDue(S)
      BY <1>2
  <2>2. monitor' \in [Monitors -> MonitorRow]
      BY <2>1 DEF claimDue, MonitorRow
  <2>3. batch' \subseteq Job
      BY <2>1, SnapshotType DEF claimDue
  <2> QED BY <2>1, <2>2, <2>3 DEF claimDue
<1>3. CASE \E j \in batch : enqueue(j)
    BY <1>3, UptimeAssumption DEF enqueue
<1>4. CASE \E w \in Workers : takeJob(w)
    BY <1>4, UptimeAssumption DEF takeJob
<1>5. CASE \E w \in Workers : abandon(w)
    BY <1>5 DEF abandon
<1>6. CASE Restart
    BY <1>6, UptimeAssumption DEF Restart
<1>7. CASE \E i \in Incidents : advanceNotify(i)
    BY <1>7 DEF advanceNotify, IncidentRow, NotifyStates
<1> QED BY <1>1, <1>2, <1>3, <1>4, <1>5, <1>6, <1>7

LEMMA TypeStep == TypeOK /\ [Next]_vars => TypeOK'
<1>1. ASSUME TypeOK, UNCHANGED vars PROVE TypeOK'
    BY <1>1 DEF TypeOK, vars
<1>2. ASSUME TypeOK, Next PROVE TypeOK'
    BY <1>2, UserType, ApplyType, ProberType DEF Next, WorkerStep
<1> QED BY <1>1, <1>2

(***************************************************************************)
(* Every row, job and channel keeps its type.                              *)
(***************************************************************************)
THEOREM TypeCorrect == Spec => []TypeOK
<1> QED BY TypeInit, TypeStep, PTL DEF Spec

(***************************************************************************)
(* What the statements do to the set of open incidents.                    *)
(***************************************************************************)
LEMMA OpensOnlyOwn ==
    ASSUME TypeOK, NEW m \in Monitors, openIncident(m)
    PROVE  \A n \in Monitors : n # m => (HasOpen(n)' <=> HasOpen(n))
<1>1. CASE HasOpen(m) /\ UNCHANGED incident
    BY <1>1
<1>2. CASE ~HasOpen(m) /\ incident' # incident
    BY <1>2 DEF openIncident, TypeOK, NoRow
<1> QED BY <1>1, <1>2 DEF openIncident

LEMMA ClosesAll ==
    ASSUME TypeOK, NEW m \in Monitors,
           resolveIncident(m) \/ closeIncident(m) \/ cascadeIncidents(m)
    PROVE  /\ ~HasOpen(m)'
           /\ \A i \in Incidents, n \in Monitors : IsOpen(i, n)' => IsOpen(i, n)
<1>1. \A i \in Incidents, n \in Monitors : IsOpen(i, n)' => IsOpen(i, n) /\ n # m
  <2>1. CASE resolveIncident(m)
      BY <2>1 DEF resolveIncident, TypeOK, IncidentRow
  <2>2. CASE closeIncident(m)
      BY <2>2 DEF closeIncident, TypeOK, IncidentRow
  <2>3. CASE cascadeIncidents(m)
      BY <2>3 DEF cascadeIncidents, TypeOK, DeletedRow
  <2> QED BY <2>1, <2>2, <2>3
<1> QED BY <1>1

LEMMA NotifyKeepsOpen ==
    ASSUME TypeOK, NEW i \in Incidents, advanceNotify(i)
    PROVE  \A k \in Incidents, n \in Monitors : IsOpen(k, n)' <=> IsOpen(k, n)
BY DEF advanceNotify, TypeOK, IncidentRow

(***************************************************************************)
(* Jobs in flight.  Only the claim adds one.                               *)
(***************************************************************************)
LEMMA WorkerJob ==
    ASSUME TypeOK, NEW w \in Workers, worker[w] # NoJob
    PROVE  worker[w] \in InFlight /\ worker[w] \in Job
BY DEF TypeOK, InFlight, InWorkers

LEMMA FlightType == ASSUME TypeOK PROVE InFlight \subseteq Job
<1>1. \A k \in 1..Len(queue) : queue[k] \in Job
    BY DEF TypeOK
<1> QED BY <1>1 DEF TypeOK, InFlight, InQueue, InWorkers

LEMMA FlightShrinks ==
    ASSUME TypeOK,
           \/ UNCHANGED <<batch, queue, worker>>
           \/ \E j \in batch : enqueue(j)
           \/ \E w \in Workers : takeJob(w) \/ abandon(w)
           \/ \E w \in Workers, ok \in BOOLEAN : apply(w, ok)
           \/ Restart
    PROVE  InFlight' \subseteq InFlight
<1> USE DEF TypeOK
<1>1. CASE UNCHANGED <<batch, queue, worker>>
    BY <1>1 DEF InFlight, InQueue, InWorkers
<1>2. ASSUME NEW j \in batch, enqueue(j) PROVE InFlight' \subseteq InFlight
  <2>1. j \in Job /\ queue' = Append(queue, j) /\ batch' \subseteq batch /\ worker' = worker
      BY <1>2 DEF enqueue
  <2>2. InQueue' \subseteq InQueue \cup {j}
      BY <2>1 DEF InQueue
  <2>3. InWorkers' = InWorkers
      BY <2>1 DEF InWorkers
  <2> QED BY <2>1, <2>2, <2>3 DEF InFlight
<1>3. ASSUME NEW w \in Workers, takeJob(w) PROVE InFlight' \subseteq InFlight
  <2>1. /\ queue # << >> /\ queue' = Tail(queue) /\ batch' = batch
        /\ worker' = [worker EXCEPT ![w] = Head(queue)]
      BY <1>3 DEF takeJob
  <2>2. InQueue' \subseteq InQueue /\ Head(queue) \in InQueue
      BY <2>1 DEF InQueue
  <2>3. InWorkers' \subseteq InWorkers \cup {Head(queue)}
      BY <2>1 DEF InWorkers
  <2> QED BY <2>1, <2>2, <2>3 DEF InFlight
<1>4. ASSUME NEW w \in Workers, UNCHANGED <<batch, queue>>,
             worker' = [worker EXCEPT ![w] = NoJob]
      PROVE  InFlight' \subseteq InFlight
    BY <1>4 DEF InFlight, InQueue, InWorkers
<1>5. CASE Restart
    BY <1>5 DEF Restart, InFlight, InQueue, InWorkers
<1> QED BY <1>1, <1>2, <1>3, <1>4, <1>5 DEF abandon, apply

LEMMA ClaimedFlight ==
    ASSUME TypeOK, NEW S \in SUBSET Monitors, claimDue(S)
    PROVE  InFlight' = InFlight \cup {snapshot(m) : m \in S}
BY DEF claimDue, InFlight, InQueue, InWorkers

(***************************************************************************)
(* The channel and the workers pass a job on without doubling it.          *)
(***************************************************************************)
LEMMA ClaimedOnceStep ==
    ASSUME TypeOK, NEW m \in Monitors, ClaimedOnce(m),
           \/ UNCHANGED <<batch, queue, worker>>
           \/ \E j \in batch : enqueue(j)
           \/ \E w \in Workers : takeJob(w) \/ abandon(w)
           \/ \E w \in Workers, ok \in BOOLEAN : apply(w, ok)
           \/ Restart
    PROVE  ClaimedOnce(m)'
<1> USE DEF TypeOK
<1>1. CASE UNCHANGED <<batch, queue, worker>>
    BY <1>1 DEF ClaimedOnce, InQueue, InWorkers
<1>2. ASSUME NEW j \in batch, enqueue(j) PROVE ClaimedOnce(m)'
  <2>1. /\ j \in Job /\ queue' = Append(queue, j)
        /\ batch' = batch \ {j} /\ worker' = worker
      BY <1>2 DEF enqueue
  <2>2. /\ Len(queue') = Len(queue) + 1
        /\ \A k \in 1..Len(queue) : queue'[k] = queue[k]
        /\ queue'[Len(queue) + 1] = j
      BY <2>1
  <2>3. InQueue' = InQueue \cup {j} /\ InWorkers' = InWorkers
      BY <2>1, <2>2 DEF InQueue, InWorkers
  <2>4. \A k \in 1..Len(queue) : queue[k] \in InQueue
      BY DEF InQueue
  <2>5. \A a, b \in 1..Len(queue') :
          queue'[a].monitor = m /\ queue'[b].monitor = m => a = b
    <3>1. ASSUME NEW a \in 1..Len(queue'), NEW b \in 1..Len(queue'),
                 queue'[a].monitor = m, queue'[b].monitor = m, a < b
          PROVE  FALSE
      <4>1. a \in 1..Len(queue)
          BY <2>2, <3>1
      <4>2. CASE b \in 1..Len(queue)
          BY <2>2, <3>1, <4>1, <4>2 DEF ClaimedOnce
      <4>3. CASE b = Len(queue) + 1
          BY <2>2, <2>4, <3>1, <4>1, <4>3 DEF ClaimedOnce
      <4> QED BY <2>2, <4>2, <4>3
    <3> QED BY <3>1
  <2> QED BY <2>1, <2>3, <2>5 DEF ClaimedOnce
<1>3. ASSUME NEW w \in Workers, takeJob(w) PROVE ClaimedOnce(m)'
  <2> DEFINE h == Head(queue)
  <2>1. /\ queue # << >> /\ queue' = Tail(queue) /\ batch' = batch
        /\ worker[w] = NoJob /\ worker' = [worker EXCEPT ![w] = h]
      BY <1>3 DEF takeJob
  <2>2. /\ h = queue[1] /\ h \in Job /\ 1 \in 1..Len(queue)
        /\ Len(queue') = Len(queue) - 1
        /\ \A k \in 1..Len(queue') : queue'[k] = queue[k + 1] /\ k + 1 \in 1..Len(queue)
      BY <2>1
  <2>3. h \in InQueue /\ InQueue' \subseteq InQueue
      BY <2>2 DEF InQueue
  <2>4. InWorkers' \subseteq InWorkers \cup {h}
      BY <2>1 DEF InWorkers
  <2>5. h.monitor = m => \A k \in InQueue' : k.monitor # m
    <3> SUFFICES ASSUME h.monitor = m, NEW k \in 1..Len(queue'), queue'[k].monitor = m
                 PROVE  FALSE
        BY DEF InQueue
    <3>1. queue[1].monitor = m /\ queue[k + 1].monitor = m /\ k + 1 \in 1..Len(queue)
        BY <2>2
    <3>2. 1 = k + 1
        BY <3>1, <2>2 DEF ClaimedOnce
    <3> QED BY <3>2
  <2>6. \A a, b \in 1..Len(queue') :
          queue'[a].monitor = m /\ queue'[b].monitor = m => a = b
    <3> SUFFICES ASSUME NEW a \in 1..Len(queue'), NEW b \in 1..Len(queue'),
                        queue'[a].monitor = m, queue'[b].monitor = m
                 PROVE  a = b
        OBVIOUS
    <3>1. a + 1 = b + 1
        BY <2>2 DEF ClaimedOnce
    <3> QED BY <3>1
  <2>7. \A x \in Workers : worker[x] # NoJob => worker[x] \in InWorkers
      BY DEF InWorkers
  <2>8. \A x, y \in Workers :
          /\ worker'[x] # NoJob /\ worker'[x].monitor = m
          /\ worker'[y] # NoJob /\ worker'[y].monitor = m
          => x = y
    <3>1. \A x \in Workers : x # w => worker'[x] = worker[x]
        BY <2>1
    <3>2. worker'[w] = h
        BY <2>1
    <3> HIDE DEF h
    <3> QED BY <2>3, <2>7, <3>1, <3>2 DEF ClaimedOnce
  <2> HIDE DEF h
  <2> QED BY <2>1, <2>3, <2>4, <2>5, <2>6, <2>8 DEF ClaimedOnce
<1>4. ASSUME NEW w \in Workers, UNCHANGED <<batch, queue>>,
             worker' = [worker EXCEPT ![w] = NoJob]
      PROVE  ClaimedOnce(m)'
  <2>1. InQueue' = InQueue /\ InWorkers' \subseteq InWorkers
      BY <1>4 DEF InQueue, InWorkers
  <2> QED BY <1>4, <2>1 DEF ClaimedOnce
<1>5. CASE Restart
    BY <1>5 DEF Restart, ClaimedOnce, InQueue, InWorkers
<1> QED BY <1>1, <1>2, <1>3, <1>4, <1>5 DEF abandon, apply


LEMMA ClaimMadeOnce ==
    ASSUME TypeOK, ClaimsAreExclusive, NEW S \in SUBSET Monitors, claimDue(S),
           NEW m \in Monitors \ Slow
    PROVE  ClaimedOnce(m)' /\ (monitor[m].due' => JobsOf(m)' = {})
<1>1. /\ batch = {} /\ batch' = {snapshot(n) : n \in S}
      /\ queue' = queue /\ worker' = worker
      /\ \A n \in S : snapshot(n).monitor = n /\ monitor[n].due
      /\ \A n \in Monitors : monitor'[n].due => n \notin S /\ monitor[n].due
    BY DEF claimDue, snapshot, Claimable, TypeOK, MonitorRow
<1>2. InQueue' = InQueue /\ InWorkers' = InWorkers
    BY <1>1 DEF InQueue, InWorkers
<1>3. m \in S => \A j \in InQueue \cup InWorkers : j.monitor # m
    BY <1>1 DEF ClaimsAreExclusive, JobsOf, InFlight
<1>4. ClaimedOnce(m)'
    BY <1>1, <1>2, <1>3 DEF ClaimsAreExclusive, ClaimedOnce
<1>5. monitor'[m].due => JobsOf(m)' = {}
    BY <1>1, <1>2 DEF ClaimsAreExclusive, JobsOf, InFlight
<1> QED BY <1>4, <1>5

LEMMA ExclusiveStep ==
    ASSUME TypeOK, ClaimsAreExclusive, [Next]_vars
    PROVE  ClaimsAreExclusive'
<1> DEFINE Quiet == \/ UNCHANGED <<batch, queue, worker>>
                    \/ \E j \in batch : enqueue(j)
                    \/ \E w \in Workers : takeJob(w) \/ abandon(w)
                    \/ \E w \in Workers, ok \in BOOLEAN : apply(w, ok)
                    \/ Restart
<1>1. \A j \in InFlight : j.monitor \in Monitors
    BY FlightType DEF Job
<1>2. ASSUME Quiet,
             \A n \in Monitors : monitor'[n].status = "absent" => monitor[n].status = "absent",
             \A n \in Monitors \ Slow : monitor'[n].due => monitor[n].due \/ JobsOf(n) = {}
      PROVE  ClaimsAreExclusive'
  <2>1. InFlight' \subseteq InFlight
      BY <1>2, FlightShrinks
  <2>2. \A m \in Monitors \ Slow : ClaimedOnce(m)'
      BY <1>2, ClaimedOnceStep DEF ClaimsAreExclusive
  <2>3. \A m \in Monitors \ Slow : monitor'[m].due => JobsOf(m)' = {}
      BY <1>2, <2>1 DEF ClaimsAreExclusive, JobsOf
  <2>4. \A j \in InFlight' : monitor'[j.monitor].status # "absent"
      BY <1>1, <1>2, <2>1 DEF ClaimsAreExclusive
  <2> QED BY <2>2, <2>3, <2>4 DEF ClaimsAreExclusive
<1>3. ASSUME NEW S \in SUBSET Monitors, claimDue(S) PROVE ClaimsAreExclusive'
  <2>1. \A m \in Monitors \ Slow : ClaimedOnce(m)' /\ (monitor'[m].due => JobsOf(m)' = {})
      BY <1>3, ClaimMadeOnce
  <2>2. \A n \in Monitors : monitor'[n].status = monitor[n].status
      BY <1>3 DEF claimDue, TypeOK, MonitorRow
  <2>3. \A n \in S : snapshot(n).monitor = n /\ monitor[n].status = "live"
      BY <1>3 DEF claimDue, Claimable, snapshot
  <2>4. \A j \in InFlight' : monitor'[j.monitor].status # "absent"
      BY <1>1, <1>3, <2>2, <2>3, ClaimedFlight DEF ClaimsAreExclusive
  <2> QED BY <2>1, <2>4 DEF ClaimsAreExclusive
<1>4. ASSUME NEW m \in Monitors, UserStep(m) PROVE ClaimsAreExclusive'
  <2>1. Quiet
      BY <1>4 DEF UserStep, CreateMonitor, UpdateMonitor, RecordPing, DeleteMonitor
  <2>2. \A n \in Monitors : monitor'[n].status = "absent" => monitor[n].status = "absent"
    <3>1. ASSUME NEW url \in URLs, NEW threshold \in Thresholds,
                 CreateMonitor(m, url, threshold)
          PROVE  \A n \in Monitors : monitor'[n].status = "absent" => monitor[n].status = "absent"
        BY <3>1 DEF CreateMonitor, TypeOK
    <3>2. ASSUME NEW p \in Patch, UpdateMonitor(m, p)
          PROVE  \A n \in Monitors : monitor'[n].status = monitor[n].status
        BY <3>2 DEF UpdateMonitor, TypeOK, MonitorRow
    <3>3. CASE RecordPing(m)
        BY <3>3 DEF RecordPing, TypeOK, MonitorRow
    <3>4. CASE DeleteMonitor(m)
        BY <3>4 DEF DeleteMonitor, BlankRow, TypeOK
    <3> QED BY <1>4, <3>1, <3>2, <3>3, <3>4 DEF UserStep
  <2>3. \A n \in Monitors : monitor'[n].due => monitor[n].due \/ JobsOf(n) = {}
    <3>1. ASSUME NEW url \in URLs, NEW threshold \in Thresholds,
                 CreateMonitor(m, url, threshold)
          PROVE  \A n \in Monitors : monitor'[n].due => monitor[n].due \/ JobsOf(n) = {}
      <4>1. JobsOf(m) = {}
          BY <3>1 DEF CreateMonitor, ClaimsAreExclusive, JobsOf
      <4>2. \A n \in Monitors : n # m => monitor'[n] = monitor[n]
          BY <3>1 DEF CreateMonitor, TypeOK
      <4> QED BY <4>1, <4>2
    <3>2. ASSUME NEW p \in Patch, UpdateMonitor(m, p)
          PROVE  \A n \in Monitors : monitor'[n].due => monitor[n].due
        BY <3>2 DEF UpdateMonitor, TypeOK, MonitorRow
    <3>3. CASE RecordPing(m)
        BY <3>3 DEF RecordPing, TypeOK, MonitorRow
    <3>4. CASE DeleteMonitor(m)
        BY <3>4 DEF DeleteMonitor, BlankRow, TypeOK
    <3> QED BY <1>4, <3>1, <3>2, <3>3, <3>4 DEF UserStep
  <2> HIDE DEF Quiet
  <2> QED BY <1>2, <2>1, <2>2, <2>3
<1>5. ASSUME NEW m \in Monitors, IntervalElapses(m) PROVE ClaimsAreExclusive'
  <2>1. Quiet
      BY <1>5 DEF IntervalElapses
  <2>2. /\ \A n \in Monitors : monitor'[n].status = monitor[n].status
        /\ \A n \in Monitors \ Slow : monitor'[n].due => monitor[n].due \/ JobsOf(n) = {}
      BY <1>5 DEF IntervalElapses, TypeOK, MonitorRow
  <2> HIDE DEF Quiet
  <2> QED BY <1>2, <2>1, <2>2
<1>6. ASSUME NEW w \in Workers, NEW ok \in BOOLEAN, apply(w, ok) PROVE ClaimsAreExclusive'
  <2>1. \A n \in Monitors :
          monitor'[n].status = monitor[n].status /\ monitor'[n].due = monitor[n].due
      BY <1>6 DEF apply, TypeOK, MonitorRow
  <2>2. Quiet
      BY <1>6
  <2> HIDE DEF Quiet
  <2> QED BY <1>2, <2>1, <2>2
<1>7. ASSUME Quiet, UNCHANGED monitor PROVE ClaimsAreExclusive'
  <2> HIDE DEF Quiet
  <2> QED BY <1>2, <1>7
<1>8. CASE \E i \in Incidents : advanceNotify(i)
    BY <1>7, <1>8 DEF advanceNotify
<1>9. CASE UNCHANGED vars
    BY <1>7, <1>9 DEF vars
<1>10. CASE \/ \E j \in batch : enqueue(j)
            \/ \E w \in Workers : takeJob(w) \/ abandon(w)
            \/ Restart
    BY <1>7, <1>10 DEF enqueue, takeJob, abandon, Restart
<1> QED BY <1>3, <1>4, <1>5, <1>6, <1>8, <1>9, <1>10 DEF Next, WorkerStep

(***************************************************************************)
(* An apply keeps the incident and the state together: this is where the   *)
(* snapshot must agree with the row.                                       *)
(***************************************************************************)
LEMMA ApplyKeepsDown ==
    ASSUME SnapshotInv, NEW w \in Workers, NEW ok \in BOOLEAN, apply(w, ok)
    PROVE  OpenMeansDown' /\ SnapshotKnowsIncident'
<1> USE DEF SnapshotInv
<1>0. PICK j \in Job : j = worker[w] /\ j # NoJob /\ j \in InFlight
    BY WorkerJob DEF apply
<1> DEFINE m == j.monitor
           tr == evaluate(j.state, j.fails, j.threshold, ok)
<1>1. m \in Monitors
    BY DEF Job
<1>2. /\ monitor[m].status = "live"
      /\ \A n \in Monitors : n # m => monitor'[n] = monitor[n]
      /\ monitor'[m].status = "live" /\ monitor'[m].state = tr.state
    BY <1>0, <1>1 DEF apply, TypeOK, MonitorRow
<1>3. \/ tr.open /\ openIncident(m)
      \/ tr.resolve /\ resolveIncident(m)
      \/ ~tr.open /\ ~tr.resolve /\ UNCHANGED incident
    BY <1>0 DEF apply
<1>4. /\ tr.open => tr.state = "down"
      /\ ~tr.resolve /\ j.state = "down" => tr.state = "down"
    BY DEF evaluate
<1>5. \A n \in Monitors : n # m => (HasOpen(n)' => HasOpen(n))
    BY <1>1, <1>3, OpensOnlyOwn, ClosesAll
<1>6. m \notin Slow => (HasOpen(m)' => tr.state = "down")
  <2>1. CASE tr.open
      BY <1>4, <2>1
  <2>2. CASE tr.resolve /\ resolveIncident(m)
      BY <1>1, <2>2, ClosesAll
  <2>3. CASE ~tr.open /\ ~tr.resolve /\ UNCHANGED incident
    <3>1. HasOpen(m)' => HasOpen(m)
        BY <2>3
    <3>2. m \notin Slow /\ HasOpen(m) => j.state = "down"
        BY <1>0, <1>1 DEF SnapshotKnowsIncident
    <3> QED BY <1>4, <2>3, <3>1, <3>2
  <2> QED BY <1>3, <2>1, <2>2, <2>3
<1>7. OpenMeansDown'
  <2> HIDE DEF m, tr
  <2> QED BY <1>2, <1>5, <1>6 DEF OpenMeansDown
<1>8. InFlight' \subseteq InFlight
    BY FlightShrinks
<1>9. m \notin Slow => \A k \in InFlight' : k.monitor # m
  <2> SUFFICES ASSUME m \notin Slow PROVE \A k \in InFlight' : k.monitor # m
      OBVIOUS
  <2>1. ClaimedOnce(m)
      BY <1>1 DEF ClaimsAreExclusive
  <2>2. j \in InWorkers
      BY <1>0 DEF InWorkers
  <2>3. \A k \in batch \cup InQueue : k.monitor # m
      BY <2>1, <2>2 DEF ClaimedOnce
  <2>4. batch' = batch /\ InQueue' = InQueue
      BY DEF apply, InQueue
  <2>5. worker' = [worker EXCEPT ![w] = NoJob]
      BY DEF apply
  <2>6. \A k \in InWorkers' : k.monitor # m
    <3> SUFFICES ASSUME NEW v \in Workers, worker'[v] # NoJob, worker'[v].monitor = m
                 PROVE  FALSE
        BY DEF InWorkers
    <3>1. v # w /\ worker[v] # NoJob /\ worker[v].monitor = m
        BY <2>5 DEF TypeOK
    <3> QED BY <1>0, <2>1, <3>1 DEF ClaimedOnce
  <2> QED BY <2>3, <2>4, <2>6 DEF InFlight
<1>10. \A k \in InFlight : k.monitor \in Monitors
    BY FlightType DEF Job
<1>11. SnapshotKnowsIncident'
  <2> SUFFICES ASSUME NEW k \in InFlight', k.monitor \notin Slow, HasOpen(k.monitor)'
               PROVE  k.state = "down"
      BY DEF SnapshotKnowsIncident
  <2>1. k \in InFlight /\ k.monitor \in Monitors /\ k.monitor # m
      BY <1>8, <1>9, <1>10
  <2> HIDE DEF m, tr
  <2> QED BY <1>5, <2>1 DEF SnapshotKnowsIncident
<1> QED BY <1>7, <1>11


LEMMA UserKeepsDown ==
    ASSUME SnapshotInv, NEW m \in Monitors, UserStep(m)
    PROVE  OpenMeansDown' /\ SnapshotKnowsIncident'
<1> USE DEF SnapshotInv
<1>1. UNCHANGED <<batch, queue, worker>>
    BY DEF UserStep, CreateMonitor, UpdateMonitor, RecordPing, DeleteMonitor
<1>2. InFlight' \subseteq InFlight /\ \A j \in InFlight : j.monitor \in Monitors
    BY <1>1, FlightShrinks, FlightType DEF Job
<1>3. \A n \in Monitors : HasOpen(n)' => HasOpen(n)
    BY ClosesAll DEF UserStep, CreateMonitor, UpdateMonitor, RecordPing, DeleteMonitor
<1>4. SnapshotKnowsIncident'
  <2> SUFFICES ASSUME NEW j \in InFlight', j.monitor \notin Slow, HasOpen(j.monitor)'
               PROVE  j.state = "down"
      BY DEF SnapshotKnowsIncident
  <2> QED BY <1>2, <1>3 DEF SnapshotKnowsIncident
<1>5. \A n \in Monitors : n # m => monitor'[n] = monitor[n]
    BY DEF UserStep, CreateMonitor, UpdateMonitor, RecordPing, DeleteMonitor, TypeOK
<1>6. m \notin Slow /\ HasOpen(m)' =>
          monitor'[m].status = "live" /\ monitor'[m].state = "down"
  <2>1. ASSUME NEW url \in URLs, NEW threshold \in Thresholds,
               CreateMonitor(m, url, threshold), m \notin Slow
        PROVE  ~HasOpen(m)'
      BY <1>3, <2>1 DEF CreateMonitor, OpenMeansDown
  <2>2. ASSUME NEW p \in Patch, UpdateMonitor(m, p), m \notin Slow, HasOpen(m)'
        PROVE  monitor'[m].status = "live" /\ monitor'[m].state = "down"
    <3>1. ~closesIncident(p)
        BY <2>2, ClosesAll DEF UpdateMonitor
    <3>2. monitor'[m].status = monitor[m].status /\ monitor'[m].state = monitor[m].state
        BY <2>2, <3>1 DEF UpdateMonitor, closesIncident, TypeOK, MonitorRow
    <3> QED BY <1>3, <2>2, <3>2 DEF OpenMeansDown
  <2>3. CASE RecordPing(m)
      BY <2>3, ClosesAll DEF RecordPing
  <2>4. CASE DeleteMonitor(m)
      BY <2>4, ClosesAll DEF DeleteMonitor
  <2> QED BY <2>1, <2>2, <2>3, <2>4 DEF UserStep
<1>7. OpenMeansDown'
    BY <1>3, <1>5, <1>6 DEF OpenMeansDown
<1> QED BY <1>4, <1>7

LEMMA SnapshotStep == SnapshotInv /\ [Next]_vars => SnapshotInv'
<1> SUFFICES ASSUME SnapshotInv, [Next]_vars PROVE SnapshotInv'
    OBVIOUS
<1> USE DEF SnapshotInv
<1>1. TypeOK' /\ ClaimsAreExclusive'
    BY TypeStep, ExclusiveStep
<1>2. \A j \in InFlight : j.monitor \in Monitors
    BY FlightType DEF Job
<1>3. ASSUME InFlight' \subseteq InFlight,
             \A i \in Incidents, n \in Monitors : IsOpen(i, n)' => IsOpen(i, n),
             \A n \in Monitors : /\ monitor'[n].status = monitor[n].status
                                 /\ monitor'[n].state = monitor[n].state
      PROVE  OpenMeansDown' /\ SnapshotKnowsIncident'
  <2>1. \A n \in Monitors : HasOpen(n)' => HasOpen(n)
      BY <1>3
  <2>2. OpenMeansDown'
      BY <1>3, <2>1 DEF OpenMeansDown
  <2>3. ASSUME NEW j \in InFlight', j.monitor \notin Slow, HasOpen(j.monitor)'
        PROVE  j.state = "down"
      BY <1>2, <1>3, <2>1, <2>3 DEF SnapshotKnowsIncident
  <2> QED BY <2>2, <2>3 DEF SnapshotKnowsIncident
<1>4. ASSUME NEW m \in Monitors, UserStep(m) PROVE OpenMeansDown' /\ SnapshotKnowsIncident'
    BY <1>4, UserKeepsDown
<1>5. ASSUME NEW w \in Workers, NEW ok \in BOOLEAN, apply(w, ok)
      PROVE  OpenMeansDown' /\ SnapshotKnowsIncident'
    BY <1>5, ApplyKeepsDown
<1>6. ASSUME NEW S \in SUBSET Monitors, claimDue(S)
      PROVE  OpenMeansDown' /\ SnapshotKnowsIncident'
  <2>1. /\ \A i \in Incidents, n \in Monitors : IsOpen(i, n)' <=> IsOpen(i, n)
        /\ \A n \in Monitors : /\ monitor'[n].status = monitor[n].status
                               /\ monitor'[n].state = monitor[n].state
      BY <1>6 DEF claimDue, TypeOK, MonitorRow
  <2>2. \A n \in Monitors : HasOpen(n)' => HasOpen(n)
      BY <2>1
  <2>3. OpenMeansDown'
      BY <2>1, <2>2 DEF OpenMeansDown
  <2>4. \A n \in S : snapshot(n).monitor = n /\ snapshot(n).state = monitor[n].state
      BY DEF snapshot
  <2>5. InFlight' = InFlight \cup {snapshot(n) : n \in S}
      BY <1>6, ClaimedFlight
  <2>6. ASSUME NEW j \in InFlight', j.monitor \notin Slow, HasOpen(j.monitor)'
        PROVE  j.state = "down"
    <3>1. CASE j \in InFlight
        BY <1>2, <2>2, <2>6, <3>1 DEF SnapshotKnowsIncident
    <3>2. CASE \E n \in S : j = snapshot(n)
        BY <2>2, <2>4, <2>6, <3>2 DEF OpenMeansDown
    <3> QED BY <2>5, <3>1, <3>2
  <2> QED BY <2>3, <2>6 DEF SnapshotKnowsIncident
<1>7. ASSUME NEW m \in Monitors, IntervalElapses(m)
      PROVE  OpenMeansDown' /\ SnapshotKnowsIncident'
  <2>1. InFlight' \subseteq InFlight
      BY <1>7, FlightShrinks DEF IntervalElapses
  <2> QED BY <1>3, <1>7, <2>1 DEF IntervalElapses, TypeOK, MonitorRow
<1>8. ASSUME \/ \E j \in batch : enqueue(j)
             \/ \E w \in Workers : takeJob(w) \/ abandon(w)
             \/ Restart
      PROVE  OpenMeansDown' /\ SnapshotKnowsIncident'
  <2>1. InFlight' \subseteq InFlight
      BY <1>8, FlightShrinks
  <2>2. UNCHANGED <<monitor, incident>>
      BY <1>8 DEF enqueue, takeJob, abandon, Restart
  <2> QED BY <1>3, <2>1, <2>2
<1>9. ASSUME NEW i \in Incidents, advanceNotify(i)
      PROVE  OpenMeansDown' /\ SnapshotKnowsIncident'
  <2>1. UNCHANGED <<monitor, batch, queue, worker>>
      BY <1>9 DEF advanceNotify
  <2>2. InFlight' \subseteq InFlight
      BY <2>1, FlightShrinks
  <2> QED BY <1>3, <1>9, <2>1, <2>2, NotifyKeepsOpen
<1>10. ASSUME UNCHANGED vars PROVE OpenMeansDown' /\ SnapshotKnowsIncident'
  <2>1. InFlight' \subseteq InFlight
      BY <1>10, FlightShrinks DEF vars
  <2> QED BY <1>3, <1>10, <2>1 DEF vars
<1>11. OpenMeansDown' /\ SnapshotKnowsIncident'
    BY <1>4, <1>5, <1>6, <1>7, <1>8, <1>9, <1>10 DEF Next, WorkerStep
<1> QED BY <1>1, <1>11

LEMMA SnapshotInit == Init => SnapshotInv
<1> SUFFICES ASSUME Init PROVE SnapshotInv
    OBVIOUS
<1>1. InFlight = {} /\ InQueue = {} /\ InWorkers = {}
    BY DEF Init, InFlight, InQueue, InWorkers
<1>2. \A m \in Monitors : ~HasOpen(m)
    BY DEF Init, NoRow
<1>3. ClaimsAreExclusive
    BY <1>1 DEF Init, ClaimsAreExclusive, ClaimedOnce, JobsOf
<1> QED BY <1>1, <1>2, <1>3, TypeInit
        DEF SnapshotInv, OpenMeansDown, SnapshotKnowsIncident

(***************************************************************************)
(* An open incident of a monitor whose checks end within their interval    *)
(* belongs to an existing monitor that is down, whatever the user does to  *)
(* the monitor while a check is queued or running.                         *)
(***************************************************************************)
THEOREM OpenIncidentMeansDown == Spec => []OpenMeansDown
<1>1. SnapshotInv => OpenMeansDown
    BY DEF SnapshotInv
<1> QED BY <1>1, SnapshotInit, SnapshotStep, PTL DEF Spec

(***************************************************************************)
(* For such a monitor the job in flight knows of the open incident, so no  *)
(* success forgets to resolve it.                                          *)
(***************************************************************************)
THEOREM SnapshotAgrees == Spec => []SnapshotKnowsIncident
<1>1. SnapshotInv => SnapshotKnowsIncident
    BY DEF SnapshotInv
<1> QED BY <1>1, SnapshotInit, SnapshotStep, PTL DEF Spec

(***************************************************************************)
(* Uptime implements the table's specification, step by step.              *)
(***************************************************************************)
Gone == {m \in Monitors : monitor[m].status = "deleted"}

LEMMA StatementsImplement ==
    ASSUME TypeOK, NEW m \in Monitors, m \notin Gone, Gone' = Gone,
           openIncident(m) \/ resolveIncident(m) \/ closeIncident(m) \/ UNCHANGED incident
    PROVE  [Table!Next]_(Table!vars)
<1> USE DEF Gone
<1>1. CASE UNCHANGED incident
    BY <1>1 DEF Table!vars
<1>2. CASE openIncident(m) /\ ~UNCHANGED incident
  <2>1. Table!Open(m)
      BY <1>2 DEF openIncident, Table!Open, Table!HasOpen, Table!IsOpen,
                  Table!OpenRow, Table!NoRow, NoRow
  <2> QED BY <2>1 DEF Table!Next
<1>3. CASE resolveIncident(m)
  <2>1. Table!Resolve(m)
      BY <1>3 DEF resolveIncident, Table!Resolve, Table!IsOpen
  <2> QED BY <2>1 DEF Table!Next
<1>4. CASE closeIncident(m)
  <2>1. Table!Close(m)
      BY <1>4 DEF closeIncident, Table!Close, Table!IsOpen
  <2> QED BY <2>1 DEF Table!Next
<1> QED BY <1>1, <1>2, <1>3, <1>4

LEMMA ImplementStep == TypeOK /\ [Next]_vars => [Table!Next]_(Table!vars)
<1> SUFFICES ASSUME TypeOK, [Next]_vars PROVE [Table!Next]_(Table!vars)
    OBVIOUS
<1>1. ASSUME UNCHANGED incident, \A n \in Monitors : monitor'[n].status = monitor[n].status
      PROVE  [Table!Next]_(Table!vars)
    BY <1>1 DEF Table!vars
<1>2. ASSUME NEW m \in Monitors, UserStep(m) PROVE [Table!Next]_(Table!vars)
  <2>1. ASSUME NEW url \in URLs, NEW threshold \in Thresholds,
               CreateMonitor(m, url, threshold)
        PROVE  [Table!Next]_(Table!vars)
    <3>1. Gone' = Gone
        BY <2>1 DEF CreateMonitor, TypeOK, Gone
    <3> QED BY <2>1, <3>1 DEF CreateMonitor, Gone, Table!vars
  <2>2. ASSUME NEW p \in Patch, UpdateMonitor(m, p) PROVE [Table!Next]_(Table!vars)
    <3>1. \A n \in Monitors : monitor'[n].status = monitor[n].status
        BY <2>2 DEF UpdateMonitor, TypeOK, MonitorRow
    <3>2. Gone' = Gone /\ m \notin Gone
        BY <2>2, <3>1 DEF Gone, UpdateMonitor
    <3>3. closeIncident(m) \/ UNCHANGED incident
        BY <2>2 DEF UpdateMonitor
    <3> QED BY <3>2, <3>3, StatementsImplement
  <2>3. CASE RecordPing(m)
    <3>1. \A n \in Monitors : monitor'[n].status = monitor[n].status
        BY <2>3 DEF RecordPing, TypeOK, MonitorRow
    <3>2. Gone' = Gone /\ m \notin Gone
        BY <2>3, <3>1 DEF Gone, RecordPing
    <3> QED BY <2>3, <3>2, StatementsImplement DEF RecordPing
  <2>4. CASE DeleteMonitor(m)
    <3>1. Gone' = Gone \cup {m}
        BY <2>4 DEF DeleteMonitor, BlankRow, TypeOK, Gone
    <3>2. Table!Cascade(m)
        BY <2>4, <3>1 DEF DeleteMonitor, cascadeIncidents, DeletedRow, Gone,
                          Table!Cascade, Table!DeletedRow
    <3> QED BY <3>2 DEF Table!Next
  <2> QED BY <1>2, <2>1, <2>2, <2>3, <2>4 DEF UserStep
<1>3. ASSUME NEW w \in Workers, NEW ok \in BOOLEAN, apply(w, ok)
      PROVE  [Table!Next]_(Table!vars)
  <2>1. PICK m \in Monitors : m = worker[w].monitor /\ monitor[m].status = "live"
      BY <1>3 DEF apply, TypeOK, Job
  <2>2. \A n \in Monitors : monitor'[n].status = monitor[n].status
      BY <1>3, <2>1 DEF apply, TypeOK, MonitorRow
  <2>3. Gone' = Gone /\ m \notin Gone
      BY <2>1, <2>2 DEF Gone
  <2>4. openIncident(m) \/ resolveIncident(m) \/ UNCHANGED incident
      BY <1>3, <2>1 DEF apply
  <2> QED BY <2>3, <2>4, StatementsImplement
<1>4. ASSUME NEW i \in Incidents, advanceNotify(i) PROVE [Table!Next]_(Table!vars)
  <2>1. Table!NotifyDown(i) \/ Table!NotifyRecovery(i)
      BY <1>4 DEF advanceNotify, Table!NotifyDown, Table!NotifyRecovery
  <2> QED BY <2>1 DEF Table!Next
<1>5. ASSUME NEW S \in SUBSET Monitors, claimDue(S) PROVE [Table!Next]_(Table!vars)
    BY <1>1, <1>5 DEF claimDue, TypeOK, MonitorRow
<1>6. ASSUME NEW m \in Monitors, IntervalElapses(m) PROVE [Table!Next]_(Table!vars)
    BY <1>1, <1>6 DEF IntervalElapses, TypeOK, MonitorRow
<1>7. CASE \/ \E j \in batch : enqueue(j)
           \/ \E w \in Workers : takeJob(w) \/ abandon(w)
           \/ Restart
           \/ UNCHANGED vars
    BY <1>1, <1>7 DEF enqueue, takeJob, abandon, Restart, vars
<1> QED BY <1>2, <1>3, <1>4, <1>5, <1>6, <1>7 DEF Next, WorkerStep

LEMMA ImplementInit == Init => Table!Init
<1> SUFFICES ASSUME Init PROVE Table!Init
    OBVIOUS
<1>1. \A m \in Monitors : monitor[m].status = "absent"
    BY DEF Init, BlankRow
<1> QED BY <1>1 DEF Init, NoRow, Table!Init, Table!NoRow

(***************************************************************************)
(* The prober and the API change the incidents only in the ways that the   *)
(* table's abstract specification allows.                                  *)
(***************************************************************************)
THEOREM Implementation == Spec => ImplementsIncidentTable
<1> QED BY ImplementInit, ImplementStep, TypeCorrect, PTL
        DEF Spec, ImplementsIncidentTable, Table!Spec
=============================================================================
