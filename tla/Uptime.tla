------------------------------- MODULE Uptime -------------------------------
(***************************************************************************)
(* The core of the uptime service: the monitors and incidents tables of    *)
(* Postgres, the API handlers that write them (services/api), and the      *)
(* prober (services/scheduler/prober.go) that claims due monitors, carries *)
(* the claims through a bounded channel to a pool of workers, and applies  *)
(* one check result at a time to the state machine and the incidents.      *)
(*                                                                         *)
(* A claimed job carries a SNAPSHOT of its monitor.  The API and other     *)
(* workers may change the row while the check is queued or running, and    *)
(* apply evaluates the snapshot, not the row: that window is what this     *)
(* module is about.  Every action is one committed transaction (each locks *)
(* the monitor's row until it commits) or one step on the channel.         *)
(*                                                                         *)
(* Abstracted: a check's outcome is any outcome; time only says when a     *)
(* monitor is due again; the notifier is its effect on notify_state (the   *)
(* Notifier module has the rest).                                          *)
(***************************************************************************)
EXTENDS StateMachine, Sequences, FiniteSets

CONSTANTS
    Monitors,    \* ids a monitor may be created with (never reused: UUIDs)
    Heartbeats,  \* those of kind "heartbeat", which may be pinged
    Slow,        \* those whose claimed job may outlive their check interval
    Incidents,   \* ids an incident may be opened with (a bound for TLC)
    URLs,        \* check targets
    Workers,     \* the worker goroutines
    QueueCap,    \* capacity of the jobs channel (200 in the code)
    NoMonitor, NoJob, Keep  \* no monitor, no job, "leave this field unchanged"

ASSUME UptimeAssumption ==
    /\ Heartbeats \subseteq Monitors
    /\ Slow \subseteq Monitors
    /\ NoMonitor \notin Monitors
    /\ URLs # {}
    /\ Thresholds # {}
    /\ QueueCap \in Nat \ {0}

VARIABLES
    monitor,   \* the row of each monitor id
    incident,  \* the row of each incident id
    batch,     \* jobs claimed by the running tick, not yet on the channel
    queue,     \* the jobs channel
    worker     \* the job each worker is running

vars == <<monitor, incident, batch, queue, worker>>

---------------------------------------------------------------------------
(* Rows and jobs *)

NotifyStates == {"pending", "notified", "recovered_notified"}

MonitorRow ==
    [status : {"absent", "live", "deleted"}, url : URLs, threshold : Thresholds,
     enabled : BOOLEAN, due : BOOLEAN, state : States, fails : Fails]

\* A monitor that has no row, not yet or no more.
BlankRow(status) ==
    [status |-> status, url |-> CHOOSE u \in URLs : TRUE,
     threshold |-> CHOOSE t \in Thresholds : TRUE,
     enabled |-> FALSE, due |-> FALSE, state |-> "unknown", fails |-> 0]

IncidentRow ==
    [status : {"none", "open", "resolved", "deleted"},
     monitor : Monitors \cup {NoMonitor}, notify : NotifyStates]

NoRow == [status |-> "none", monitor |-> NoMonitor, notify |-> "pending"]
DeletedRow == [status |-> "deleted", monitor |-> NoMonitor, notify |-> "pending"]

\* The fields of prober.go's job that its caller does anything but print.
Job == [monitor : Monitors, url : URLs, threshold : Thresholds,
        state : States, fails : Fails]

ASSUME NoJobAssumption == NoJob \notin Job

\* store.MonitorPatch: an absent field is Keep.  "interval" says whether the
\* patch lengthens interval_seconds past the present moment.
Patch == [url : URLs \cup {Keep}, threshold : Thresholds \cup {Keep},
          enabled : BOOLEAN \cup {Keep}, postpone : BOOLEAN]

ASSUME KeepAssumption == Keep \notin URLs /\ Keep \notin Thresholds /\ Keep \notin BOOLEAN

Live(m) == monitor[m].status = "live"
IsOpen(i, m) == incident[i].status = "open" /\ incident[i].monitor = m
HasOpen(m) == \E i \in Incidents : IsOpen(i, m)

InQueue == {queue[k] : k \in 1..Len(queue)}
InWorkers == {worker[w] : w \in Workers} \ {NoJob}
InFlight == batch \cup InQueue \cup InWorkers
JobsOf(m) == {j \in InFlight : j.monitor = m}

---------------------------------------------------------------------------
(* Statements on the incidents table *)

\* Slip: the INSERT without its ON CONFLICT clause and without the index.
openIncidentAlways(m) ==
    \E i \in Incidents :
        /\ incident[i] = NoRow
        /\ incident' = [incident EXCEPT ![i] =
               [status |-> "open", monitor |-> m, notify |-> "pending"]]

\* INSERT ... ON CONFLICT (monitor_id) WHERE resolved_at IS NULL DO NOTHING
openIncident(m) ==
    \/ HasOpen(m) /\ UNCHANGED incident
    \/ /\ ~HasOpen(m)
       /\ \E i \in Incidents :
            /\ incident[i] = NoRow
            /\ incident' = [incident EXCEPT ![i] =
                   [status |-> "open", monitor |-> m, notify |-> "pending"]]

\* UPDATE incidents SET resolved_at = now() WHERE monitor_id = m AND resolved_at IS NULL
resolveIncident(m) ==
    incident' = [i \in Incidents |->
        IF IsOpen(i, m) THEN [incident[i] EXCEPT !.status = "resolved"] ELSE incident[i]]

\* Slip: the close without "resolved_at IS NULL" silences resolved incidents too.
closeAllIncidents(m) ==
    incident' = [i \in Incidents |->
        IF incident[i].monitor = m
        THEN [incident[i] EXCEPT !.status = "resolved", !.notify = "recovered_notified"]
        ELSE incident[i]]

\* The same, also forcing notify_state terminal: the administrative close.
closeIncident(m) ==
    incident' = [i \in Incidents |->
        IF IsOpen(i, m)
        THEN [incident[i] EXCEPT !.status = "resolved", !.notify = "recovered_notified"]
        ELSE incident[i]]

\* ON DELETE CASCADE
cascadeIncidents(m) ==
    incident' = [i \in Incidents |->
        IF incident[i].monitor = m THEN DeletedRow ELSE incident[i]]

---------------------------------------------------------------------------
(* The API *)

CreateMonitor(m, url, threshold) ==
    /\ monitor[m].status = "absent"
    /\ monitor' = [monitor EXCEPT ![m] =
           [status |-> "live", url |-> url, threshold |-> threshold, enabled |-> TRUE,
            due |-> TRUE, state |-> "unknown", fails |-> 0]]
    /\ UNCHANGED <<incident, batch, queue, worker>>

\* Slip: an absent field of the patch is written all the same.
patchedAlways(new, old) == new

patched(new, old) == IF new = Keep THEN old ELSE new

urlChanged(p) == p.url # Keep

\* Slip: only a pause closes the open incident.
closesOnPauseOnly(p) == p.enabled = FALSE

closesIncident(p) == urlChanged(p) \/ p.enabled = FALSE

UpdateMonitor(m, p) ==
    /\ Live(m)
    /\ LET row == monitor[m]
       IN  /\ monitor' = [monitor EXCEPT ![m] =
                  [row EXCEPT
                     !.url = patched(p.url, @),
                     !.threshold = patched(p.threshold, @),
                     !.enabled = patched(p.enabled, @),
                     !.due = @ /\ ~p.postpone,
                     !.state = IF urlChanged(p) THEN "unknown" ELSE @,
                     !.fails = IF urlChanged(p) THEN 0 ELSE @]]
           /\ IF closesIncident(p) THEN closeIncident(m) ELSE UNCHANGED incident
    /\ UNCHANGED <<batch, queue, worker>>

RecordPing(m) ==
    /\ m \in Heartbeats
    /\ Live(m)
    /\ monitor[m].enabled
    /\ monitor' = [monitor EXCEPT ![m].state = "up", ![m].fails = 0]
    /\ resolveIncident(m)
    /\ UNCHANGED <<batch, queue, worker>>

DeleteMonitor(m) ==
    /\ Live(m)
    /\ monitor' = [monitor EXCEPT ![m] = BlankRow("deleted")]
    /\ cascadeIncidents(m)
    /\ UNCHANGED <<batch, queue, worker>>

---------------------------------------------------------------------------
(* The prober *)

\* interval_seconds have passed since last_checked_at, the time of the claim.
IntervalElapses(m) ==
    /\ Live(m)
    /\ ~monitor[m].due
    /\ m \in Slow \/ JobsOf(m) = {}
    /\ monitor' = [monitor EXCEPT ![m].due = TRUE]
    /\ UNCHANGED <<incident, batch, queue, worker>>

Claimable(m) == Live(m) /\ monitor[m].enabled /\ monitor[m].due

snapshot(m) ==
    [monitor |-> m, url |-> monitor[m].url, threshold |-> monitor[m].threshold,
     state |-> monitor[m].state, fails |-> monitor[m].fails]

\* One UPDATE ... RETURNING.  SKIP LOCKED and LIMIT may leave due monitors out.
claimDue(S) ==
    /\ batch = {}
    /\ S # {}
    /\ \A m \in S : Claimable(m)
    /\ monitor' = [m \in Monitors |->
           IF m \in S THEN [monitor[m] EXCEPT !.due = FALSE] ELSE monitor[m]]
    /\ batch' = {snapshot(m) : m \in S}
    /\ UNCHANGED <<incident, queue, worker>>

\* tick sends the claimed jobs one by one and blocks while the channel is full.
enqueue(j) ==
    /\ j \in batch
    /\ Len(queue) < QueueCap
    /\ batch' = batch \ {j}
    /\ queue' = Append(queue, j)
    /\ UNCHANGED <<monitor, incident, worker>>

takeJob(w) ==
    /\ worker[w] = NoJob
    /\ queue # << >>
    /\ worker' = [worker EXCEPT ![w] = Head(queue)]
    /\ queue' = Tail(queue)
    /\ UNCHANGED <<monitor, incident, batch>>

\* The foreign key of monitor_results rolls everything back for a deleted
\* monitor: that apply is an abandon.
apply(w, ok) ==
    LET j == worker[w]
        m == j.monitor
        tr == evaluate(j.state, j.fails, j.threshold, ok)
    IN  /\ j # NoJob
        /\ Live(m)
        /\ monitor' = [monitor EXCEPT ![m].state = tr.state, ![m].fails = tr.fails]
        /\ worker' = [worker EXCEPT ![w] = NoJob]
        /\ \/ tr.open /\ openIncident(m)
           \/ tr.resolve /\ resolveIncident(m)
           \/ ~tr.open /\ ~tr.resolve /\ UNCHANGED incident
        /\ UNCHANGED <<batch, queue>>

\* The check panicked or the transaction failed and rolled back.
abandon(w) ==
    /\ worker[w] # NoJob
    /\ worker' = [worker EXCEPT ![w] = NoJob]
    /\ UNCHANGED <<monitor, incident, batch, queue>>

\* A crash, or a shutdown: its cancelled context fails every check and apply
\* still to come.  Claims live in memory only.
Restart ==
    /\ InFlight # {}
    /\ batch' = {}
    /\ queue' = << >>
    /\ worker' = [w \in Workers |-> NoJob]
    /\ UNCHANGED <<monitor, incident>>

---------------------------------------------------------------------------
(* The notifier's effect on the table: see Notifier for how it gets there *)

advanceNotify(i) ==
    /\ \/ /\ incident[i].status \in {"open", "resolved"}
          /\ incident[i].notify = "pending"
          /\ incident' = [incident EXCEPT ![i].notify = "notified"]
       \/ /\ incident[i].status = "resolved"
          /\ incident[i].notify = "notified"
          /\ incident' = [incident EXCEPT ![i].notify = "recovered_notified"]
    /\ UNCHANGED <<monitor, batch, queue, worker>>

---------------------------------------------------------------------------
Init ==
    /\ monitor = [m \in Monitors |-> BlankRow("absent")]
    /\ incident = [i \in Incidents |-> NoRow]
    /\ batch = {}
    /\ queue = << >>
    /\ worker = [w \in Workers |-> NoJob]

UserStep(m) ==
    \/ \E url \in URLs, threshold \in Thresholds : CreateMonitor(m, url, threshold)
    \/ \E p \in Patch : UpdateMonitor(m, p)
    \/ RecordPing(m)
    \/ DeleteMonitor(m)

WorkerStep(w) ==
    \/ takeJob(w)
    \/ \E ok \in BOOLEAN : apply(w, ok)
    \/ abandon(w)

Next ==
    \/ \E m \in Monitors : UserStep(m) \/ IntervalElapses(m)
    \/ \E S \in SUBSET Monitors : claimDue(S)
    \/ \E j \in batch : enqueue(j)
    \/ \E w \in Workers : WorkerStep(w)
    \/ Restart
    \/ \E i \in Incidents : advanceNotify(i)

Spec == Init /\ [][Next]_vars

(***************************************************************************)
(* Fairness of the scheduler alone, never of its users or of the failures. *)
(* Time passes; the tick runs every ten seconds and its ORDER BY takes the *)
(* longest unchecked monitor first, so a monitor that keeps being due is   *)
(* claimed; a worker that holds a job finishes it one way or the other:    *)
(* the check has a timeout, and Postgres answers or the connection fails.  *)
(***************************************************************************)
Fairness ==
    /\ \A m \in Monitors : WF_vars(IntervalElapses(m))
    /\ \A m \in Monitors : SF_vars(\E S \in SUBSET Monitors : m \in S /\ claimDue(S))
    /\ WF_vars(\E j \in batch : enqueue(j))
    /\ \A w \in Workers :
        /\ WF_vars(takeJob(w))
        /\ WF_vars(abandon(w) \/ \E ok \in BOOLEAN : apply(w, ok))

FairSpec == Spec /\ Fairness

---------------------------------------------------------------------------
(* Properties *)

TypeOK ==
    /\ monitor \in [Monitors -> MonitorRow]
    /\ incident \in [Incidents -> IncidentRow]
    /\ batch \subseteq Job
    /\ queue \in Seq(Job)
    /\ Len(queue) <= QueueCap
    /\ worker \in [Workers -> Job \cup {NoJob}]

\* No two jobs of the monitor are in flight.
ClaimedOnce(m) ==
    /\ \A j, k \in batch : j.monitor = m /\ k.monitor = m => j = k
    /\ \A a, b \in 1..Len(queue) : queue[a].monitor = m /\ queue[b].monitor = m => a = b
    /\ \A v, w \in Workers :
         /\ worker[v] # NoJob /\ worker[v].monitor = m
         /\ worker[w] # NoJob /\ worker[w].monitor = m
         => v = w
    /\ \A j \in batch : j.monitor = m =>
         \A k \in InQueue \cup InWorkers : k.monitor # m
    /\ \A j \in InQueue : j.monitor = m => \A k \in InWorkers : k.monitor # m

\* An open incident belongs to an existing monitor that is down, so that the
\* next success resolves it (the scheduler only resolves down -> up).  It
\* holds for every monitor whose checks end within their interval.
OpenMeansDown ==
    \A m \in Monitors \ Slow : HasOpen(m) => Live(m) /\ monitor[m].state = "down"

\* While a monitor has an open incident, the snapshot of its job says "down":
\* a success cannot forget to resolve it and a failure never needs the
\* ON CONFLICT clause.
SnapshotKnowsIncident ==
    \A j \in InFlight :
        j.monitor \notin Slow /\ HasOpen(j.monitor) => j.state = "down"

\* A monitor that is due has no job in flight, so its next claim is the only
\* one; and nobody holds a job of a monitor that was never created.
ClaimsAreExclusive ==
    /\ \A m \in Monitors \ Slow : ClaimedOnce(m) /\ (monitor[m].due => JobsOf(m) = {})
    /\ \A j \in InFlight : monitor[j.monitor].status # "absent"

\* The inductive invariant behind OpenMeansDown.
SnapshotInv ==
    TypeOK /\ ClaimsAreExclusive /\ OpenMeansDown /\ SnapshotKnowsIncident

Table == INSTANCE IncidentTable
    WITH gone <- {m \in Monitors : monitor[m].status = "deleted"}

\* Every step of the prober and of the API changes the incidents in a way the
\* table's abstract specification allows.
ImplementsIncidentTable == Table!Spec

\* What is assumed of m from some moment on, for the two liveness properties:
\* the monitor stays enabled, its row is changed by the clock, the claim and the
\* checks only, and every job of it ends with the same outcome applied, none by
\* a failure or a restart.
Undisturbed(m, ok) ==
    /\ <>[](Live(m) /\ monitor[m].enabled)
    /\ <>[][/\ \A w \in Workers : worker[w] # NoJob /\ worker[w].monitor = m
                 => worker'[w] = worker[w] \/ apply(w, ok)
            /\ \A j \in batch \cup InQueue : j.monitor = m => j \in InFlight'
            /\ monitor'[m] # monitor[m] =>
                 IntervalElapses(m) \/ batch' # batch \/ worker' # worker]_vars

\* A monitor whose checks succeed, each within its interval, ends up, with no
\* incident left open.  With overlapping jobs the code does not keep this: see
\* README, section 5.
Recovers ==
    \A m \in Monitors \ Slow :
        Undisturbed(m, TRUE) => <>[](monitor[m].state = "up" /\ ~HasOpen(m))

\* A monitor whose checks fail ends down, also when its jobs overlap: each
\* writes back the count of its own snapshot plus one, so failures are counted
\* twice or not at all, and a job claimed earlier may take the monitor out of
\* "down" again; but the counts in flight grow all the same.
Detects ==
    \A m \in Monitors : Undisturbed(m, FALSE) => <>[](monitor[m].state = "down")

\* Pausing a monitor, or giving it a new target, leaves no incident open that
\* nothing will ever resolve (store.go:330-333).
PausedHasNoOpenIncident ==
    \A m \in Monitors : Live(m) /\ ~monitor[m].enabled => ~HasOpen(m)
=============================================================================
