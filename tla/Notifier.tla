------------------------------ MODULE Notifier ------------------------------
(***************************************************************************)
(* The notifier of services/scheduler/notifier.go: on every tick it reads  *)
(* the incidents that owe a message, oldest first, and for each of them    *)
(* loads the tenant's channels, attempts one send per channel and, unless  *)
(* every attempt failed and the incident is still young, advances the      *)
(* incident's notify_state.                                                *)
(*                                                                         *)
(* Reading, sending and advancing are separate steps: between them the     *)
(* prober resolves incidents, the API closes and deletes them, channels    *)
(* come and go, a send or a statement fails, and the process restarts.     *)
(* Those who write the incidents meanwhile are the actions of              *)
(* IncidentTable, which Uptime implements.                                 *)
(***************************************************************************)
EXTENDS Integers, Sequences, FiniteSets

CONSTANTS
    Monitors, Incidents, NoMonitor,
    Tenants, Channels,
    TenantOf,    \* the tenant of each monitor
    OwnerOf,     \* the tenant of each alert channel
    ListLimit,   \* incidents read per tick (50 in the code)
    MaxFaults,   \* bound on the restarts and failed statements of a behaviour
    NoAlert      \* no alert is being sent

ASSUME NotifierAssumption ==
    /\ TenantOf \in [Monitors -> Tenants]
    /\ OwnerOf \in [Channels -> Tenants]
    /\ NoMonitor \notin Monitors
    /\ ListLimit \in Nat \ {0}
    /\ MaxFaults \in Nat

VARIABLES
    incident, gone,  \* the incidents table, see IncidentTable
    order,           \* the incidents in the order of their started_at
    age,             \* which of the incident's times is an hour ago
    enabled,         \* the enabled alert channels
    pass,            \* the alerts of this tick's pass still to be handled
    current,         \* the alert being sent
    sent,            \* history: messages accepted by each channel
    excused,         \* history: messages given up, or with no channel to go to
    faults           \* history: restarts and failed statements

tableVars == <<incident, gone, order, age>>
history == <<sent, excused, faults>>
vars == <<incident, gone, order, age, enabled, pass, current, sent, excused, faults>>

Table == INSTANCE IncidentTable

---------------------------------------------------------------------------
Messages == {"DOWN", "RESOLVED"}
Ages == {"fresh", "startedLongAgo", "resolvedLongAgo"}

HasRow(i) == incident[i].status \in {"open", "resolved"}
Resolved(i) == incident[i].status = "resolved"

\* pendingIncident: what one pass knows of an incident, read once at its start.
Alert == [id : Incidents, tenant : Tenants, resolved : BOOLEAN,
          notify : {"pending", "notified"}]

Sending == [alert : Alert, todo : SUBSET Channels,
            attempted : BOOLEAN, delivered : BOOLEAN]

ASSUME DistinctAssumption == NoAlert \notin Sending

\* Slip: the WHERE clause forgets that a recovery is owed only once resolved.
owesAnything(i) == HasRow(i) /\ incident[i].notify # "recovered_notified"

owesMessage(i) ==
    /\ HasRow(i)
    /\ \/ incident[i].notify = "pending"
       \/ incident[i].notify = "notified" /\ Resolved(i)

alertFor(i) ==
    [id |-> i, tenant |-> TenantOf[incident[i].monitor], resolved |-> Resolved(i),
     notify |-> incident[i].notify]

recovery(a) == a.notify = "notified"

\* Slip: any resolved incident is announced as resolved.
messageByResolution(a) == IF a.resolved THEN "RESOLVED" ELSE "DOWN"

message(a) == IF recovery(a) /\ a.resolved THEN "RESOLVED" ELSE "DOWN"
nextState(a) == IF recovery(a) THEN "recovered_notified" ELSE "notified"

tenantChannels(t) == {c \in enabled : OwnerOf[c] = t}

---------------------------------------------------------------------------
(* The rest of the system *)

\* Incidents are opened, resolved, closed and deleted at any time.
Open(m) ==
    /\ Table!Open(m)
    /\ \E i \in Incidents :
         /\ incident'[i] # incident[i]
         /\ order' = Append(order, i)
    /\ UNCHANGED <<age, enabled, pass, current, history>>

OtherChange(m) ==
    /\ m \notin gone
    /\ Table!Resolve(m) \/ Table!Close(m) \/ Table!Cascade(m)
    /\ UNCHANGED <<order, age, enabled, pass, current, history>>

GrowOld(i) ==
    /\ \/ HasRow(i) /\ age[i] = "fresh" /\ age' = [age EXCEPT ![i] = "startedLongAgo"]
       \/ Resolved(i) /\ age[i] = "startedLongAgo" /\ age' = [age EXCEPT ![i] = "resolvedLongAgo"]
    /\ UNCHANGED <<incident, gone, order, enabled, pass, current, history>>

\* POST and DELETE /api/channels.
ToggleChannel(c) ==
    /\ enabled' = IF c \in enabled THEN enabled \ {c} ELSE enabled \cup {c}
    /\ UNCHANGED <<tableVars, pass, current, history>>

---------------------------------------------------------------------------
(* notifyIncidents and notifyOne *)

Idle == pass = << >> /\ current = NoAlert

\* Slip: the LIMIT is forgotten.
readAll == Cardinality(Incidents)

readAtMost == ListLimit

older(i, j) ==
    \E p, q \in 1..Len(order) : p < q /\ order[p] = i /\ order[q] = j

\* WHERE owesMessage ORDER BY started_at LIMIT n: what is left out is younger,
\* and is only left out when the limit is reached.
list ==
    /\ Idle
    /\ LET owing == {i \in Incidents : owesMessage(i)}
       IN  \E n \in 1..readAtMost : \E read \in [1..n -> owing] :
             /\ \A j, k \in 1..n : j < k => older(read[j], read[k])
             /\ \A i \in owing : \/ \E k \in 1..n : read[k] = i
                                 \/ n = readAtMost /\ \A k \in 1..n : older(read[k], i)
             /\ pass' = [k \in 1..n |-> alertFor(read[k])]
    /\ UNCHANGED <<tableVars, enabled, current, history>>

load ==
    /\ pass # << >>
    /\ current = NoAlert
    /\ current' = [alert |-> Head(pass), todo |-> tenantChannels(Head(pass).tenant),
                   attempted |-> FALSE, delivered |-> FALSE]
    /\ pass' = Tail(pass)
    /\ UNCHANGED <<tableVars, enabled, history>>

\* One channel of sendAll, with a timeout of its own.
send(c, ok) ==
    /\ current # NoAlert
    /\ c \in current.todo
    /\ current' = [current EXCEPT !.todo = @ \ {c}, !.attempted = TRUE,
                                  !.delivered = @ \/ ok]
    /\ sent' = IF ok THEN [sent EXCEPT ![<<current.alert.id, c, message(current.alert)>>] = @ + 1]
                     ELSE sent
    /\ UNCHANGED <<tableVars, enabled, pass, excused, faults>>

\* Slip: a permanently failing incident is retried for ever.
neverOver(a) == FALSE

retryWindowOver(a) ==
    IF recovery(a) /\ a.resolved THEN age[a.id] = "resolvedLongAgo"
                                 ELSE age[a.id] # "fresh"

\* Slip: advance whatever became of the sends.
neverKept(s) == FALSE

keptForRetry(s) == s.attempted /\ ~s.delivered /\ ~retryWindowOver(s.alert)

\* Slip: the UPDATE without "AND notify_state = $3".
advanceUnguarded(a) ==
    incident' = [incident EXCEPT ![a.id].notify = IF HasRow(a.id) THEN nextState(a) ELSE @]

\* UPDATE incidents SET notify_state = $2 WHERE id = $1 AND notify_state = $3
advance(a) ==
    incident' = [incident EXCEPT ![a.id].notify =
        IF HasRow(a.id) /\ @ = a.notify THEN nextState(a) ELSE @]

finish ==
    /\ current # NoAlert
    /\ current.todo = {}
    /\ LET a == current.alert
           excuse == ~current.attempted \/ (~current.delivered /\ retryWindowOver(a))
       IN  /\ IF keptForRetry(current) THEN UNCHANGED incident ELSE advance(a)
           /\ excused' = IF excuse THEN excused \cup {<<a.id, message(a)>>} ELSE excused
    /\ current' = NoAlert
    /\ UNCHANGED <<gone, order, age, enabled, pass, sent, faults>>

---------------------------------------------------------------------------
(* Failures *)

\* The channels cannot be loaded, or the UPDATE fails: this incident is left
\* as it was for a later tick.
statementFails ==
    /\ faults < MaxFaults
    /\ faults' = faults + 1
    /\ \/ /\ pass # << >> /\ current = NoAlert
          /\ pass' = Tail(pass) /\ UNCHANGED current
       \/ /\ current # NoAlert /\ current.todo = {} /\ ~keptForRetry(current)
          /\ current' = NoAlert /\ UNCHANGED pass
    /\ UNCHANGED <<tableVars, enabled, sent, excused>>

\* A crash or a shutdown: the pass is forgotten, what was sent is not.
Restart ==
    /\ faults < MaxFaults
    /\ ~Idle
    /\ faults' = faults + 1
    /\ pass' = << >>
    /\ current' = NoAlert
    /\ UNCHANGED <<tableVars, enabled, sent, excused>>

---------------------------------------------------------------------------
Init ==
    /\ Table!Init
    /\ order = << >>
    /\ age = [i \in Incidents |-> "fresh"]
    /\ enabled = Channels
    /\ pass = << >>
    /\ current = NoAlert
    /\ sent = [x \in Incidents \X Channels \X Messages |-> 0]
    /\ excused = {}
    /\ faults = 0

Notify == list \/ load \/ finish \/ \E c \in Channels, ok \in BOOLEAN : send(c, ok)

Next ==
    \/ \E m \in Monitors : Open(m) \/ OtherChange(m)
    \/ \E i \in Incidents : GrowOld(i)
    \/ \E c \in Channels : ToggleChannel(c)
    \/ Notify
    \/ statementFails
    \/ Restart

Spec == Init /\ [][Next]_vars

\* The main loop keeps running passes, every send ends within its timeout, and
\* time passes.  Nothing is assumed of the users or of the sends' outcomes.
FairSpec == Spec /\ WF_vars(Notify) /\ \A i \in Incidents : WF_vars(GrowOld(i))

---------------------------------------------------------------------------
(* Properties *)

TypeOK ==
    /\ gone \subseteq Monitors
    /\ order \in Seq(Incidents)
    /\ age \in [Incidents -> Ages]
    /\ enabled \subseteq Channels
    /\ pass \in Seq(Alert) /\ Len(pass) <= ListLimit
    /\ current \in Sending \cup {NoAlert}
    /\ sent \in [Incidents \X Channels \X Messages -> Nat]
    /\ excused \subseteq Incidents \X Messages
    /\ faults \in 0..MaxFaults

ImplementsIncidentTable == Table!Spec

\* Somebody was told, or nobody could be: the tenant had no channel, or all of
\* them failed for an hour.
Told(i, msg) ==
    \/ \E c \in Channels : sent[<<i, c, msg>>] > 0
    \/ <<i, msg>> \in excused

\* "notify_state advances only after the send attempt, so a scheduler restart
\* never loses an alert" (notifier.go:27-28): however restarts, failed sends,
\* resolutions and closes fall, no incident becomes notified before its down
\* alert was dealt with, nor recovered before its recovery notice was.
AlertNeverLost ==
    [][\A i \in Incidents :
         /\ incident[i].notify = "pending" /\ incident'[i].notify = "notified"
              => Told(i, "DOWN")'
         /\ Resolved(i) /\ incident[i].notify = "notified"
              /\ incident'[i].notify = "recovered_notified"
              => Told(i, "RESOLVED")']_vars

\* Nobody hears of a recovery while the down alert is still owed, even when
\* the incident was resolved before the notifier first saw it.
RecoveryFollowsDown ==
    \A i \in Incidents, c \in Channels : sent[<<i, c, "RESOLVED">>] > 0 => Told(i, "DOWN")

\* A channel gets a message a second time only when a restart or a failed
\* statement came between the send and the advance.
RepeatedOnlyAfterFault ==
    \A i \in Incidents, c \in Channels, msg \in Messages :
        sent[<<i, c, msg>>] <= 1 + faults

\* Every message owed is dealt with in the end, whatever other incidents fail
\* for ever ahead of it in the limited list.
EverythingSettles ==
    \A i \in Incidents : owesMessage(i) ~> ~owesMessage(i)

=============================================================================
