--------------------------- MODULE IncidentTable ---------------------------
(***************************************************************************)
(* What the incidents table promises to everybody who reads and writes it: *)
(* the prober, the notifier, the API's monitor handlers and its ping       *)
(* endpoint.  This is the abstract specification: it says which changes of *)
(* an incident can ever be committed and nothing about who commits them or *)
(* when.  Uptime (prober and API) and Notifier are shown to implement it.  *)
(*                                                                         *)
(* An incident is opened at most once and never while its monitor has      *)
(* another one open; it is resolved once and stays so; its notification    *)
(* advances pending -> notified -> recovered_notified, one step at a time  *)
(* and the last only after the resolution, unless the incident is closed   *)
(* administratively, which resolves it and ends its notification at once;  *)
(* it disappears with its monitor, and with a deleted monitor for ever.    *)
(***************************************************************************)
CONSTANTS
    Monitors,   \* the monitors' ids
    Incidents,  \* the incidents' ids
    NoMonitor   \* the monitor of an incident that has no row

VARIABLES
    incident,   \* the row of each incident id
    gone        \* the monitors that were deleted

vars == <<incident, gone>>

NoRow == [status |-> "none", monitor |-> NoMonitor, notify |-> "pending"]
DeletedRow == [status |-> "deleted", monitor |-> NoMonitor, notify |-> "pending"]
OpenRow(m) == [status |-> "open", monitor |-> m, notify |-> "pending"]

IsOpen(i, m) == incident[i].status = "open" /\ incident[i].monitor = m
HasOpen(m) == \E i \in Incidents : IsOpen(i, m)

Init ==
    /\ incident = [i \in Incidents |-> NoRow]
    /\ gone = {}

Open(m) ==
    /\ m \notin gone
    /\ ~HasOpen(m)
    /\ \E i \in Incidents :
        /\ incident[i] = NoRow
        /\ incident' = [incident EXCEPT ![i] = OpenRow(m)]
    /\ UNCHANGED gone

Resolve(m) ==
    /\ incident' = [i \in Incidents |->
           IF IsOpen(i, m) THEN [incident[i] EXCEPT !.status = "resolved"]
                           ELSE incident[i]]
    /\ UNCHANGED gone

Close(m) ==
    /\ incident' = [i \in Incidents |->
           IF IsOpen(i, m)
           THEN [incident[i] EXCEPT !.status = "resolved", !.notify = "recovered_notified"]
           ELSE incident[i]]
    /\ UNCHANGED gone

Cascade(m) ==
    /\ incident' = [i \in Incidents |->
           IF incident[i].monitor = m THEN DeletedRow ELSE incident[i]]
    /\ gone' = gone \cup {m}

NotifyDown(i) ==
    /\ incident[i].status \in {"open", "resolved"}
    /\ incident[i].notify = "pending"
    /\ incident' = [incident EXCEPT ![i].notify = "notified"]
    /\ UNCHANGED gone

NotifyRecovery(i) ==
    /\ incident[i].status = "resolved"
    /\ incident[i].notify = "notified"
    /\ incident' = [incident EXCEPT ![i].notify = "recovered_notified"]
    /\ UNCHANGED gone

Next ==
    \/ \E m \in Monitors : Open(m) \/ Resolve(m) \/ Close(m) \/ Cascade(m)
    \/ \E i \in Incidents : NotifyDown(i) \/ NotifyRecovery(i)

Spec == Init /\ [][Next]_vars
=============================================================================
