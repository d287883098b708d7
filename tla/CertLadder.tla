----------------------------- MODULE CertLadder -----------------------------
(***************************************************************************)
(* The certificate-expiry warnings: the prober records the leaf            *)
(* certificate each check sees (services/scheduler/prober.go), and on      *)
(* every tick, after the incidents, the notifier warns of those near their *)
(* expiry (services/scheduler/certexpiry.go).  A warning climbs down a     *)
(* ladder of two rungs; the rung reached is kept in the monitor's row.     *)
(*                                                                         *)
(* The pass reads the rows once, then for each of them decides on a rung,  *)
(* sends to every channel and writes the rung back, while the workers      *)
(* record other certificates, users pause and delete monitors, sends fail  *)
(* and the process restarts.  A certificate is known by its expiry, as in  *)
(* the code; time is counted in days.                                      *)
(***************************************************************************)
EXTENDS Integers, FiniteSets

CONSTANTS
    Monitors,
    Channels,       \* the enabled alert channels of the monitors' tenant
    Expiries,       \* the days on which the certificates seen expire
    certWarnDays,   \* the first rung (14 days in the code)
    certUrgentDays, \* the second rung (3 days in the code)
    ListLimit,      \* monitors read per pass (100 in the code)
    Horizon,        \* bound on the clock
    MaxRecorded,    \* bound on the certificates recorded in a behaviour
    MaxFaults,      \* bound on the restarts and failed statements
    NoCert, NoRow, NoWarning

ASSUME CertAssumption ==
    /\ Expiries \subseteq Nat /\ IsFiniteSet(Monitors)
    /\ certUrgentDays \in Nat \ {0} /\ certWarnDays \in Nat
    /\ certUrgentDays < certWarnDays
    /\ ListLimit \in Nat \ {0}
    /\ Horizon \in Nat /\ MaxRecorded \in Nat /\ MaxFaults \in Nat

VARIABLES
    today,     \* the clock
    monitor,   \* the columns of each monitor's row that the ladder uses
    due,       \* what this pass has read and not yet handled
    current,   \* the warning being sent
    sent,      \* history: warnings accepted, by monitor, expiry, channel and rung
    warnedOf,  \* history: the certificate the rung in each row was sent for
    renewals,  \* history: how often each monitor's ladder was reset
    recorded,  \* the certificates recorded so far
    faults     \* the restarts and failed statements so far

history == <<sent, warnedOf, renewals, recorded, faults>>
vars == <<today, monitor, due, current, sent, warnedOf, renewals, recorded, faults>>

---------------------------------------------------------------------------
Rungs == {certWarnDays, certUrgentDays}
Row == [enabled : BOOLEAN, expires : Expiries \cup {NoCert}, warned : Rungs \cup {0}]

\* expiringCert: what a pass knows of a monitor.
ExpiringCert == [id : Monitors, expires : Expiries, warned : Rungs \cup {0}]

Warning == [cert : ExpiringCert, rung : Rungs, todo : SUBSET Channels,
            attempted : BOOLEAN, delivered : BOOLEAN]

ASSUME DistinctAssumption ==
    NoCert \notin Expiries /\ NoRow \notin Row /\ NoWarning \notin Warning

HasRow(m) == monitor[m] # NoRow

Expiring(m) ==
    /\ HasRow(m) /\ monitor[m].enabled
    /\ monitor[m].expires # NoCert
    /\ monitor[m].expires <= today + certWarnDays

\* Slip: the two rungs are asked about in the other order.
certRungSwapped(days, warned) ==
    IF days <= certWarnDays /\ warned = 0 THEN certWarnDays
    ELSE IF days <= certUrgentDays /\ warned # certUrgentDays THEN certUrgentDays
    ELSE 0

\* Slip: only the last rung sent is compared with, not the ladder.
certRungUnordered(days, warned) ==
    IF days <= certUrgentDays /\ warned # certUrgentDays THEN certUrgentDays
    ELSE IF days <= certWarnDays /\ warned # certWarnDays THEN certWarnDays
    ELSE 0

\* Slip: the days left are written down instead of the rung.
certRungDays(days, warned) ==
    IF days <= certWarnDays /\ days # warned THEN days ELSE 0

\* The rung owed, 0 when none is.
certRung(days, warned) ==
    IF days <= certUrgentDays /\ warned # certUrgentDays THEN certUrgentDays
    ELSE IF days <= certWarnDays /\ warned = 0 THEN certWarnDays
    ELSE 0

---------------------------------------------------------------------------
(* The rest of the system *)

NextDay ==
    /\ today < Horizon
    /\ today' = today + 1
    /\ UNCHANGED <<monitor, due, current, history>>

\* apply's statement on the leaf certificate of a check: any certificate still
\* valid may be served next, for servers behind one name may differ and the
\* monitor's URL may be changed; neither resets the columns.
RecordCert(m, e) ==
    /\ HasRow(m)
    /\ e >= today
    /\ e # monitor[m].expires
    /\ recorded < MaxRecorded
    /\ LET renewed == monitor[m].expires = NoCert \/ e > monitor[m].expires
       IN  /\ monitor' = [monitor EXCEPT ![m].expires = e,
                                         ![m].warned = IF renewed THEN 0 ELSE @]
           /\ renewals' = [renewals EXCEPT ![m] = IF renewed THEN @ + 1 ELSE @]
    /\ recorded' = recorded + 1
    /\ UNCHANGED <<today, due, current, sent, warnedOf, faults>>

PauseOrResume(m) ==
    /\ HasRow(m)
    /\ monitor' = [monitor EXCEPT ![m].enabled = ~@]
    /\ UNCHANGED <<today, due, current, history>>

DeleteMonitor(m) ==
    /\ HasRow(m)
    /\ monitor' = [monitor EXCEPT ![m] = NoRow]
    /\ UNCHANGED <<today, due, current, history>>

---------------------------------------------------------------------------
(* notifyCertExpiry and warnCertExpiry *)

Idle == due = {} /\ current = NoWarning

\* ORDER BY tls_expires_at LIMIT n: the n that expire first, ties in any order.
EarliestOf(ms, n) ==
    {s \in SUBSET ms :
        /\ Cardinality(s) = IF Cardinality(ms) < n THEN Cardinality(ms) ELSE n
        /\ \A m \in s, other \in ms \ s : monitor[m].expires <= monitor[other].expires}

list ==
    /\ Idle
    /\ LET expiring == {m \in Monitors : Expiring(m)}
       IN  /\ expiring # {}
           /\ \E s \in EarliestOf(expiring, ListLimit) :
                due' = {[id |-> m, expires |-> monitor[m].expires,
                         warned |-> monitor[m].warned] : m \in s}
    /\ UNCHANGED <<today, monitor, current, history>>

\* The next row, in the order of the list, and the rung it owes, if any.
decide(c) ==
    /\ current = NoWarning
    /\ c \in due
    /\ \A other \in due : c.expires <= other.expires
    /\ due' = due \ {c}
    /\ LET rung == certRung(c.expires - today, c.warned)
       IN  current' = IF rung = 0 THEN NoWarning
                      ELSE [cert |-> c, rung |-> rung, todo |-> Channels,
                            attempted |-> FALSE, delivered |-> FALSE]
    /\ UNCHANGED <<today, monitor, history>>

send(c, ok) ==
    /\ current # NoWarning
    /\ c \in current.todo
    /\ current' = [current EXCEPT !.todo = @ \ {c}, !.attempted = TRUE,
                                  !.delivered = @ \/ ok]
    /\ sent' = IF ok
               THEN [sent EXCEPT ![<<current.cert.id, current.cert.expires, c, current.rung>>] = @ + 1]
               ELSE sent
    /\ UNCHANGED <<today, monitor, due, warnedOf, renewals, recorded, faults>>

\* Slip: the rung advances also when no channel accepted the warning.
deliveredAnyhow(w) == FALSE

nothingDelivered(w) == w.attempted /\ ~w.delivered

\* UPDATE monitors SET tls_warned_threshold = $2 WHERE id = $1
finish ==
    /\ current # NoWarning
    /\ current.todo = {}
    /\ LET m == current.cert.id
           lost == nothingDelivered(current) \/ ~HasRow(m)
       IN  /\ monitor' = IF lost THEN monitor
                         ELSE [monitor EXCEPT ![m].warned = current.rung]
           /\ warnedOf' = IF lost THEN warnedOf
                          ELSE [warnedOf EXCEPT ![m] = current.cert.expires]
    /\ current' = NoWarning
    /\ UNCHANGED <<today, due, sent, renewals, recorded, faults>>

---------------------------------------------------------------------------
(* Failures *)

\* The channels cannot be loaded, or the rung cannot be written.
statementFails ==
    /\ current # NoWarning
    /\ ~current.attempted \/ (current.todo = {} /\ ~nothingDelivered(current))
    /\ faults < MaxFaults
    /\ faults' = faults + 1
    /\ current' = NoWarning
    /\ UNCHANGED <<today, monitor, due, sent, warnedOf, renewals, recorded>>

Restart ==
    /\ ~Idle
    /\ faults < MaxFaults
    /\ faults' = faults + 1
    /\ due' = {}
    /\ current' = NoWarning
    /\ UNCHANGED <<today, monitor, sent, warnedOf, renewals, recorded>>

---------------------------------------------------------------------------
Init ==
    /\ today = 0
    /\ monitor = [m \in Monitors |-> [enabled |-> TRUE, expires |-> NoCert, warned |-> 0]]
    /\ due = {}
    /\ current = NoWarning
    /\ sent = [x \in Monitors \X Expiries \X Channels \X Rungs |-> 0]
    /\ warnedOf = [m \in Monitors |-> NoCert]
    /\ renewals = [m \in Monitors |-> 0]
    /\ recorded = 0
    /\ faults = 0

Notify ==
    \/ list
    \/ \E c \in due : decide(c)
    \/ \E c \in Channels, ok \in BOOLEAN : send(c, ok)
    \/ finish

Next ==
    \/ NextDay
    \/ \E m \in Monitors, e \in Expiries : RecordCert(m, e)
    \/ \E m \in Monitors : PauseOrResume(m) \/ DeleteMonitor(m)
    \/ Notify
    \/ statementFails
    \/ Restart

Spec == Init /\ [][Next]_vars

\* The main loop keeps running passes, and a channel that is tried again and
\* again accepts a message at last: a warning is retried without limit.
FairSpec ==
    /\ Spec
    /\ WF_vars(Notify)
    /\ \A c \in Channels : SF_vars(send(c, TRUE))

---------------------------------------------------------------------------
(* Properties *)

TypeOK ==
    /\ today \in 0..Horizon
    /\ monitor \in [Monitors -> Row \cup {NoRow}]
    /\ due \subseteq ExpiringCert /\ Cardinality(due) <= ListLimit
    /\ current \in Warning \cup {NoWarning}
    /\ sent \in [Monitors \X Expiries \X Channels \X Rungs -> Nat]
    /\ warnedOf \in [Monitors -> Expiries \cup {NoCert}]
    /\ renewals \in [Monitors -> Nat]
    /\ recorded \in 0..MaxRecorded
    /\ faults \in 0..MaxFaults

\* What is left of "at most once per rung per certificate ... a restart never
\* re-sends" (certexpiry.go:9-11), which the code does not keep (README, section
\* 5): each repetition of a warning has a cause of its own, a certificate
\* recorded with a later expiry than the one before or a fault between the send
\* and the write.  Partial delivery and stale reads cause none.
RepeatsHaveCause ==
    \A m \in Monitors, e \in Expiries, c \in Channels, r \in Rungs :
        sent[<<m, e, c, r>>] <= renewals[m] + faults

\* A channel told that a certificate is about to expire is never told later of
\* the same certificate that there is time left, whichever certificates were
\* recorded in between and however the ladder was reset.
LadderDescends ==
    [][\A m \in Monitors, e \in Expiries, c \in Channels :
         sent'[<<m, e, c, certWarnDays>>] # sent[<<m, e, c, certWarnDays>>]
            => sent[<<m, e, c, certUrgentDays>>] = 0]_vars

\* Somebody is told that a certificate is about to expire, while the monitor is
\* watched and the certificate is not replaced: "caught in advance rather than
\* reported after" (certexpiry.go:27-29).  Left out is a row that holds the last
\* rung of ANOTHER certificate, written over a renewal or kept by a certificate
\* that expires earlier: nobody is told then (README, section 5).
LastWarningComes ==
    \A m \in Monitors, e \in Expiries :
        LET near == /\ Expiring(m) /\ monitor[m].expires = e
                    /\ e <= today + certUrgentDays
                    /\ monitor[m].warned = certUrgentDays => warnedOf[m] = e
            told == \E c \in Channels : sent[<<m, e, c, certUrgentDays>>] > 0
        IN  near ~> ~near \/ told
=============================================================================
