--------------------------- MODULE NotifierProofs ---------------------------
(***************************************************************************)
(* What the notifier guarantees for any numbers of incidents, tenants,     *)
(* channels and faults, and for any limit of its list.                     *)
(***************************************************************************)
EXTENDS Notifier, TLAPS

(***************************************************************************)
(* Types                                                                   *)
(***************************************************************************)
States == {"pending", "notified", "recovered_notified"}

IncidentRow == [status : {"none", "open", "resolved", "deleted"},
                monitor : Monitors \cup {NoMonitor}, notify : States]

Rows ==
    /\ incident \in [Incidents -> IncidentRow]
    /\ \A i \in Incidents : HasRow(i) => incident[i].monitor \in Monitors

\* An incident enters the order once, with its row.
OrderOfRows ==
    /\ \A p, q \in 1..Len(order) : order[p] = order[q] => p = q
    /\ \A p \in 1..Len(order) : incident[order[p]].status # "none"

Typed == TypeOK /\ Rows /\ OrderOfRows

LEMMA Bounds == ListLimit \in Nat \ {0} /\ MaxFaults \in Nat
BY NotifierAssumption

LEMMA TableRows ==
    ASSUME NEW m \in Monitors
    PROVE  Table!NoRow \in IncidentRow /\ Table!DeletedRow \in IncidentRow
           /\ Table!OpenRow(m) \in IncidentRow
BY DEF Table!NoRow, Table!DeletedRow, Table!OpenRow, IncidentRow, States

LEMMA EditedRow ==
    ASSUME NEW r \in IncidentRow, NEW s \in {"none", "open", "resolved", "deleted"},
           NEW n \in States
    PROVE  /\ [r EXCEPT !.status = s] \in IncidentRow
           /\ [r EXCEPT !.status = s].status = s
           /\ [r EXCEPT !.status = s].notify = r.notify
           /\ [r EXCEPT !.status = s].monitor = r.monitor
           /\ [r EXCEPT !.notify = n] \in IncidentRow
           /\ [r EXCEPT !.notify = n].status = r.status
           /\ [r EXCEPT !.notify = n].notify = n
           /\ [r EXCEPT !.notify = n].monitor = r.monitor
           /\ [r EXCEPT !.status = s, !.notify = n] \in IncidentRow
           /\ [r EXCEPT !.status = s, !.notify = n].status = s
           /\ [r EXCEPT !.status = s, !.notify = n].notify = n
           /\ [r EXCEPT !.status = s, !.notify = n].monitor = r.monitor
BY DEF IncidentRow

\* What everybody but the notifier may make of the row of an incident.
Moved(i) ==
    /\ incident'[i] \in IncidentRow
    /\ HasRow(i)' => incident'[i].monitor \in Monitors
    /\ incident[i].status # "none" => incident'[i].status # "none"
    /\ HasRow(i)' => \/ HasRow(i) /\ incident'[i].notify = incident[i].notify
                     \/ HasRow(i) /\ incident'[i].notify = "recovered_notified"
                     \/ incident[i].status = "none" /\ incident'[i].notify = "pending"
    /\ \/ incident'[i].notify \in {incident[i].notify, "pending"}
       \/ incident'[i].notify = "recovered_notified" /\ ~Resolved(i)
    /\ Resolved(i) => ~HasRow(i)' \/ incident'[i].status = "resolved"

LEMMA OpenMoves ==
    ASSUME Rows, NEW m \in Monitors, Table!Open(m)
    PROVE  \A i \in Incidents : Moved(i)
<1>1. PICK new \in Incidents :
        incident[new] = Table!NoRow /\ incident' = [incident EXCEPT ![new] = Table!OpenRow(m)]
    BY DEF Table!Open
<1>2. Moved(new)
    <2>1. incident'[new] = Table!OpenRow(m)
        BY <1>1 DEF Rows
    <2>2. Table!OpenRow(m).status = "open" /\ Table!OpenRow(m).monitor = m
          /\ Table!OpenRow(m).notify = "pending" /\ Table!NoRow.status = "none"
        BY DEF Table!OpenRow, Table!NoRow
    <2> QED BY <1>1, <2>1, <2>2, TableRows DEF Moved, Resolved
<1>3. \A i \in Incidents : i # new => incident'[i] = incident[i]
    BY <1>1 DEF Rows
<1> QED BY <1>2, <1>3 DEF Moved, Rows, HasRow, Resolved

LEMMA OtherMoves ==
    ASSUME Rows, NEW m \in Monitors, Table!Resolve(m) \/ Table!Close(m) \/ Table!Cascade(m),
           NEW i \in Incidents
    PROVE  Moved(i)
<1>1. incident[i] \in IncidentRow
    BY DEF Rows
<1>2. CASE incident'[i] = incident[i]
    BY <1>1, <1>2 DEF Moved, Rows, HasRow, Resolved
<1>3. CASE /\ incident[i].status = "open"
           /\ incident'[i] = [incident[i] EXCEPT !.status = "resolved"]
    <2>1. /\ incident'[i] \in IncidentRow /\ incident'[i].status = "resolved"
          /\ incident'[i].notify = incident[i].notify
          /\ incident'[i].monitor = incident[i].monitor
        BY <1>1, <1>3 DEF IncidentRow
    <2> QED BY <1>3, <2>1 DEF Moved, Rows, HasRow
<1>4. CASE /\ incident[i].status = "open"
           /\ incident'[i] = [incident[i] EXCEPT !.status = "resolved",
                                                 !.notify = "recovered_notified"]
    <2>1. /\ incident'[i] \in IncidentRow /\ incident'[i].status = "resolved"
          /\ incident'[i].notify = "recovered_notified"
          /\ incident'[i].monitor = incident[i].monitor
        BY <1>1, <1>4 DEF IncidentRow, States
    <2> QED BY <1>4, <2>1 DEF Moved, Rows, HasRow, Resolved
<1>5. CASE incident'[i] = Table!DeletedRow
    BY <1>5, TableRows DEF Moved, HasRow, Table!DeletedRow
<1> QED BY <1>2, <1>3, <1>4, <1>5 DEF Table!Resolve, Table!Close, Table!Cascade, Table!IsOpen

LEMMA AlertType ==
    ASSUME Typed, NEW i \in Incidents, owesMessage(i)
    PROVE  alertFor(i) \in Alert
BY NotifierAssumption DEF Typed, Rows, owesMessage, alertFor, Alert, Resolved

LEMMA ListReads ==
    ASSUME Typed, list
    PROVE  /\ pass' \in Seq(Alert) /\ Len(pass') <= ListLimit
           /\ \A k \in 1..Len(pass') :
                \E i \in Incidents : owesMessage(i) /\ pass'[k] = alertFor(i)
           /\ \A j, k \in 1..Len(pass') : pass'[j].id = pass'[k].id => j = k
<1> DEFINE owing == {i \in Incidents : owesMessage(i)}
<1>0. PICK n \in 1..ListLimit : \E read \in [1..n -> owing] :
        /\ \A j, k \in 1..n : j < k => older(read[j], read[k])
        /\ pass' = [k \in 1..n |-> alertFor(read[k])]
    BY DEF list, readAtMost
<1>1. PICK read \in [1..n -> owing] :
        /\ \A j, k \in 1..n : j < k => older(read[j], read[k])
        /\ pass' = [k \in 1..n |-> alertFor(read[k])]
    BY <1>0
<1>2. \A k \in 1..n : read[k] \in Incidents /\ owesMessage(read[k])
    OBVIOUS
<1>3. \A i \in Incidents : ~older(i, i)
    BY DEF older, Typed, OrderOfRows
<1>4. \A j, k \in 1..n : read[j] = read[k] => j = k
    BY <1>1, <1>2, <1>3
<1>5. n \in Nat /\ n <= ListLimit
    BY Bounds
<1>6. pass' \in Seq(Alert) /\ Len(pass') = n
    BY <1>1, <1>2, <1>5, AlertType
<1>7. \A k \in 1..n : pass'[k] = alertFor(read[k]) /\ pass'[k].id = read[k]
    BY <1>1 DEF alertFor
<1> QED BY <1>2, <1>4, <1>5, <1>6, <1>7

LEMMA Advances ==
    ASSUME Rows, NEW a \in Alert, advance(a)
    PROVE  /\ \A i \in Incidents : i # a.id => incident'[i] = incident[i]
           /\ incident' \in [Incidents -> IncidentRow]
           /\ incident'[a.id].status = incident[a.id].status
           /\ incident'[a.id].monitor = incident[a.id].monitor
           /\ incident'[a.id].notify =
                IF HasRow(a.id) /\ incident[a.id].notify = a.notify
                THEN nextState(a) ELSE incident[a.id].notify
<1> DEFINE i == a.id
           next == IF HasRow(i) /\ incident[i].notify = a.notify
                   THEN nextState(a) ELSE incident[i].notify
<1>1. i \in Incidents
    BY DEF Alert
<1>2. incident[i] \in IncidentRow
    BY <1>1 DEF Rows
<1>3. next \in States
    BY <1>2 DEF nextState, States, IncidentRow
<1>4. incident' = [incident EXCEPT ![i] = [incident[i] EXCEPT !.notify = next]]
    BY DEF advance
<1> HIDE DEF next
<1>5. incident'[i] = [incident[i] EXCEPT !.notify = next]
    BY <1>1, <1>4 DEF Rows
<1>6. /\ [incident[i] EXCEPT !.notify = next] \in IncidentRow
      /\ [incident[i] EXCEPT !.notify = next].status = incident[i].status
      /\ [incident[i] EXCEPT !.notify = next].monitor = incident[i].monitor
      /\ [incident[i] EXCEPT !.notify = next].notify = next
    BY <1>2, <1>3 DEF IncidentRow
<1>7. incident' \in [Incidents -> IncidentRow]
    BY <1>1, <1>4, <1>6 DEF Rows
<1>8. \A j \in Incidents : j # i => incident'[j] = incident[j]
    BY <1>4 DEF Rows
<1> QED BY <1>5, <1>6, <1>7, <1>8 DEF next

LEMMA SendTypes ==
    ASSUME TypeOK, NEW c \in Channels, NEW ok \in BOOLEAN, send(c, ok)
    PROVE  /\ current' \in Sending
           /\ sent' \in [Incidents \X Channels \X Messages -> Nat]
           /\ current.alert.id \in Incidents /\ message(current.alert) \in Messages
<1>1. current \in Sending
    BY DEF TypeOK, send
<1>2. current' \in Sending
    BY <1>1 DEF send, Sending
<1>3. current.alert.id \in Incidents /\ message(current.alert) \in Messages
    BY <1>1 DEF Sending, Alert, message, Messages
<1> DEFINE x == <<current.alert.id, c, message(current.alert)>>
<1>4. x \in Incidents \X Channels \X Messages
    BY <1>3
<1>5. sent' = IF ok THEN [sent EXCEPT ![x] = sent[x] + 1] ELSE sent
    BY DEF send
<1>6. sent' \in [Incidents \X Channels \X Messages -> Nat]
    BY <1>4, <1>5 DEF TypeOK
<1> QED BY <1>2, <1>3, <1>6

LEMMA LoadTypes ==
    ASSUME TypeOK, load
    PROVE  /\ pass' \in Seq(Alert) /\ Len(pass') <= ListLimit
           /\ current' \in Sending /\ current' # NoAlert
           /\ current'.alert = pass[1] /\ Len(pass) >= 1
           /\ Len(pass') = Len(pass) - 1
           /\ \A k \in 1..Len(pass') : pass'[k] = pass[k + 1]
           /\ current'.todo = tenantChannels(pass[1].tenant) /\ ~current'.delivered
<1>1. pass \in Seq(Alert) /\ pass # << >> /\ Len(pass) <= ListLimit /\ pass' = Tail(pass)
    BY DEF TypeOK, load
<1>2. /\ Len(pass) >= 1 /\ Head(pass) = pass[1] /\ pass[1] \in Alert
      /\ pass' \in Seq(Alert) /\ Len(pass') = Len(pass) - 1
      /\ \A k \in 1..Len(pass') : pass'[k] = pass[k + 1]
    BY <1>1
<1>3. tenantChannels(pass[1].tenant) \subseteq Channels
    BY DEF TypeOK, tenantChannels
<1>4. current' = [alert |-> pass[1], todo |-> tenantChannels(pass[1].tenant),
                  attempted |-> FALSE, delivered |-> FALSE]
    BY <1>2 DEF load
<1>5. current' \in Sending
    BY <1>2, <1>3, <1>4 DEF Sending
<1>6. current' # NoAlert
    BY <1>5, DistinctAssumption
<1>7. /\ current'.alert = pass[1] /\ current'.todo = tenantChannels(pass[1].tenant)
      /\ ~current'.delivered
    BY <1>4
<1>8. Len(pass') <= ListLimit
    BY <1>1, <1>2, Bounds
<1> QED BY <1>2, <1>5, <1>6, <1>7, <1>8

LEMMA DropTypes ==
    ASSUME pass \in Seq(Alert), pass # << >>, pass' = Tail(pass)
    PROVE  /\ pass' \in Seq(Alert) /\ Len(pass') = Len(pass) - 1
           /\ \A k \in 1..Len(pass') : pass'[k] = pass[k + 1] /\ k + 1 \in 1..Len(pass)
OBVIOUS

LEMMA TypedInit == Init => Typed
<1> SUFFICES ASSUME Init PROVE Typed
    OBVIOUS
<1>1. Rows
    <2>1. incident = [i \in Incidents |-> Table!NoRow]
        BY DEF Init, Table!Init
    <2>2. Table!NoRow \in IncidentRow /\ Table!NoRow.status = "none"
        BY DEF Table!NoRow, IncidentRow, States
    <2> QED BY <2>1, <2>2 DEF Rows, HasRow
<1>2. sent \in [Incidents \X Channels \X Messages -> Nat]
    BY DEF Init
<1>3. order = << >> /\ pass = << >> /\ current = NoAlert /\ gone = {} /\ excused = {}
      /\ enabled = Channels
    BY DEF Init, Table!Init
<1>4. age \in [Incidents -> Ages] /\ faults \in 0..MaxFaults
    BY Bounds DEF Init, Ages
<1> QED BY <1>1, <1>2, <1>3, <1>4, Bounds DEF Typed, TypeOK, OrderOfRows

LEMMA RowsUntouched ==
    ASSUME Rows, OrderOfRows, UNCHANGED <<incident, order>>
    PROVE  Rows' /\ OrderOfRows'
BY DEF Rows, HasRow, OrderOfRows

LEMMA OpenTypes ==
    ASSUME Typed, NEW m \in Monitors, Open(m)
    PROVE  Typed'
<1>1. PICK i \in Incidents : incident'[i] # incident[i] /\ order' = Append(order, i)
    BY DEF Open
<1>2. PICK new \in Incidents :
        incident[new] = Table!NoRow /\ incident' = [incident EXCEPT ![new] = Table!OpenRow(m)]
    BY DEF Open, Table!Open
<1>3. i = new
    BY <1>1, <1>2 DEF Typed, Rows
<1>4. incident[i].status = "none" /\ incident'[i].status = "open"
    BY <1>2, <1>3 DEF Typed, Rows, Table!NoRow, Table!OpenRow
<1>5. \A j \in Incidents : Moved(j)
    BY OpenMoves DEF Typed, Open
<1>6. incident' \in [Incidents -> IncidentRow]
    BY <1>2, TableRows DEF Typed, Rows
<1>7. Rows'
    BY <1>5, <1>6 DEF Rows, Moved
<1>8. order \in Seq(Incidents)
    BY DEF Typed, TypeOK
<1>9. /\ order' \in Seq(Incidents) /\ Len(order') = Len(order) + 1
      /\ \A p \in 1..Len(order) : order'[p] = order[p] /\ order[p] \in Incidents
      /\ order'[Len(order) + 1] = i
    BY <1>1, <1>8
<1>10. \A p \in 1..Len(order) : order[p] # i
    BY <1>4 DEF Typed, OrderOfRows
<1>11. OrderOfRows'
    <2>1. \A p \in 1..Len(order') : p \in 1..Len(order) \/ p = Len(order) + 1
        BY <1>8, <1>9
    <2>2. \A p, q \in 1..Len(order') : order'[p] = order'[q] => p = q
        BY <1>9, <1>10, <2>1 DEF Typed, OrderOfRows
    <2>3. \A p \in 1..Len(order') : incident'[order'[p]].status # "none"
        BY <1>4, <1>5, <1>9, <2>1 DEF Typed, OrderOfRows, Moved
    <2> QED BY <2>2, <2>3 DEF OrderOfRows
<1>12. UNCHANGED <<gone, age, enabled, pass, current, history>>
    BY DEF Open, Table!Open
<1> QED BY <1>7, <1>9, <1>11, <1>12 DEF Typed, TypeOK, history

LEMMA OtherTypes ==
    ASSUME Typed, NEW m \in Monitors, OtherChange(m)
    PROVE  Typed'
<1>1. Table!Resolve(m) \/ Table!Close(m) \/ Table!Cascade(m)
    BY DEF OtherChange
<1>2. \A i \in Incidents : Moved(i)
    BY <1>1, OtherMoves DEF Typed
<1>3. DOMAIN incident' = Incidents
    BY <1>1 DEF Table!Resolve, Table!Close, Table!Cascade
<1>4. incident' \in [Incidents -> IncidentRow]
    <2>1. incident' = [i \in Incidents |-> incident'[i]]
        BY <1>1 DEF Table!Resolve, Table!Close, Table!Cascade
    <2> QED BY <1>2, <2>1 DEF Moved
<1>5. Rows'
    BY <1>2, <1>4 DEF Rows, Moved
<1>6. gone' \subseteq Monitors
    BY <1>1 DEF Table!Resolve, Table!Close, Table!Cascade, Typed, TypeOK
<1>7. UNCHANGED <<order, age, enabled, pass, current, history>>
    BY DEF OtherChange
<1>8. \A p \in 1..Len(order) : order[p] \in Incidents
    BY DEF Typed, TypeOK
<1>9. OrderOfRows'
    BY <1>2, <1>7, <1>8 DEF Typed, OrderOfRows, Moved
<1> QED BY <1>5, <1>6, <1>7, <1>9 DEF Typed, TypeOK, history

LEMMA FinishTypes ==
    ASSUME Typed, finish
    PROVE  Typed'
<1> DEFINE a == current.alert
<1>1. current \in Sending /\ a \in Alert /\ current' = NoAlert
    BY DEF Typed, TypeOK, finish, Sending
<1>2. a.id \in Incidents /\ message(a) \in Messages
    BY <1>1 DEF Alert, message, Messages
<1>3. UNCHANGED <<gone, order, age, enabled, pass, sent, faults>>
    BY DEF finish
<1>4. excused' \subseteq Incidents \X Messages
    BY <1>2 DEF finish, Typed, TypeOK
<1>5. Rows' /\ OrderOfRows'
    <2>1. CASE incident' = incident
        BY <1>3, <2>1, RowsUntouched DEF Typed
    <2>2. CASE advance(a)
        <3>1. /\ incident' \in [Incidents -> IncidentRow]
              /\ \A i \in Incidents : /\ incident'[i].status = incident[i].status
                                      /\ incident'[i].monitor = incident[i].monitor
            BY <1>1, <2>2, Advances DEF Typed
        <3>2. Rows'
            BY <3>1 DEF Typed, Rows, HasRow
        <3>3. \A p \in 1..Len(order) : order[p] \in Incidents
            BY DEF Typed, TypeOK
        <3>4. OrderOfRows'
            BY <1>3, <3>1, <3>3 DEF Typed, OrderOfRows
        <3> QED BY <3>2, <3>4
    <2> QED BY <2>1, <2>2 DEF finish
<1> QED BY <1>1, <1>3, <1>4, <1>5 DEF Typed, TypeOK

LEMMA TypedStep == Typed /\ [Next]_vars => Typed'
<1> SUFFICES ASSUME Typed, [Next]_vars PROVE Typed'
    OBVIOUS
<1>1. ASSUME NEW m \in Monitors, Open(m) \/ OtherChange(m) PROVE Typed'
    BY <1>1, OpenTypes, OtherTypes
<1>2. ASSUME NEW i \in Incidents, GrowOld(i) PROVE Typed'
    <2>1. UNCHANGED <<incident, gone, order, enabled, pass, current, history>>
        BY <1>2 DEF GrowOld
    <2>2. age' \in [Incidents -> Ages]
        BY <1>2 DEF GrowOld, Typed, TypeOK, Ages
    <2> QED BY <2>1, <2>2, RowsUntouched DEF Typed, TypeOK, history
<1>3. ASSUME NEW c \in Channels, ToggleChannel(c) PROVE Typed'
    <2>1. UNCHANGED <<incident, gone, order, age, pass, current, history>>
        BY <1>3 DEF ToggleChannel, tableVars
    <2>2. enabled' \subseteq Channels
        BY <1>3 DEF ToggleChannel, Typed, TypeOK
    <2> QED BY <2>1, <2>2, RowsUntouched DEF Typed, TypeOK, history
<1>4. CASE list
    <2>1. UNCHANGED <<incident, gone, order, age, enabled, current, history>>
        BY <1>4 DEF list, tableVars
    <2> QED BY <1>4, <2>1, ListReads, RowsUntouched DEF Typed, TypeOK, history
<1>5. CASE load
    <2>1. UNCHANGED <<incident, gone, order, age, enabled, history>>
        BY <1>5 DEF load, tableVars
    <2> QED BY <1>5, <2>1, LoadTypes, RowsUntouched DEF Typed, TypeOK, history
<1>6. CASE finish
    BY <1>6, FinishTypes
<1>7. ASSUME NEW c \in Channels, NEW ok \in BOOLEAN, send(c, ok) PROVE Typed'
    <2>1. UNCHANGED <<incident, gone, order, age, enabled, pass, excused, faults>>
        BY <1>7 DEF send, tableVars
    <2> QED BY <1>7, <2>1, SendTypes, RowsUntouched DEF Typed, TypeOK
<1>8. CASE statementFails
    <2>1. UNCHANGED <<incident, gone, order, age, enabled, sent, excused>>
          /\ faults' = faults + 1 /\ faults < MaxFaults
        BY <1>8 DEF statementFails, tableVars
    <2>2. pass' \in Seq(Alert) /\ Len(pass') <= ListLimit
          /\ current' \in Sending \cup {NoAlert}
        <3>1. CASE pass' = pass /\ current' = NoAlert
            BY <3>1 DEF Typed, TypeOK
        <3>2. CASE pass # << >> /\ pass' = Tail(pass) /\ current' = current
            <4>1. Len(pass) \in Nat /\ Len(pass) <= ListLimit
                BY DEF Typed, TypeOK
            <4>2. pass' \in Seq(Alert) /\ Len(pass') = Len(pass) - 1
                BY <3>2, DropTypes DEF Typed, TypeOK
            <4> QED BY <3>2, <4>1, <4>2, Bounds DEF Typed, TypeOK
        <3> QED BY <1>8, <3>1, <3>2 DEF statementFails
    <2>3. faults' \in 0..MaxFaults
        BY <2>1, Bounds DEF Typed, TypeOK
    <2> QED BY <2>1, <2>2, <2>3, RowsUntouched DEF Typed, TypeOK
<1>9. CASE Restart
    <2>1. UNCHANGED <<incident, gone, order, age, enabled, sent, excused>>
          /\ faults' \in 0..MaxFaults /\ pass' = << >> /\ current' = NoAlert
        BY <1>9, Bounds DEF Restart, tableVars, Typed, TypeOK
    <2>2. << >> \in Seq(Alert) /\ Len(<< >>) <= ListLimit
        BY Bounds
    <2> QED BY <2>1, <2>2, RowsUntouched DEF Typed, TypeOK
<1>10. CASE UNCHANGED vars
    BY <1>10, RowsUntouched DEF vars, Typed, TypeOK
<1> QED BY <1>1, <1>2, <1>3, <1>4, <1>5, <1>6, <1>7, <1>8, <1>9, <1>10 DEF Next, Notify

\* Whatever is opened, resolved, deleted or failing, a pass holds well formed
\* alerts and never more of them than the limit of its list.
THEOREM TypeCorrect == Spec => []TypeOK
<1>1. Typed => TypeOK
    BY DEF Typed
<1> QED BY <1>1, TypedInit, TypedStep, PTL DEF Spec

(***************************************************************************)
(* Who was told.  An incident is only notified once somebody was told it   *)
(* is down, and an alert in hand that finds its incident notified is of a  *)
(* resolved one: so a recovery notice has a down alert before it.          *)
(***************************************************************************)
Sound(a) == a.notify = "notified" => a.resolved /\ Told(a.id, "DOWN")

ToldInv ==
    /\ \A i \in Incidents :
         HasRow(i) /\ incident[i].notify = "notified" => Told(i, "DOWN")
    /\ \A k \in 1..Len(pass) : Sound(pass[k])
    /\ current # NoAlert =>
         /\ Sound(current.alert)
         /\ current.delivered =>
              \E c \in Channels : sent[<<current.alert.id, c, message(current.alert)>>] > 0
    /\ RecoveryFollowsDown

LEMMA ToldInit == Init => ToldInv
<1> SUFFICES ASSUME Init PROVE ToldInv
    OBVIOUS
<1>1. \A i \in Incidents : incident[i].notify = "pending"
    BY DEF Init, Table!Init, Table!NoRow
<1>2. \A i \in Incidents, c \in Channels : sent[<<i, c, "RESOLVED">>] = 0
    BY DEF Init, Messages
<1>3. pass = << >> /\ current = NoAlert
    BY DEF Init
<1> QED BY <1>1, <1>2, <1>3 DEF ToldInv, RecoveryFollowsDown

\* What was told stays told.
LEMMA ToldStays ==
    ASSUME Typed, [Next]_vars, NEW i \in Incidents, NEW msg \in Messages, Told(i, msg)
    PROVE  Told(i, msg)'
<1>1. CASE UNCHANGED sent /\ excused \subseteq excused'
    BY <1>1 DEF Told
<1>2. ASSUME NEW c \in Channels, NEW ok \in BOOLEAN, send(c, ok) PROVE Told(i, msg)'
    <2> DEFINE x == <<current.alert.id, c, message(current.alert)>>
    <2>1. sent' = IF ok THEN [sent EXCEPT ![x] = sent[x] + 1] ELSE sent
        BY <1>2 DEF send
    <2>2. \A d \in Channels : /\ <<i, d, msg>> \in Incidents \X Channels \X Messages
                              /\ sent[<<i, d, msg>>] \in Nat
        BY DEF Typed, TypeOK
    <2>3. \A d \in Channels : sent[<<i, d, msg>>] > 0 => sent'[<<i, d, msg>>] > 0
        BY <2>1, <2>2 DEF Typed, TypeOK
    <2>4. excused' = excused
        BY <1>2 DEF send
    <2> QED BY <2>3, <2>4 DEF Told
<1> QED BY <1>1, <1>2
        DEF Next, vars, history, Notify, Open, OtherChange, GrowOld, ToggleChannel, list, load,
            finish, statementFails, Restart

\* Steps that tell nobody anything and advance nothing.
LEMMA ToldElsewhere ==
    ASSUME Typed, Typed', ToldInv, [Next]_vars, UNCHANGED <<sent, excused>>,
           \A i \in Incidents :
             HasRow(i)' /\ incident'[i].notify = "notified"
               => HasRow(i) /\ incident[i].notify = "notified",
           current' = current \/ current' = NoAlert,
           \A k \in 1..Len(pass') : \/ \E j \in 1..Len(pass) : pass'[k] = pass[j]
                                    \/ Sound(pass'[k])
    PROVE  ToldInv'
<1>1. \A i \in Incidents, msg \in Messages : Told(i, msg) <=> Told(i, msg)'
    BY DEF Told
<1>2. \A a \in Alert : Sound(a) => Sound(a)'
    BY <1>1 DEF Sound, Alert, Messages
<1>3. \A k \in 1..Len(pass') : pass'[k] \in Alert
    BY DEF Typed, TypeOK
<1>4. \A i \in Incidents : HasRow(i)' /\ incident'[i].notify = "notified" => Told(i, "DOWN")'
    BY <1>1 DEF ToldInv, Messages
<1>5. (\A k \in 1..Len(pass) : Sound(pass[k]))'
    <2> SUFFICES ASSUME NEW k \in 1..Len(pass') PROVE Sound(pass[k])'
        OBVIOUS
    <2>1. Sound(pass'[k])
        BY DEF ToldInv
    <2> QED BY <1>1, <1>3, <2>1 DEF Sound, Alert, Messages
<1>6. ASSUME current' # NoAlert
      PROVE  /\ Sound(current.alert)'
             /\ current'.delivered =>
                  \E c \in Channels : sent'[<<current'.alert.id, c, message(current'.alert)>>] > 0
    <2>1. current' = current /\ current \in Sending
        BY <1>6 DEF Typed, TypeOK
    <2>2. current.alert \in Alert /\ Sound(current.alert)
        BY <1>6, <2>1 DEF ToldInv, Sending
    <2> QED BY <1>1, <1>6, <2>1, <2>2 DEF ToldInv, Sound, Alert, Messages
<1>7. RecoveryFollowsDown'
    BY <1>1 DEF ToldInv, RecoveryFollowsDown, Messages
<1> QED BY <1>4, <1>5, <1>6, <1>7 DEF ToldInv

LEMMA ToldLoad ==
    ASSUME Typed, Typed', ToldInv, load
    PROVE  ToldInv'
<1>1. UNCHANGED <<incident, sent, excused>>
    BY DEF load, tableVars, history
<1>2. \A i \in Incidents, msg \in Messages : Told(i, msg) <=> Told(i, msg)'
    BY <1>1 DEF Told
<1>3. /\ current'.alert = pass[1] /\ ~current'.delivered /\ 1 \in 1..Len(pass)
      /\ \A k \in 1..Len(pass') : pass'[k] = pass[k + 1] /\ k + 1 \in 1..Len(pass)
    BY LoadTypes DEF Typed, TypeOK
<1>4. \A k \in 1..Len(pass) : pass[k] \in Alert /\ Sound(pass[k])
    BY DEF Typed, TypeOK, ToldInv
<1>5. (\A k \in 1..Len(pass) : Sound(pass[k]))'
    <2> SUFFICES ASSUME NEW k \in 1..Len(pass') PROVE Sound(pass[k])'
        OBVIOUS
    <2> QED BY <1>2, <1>3, <1>4 DEF Sound, Alert, Messages
<1>6. Sound(current.alert)'
    BY <1>2, <1>3, <1>4 DEF Sound, Alert, Messages
<1>7. \A i \in Incidents : HasRow(i)' /\ incident'[i].notify = "notified" => Told(i, "DOWN")'
    BY <1>1, <1>2 DEF ToldInv, HasRow, Messages
<1>8. RecoveryFollowsDown'
    BY <1>1, <1>2 DEF ToldInv, RecoveryFollowsDown, Messages
<1> QED BY <1>3, <1>5, <1>6, <1>7, <1>8 DEF ToldInv

LEMMA ToldSend ==
    ASSUME Typed, Typed', ToldInv, [Next]_vars,
           NEW c \in Channels, NEW ok \in BOOLEAN, send(c, ok)
    PROVE  ToldInv'
<1> DEFINE a == current.alert
           x == <<a.id, c, message(a)>>
<1>1. UNCHANGED <<incident, pass, excused>>
    BY DEF send, tableVars
<1>2. \A i \in Incidents, msg \in Messages : Told(i, msg) => Told(i, msg)'
    BY ToldStays
<1>3. current # NoAlert /\ current \in Sending /\ a \in Alert /\ a.id \in Incidents
    BY DEF send, Typed, TypeOK, Sending, Alert
<1>4. /\ current'.alert = a /\ current'.delivered = (current.delivered \/ ok)
    BY <1>3 DEF send, Sending
<1>5. sent' = IF ok THEN [sent EXCEPT ![x] = sent[x] + 1] ELSE sent
    BY DEF send
<1>6. message(a) \in Messages /\ x \in Incidents \X Channels \X Messages
    BY <1>3 DEF message, Messages
<1>7. ASSUME NEW i \in Incidents, NEW d \in Channels, NEW msg \in Messages
      PROVE  /\ sent[<<i, d, msg>>] \in Nat
             /\ sent'[<<i, d, msg>>] = IF ok /\ <<i, d, msg>> = x THEN sent[<<i, d, msg>>] + 1
                                       ELSE sent[<<i, d, msg>>]
    <2>1. <<i, d, msg>> \in Incidents \X Channels \X Messages
        OBVIOUS
    <2> QED BY <1>5, <1>6, <2>1 DEF Typed, TypeOK
<1>8. Sound(a) /\ (Sound(a) => Sound(current.alert)')
    BY <1>2, <1>3, <1>4 DEF ToldInv, Sound, Alert, Messages
<1>9. current'.delivered => \E d \in Channels : sent'[<<a.id, d, message(a)>>] > 0
    <2>1. CASE ok
        <3>1. sent'[x] = sent[x] + 1 /\ sent[x] \in Nat
            BY <1>3, <1>6, <1>7, <2>1
        <3> QED BY <3>1
    <2>2. CASE current.delivered
        <3>1. PICK d \in Channels : sent[<<a.id, d, message(a)>>] > 0
            BY <1>3, <2>2 DEF ToldInv
        <3>2. sent'[<<a.id, d, message(a)>>] > 0
            BY <1>3, <1>6, <1>7, <3>1
        <3> QED BY <3>2
    <2> QED BY <1>4, <2>1, <2>2
<1>10. (\A k \in 1..Len(pass) : Sound(pass[k]))'
    <2> SUFFICES ASSUME NEW k \in 1..Len(pass') PROVE Sound(pass[k])'
        OBVIOUS
    <2>1. pass[k] \in Alert /\ Sound(pass[k]) /\ pass'[k] = pass[k]
        BY <1>1 DEF Typed, TypeOK, ToldInv
    <2> QED BY <1>2, <2>1 DEF Sound, Alert, Messages
<1>11. \A i \in Incidents : HasRow(i)' /\ incident'[i].notify = "notified" => Told(i, "DOWN")'
    BY <1>1, <1>2 DEF ToldInv, HasRow, Messages
<1>12. RecoveryFollowsDown'
    <2> SUFFICES ASSUME NEW i \in Incidents, NEW d \in Channels,
                        sent'[<<i, d, "RESOLVED">>] > 0
                 PROVE  Told(i, "DOWN")'
        BY DEF RecoveryFollowsDown
    <2>1. CASE sent[<<i, d, "RESOLVED">>] > 0
        BY <1>2, <2>1 DEF ToldInv, RecoveryFollowsDown, Messages
    <2>2. CASE <<i, d, "RESOLVED">> = x
        <3>1. a.id = i /\ a.notify = "notified"
            BY <2>2 DEF message, recovery
        <3>2. Told(i, "DOWN")
            BY <1>8, <3>1 DEF Sound
        <3> QED BY <1>2, <3>2 DEF Messages
    <2> QED BY <1>7, <2>1, <2>2 DEF Messages
<1> QED BY <1>4, <1>8, <1>9, <1>10, <1>11, <1>12 DEF ToldInv

\* Advancing needs somebody told, or the excuse written down in the same step.
LEMMA FinishTells ==
    ASSUME Typed, ToldInv, finish, ~keptForRetry(current), NEW a \in Alert, a = current.alert
    PROVE  Told(a.id, message(a))'
<1>1. current # NoAlert /\ sent' = sent
    BY DEF finish
<1>2. CASE current.delivered
    BY <1>1, <1>2 DEF ToldInv, Told, message, recovery
<1>3. CASE ~current.delivered
    <2>1. ~current.attempted \/ (~current.delivered /\ retryWindowOver(a))
        BY <1>3 DEF keptForRetry
    <2>2. excused' = excused \cup {<<a.id, message(a)>>}
        BY <2>1 DEF finish
    <2> QED BY <2>2 DEF Told, message, recovery
<1> QED BY <1>2, <1>3

LEMMA ToldFinish ==
    ASSUME Typed, Typed', ToldInv, [Next]_vars, finish
    PROVE  ToldInv'
<1>1. PICK a \in Alert : a = current.alert
    BY DEF Typed, TypeOK, finish, Sending
<1>2. current # NoAlert /\ current' = NoAlert /\ UNCHANGED <<pass, sent>>
    BY DEF finish
<1>3. \A i \in Incidents, msg \in Messages : Told(i, msg) => Told(i, msg)'
    BY ToldStays
<1>4. a.id \in Incidents
    BY DEF Alert
<1>5. ASSUME NEW i \in Incidents, HasRow(i)', incident'[i].notify = "notified"
      PROVE  Told(i, "DOWN")'
    <2>1. CASE HasRow(i) /\ incident[i].notify = "notified"
        BY <1>3, <2>1 DEF ToldInv, Messages
    <2>2. CASE ~(HasRow(i) /\ incident[i].notify = "notified")
        <3>1. incident' # incident
            BY <1>5, <2>2 DEF HasRow
        <3>2. ~keptForRetry(current) /\ advance(a)
            BY <1>1, <3>1 DEF finish
        <3>3. i = a.id /\ nextState(a) = "notified"
            BY <1>5, <2>2, <3>2, Advances DEF Typed, HasRow
        <3>4. message(a) = "DOWN"
            BY <3>3 DEF nextState, message
        <3> QED BY <1>1, <3>2, <3>3, <3>4, FinishTells
    <2> QED BY <2>1, <2>2
<1>6. (\A k \in 1..Len(pass) : Sound(pass[k]))'
    <2> SUFFICES ASSUME NEW k \in 1..Len(pass') PROVE Sound(pass[k])'
        OBVIOUS
    <2>1. pass[k] \in Alert /\ Sound(pass[k]) /\ pass'[k] = pass[k]
        BY <1>2 DEF Typed, TypeOK, ToldInv
    <2> QED BY <1>3, <2>1 DEF Sound, Alert, Messages
<1>7. RecoveryFollowsDown'
    BY <1>2, <1>3 DEF ToldInv, RecoveryFollowsDown, Messages
<1> QED BY <1>2, <1>5, <1>6, <1>7 DEF ToldInv

LEMMA ToldStep ==
    ASSUME Typed, Typed', ToldInv, [Next]_vars
    PROVE  ToldInv'
<1>1. ASSUME NEW m \in Monitors, Open(m) \/ OtherChange(m) PROVE ToldInv'
    <2>1. \A i \in Incidents : Moved(i)
        BY <1>1, OpenMoves, OtherMoves DEF Typed, Open, OtherChange
    <2>2. UNCHANGED <<pass, current, sent, excused>>
        BY <1>1 DEF Open, OtherChange, history
    <2> QED BY <2>1, <2>2, ToldElsewhere DEF Moved
<1>2. CASE list
    <2>1. UNCHANGED <<incident, current, sent, excused>>
        BY <1>2 DEF list, tableVars, history
    <2>2. ASSUME NEW i \in Incidents, owesMessage(i) PROVE Sound(alertFor(i))
        BY <2>2 DEF owesMessage, alertFor, Sound, ToldInv
    <2>3. \A k \in 1..Len(pass') : Sound(pass'[k])
        BY <1>2, <2>2, ListReads
    <2> QED BY <2>1, <2>3, ToldElsewhere DEF HasRow
<1>3. CASE load
    BY <1>3, ToldLoad
<1>4. CASE finish
    BY <1>4, ToldFinish
<1>5. ASSUME NEW c \in Channels, NEW ok \in BOOLEAN, send(c, ok) PROVE ToldInv'
    BY <1>5, ToldSend
<1>6. CASE statementFails \/ Restart
    <2>1. UNCHANGED <<incident, sent, excused>> /\ (current' = current \/ current' = NoAlert)
        BY <1>6 DEF statementFails, Restart, tableVars
    <2>2. \A k \in 1..Len(pass') : \E j \in 1..Len(pass) : pass'[k] = pass[j]
        <3>1. CASE pass' = pass \/ pass' = << >>
            BY <3>1
        <3>2. CASE pass # << >> /\ pass' = Tail(pass)
            BY <3>2, DropTypes DEF Typed, TypeOK
        <3> QED BY <1>6, <3>1, <3>2 DEF statementFails, Restart
    <2> QED BY <2>1, <2>2, ToldElsewhere DEF HasRow
<1>7. CASE \/ \E i \in Incidents : GrowOld(i)
           \/ \E c \in Channels : ToggleChannel(c)
           \/ UNCHANGED vars
    <2>1. UNCHANGED <<incident, pass, current, sent, excused>>
        BY <1>7 DEF GrowOld, ToggleChannel, tableVars, vars, history
    <2> QED BY <2>1, ToldElsewhere DEF HasRow
<1> QED BY <1>1, <1>2, <1>3, <1>4, <1>5, <1>6, <1>7 DEF Next, Notify

LEMMA ToldInvariant == Spec => [](Typed /\ ToldInv)
<1>1. Init => Typed /\ ToldInv
    BY TypedInit, ToldInit
<1>2. Typed /\ ToldInv /\ [Next]_vars => (Typed /\ ToldInv)'
    BY TypedStep, ToldStep
<1> QED BY <1>1, <1>2, PTL DEF Spec

\* Nobody hears of a recovery before somebody was told of the outage, or could
\* not be, wherever the incident's own changes fall between the notifier's steps.
THEOREM DownBeforeRecovery == Spec => []RecoveryFollowsDown
<1>1. ToldInv => RecoveryFollowsDown
    BY DEF ToldInv
<1> QED BY <1>1, ToldInvariant, PTL

NotLost(i) ==
    /\ incident[i].notify = "pending" /\ incident'[i].notify = "notified"
         => Told(i, "DOWN")'
    /\ Resolved(i) /\ incident[i].notify = "notified"
         /\ incident'[i].notify = "recovered_notified"
         => Told(i, "RESOLVED")'

LEMMA NotLostStep ==
    ASSUME Typed, ToldInv, [Next]_vars, NEW i \in Incidents
    PROVE  NotLost(i)
<1> USE DEF NotLost
<1>1. CASE \E m \in Monitors : Open(m) \/ OtherChange(m)
    <2>1. Moved(i)
        BY <1>1, OpenMoves, OtherMoves DEF Typed, Open, OtherChange
    <2> QED BY <2>1 DEF Moved
<1>2. CASE finish
    <2>1. PICK a \in Alert : a = current.alert
        BY <1>2 DEF Typed, TypeOK, finish, Sending
    <2>2. CASE incident'[i] = incident[i]
        BY <2>2
    <2>3. CASE incident'[i] # incident[i]
        <3>1. ~keptForRetry(current) /\ advance(a)
            BY <1>2, <2>1, <2>3 DEF finish
        <3>2. i = a.id
            BY <2>3, <3>1, Advances DEF Typed
        <3>3. incident'[i].notify # incident[i].notify
                => incident[i].notify = a.notify /\ incident'[i].notify = nextState(a)
            BY <3>1, <3>2, Advances DEF Typed
        <3>4. Told(i, message(a))'
            BY <1>2, <2>1, <3>1, <3>2, FinishTells
        <3>5. Sound(a)
            BY <1>2, <2>1 DEF ToldInv, finish
        <3>6. CASE incident[i].notify = "pending" /\ incident'[i].notify = "notified"
            <4>1. message(a) = "DOWN"
                BY <3>3, <3>6 DEF nextState, message
            <4> QED BY <3>4, <3>6, <4>1
        <3>7. CASE incident[i].notify = "notified" /\ incident'[i].notify = "recovered_notified"
            <4>1. message(a) = "RESOLVED"
                BY <3>3, <3>5, <3>7 DEF Sound, message, recovery
            <4> QED BY <3>4, <3>7, <4>1
        <3> QED BY <3>6, <3>7
    <2> QED BY <2>2, <2>3
<1>3. CASE incident' = incident
    BY <1>3
<1> QED BY <1>1, <1>2, <1>3
        DEF Next, Notify, GrowOld, ToggleChannel, list, load, send, statementFails, Restart,
            tableVars, vars

\* "notify_state advances only after the send attempt, so a scheduler restart
\* never loses an alert" (notifier.go:27-28), for any numbers of everything.
THEOREM NoAlertLost == Spec => AlertNeverLost
<1>1. Typed /\ ToldInv /\ [Next]_vars => [\A i \in Incidents : NotLost(i)]_vars
    BY NotLostStep
<1> QED BY <1>1, ToldInvariant, PTL DEF Spec, AlertNeverLost, NotLost

(***************************************************************************)
(* How often.  An incident owes a message as long as its row, or the alert *)
(* of a pass, has it still to come.  A channel that got it once is only    *)
(* owed it again after a fault.                                            *)
(***************************************************************************)
toCome(notify, msg) == notify = "pending" \/ (notify = "notified" /\ msg = "RESOLVED")

SendingOf(i, msg) ==
    current # NoAlert /\ current.alert.id = i /\ message(current.alert) = msg

rowOwes(i, msg) ==
    incident[i].status = "none" \/ (HasRow(i) /\ toCome(incident[i].notify, msg))

passOwes(i, msg) ==
    \E k \in 1..Len(pass) : pass[k].id = i /\ toCome(pass[k].notify, msg)

OwedTo(i, c, msg) ==
    IF SendingOf(i, msg) THEN c \in current.todo \/ ~current.delivered
                         ELSE rowOwes(i, msg) \/ passOwes(i, msg)

Accounted ==
    \A i \in Incidents, c \in Channels, msg \in Messages :
        sent[<<i, c, msg>>] + (IF OwedTo(i, c, msg) THEN 1 ELSE 0) <= 1 + faults

\* An alert in hand is of an incident that has or had a row, whose notification
\* is where the pass found it unless the incident was closed.
Behind(a) ==
    /\ incident[a.id].status # "none"
    /\ HasRow(a.id) => incident[a.id].notify \in {a.notify, "recovered_notified"}

OneReading ==
    /\ \A j, k \in 1..Len(pass) : pass[j].id = pass[k].id => j = k
    /\ current # NoAlert => \A k \in 1..Len(pass) : pass[k].id # current.alert.id

RepeatInv ==
    /\ OneReading
    /\ \A k \in 1..Len(pass) : Behind(pass[k])
    /\ current # NoAlert => Behind(current.alert)
    /\ Accounted

LEMMA RepeatInit == Init => RepeatInv
<1> SUFFICES ASSUME Init PROVE RepeatInv
    OBVIOUS
<1>1. pass = << >> /\ current = NoAlert /\ faults = 0
    BY DEF Init
<1>2. \A i \in Incidents, c \in Channels, msg \in Messages : sent[<<i, c, msg>>] = 0
    BY DEF Init
<1> QED BY <1>1, <1>2 DEF RepeatInv, OneReading, Accounted

LEMMA SentIsNat ==
    ASSUME TypeOK, NEW i \in Incidents, NEW c \in Channels, NEW msg \in Messages
    PROVE  sent[<<i, c, msg>>] \in Nat /\ faults \in Nat
<1>1. <<i, c, msg>> \in Incidents \X Channels \X Messages
    OBVIOUS
<1> QED BY <1>1, Bounds DEF TypeOK

\* A step that sends nothing keeps the accounts, unless it makes a message owed
\* without a fault to pay for it.
LEMMA Kept ==
    ASSUME TypeOK, TypeOK', Accounted, sent' = sent, faults <= faults',
           \A i \in Incidents, c \in Channels, msg \in Messages :
             OwedTo(i, c, msg)' => OwedTo(i, c, msg) \/ faults < faults'
    PROVE  Accounted'
<1> SUFFICES ASSUME NEW i \in Incidents, NEW c \in Channels, NEW msg \in Messages
             PROVE  sent'[<<i, c, msg>>] + (IF OwedTo(i, c, msg)' THEN 1 ELSE 0) <= 1 + faults'
    BY DEF Accounted
<1>1. sent[<<i, c, msg>>] \in Nat /\ faults \in Nat /\ faults' \in Nat
    BY SentIsNat, Bounds DEF TypeOK
<1>2. sent[<<i, c, msg>>] + (IF OwedTo(i, c, msg) THEN 1 ELSE 0) <= 1 + faults
    BY DEF Accounted
<1>3. CASE OwedTo(i, c, msg)'
    BY <1>1, <1>2, <1>3
<1>4. CASE ~OwedTo(i, c, msg)'
    BY <1>1, <1>2, <1>4
<1> QED BY <1>3, <1>4

\* What others do to the rows, while the notifier's hands are still.
LEMMA RepeatMoves ==
    ASSUME Typed, Typed', RepeatInv, UNCHANGED <<pass, current, sent, faults>>,
           \A i \in Incidents : Moved(i)
    PROVE  RepeatInv'
<1>1. \A k \in 1..Len(pass) : pass[k].id \in Incidents
    <2> SUFFICES ASSUME NEW k \in 1..Len(pass) PROVE pass[k].id \in Incidents
        OBVIOUS
    <2>1. pass[k] \in Alert
        BY DEF Typed, TypeOK
    <2> QED BY <2>1 DEF Alert
<1>2. current # NoAlert => current.alert.id \in Incidents
    BY DEF Typed, TypeOK, Sending, Alert
<1>3. ASSUME NEW a, a.id \in Incidents, Behind(a) PROVE Behind(a)'
    BY <1>3 DEF Behind, Moved
<1>4. OneReading' /\ (\A k \in 1..Len(pass) : Behind(pass[k]))'
      /\ (current # NoAlert => Behind(current.alert))'
    BY <1>1, <1>2, <1>3 DEF RepeatInv, OneReading
<1>5. ASSUME NEW i \in Incidents, NEW msg \in Messages, rowOwes(i, msg)'
      PROVE  rowOwes(i, msg)
    BY <1>5 DEF rowOwes, Moved, toCome
<1>6. \A i \in Incidents, c \in Channels, msg \in Messages : OwedTo(i, c, msg)' => OwedTo(i, c, msg)
    BY <1>5 DEF OwedTo, SendingOf, passOwes
<1>7. Accounted'
    BY <1>6, Kept, Bounds DEF RepeatInv, Typed, TypeOK
<1> QED BY <1>4, <1>7 DEF RepeatInv

LEMMA Unmoved ==
    ASSUME Rows, incident' = incident
    PROVE  \A i \in Incidents : Moved(i)
BY DEF Rows, Moved, HasRow, Resolved

LEMMA RepeatList ==
    ASSUME Typed, Typed', RepeatInv, list
    PROVE  RepeatInv'
<1>1. current = NoAlert /\ UNCHANGED <<incident, current, sent, faults>>
    BY DEF list, Idle, tableVars, history
<1>2. \A k \in 1..Len(pass') : \E i \in Incidents : owesMessage(i) /\ pass'[k] = alertFor(i)
    BY ListReads
<1>3. ASSUME NEW i \in Incidents, owesMessage(i)
      PROVE  /\ alertFor(i).id = i /\ alertFor(i).notify = incident[i].notify
             /\ HasRow(i) /\ incident[i].status # "none"
    BY <1>3 DEF owesMessage, alertFor, HasRow
<1>4. OneReading'
    BY <1>1, ListReads DEF OneReading
<1>5. (\A k \in 1..Len(pass) : Behind(pass[k]))'
    <2> SUFFICES ASSUME NEW k \in 1..Len(pass') PROVE Behind(pass[k])'
        OBVIOUS
    <2> QED BY <1>1, <1>2, <1>3 DEF Behind, HasRow
<1>6. ASSUME NEW i \in Incidents, NEW c \in Channels, NEW msg \in Messages, OwedTo(i, c, msg)'
      PROVE  OwedTo(i, c, msg)
    <2>1. passOwes(i, msg)' => rowOwes(i, msg)
        BY <1>2, <1>3 DEF passOwes, rowOwes
    <2>2. rowOwes(i, msg)' => rowOwes(i, msg)
        BY <1>1 DEF rowOwes, HasRow
    <2> QED BY <1>1, <1>6, <2>1, <2>2 DEF OwedTo, SendingOf
<1>7. Accounted'
    BY <1>1, <1>6, Kept, Bounds DEF RepeatInv, Typed, TypeOK
<1> QED BY <1>1, <1>4, <1>5, <1>7 DEF RepeatInv

LEMMA RepeatLoad ==
    ASSUME Typed, Typed', ToldInv, RepeatInv, load
    PROVE  RepeatInv'
<1>1. current = NoAlert /\ UNCHANGED <<incident, sent, faults>>
    BY DEF load, tableVars, history
<1>2. /\ current' # NoAlert /\ current'.alert = pass[1] /\ 1 \in 1..Len(pass)
      /\ Len(pass') = Len(pass) - 1
      /\ \A k \in 1..Len(pass') : pass'[k] = pass[k + 1] /\ k + 1 \in 1..Len(pass) /\ k + 1 # 1
    BY LoadTypes DEF Typed, TypeOK
<1>3. \A a : Behind(a) => Behind(a)'
    BY <1>1 DEF Behind, HasRow
<1>4. (\A k \in 1..Len(pass) : Behind(pass[k]))'
    <2> SUFFICES ASSUME NEW k \in 1..Len(pass') PROVE Behind(pass[k])'
        OBVIOUS
    <2>1. Behind(pass[k + 1]) /\ pass'[k] = pass[k + 1]
        BY <1>2 DEF RepeatInv
    <2> QED BY <1>1, <2>1 DEF Behind, HasRow
<1>5. Behind(current.alert)'
    <2>1. Behind(pass[1]) /\ current'.alert = pass[1]
        BY <1>2 DEF RepeatInv
    <2> QED BY <1>1, <2>1 DEF Behind, HasRow
<1>6. OneReading'
    <2>1. \A j, k \in 1..Len(pass') : pass'[j].id = pass'[k].id => j = k
        <3> SUFFICES ASSUME NEW j \in 1..Len(pass'), NEW k \in 1..Len(pass'),
                            pass'[j].id = pass'[k].id
                     PROVE  j = k
            OBVIOUS
        <3>1. j + 1 = k + 1
            BY <1>2 DEF RepeatInv, OneReading
        <3> QED BY <3>1
    <2>2. \A k \in 1..Len(pass') : pass'[k].id # current'.alert.id
        BY <1>2 DEF RepeatInv, OneReading
    <2> QED BY <2>1, <2>2 DEF OneReading
<1>7. ASSUME NEW i \in Incidents, NEW c \in Channels, NEW msg \in Messages, OwedTo(i, c, msg)'
      PROVE  OwedTo(i, c, msg)
    <2>1. ~SendingOf(i, msg)
        BY <1>1 DEF SendingOf
    <2>2. CASE SendingOf(i, msg)'
        <3>1. pass[1].id = i /\ message(pass[1]) = msg
            BY <1>2, <2>2 DEF SendingOf, message, recovery
        <3>2. pass[1] \in Alert /\ Sound(pass[1])
            BY <1>2 DEF ToldInv, Typed, TypeOK
        <3>3. toCome(pass[1].notify, msg)
            BY <3>1, <3>2 DEF Sound, message, recovery, toCome, Alert
        <3> QED BY <1>2, <2>1, <3>1, <3>3 DEF OwedTo, passOwes
    <2>3. CASE ~SendingOf(i, msg)'
        <3>1. rowOwes(i, msg)' => rowOwes(i, msg)
            BY <1>1 DEF rowOwes, HasRow
        <3>2. passOwes(i, msg)' => passOwes(i, msg)
            BY <1>2 DEF passOwes
        <3> QED BY <1>7, <2>1, <2>3, <3>1, <3>2 DEF OwedTo
    <2> QED BY <2>2, <2>3
<1>8. Accounted'
    BY <1>1, <1>7, Kept, Bounds DEF RepeatInv, Typed, TypeOK
<1> QED BY <1>4, <1>5, <1>6, <1>8 DEF RepeatInv

LEMMA RepeatSend ==
    ASSUME Typed, Typed', RepeatInv, NEW c0 \in Channels, NEW ok \in BOOLEAN, send(c0, ok)
    PROVE  RepeatInv'
<1> DEFINE a == current.alert
           x == <<a.id, c0, message(a)>>
<1>1. /\ current # NoAlert /\ current \in Sending /\ c0 \in current.todo
      /\ UNCHANGED <<incident, pass, faults>>
    BY DEF send, Typed, TypeOK, tableVars
<1>2. /\ current' # NoAlert /\ current'.alert = a /\ current'.todo = current.todo \ {c0}
      /\ current'.delivered = (current.delivered \/ ok)
    <2>1. current' \in Sending
        BY SendTypes DEF Typed
    <2>2. /\ current'.alert = a /\ current'.todo = current.todo \ {c0}
          /\ current'.delivered = (current.delivered \/ ok)
        BY <1>1 DEF send, Sending
    <2> QED BY <2>1, <2>2, DistinctAssumption
<1>3. sent' = IF ok THEN [sent EXCEPT ![x] = sent[x] + 1] ELSE sent
    BY DEF send
<1>4. OneReading' /\ (\A k \in 1..Len(pass) : Behind(pass[k]))' /\ Behind(current.alert)'
    BY <1>1, <1>2 DEF RepeatInv, OneReading, Behind, HasRow
<1>5. ASSUME NEW i \in Incidents, NEW c \in Channels, NEW msg \in Messages
      PROVE  sent'[<<i, c, msg>>] + (IF OwedTo(i, c, msg)' THEN 1 ELSE 0) <= 1 + faults'
    <2>1. /\ sent[<<i, c, msg>>] \in Nat /\ faults \in Nat
          /\ sent[<<i, c, msg>>] + (IF OwedTo(i, c, msg) THEN 1 ELSE 0) <= 1 + faults
        BY SentIsNat DEF RepeatInv, Accounted, Typed
    <2>2. SendingOf(i, msg)' <=> SendingOf(i, msg)
        BY <1>1, <1>2 DEF SendingOf, message, recovery
    <2>3. OwedTo(i, c, msg)' => OwedTo(i, c, msg)
        BY <1>1, <1>2, <2>2 DEF OwedTo, rowOwes, passOwes, HasRow
    <2>4. CASE ok /\ <<i, c, msg>> = x
        <3>1. SendingOf(i, msg) /\ c = c0
            BY <1>1, <2>4 DEF SendingOf
        <3>2. OwedTo(i, c, msg) /\ ~OwedTo(i, c, msg)'
            BY <1>1, <1>2, <2>2, <2>4, <3>1 DEF OwedTo
        <3>3. sent'[<<i, c, msg>>] = sent[<<i, c, msg>>] + 1
            BY <1>3, <2>4 DEF Typed, TypeOK
        <3> QED BY <1>1, <2>1, <3>2, <3>3
    <2>5. CASE ~(ok /\ <<i, c, msg>> = x)
        <3>1. sent'[<<i, c, msg>>] = sent[<<i, c, msg>>]
            BY <1>3, <2>5 DEF Typed, TypeOK
        <3> QED BY <1>1, <2>1, <2>3, <3>1
    <2> QED BY <2>4, <2>5
<1> QED BY <1>4, <1>5 DEF RepeatInv, Accounted

LEMMA RepeatFinish ==
    ASSUME Typed, Typed', ToldInv, RepeatInv, finish
    PROVE  RepeatInv'
<1>1. PICK a \in Alert : a = current.alert
    BY DEF Typed, TypeOK, finish, Sending
<1>2. /\ current # NoAlert /\ current.todo = {} /\ current' = NoAlert
      /\ UNCHANGED <<pass, sent, faults>>
    BY DEF finish
<1>3. a.id \in Incidents /\ a.notify \in {"pending", "notified"}
    BY DEF Alert
<1>4. incident' # incident => advance(a)
    BY <1>1 DEF finish
<1>5. \A i \in Incidents : i # a.id => incident'[i] = incident[i]
    BY <1>4, Advances DEF Typed
<1>6. incident'[a.id].status = incident[a.id].status
    BY <1>4, Advances DEF Typed
<1>7. \/ incident'[a.id].notify = incident[a.id].notify
      \/ incident[a.id].notify = a.notify /\ incident'[a.id].notify = nextState(a)
    BY <1>4, Advances DEF Typed
<1>8. \A k \in 1..Len(pass) : pass[k].id # a.id /\ pass[k].id \in Incidents
    <2> SUFFICES ASSUME NEW k \in 1..Len(pass)
                 PROVE  pass[k].id # a.id /\ pass[k].id \in Incidents
        OBVIOUS
    <2>1. pass[k] \in Alert
        BY DEF Typed, TypeOK
    <2> QED BY <1>1, <1>2, <2>1 DEF Alert, RepeatInv, OneReading
<1>9. OneReading' /\ (\A k \in 1..Len(pass) : Behind(pass[k]))'
    BY <1>2, <1>5, <1>8 DEF RepeatInv, OneReading, Behind, HasRow
<1>10. ASSUME NEW i \in Incidents, NEW c \in Channels, NEW msg \in Messages, OwedTo(i, c, msg)'
       PROVE  OwedTo(i, c, msg)
    <2>1. rowOwes(i, msg)' \/ passOwes(i, msg)
        BY <1>2, <1>10 DEF OwedTo, SendingOf, passOwes
    <2>2. CASE i # a.id
        BY <1>1, <1>5, <2>1, <2>2 DEF OwedTo, SendingOf, rowOwes, HasRow
    <2>3. CASE i = a.id
        <3>1. rowOwes(i, msg)'
            BY <1>8, <2>1, <2>3 DEF passOwes
        <3>2. Behind(a)
            BY <1>1, <1>2 DEF RepeatInv
        <3>3. HasRow(i) /\ toCome(incident'[i].notify, msg)
            BY <1>6, <2>3, <3>1, <3>2 DEF rowOwes, Behind, HasRow
        <3>4. incident[i].notify \in {a.notify, "recovered_notified"}
            BY <2>3, <3>2, <3>3 DEF Behind
        <3>5. CASE msg = message(a) /\ ~current.delivered
            BY <1>1, <1>2, <2>3, <3>5 DEF OwedTo, SendingOf
        <3>6. CASE msg = message(a) /\ current.delivered
            <4>1. advance(a)
                BY <1>1, <3>6 DEF finish, keptForRetry
            <4>2. incident'[i].notify = IF incident[i].notify = a.notify
                                        THEN nextState(a) ELSE incident[i].notify
                BY <2>3, <3>3, <4>1, Advances DEF Typed
            <4>3. incident'[i].notify = nextState(a) \/ incident'[i].notify = "recovered_notified"
                BY <3>4, <4>2
            <4>4. message(a) = "DOWN" /\ nextState(a) = "notified"
                BY <3>3, <4>3 DEF toCome, nextState, message
            <4> QED BY <3>3, <3>6, <4>3, <4>4 DEF toCome
        <3>7. CASE msg # message(a)
            <4>1. ~SendingOf(i, msg)
                BY <1>1, <3>7 DEF SendingOf, message, recovery
            <4>2. toCome(incident[i].notify, msg)
                BY <1>3, <1>7, <2>3, <3>3 DEF toCome, nextState, recovery
            <4> QED BY <3>3, <4>1, <4>2 DEF OwedTo, rowOwes
        <3> QED BY <3>5, <3>6, <3>7
    <2> QED BY <2>2, <2>3
<1>11. Accounted'
    BY <1>2, <1>10, Kept, Bounds DEF RepeatInv, Typed, TypeOK
<1> QED BY <1>2, <1>9, <1>11 DEF RepeatInv

\* A fault forgets alerts and pays for the repeat that follows.
LEMMA RepeatFault ==
    ASSUME Typed, Typed', RepeatInv, statementFails \/ Restart
    PROVE  RepeatInv'
<1>1. UNCHANGED <<incident, sent>> /\ faults' = faults + 1 /\ current' = NoAlert
    BY DEF statementFails, Restart, tableVars
<1>2. \/ pass' = << >>
      \/ pass' = pass
      \/ Len(pass') = Len(pass) - 1 /\ \A k \in 1..Len(pass') : pass'[k] = pass[k + 1]
    BY DropTypes DEF statementFails, Restart, Typed, TypeOK
<1>3. PICK n \in 0..1 : \A k \in 1..Len(pass') : k + n \in 1..Len(pass) /\ pass'[k] = pass[k + n]
    <2>1. CASE pass' = << >> \/ pass' = pass
        <3>1. \A k \in 1..Len(pass') : k + 0 \in 1..Len(pass) /\ pass'[k] = pass[k + 0]
            BY <2>1
        <3> QED BY <3>1
    <2>2. CASE Len(pass') = Len(pass) - 1 /\ \A k \in 1..Len(pass') : pass'[k] = pass[k + 1]
        <3>1. Len(pass) \in Nat
            BY DEF Typed, TypeOK
        <3>2. \A k \in 1..Len(pass') : k + 1 \in 1..Len(pass) /\ pass'[k] = pass[k + 1]
            BY <2>2, <3>1
        <3> QED BY <3>2
    <2> QED BY <1>2, <2>1, <2>2
<1>4. OneReading'
    <2>1. ASSUME NEW j \in 1..Len(pass'), NEW k \in 1..Len(pass'), pass'[j].id = pass'[k].id
          PROVE  j = k
        <3>1. j + n = k + n
            BY <1>3, <2>1 DEF RepeatInv, OneReading
        <3> QED BY <3>1
    <2> QED BY <1>1, <2>1 DEF OneReading
<1>5. (\A k \in 1..Len(pass) : Behind(pass[k]))'
    <2> SUFFICES ASSUME NEW k \in 1..Len(pass') PROVE Behind(pass[k])'
        OBVIOUS
    <2>1. Behind(pass[k + n]) /\ pass'[k] = pass[k + n]
        BY <1>3 DEF RepeatInv
    <2> QED BY <1>1, <2>1 DEF Behind, HasRow
<1>6. faults < faults' /\ faults <= faults'
    BY <1>1, Bounds DEF Typed, TypeOK
<1>7. Accounted'
    BY <1>1, <1>6, Kept DEF RepeatInv, Typed
<1> QED BY <1>1, <1>4, <1>5, <1>7 DEF RepeatInv

LEMMA RepeatStep ==
    ASSUME Typed, Typed', ToldInv, RepeatInv, [Next]_vars
    PROVE  RepeatInv'
<1>1. ASSUME NEW m \in Monitors, Open(m) \/ OtherChange(m) PROVE RepeatInv'
    <2>1. \A i \in Incidents : Moved(i)
        BY <1>1, OpenMoves, OtherMoves DEF Typed, Open, OtherChange
    <2>2. UNCHANGED <<pass, current, sent, faults>>
        BY <1>1 DEF Open, OtherChange, history
    <2> QED BY <2>1, <2>2, RepeatMoves
<1>2. CASE \/ \E i \in Incidents : GrowOld(i)
           \/ \E c \in Channels : ToggleChannel(c)
           \/ UNCHANGED vars
    <2>1. UNCHANGED <<incident, pass, current, sent, faults>>
        BY <1>2 DEF GrowOld, ToggleChannel, tableVars, vars, history
    <2> QED BY <2>1, Unmoved, RepeatMoves DEF Typed
<1>3. CASE list
    BY <1>3, RepeatList
<1>4. CASE load
    BY <1>4, RepeatLoad
<1>5. ASSUME NEW c \in Channels, NEW ok \in BOOLEAN, send(c, ok) PROVE RepeatInv'
    BY <1>5, RepeatSend
<1>6. CASE finish
    BY <1>6, RepeatFinish
<1>7. CASE statementFails \/ Restart
    BY <1>7, RepeatFault
<1> QED BY <1>1, <1>2, <1>3, <1>4, <1>5, <1>6, <1>7 DEF Next, Notify

LEMMA RepeatInvariant == Spec => [](Typed /\ ToldInv /\ RepeatInv)
<1>1. Init => RepeatInv
    BY RepeatInit
<1>2. Typed /\ Typed' /\ ToldInv /\ RepeatInv /\ [Next]_vars => RepeatInv'
    BY RepeatStep
<1> QED BY <1>1, <1>2, ToldInvariant, PTL DEF Spec

\* A channel gets a message a second time only when a restart or a failed
\* statement came between the send and the advance: with no fault, at most once,
\* and with n of them at most n + 1 times.
THEOREM RepeatsNeedFaults == Spec => []RepeatedOnlyAfterFault
<1>1. Typed /\ RepeatInv => RepeatedOnlyAfterFault
    <2> SUFFICES ASSUME Typed, RepeatInv, NEW i \in Incidents, NEW c \in Channels,
                        NEW msg \in Messages
                 PROVE  sent[<<i, c, msg>>] <= 1 + faults
        BY DEF RepeatedOnlyAfterFault
    <2>1. sent[<<i, c, msg>>] \in Nat /\ faults \in Nat
        BY SentIsNat DEF Typed
    <2>2. sent[<<i, c, msg>>] + (IF OwedTo(i, c, msg) THEN 1 ELSE 0) <= 1 + faults
        BY DEF RepeatInv, Accounted
    <2> QED BY <2>1, <2>2
<1> QED BY <1>1, RepeatInvariant, PTL

(***************************************************************************)
(* What the notifier does to the table.  A resolved incident stays so as   *)
(* long as its row lasts, so the recovery notice of an alert in hand is    *)
(* still one of a resolved incident when its UPDATE runs.                  *)
(***************************************************************************)
StaysResolved(a) == a.resolved /\ HasRow(a.id) => Resolved(a.id)

ReadingsLast ==
    /\ \A k \in 1..Len(pass) : StaysResolved(pass[k])
    /\ current # NoAlert => StaysResolved(current.alert)

LEMMA IdsOfAlerts ==
    ASSUME TypeOK
    PROVE  /\ \A k \in 1..Len(pass) : pass[k].id \in Incidents
           /\ current # NoAlert => current.alert.id \in Incidents
<1>1. ASSUME NEW k \in 1..Len(pass) PROVE pass[k].id \in Incidents
    <2>1. pass[k] \in Alert
        BY DEF TypeOK
    <2> QED BY <2>1 DEF Alert
<1>2. current # NoAlert => current.alert.id \in Incidents
    BY DEF TypeOK, Sending, Alert
<1> QED BY <1>1, <1>2

\* Whoever changes the rows leaves the readings true, and so does whoever only
\* drops readings.
LEMMA ReadingsKept ==
    ASSUME TypeOK, ReadingsLast,
           \A i \in Incidents : Resolved(i) => ~HasRow(i)' \/ incident'[i].status = "resolved",
           \A i \in Incidents : incident[i].status # "none" /\ ~HasRow(i) => ~HasRow(i)',
           \A k \in 1..Len(pass) : incident[pass[k].id].status # "none",
           current # NoAlert => incident[current.alert.id].status # "none",
           \A k \in 1..Len(pass') : \E j \in 1..Len(pass) : pass'[k] = pass[j],
           \/ current' = NoAlert
           \/ current # NoAlert /\ current'.alert = current.alert
           \/ \E j \in 1..Len(pass) : current'.alert = pass[j]
    PROVE  ReadingsLast'
<1>1. ASSUME NEW a, a.id \in Incidents, incident[a.id].status # "none", StaysResolved(a)
      PROVE  a.resolved /\ HasRow(a.id)' => incident'[a.id].status = "resolved"
    BY <1>1 DEF StaysResolved
<1>2. ASSUME NEW k \in 1..Len(pass') PROVE StaysResolved(pass[k])'
    <2>1. PICK j \in 1..Len(pass) : pass'[k] = pass[j]
        OBVIOUS
    <2> QED BY <1>1, <2>1, IdsOfAlerts DEF ReadingsLast, StaysResolved, HasRow, Resolved
<1>3. ASSUME current' # NoAlert PROVE StaysResolved(current.alert)'
    <2>1. CASE current # NoAlert /\ current'.alert = current.alert
        BY <1>1, <2>1, IdsOfAlerts DEF ReadingsLast, StaysResolved, HasRow, Resolved
    <2>2. CASE \E j \in 1..Len(pass) : current'.alert = pass[j]
        BY <1>1, <2>2, IdsOfAlerts DEF ReadingsLast, StaysResolved, HasRow, Resolved
    <2> QED BY <1>3, <2>1, <2>2
<1> QED BY <1>2, <1>3 DEF ReadingsLast

LEMMA ReadingsStep ==
    ASSUME Typed, Typed', RepeatInv, ReadingsLast, [Next]_vars
    PROVE  ReadingsLast'
<1>1. /\ \A k \in 1..Len(pass) : incident[pass[k].id].status # "none"
      /\ current # NoAlert => incident[current.alert.id].status # "none"
    BY DEF RepeatInv, Behind
<1>2. CASE \E m \in Monitors : Open(m) \/ OtherChange(m)
    <2>1. \A i \in Incidents : Moved(i)
        BY <1>2, OpenMoves, OtherMoves DEF Typed, Open, OtherChange
    <2>2. UNCHANGED <<pass, current>>
        BY <1>2 DEF Open, OtherChange
    <2>3. \A i \in Incidents : incident[i].status # "none" /\ ~HasRow(i) => ~HasRow(i)'
        BY <2>1 DEF Moved
    <2>4. \A i \in Incidents : Resolved(i) => ~HasRow(i)' \/ incident'[i].status = "resolved"
        BY <2>1 DEF Moved
    <2> QED BY <1>1, <2>2, <2>3, <2>4, ReadingsKept DEF Typed
<1>3. CASE list
    <2>1. current' = NoAlert /\ UNCHANGED incident
        BY <1>3 DEF list, Idle, tableVars
    <2>2. ASSUME NEW k \in 1..Len(pass') PROVE StaysResolved(pass[k])'
        <3>1. PICK i \in Incidents : owesMessage(i) /\ pass'[k] = alertFor(i)
            BY <1>3, ListReads
        <3>2. alertFor(i).id = i /\ alertFor(i).resolved = Resolved(i)
            BY DEF alertFor
        <3>3. pass'[k].id = i /\ pass'[k].resolved = (incident[i].status = "resolved")
            BY <3>1, <3>2, Zenon DEF Resolved
        <3> QED BY <2>1, <3>3 DEF StaysResolved, Resolved
    <2> QED BY <2>1, <2>2 DEF ReadingsLast
<1>4. CASE finish
    <2>1. PICK a \in Alert : a = current.alert
        BY <1>4 DEF Typed, TypeOK, finish, Sending
    <2>2. incident' = incident \/ advance(a)
        BY <1>4, <2>1 DEF finish
    <2>3. \A i \in Incidents : incident'[i].status = incident[i].status
        BY <2>2, Advances DEF Typed
    <2>4. current' = NoAlert /\ pass' = pass
        BY <1>4 DEF finish
    <2> QED BY <1>1, <2>3, <2>4, ReadingsKept DEF Typed, HasRow, Resolved
<1>5. ASSUME incident' = incident,
             \A k \in 1..Len(pass') : \E j \in 1..Len(pass) : pass'[k] = pass[j],
             \/ current' = NoAlert
             \/ current # NoAlert /\ current'.alert = current.alert
             \/ \E j \in 1..Len(pass) : current'.alert = pass[j]
      PROVE  ReadingsLast'
    <2>1. /\ \A i \in Incidents : Resolved(i) => incident'[i].status = "resolved"
          /\ \A i \in Incidents : ~HasRow(i) => ~HasRow(i)'
        BY <1>5 DEF Resolved, HasRow
    <2> QED BY <1>1, <1>5, <2>1, ReadingsKept DEF Typed
<1>6. CASE load
    <2>1. /\ current'.alert = pass[1] /\ 1 \in 1..Len(pass)
          /\ \A k \in 1..Len(pass') : pass'[k] = pass[k + 1] /\ k + 1 \in 1..Len(pass)
        BY <1>6, LoadTypes DEF Typed, TypeOK
    <2>2. incident' = incident
        BY <1>6 DEF load, tableVars
    <2> QED BY <1>5, <2>1, <2>2
<1>7. ASSUME NEW c \in Channels, NEW ok \in BOOLEAN, send(c, ok) PROVE ReadingsLast'
    <2>1. current # NoAlert /\ current'.alert = current.alert
        BY <1>7 DEF send, Typed, TypeOK, Sending
    <2>2. UNCHANGED <<incident, pass>>
        BY <1>7 DEF send, tableVars
    <2> QED BY <1>5, <2>1, <2>2
<1>8. CASE statementFails \/ Restart
    <2>1. incident' = incident /\ current' = NoAlert
        BY <1>8 DEF statementFails, Restart, tableVars
    <2>2. \A k \in 1..Len(pass') : \E j \in 1..Len(pass) : pass'[k] = pass[j]
        <3>1. CASE pass' = pass \/ pass' = << >>
            BY <3>1
        <3>2. CASE pass # << >> /\ pass' = Tail(pass)
            BY <3>2, DropTypes DEF Typed, TypeOK
        <3> QED BY <1>8, <3>1, <3>2 DEF statementFails, Restart
    <2> QED BY <1>5, <2>1, <2>2
<1>9. CASE \/ \E i \in Incidents : GrowOld(i)
           \/ \E c \in Channels : ToggleChannel(c)
           \/ UNCHANGED vars
    <2>1. UNCHANGED <<incident, pass, current>>
        BY <1>9 DEF GrowOld, ToggleChannel, tableVars, vars
    <2> QED BY <1>5, <2>1
<1> QED BY <1>2, <1>3, <1>4, <1>6, <1>7, <1>8, <1>9 DEF Next, Notify

LEMMA ReadingsInvariant == Spec => [](Typed /\ ToldInv /\ ReadingsLast)
<1>1. Init => ReadingsLast
    BY DEF Init, ReadingsLast
<1>2. Typed /\ Typed' /\ RepeatInv /\ ReadingsLast /\ [Next]_vars => ReadingsLast'
    BY ReadingsStep
<1> QED BY <1>1, <1>2, RepeatInvariant, PTL DEF Spec

LEMMA ImplementStep ==
    Typed /\ ToldInv /\ ReadingsLast /\ [Next]_vars => [Table!Next]_(Table!vars)
<1> SUFFICES ASSUME Typed, ToldInv, ReadingsLast, [Next]_vars
             PROVE  [Table!Next]_(Table!vars)
    OBVIOUS
<1>1. CASE \E m \in Monitors : Open(m) \/ OtherChange(m)
    BY <1>1 DEF Open, OtherChange, Table!Next
<1>2. CASE UNCHANGED <<incident, gone>>
    BY <1>2 DEF Table!vars
<1>3. CASE finish /\ ~UNCHANGED incident
    <2>1. PICK a \in Alert : a = current.alert
        BY <1>3 DEF Typed, TypeOK, finish, Sending
    <2>2. a.id \in Incidents /\ incident[a.id] \in IncidentRow
        BY DEF Alert, Typed, Rows
    <2>3. advance(a) /\ UNCHANGED gone
        BY <1>3, <2>1 DEF finish
    <2>4. HasRow(a.id) /\ incident[a.id].notify = a.notify
        BY <1>3, <2>2, <2>3 DEF advance, Typed, Rows, IncidentRow
    <2>5. incident' = [incident EXCEPT ![a.id].notify = nextState(a)]
        BY <2>3, <2>4 DEF advance
    <2>6. CASE a.notify = "pending"
        <3>1. Table!NotifyDown(a.id)
            BY <2>3, <2>4, <2>5, <2>6 DEF Table!NotifyDown, nextState, recovery, HasRow
        <3> QED BY <2>2, <3>1 DEF Table!Next
    <2>7. CASE a.notify = "notified"
        <3>1. Resolved(a.id)
            BY <1>3, <2>1, <2>4, <2>7 DEF ToldInv, ReadingsLast, Sound, StaysResolved, finish
        <3>2. Table!NotifyRecovery(a.id)
            BY <2>3, <2>4, <2>5, <2>7, <3>1
               DEF Table!NotifyRecovery, nextState, recovery, Resolved
        <3> QED BY <2>2, <3>2 DEF Table!Next
    <2> QED BY <2>6, <2>7 DEF Alert
<1> QED BY <1>1, <1>2, <1>3
        DEF Next, Notify, GrowOld, ToggleChannel, list, load, send, finish, statementFails,
            Restart, tableVars, vars

\* The notifier, with everyone who writes the incidents meanwhile, changes them
\* only in the ways the abstract incident table allows: its two UPDATEs are the
\* table's NotifyDown and NotifyRecovery, however stale the alert they act on.
THEOREM Implementation == Spec => ImplementsIncidentTable
<1>1. Init => Table!Init
    BY DEF Init
<1> QED BY <1>1, ImplementStep, ReadingsInvariant, PTL
        DEF Spec, ImplementsIncidentTable, Table!Spec
=============================================================================
