----------------------------- MODULE CertProofs -----------------------------
(***************************************************************************)
(* What the certificate warnings guarantee for any numbers of monitors,    *)
(* channels, expiries and faults, and for any two rungs.                   *)
(***************************************************************************)
EXTENDS CertLadder, FiniteSetTheorems, TLAPS

LEMMA RungFacts ==
    /\ certWarnDays \in Nat \ {0} /\ certUrgentDays \in Nat \ {0}
    /\ certUrgentDays < certWarnDays
    /\ MaxFaults \in Nat /\ MaxRecorded \in Nat /\ Horizon \in Nat /\ ListLimit \in Nat \ {0}
    /\ Expiries \subseteq Nat /\ IsFiniteSet(Monitors)
BY CertAssumption

(***************************************************************************)
(* Types                                                                   *)
(***************************************************************************)
Typed == TypeOK /\ IsFiniteSet(due)

reading(m) == [id |-> m, expires |-> monitor[m].expires, warned |-> monitor[m].warned]

LEMMA ReadingType ==
    ASSUME TypeOK, NEW m \in Monitors, Expiring(m)
    PROVE  reading(m) \in ExpiringCert
BY DistinctAssumption DEF TypeOK, Expiring, HasRow, reading, ExpiringCert, Row

LEMMA ListTypes ==
    ASSUME Typed, list
    PROVE  due' \subseteq ExpiringCert /\ IsFiniteSet(due') /\ Cardinality(due') <= ListLimit
<1> DEFINE expiring == {m \in Monitors : Expiring(m)}
<1>1. PICK s \in EarliestOf(expiring, ListLimit) : due' = {reading(m) : m \in s}
    BY DEF list, reading
<1>2. IsFiniteSet(expiring) /\ Cardinality(expiring) \in Nat
    BY RungFacts, FS_Subset, FS_CardinalityType
<1>3. s \subseteq expiring /\ IsFiniteSet(s) /\ Cardinality(s) <= ListLimit
    BY <1>2, FS_Subset, RungFacts DEF EarliestOf
<1>4. due' \subseteq ExpiringCert
    BY <1>1, <1>3, ReadingType DEF Typed
<1>5. IsFiniteSet(due') /\ Cardinality(due') <= Cardinality(s)
    <2> DEFINE f == [m \in s |-> reading(m)]
    <2>1. f \in Surjection(s, due')
        BY <1>1 DEF Surjection
    <2> QED BY <1>3, <2>1, FS_Surjection
<1> QED BY <1>3, <1>4, <1>5, FS_CardinalityType, RungFacts

LEMMA DecideTypes ==
    ASSUME Typed, NEW c \in due, decide(c)
    PROVE  /\ due' \subseteq ExpiringCert /\ IsFiniteSet(due') /\ Cardinality(due') <= ListLimit
           /\ current' \in Warning \cup {NoWarning}
<1>1. due' = due \ {c}
    BY DEF decide
<1>2. IsFiniteSet(due') /\ Cardinality(due') = Cardinality(due) - 1
    BY <1>1, FS_RemoveElement DEF Typed
<1>3. c \in ExpiringCert /\ Cardinality(due) \in Nat
    BY FS_CardinalityType DEF Typed, TypeOK
<1>4. current' \in Warning \cup {NoWarning}
    BY <1>3 DEF decide, certRung, Warning, Rungs
<1> QED BY <1>1, <1>2, <1>3, <1>4, RungFacts DEF Typed, TypeOK

LEMMA SendTypes ==
    ASSUME TypeOK, NEW c \in Channels, NEW ok \in BOOLEAN, send(c, ok)
    PROVE  /\ current' \in Warning
           /\ sent' \in [Monitors \X Expiries \X Channels \X Rungs -> Nat]
<1>1. current \in Warning
    BY DEF TypeOK, send
<1>2. current' \in Warning
    BY <1>1 DEF send, Warning
<1>3. /\ current.cert.id \in Monitors /\ current.cert.expires \in Expiries
      /\ current.rung \in Rungs
    BY <1>1 DEF Warning, ExpiringCert
<1> DEFINE x == <<current.cert.id, current.cert.expires, c, current.rung>>
<1>4. x \in Monitors \X Expiries \X Channels \X Rungs
    BY <1>3
<1>5. sent' = IF ok THEN [sent EXCEPT ![x] = sent[x] + 1] ELSE sent
    BY DEF send
<1>6. sent' \in [Monitors \X Expiries \X Channels \X Rungs -> Nat]
    BY <1>4, <1>5 DEF TypeOK
<1> QED BY <1>2, <1>6

LEMMA TypedInit == Init => Typed
<1> SUFFICES ASSUME Init PROVE Typed
    OBVIOUS
<1>1. due = {} /\ Cardinality(due) = 0 /\ IsFiniteSet(due)
    BY FS_EmptySet DEF Init
<1>2. \A m \in Monitors : [enabled |-> TRUE, expires |-> NoCert, warned |-> 0] \in Row
    BY DEF Row
<1>3. monitor \in [Monitors -> Row \cup {NoRow}]
    BY <1>2 DEF Init
<1>4. sent \in [Monitors \X Expiries \X Channels \X Rungs -> Nat]
    BY DEF Init
<1>5. renewals \in [Monitors -> Nat] /\ warnedOf \in [Monitors -> Expiries \cup {NoCert}]
      /\ today \in 0..Horizon /\ recorded \in 0..MaxRecorded
      /\ faults \in 0..MaxFaults
    BY RungFacts DEF Init
<1>6. current = NoWarning /\ 0 <= ListLimit
    BY RungFacts DEF Init
<1> QED BY <1>1, <1>3, <1>4, <1>5, <1>6 DEF Typed, TypeOK

LEMMA RecordTypes ==
    ASSUME TypeOK, NEW m \in Monitors, NEW e \in Expiries, RecordCert(m, e)
    PROVE  /\ monitor[m] \in Row
           /\ monitor' \in [Monitors -> Row \cup {NoRow}]
           /\ renewals' \in [Monitors -> Nat]
           /\ recorded' \in 0..MaxRecorded
<1> DEFINE renewed == monitor[m].expires = NoCert \/ e > monitor[m].expires
           w == IF renewed THEN 0 ELSE monitor[m].warned
<1>1. monitor[m] \in Row
    BY DEF TypeOK, RecordCert, HasRow
<1>2. [monitor[m] EXCEPT !.expires = e, !.warned = w] \in Row
    BY <1>1 DEF Row
<1>3. monitor' = [monitor EXCEPT ![m] = [monitor[m] EXCEPT !.expires = e, !.warned = w]]
    BY <1>1 DEF RecordCert
<1>4. renewals' = [renewals EXCEPT ![m] = IF renewed THEN @ + 1 ELSE @]
    BY DEF RecordCert
<1>5. monitor' \in [Monitors -> Row \cup {NoRow}]
    BY <1>2, <1>3 DEF TypeOK
<1>6. renewals' \in [Monitors -> Nat]
    BY <1>4 DEF TypeOK
<1>7. recorded' \in 0..MaxRecorded
    BY RungFacts DEF RecordCert, TypeOK
<1> QED BY <1>1, <1>5, <1>6, <1>7

LEMMA FinishTypes ==
    ASSUME TypeOK, finish
    PROVE  /\ monitor' \in [Monitors -> Row \cup {NoRow}]
           /\ warnedOf' \in [Monitors -> Expiries \cup {NoCert}]
<1> DEFINE m == current.cert.id
<1>1. m \in Monitors /\ current.rung \in Rungs
    BY DEF finish, TypeOK, Warning, ExpiringCert
<1>2. CASE nothingDelivered(current) \/ ~HasRow(m)
    BY <1>2 DEF finish, TypeOK
<1>3. CASE ~(nothingDelivered(current) \/ ~HasRow(m))
    <2>1. monitor[m] \in Row
        BY <1>1, <1>3 DEF TypeOK, HasRow
    <2>2. [monitor[m] EXCEPT !.warned = current.rung] \in Row
        BY <1>1, <2>1 DEF Row
    <2>3. monitor' = [monitor EXCEPT ![m] = [monitor[m] EXCEPT !.warned = current.rung]]
        BY <1>3 DEF finish
    <2>4. warnedOf' = [warnedOf EXCEPT ![m] = current.cert.expires]
          /\ current.cert.expires \in Expiries
        BY <1>3 DEF finish, TypeOK, Warning, ExpiringCert
    <2> QED BY <2>2, <2>3, <2>4 DEF TypeOK
<1> QED BY <1>2, <1>3

LEMMA TypedStep == Typed /\ [Next]_vars => Typed'
<1> SUFFICES ASSUME Typed, [Next]_vars PROVE Typed'
    OBVIOUS
<1> USE DEF Typed
<1>1. CASE NextDay
    BY <1>1, RungFacts DEF NextDay, TypeOK, history
<1>2. ASSUME NEW m \in Monitors, NEW e \in Expiries, RecordCert(m, e) PROVE Typed'
    <2>1. UNCHANGED <<today, due, current, sent, warnedOf, faults>>
        BY <1>2 DEF RecordCert
    <2> QED BY <1>2, <2>1, RecordTypes DEF TypeOK
<1>3. ASSUME NEW m \in Monitors, PauseOrResume(m) \/ DeleteMonitor(m) PROVE Typed'
    <2>1. HasRow(m) /\ UNCHANGED <<today, due, current, history>>
        BY <1>3 DEF PauseOrResume, DeleteMonitor
    <2>2. [monitor[m] EXCEPT !.enabled = ~@] \in Row
        BY <2>1 DEF TypeOK, HasRow, Row
    <2>3. monitor' \in [Monitors -> Row \cup {NoRow}]
        BY <1>3, <2>2 DEF PauseOrResume, DeleteMonitor, TypeOK
    <2> QED BY <2>1, <2>3 DEF TypeOK, history
<1>4. CASE list
    <2>1. UNCHANGED <<today, monitor, current, history>>
        BY <1>4 DEF list
    <2> QED BY <1>4, <2>1, ListTypes DEF TypeOK, history
<1>5. ASSUME NEW c \in due, decide(c) PROVE Typed'
    <2>1. UNCHANGED <<today, monitor, history>>
        BY <1>5 DEF decide
    <2> QED BY <1>5, <2>1, DecideTypes DEF TypeOK, history
<1>6. ASSUME NEW c \in Channels, NEW ok \in BOOLEAN, send(c, ok) PROVE Typed'
    <2>1. UNCHANGED <<today, monitor, due, warnedOf, renewals, recorded, faults>>
        BY <1>6 DEF send
    <2> QED BY <1>6, <2>1, SendTypes DEF TypeOK
<1>7. CASE finish
    <2>1. UNCHANGED <<today, due, sent, renewals, recorded, faults>> /\ current' = NoWarning
        BY <1>7 DEF finish
    <2> QED BY <1>7, <2>1, FinishTypes DEF TypeOK
<1>8. CASE statementFails
    BY <1>8, RungFacts DEF statementFails, TypeOK
<1>9. CASE Restart
    BY <1>9, RungFacts, FS_EmptySet DEF Restart, TypeOK
<1>10. CASE UNCHANGED vars
    BY <1>10 DEF vars, history, TypeOK
<1> QED BY <1>1, <1>2, <1>3, <1>4, <1>5, <1>6, <1>7, <1>8, <1>9, <1>10 DEF Next, Notify

\* Whatever is recorded, paused, deleted or failing, rows, readings and warnings
\* are well formed, and a pass never reads more rows than its limit.
THEOREM TypeCorrect == Spec => []TypeOK
<1>1. Typed => TypeOK
    BY DEF Typed
<1> QED BY <1>1, TypedInit, TypedStep, PTL DEF Spec

(***************************************************************************)
(* The accounts of the warnings.  A rung is open in a row, or in what a    *)
(* pass has read of it, when the ladder would still let it be sent.  Every *)
(* sending of it is paid for by a reset or a fault, and so is the next one *)
(* while the rung is owed: by the row or a reading of it, or by the        *)
(* warning under way, which closes the rung once a channel has it.         *)
(***************************************************************************)
open(warned, r) == warned = 0 \/ (warned = certWarnDays /\ r = certUrgentDays)

SendingRung(m, r) ==
    current # NoWarning /\ current.cert.id = m /\ current.rung = r

openRow(m, r) ==
    HasRow(m) /\ monitor[m].expires # NoCert /\ open(monitor[m].warned, r)

OwedTo(m, c, r) ==
    IF SendingRung(m, r)
    THEN c \in current.todo \/ ~current.delivered
    ELSE openRow(m, r) \/ \E d \in due : d.id = m /\ open(d.warned, r)

Accounted ==
    \A m \in Monitors, e \in Expiries, c \in Channels, r \in Rungs :
        sent[<<m, e, c, r>>] + (IF OwedTo(m, c, r) THEN 1 ELSE 0) <= renewals[m] + faults

\* A pass holds one reading of a monitor, and none of the one it is warning of.
OneReading ==
    /\ \A c, d \in due : c.id = d.id => c = d
    /\ current # NoWarning => \A d \in due : d.id # current.cert.id

\* What a pass holds of a monitor is what its row says, but for a reset.
Behind(d) ==
    HasRow(d.id) => /\ monitor[d.id].expires # NoCert
                    /\ monitor[d.id].warned \in {d.warned, 0}

WarningInv ==
    current # NoWarning =>
        /\ Behind(current.cert)
        /\ open(current.cert.warned, current.rung)
        /\ \A c \in Channels : c \in current.todo \/ current.attempted

LadderInv == OneReading /\ (\A d \in due : Behind(d)) /\ WarningInv /\ Accounted

LEMMA LadderInit == Init => LadderInv
BY RungFacts
   DEF Init, LadderInv, OneReading, WarningInv, Accounted, OwedTo, SendingRung, openRow

LEMMA SentIsNat ==
    ASSUME TypeOK, NEW m \in Monitors, NEW e \in Expiries, NEW c \in Channels, NEW r \in Rungs
    PROVE  sent[<<m, e, c, r>>] \in Nat /\ renewals[m] \in Nat /\ faults \in Nat
<1>1. <<m, e, c, r>> \in Monitors \X Expiries \X Channels \X Rungs
    OBVIOUS
<1> QED BY <1>1, RungFacts DEF TypeOK

\* A step that sends nothing keeps the accounts, unless it makes a rung owed
\* without a reset or a fault to pay for it.
LEMMA Kept ==
    ASSUME TypeOK, TypeOK', Accounted, sent' = sent,
           \A m \in Monitors : renewals[m] + faults <= renewals'[m] + faults',
           \A m \in Monitors, c \in Channels, r \in Rungs :
             OwedTo(m, c, r)' =>
               OwedTo(m, c, r) \/ renewals[m] + faults < renewals'[m] + faults'
    PROVE  Accounted'
<1> SUFFICES ASSUME NEW m \in Monitors, NEW e \in Expiries, NEW c \in Channels, NEW r \in Rungs
             PROVE  sent'[<<m, e, c, r>>] + (IF OwedTo(m, c, r)' THEN 1 ELSE 0)
                      <= renewals'[m] + faults'
    BY DEF Accounted
<1>1. /\ sent[<<m, e, c, r>>] \in Nat /\ renewals[m] \in Nat /\ faults \in Nat
      /\ renewals'[m] \in Nat /\ faults' \in Nat
    BY SentIsNat, RungFacts DEF TypeOK
<1>2. sent[<<m, e, c, r>>] + (IF OwedTo(m, c, r) THEN 1 ELSE 0) <= renewals[m] + faults
    BY DEF Accounted
<1>3. CASE OwedTo(m, c, r)'
    BY <1>1, <1>2, <1>3
<1>4. CASE ~OwedTo(m, c, r)'
    BY <1>1, <1>2, <1>4
<1> QED BY <1>3, <1>4

LEMMA UntouchedLadder ==
    ASSUME TypeOK, TypeOK', LadderInv, UNCHANGED <<monitor, due, current, sent, renewals, faults>>
    PROVE  LadderInv'
BY DEF LadderInv, OneReading, Behind, HasRow, WarningInv, Accounted, OwedTo, SendingRung, openRow

LEMMA RecordLadder ==
    ASSUME TypeOK, TypeOK', LadderInv,
           NEW n \in Monitors, NEW f \in Expiries, RecordCert(n, f)
    PROVE  LadderInv'
<1> DEFINE renewed == monitor[n].expires = NoCert \/ f > monitor[n].expires
           w == IF renewed THEN 0 ELSE monitor[n].warned
<1>1. UNCHANGED <<due, current, sent, faults>>
    BY DEF RecordCert
<1>2. monitor[n] \in Row /\ HasRow(n)
    BY DEF TypeOK, RecordCert, HasRow
<1>3. monitor' = [monitor EXCEPT ![n] = [monitor[n] EXCEPT !.expires = f, !.warned = w]]
    BY <1>2 DEF RecordCert
<1>4. monitor'[n].expires = f /\ monitor'[n].warned = w
    BY <1>2, <1>3 DEF TypeOK, Row
<1>5. f # NoCert
    BY DistinctAssumption
<1>6. renewals' = [renewals EXCEPT ![n] = IF renewed THEN @ + 1 ELSE @]
    BY DEF RecordCert
<1>7. \A m \in Monitors : m # n => monitor'[m] = monitor[m] /\ renewals'[m] = renewals[m]
    BY <1>3, <1>6 DEF TypeOK
<1>8. renewals'[n] = renewals[n] + (IF renewed THEN 1 ELSE 0)
    BY <1>6 DEF TypeOK
<1>9. ASSUME NEW d, d.id \in Monitors, Behind(d) PROVE Behind(d)'
    BY <1>2, <1>4, <1>5, <1>7, <1>9 DEF Behind, HasRow
<1>10. OneReading' /\ (\A d \in due : Behind(d)) ' /\ WarningInv'
    <2>1. \A d \in due : d.id \in Monitors
        BY DEF TypeOK, ExpiringCert
    <2>2. current # NoWarning => current.cert.id \in Monitors
        BY DEF TypeOK, Warning, ExpiringCert
    <2> QED BY <1>1, <1>9, <2>1, <2>2 DEF LadderInv, OneReading, WarningInv
<1>11. ASSUME NEW m \in Monitors, NEW c \in Channels, NEW r \in Rungs, OwedTo(m, c, r)'
       PROVE  OwedTo(m, c, r) \/ renewals[m] + faults < renewals'[m] + faults'
    <2>1. CASE m = n /\ renewed
        BY <1>1, <1>8, <2>1, RungFacts DEF TypeOK
    <2>2. CASE ~(m = n /\ renewed)
        <3>1. openRow(m, r)' => openRow(m, r)
            BY <1>2, <1>4, <1>7, <2>2 DEF openRow, HasRow
        <3> QED BY <1>1, <1>11, <3>1 DEF OwedTo, SendingRung
    <2> QED BY <2>1, <2>2
<1>12. \A m \in Monitors : renewals[m] + faults <= renewals'[m] + faults'
    BY <1>1, <1>7, <1>8, RungFacts DEF TypeOK
<1>13. Accounted'
    BY <1>1, <1>11, <1>12, Kept DEF LadderInv
<1> QED BY <1>10, <1>13 DEF LadderInv

LEMMA OwnerLadder ==
    ASSUME TypeOK, TypeOK', LadderInv, NEW n \in Monitors, PauseOrResume(n) \/ DeleteMonitor(n)
    PROVE  LadderInv'
<1>1. UNCHANGED <<due, current, sent, renewals, faults>> /\ HasRow(n)
    BY DEF PauseOrResume, DeleteMonitor, history
<1>2. ASSUME NEW m \in Monitors
      PROVE  HasRow(m)' => /\ HasRow(m)
                           /\ monitor'[m].expires = monitor[m].expires
                           /\ monitor'[m].warned = monitor[m].warned
    <2>1. monitor[n] \in Row
        BY <1>1 DEF TypeOK, HasRow
    <2>2. CASE PauseOrResume(n)
        BY <2>1, <2>2 DEF PauseOrResume, TypeOK, Row, HasRow
    <2>3. CASE DeleteMonitor(n)
        BY <2>3 DEF DeleteMonitor, TypeOK, HasRow
    <2> QED BY <2>2, <2>3
<1>3. \A d : d.id \in Monitors /\ Behind(d) => Behind(d)'
    BY <1>2 DEF Behind
<1>4. OneReading' /\ (\A d \in due : Behind(d)) ' /\ WarningInv'
    <2>1. \A d \in due : d.id \in Monitors
        BY DEF TypeOK, ExpiringCert
    <2>2. current # NoWarning => current.cert.id \in Monitors
        BY DEF TypeOK, Warning, ExpiringCert
    <2> QED BY <1>1, <1>3, <2>1, <2>2 DEF LadderInv, OneReading, WarningInv
<1>5. \A m \in Monitors, r \in Rungs : openRow(m, r)' => openRow(m, r)
    BY <1>2 DEF openRow
<1>6. \A m \in Monitors, c \in Channels, r \in Rungs : OwedTo(m, c, r)' => OwedTo(m, c, r)
    BY <1>1, <1>5 DEF OwedTo, SendingRung
<1>7. Accounted'
    BY <1>1, <1>6, Kept, RungFacts DEF LadderInv, TypeOK
<1> QED BY <1>4, <1>7 DEF LadderInv

LEMMA ListLadder ==
    ASSUME TypeOK, TypeOK', LadderInv, list
    PROVE  LadderInv'
<1>1. due = {} /\ current = NoWarning /\ UNCHANGED <<monitor, current, sent, renewals, faults>>
    BY DEF list, Idle, history
<1>2. ASSUME NEW d \in due'
      PROVE  \E m \in Monitors : Expiring(m) /\ d = reading(m)
    BY DEF list, EarliestOf, reading
<1>3. ASSUME NEW m \in Monitors, Expiring(m)
      PROVE  /\ reading(m).id = m /\ reading(m).warned = monitor[m].warned
             /\ HasRow(m) /\ monitor[m].expires # NoCert
    BY <1>3 DEF reading, Expiring
<1>4. OneReading' /\ (\A d \in due : Behind(d)) ' /\ WarningInv'
    BY <1>1, <1>2, <1>3 DEF OneReading, Behind, HasRow, WarningInv
<1>5. \A m \in Monitors, c \in Channels, r \in Rungs : OwedTo(m, c, r)' => OwedTo(m, c, r)
    BY <1>1, <1>2, <1>3 DEF OwedTo, SendingRung, openRow, HasRow
<1>6. Accounted'
    BY <1>1, <1>5, Kept, RungFacts DEF LadderInv, TypeOK
<1> QED BY <1>4, <1>6 DEF LadderInv

LEMMA CertRungOpens ==
    ASSUME NEW days \in Int, NEW w \in Rungs \cup {0}, certRung(days, w) # 0
    PROVE  certRung(days, w) \in Rungs /\ open(w, certRung(days, w))
BY RungFacts DEF certRung, open, Rungs

LEMMA ReadingOpens ==
    ASSUME TypeOK, NEW d \in due, certRung(d.expires - today, d.warned) # 0
    PROVE  LET rung == certRung(d.expires - today, d.warned)
           IN  rung \in Rungs /\ open(d.warned, rung)
<1>1. d \in ExpiringCert /\ today \in Int
    BY RungFacts DEF TypeOK
<1>2. d.expires \in Expiries /\ d.warned \in Rungs \cup {0}
    BY <1>1 DEF ExpiringCert
<1>3. ASSUME NEW x \in Expiries, NEW y \in Int PROVE x - y \in Int
    BY RungFacts
<1>4. d.expires - today \in Int
    BY <1>1, <1>2, <1>3
<1> QED BY <1>2, <1>4, CertRungOpens

LEMMA DecideLadder ==
    ASSUME TypeOK, TypeOK', LadderInv, NEW d \in due, decide(d)
    PROVE  LadderInv'
<1> DEFINE rung == certRung(d.expires - today, d.warned)
           new == [cert |-> d, rung |-> rung, todo |-> Channels,
                   attempted |-> FALSE, delivered |-> FALSE]
<1>1. /\ current = NoWarning /\ due' = due \ {d}
      /\ UNCHANGED <<monitor, sent, renewals, faults>>
      /\ current' = IF rung = 0 THEN NoWarning ELSE new
    BY DEF decide, history
<1>2. rung # 0 => open(d.warned, rung) /\ rung \in Rungs
    BY ReadingOpens
<1>3. d \in ExpiringCert
    BY DEF TypeOK
<1>4. rung # 0 => new # NoWarning
    <2> HIDE DEF rung
    <2>1. rung # 0 => new \in Warning
        BY <1>2, <1>3 DEF Warning
    <2> QED BY <2>1, DistinctAssumption
<1>5. \A x : Behind(x) => Behind(x)'
    BY <1>1 DEF Behind, HasRow
<1>6. OneReading' /\ (\A x \in due : Behind(x)) '
    BY <1>1, <1>4, <1>5 DEF LadderInv, OneReading
<1>7. WarningInv'
    BY <1>1, <1>2, <1>3, <1>4, <1>5 DEF LadderInv, WarningInv
<1>8. ASSUME NEW m \in Monitors, NEW c \in Channels, NEW r \in Rungs, OwedTo(m, c, r)'
      PROVE  OwedTo(m, c, r)
    <2>1. ~SendingRung(m, r) /\ (openRow(m, r)' <=> openRow(m, r))
        BY <1>1 DEF SendingRung, openRow, HasRow
    <2>2. CASE SendingRung(m, r)'
        <3>1. d.id = m /\ open(d.warned, r)
            BY <1>1, <1>2, <1>3, <1>4, <2>2 DEF SendingRung
        <3> QED BY <2>1, <3>1 DEF OwedTo
    <2>3. CASE ~SendingRung(m, r)'
        BY <1>1, <1>8, <2>1, <2>3 DEF OwedTo
    <2> QED BY <2>2, <2>3
<1>9. Accounted'
    BY <1>1, <1>8, Kept, RungFacts DEF LadderInv, TypeOK
<1> QED BY <1>6, <1>7, <1>9 DEF LadderInv

LEMMA SendLadder ==
    ASSUME TypeOK, TypeOK', LadderInv, NEW c0 \in Channels, NEW ok \in BOOLEAN, send(c0, ok)
    PROVE  LadderInv'
<1> DEFINE x == <<current.cert.id, current.cert.expires, c0, current.rung>>
<1>1. current \in Warning /\ current # NoWarning /\ c0 \in current.todo
    BY DEF send, TypeOK
<1>2. /\ current' # NoWarning
      /\ current'.cert = current.cert /\ current'.rung = current.rung
      /\ current'.todo = current.todo \ {c0} /\ current'.attempted
      /\ current'.delivered = (current.delivered \/ ok)
    <2>1. current' \in Warning
        BY SendTypes
    <2> QED BY <1>1, <2>1, DistinctAssumption DEF send, Warning
<1>3. UNCHANGED <<monitor, due, renewals, faults>>
    BY DEF send
<1>4. sent' = IF ok THEN [sent EXCEPT ![x] = @ + 1] ELSE sent
    BY DEF send
<1>5. OneReading' /\ (\A d \in due : Behind(d)) ' /\ WarningInv'
    BY <1>1, <1>2, <1>3 DEF LadderInv, OneReading, WarningInv, Behind, HasRow
<1>6. ASSUME NEW m \in Monitors, NEW e \in Expiries, NEW c \in Channels, NEW r \in Rungs
      PROVE  sent'[<<m, e, c, r>>] + (IF OwedTo(m, c, r)' THEN 1 ELSE 0) <= renewals'[m] + faults'
    <2>1. /\ sent[<<m, e, c, r>>] \in Nat /\ renewals[m] \in Nat /\ faults \in Nat
          /\ sent[<<m, e, c, r>>] + (IF OwedTo(m, c, r) THEN 1 ELSE 0) <= renewals[m] + faults
        BY SentIsNat DEF LadderInv, Accounted
    <2>2. SendingRung(m, r)' <=> SendingRung(m, r)
        BY <1>1, <1>2 DEF SendingRung
    <2>3. OwedTo(m, c, r)' => OwedTo(m, c, r)
        BY <1>2, <1>3, <2>2 DEF OwedTo, openRow, HasRow
    <2>4. CASE ok /\ <<m, e, c, r>> = x
        <3>1. SendingRung(m, r) /\ c = c0
            BY <1>1, <2>4 DEF SendingRung
        <3>2. OwedTo(m, c, r) /\ ~OwedTo(m, c, r)'
            BY <1>1, <1>2, <2>2, <2>4, <3>1 DEF OwedTo
        <3>3. sent'[<<m, e, c, r>>] = sent[<<m, e, c, r>>] + 1
            BY <1>4, <2>4 DEF TypeOK
        <3> QED BY <1>3, <2>1, <3>2, <3>3
    <2>5. CASE ~(ok /\ <<m, e, c, r>> = x)
        <3>1. sent'[<<m, e, c, r>>] = sent[<<m, e, c, r>>]
            BY <1>4, <2>5 DEF TypeOK
        <3> QED BY <1>3, <2>1, <2>3, <3>1
    <2> QED BY <2>4, <2>5
<1> QED BY <1>5, <1>6 DEF LadderInv, Accounted

LEMMA WrittenRow ==
    ASSUME NEW row \in Row, NEW r \in Rungs
    PROVE  /\ [row EXCEPT !.warned = r] \in Row
           /\ [row EXCEPT !.warned = r].warned = r
BY DEF Row

LEMMA FinishLadder ==
    ASSUME TypeOK, TypeOK', LadderInv, finish
    PROVE  LadderInv'
<1> DEFINE n == current.cert.id
           writes == ~nothingDelivered(current) /\ HasRow(n)
<1>1. /\ current # NoWarning /\ current \in Warning /\ current.todo = {} /\ current' = NoWarning
      /\ UNCHANGED <<due, sent, renewals, faults>>
    BY DEF finish, history, TypeOK
<1>2. n \in Monitors /\ current.rung \in Rungs /\ current.cert.warned \in Rungs \cup {0}
    BY <1>1 DEF Warning, ExpiringCert
<1>3. \A d \in due : d.id # n /\ d.id \in Monitors
    BY <1>1 DEF LadderInv, OneReading, TypeOK, ExpiringCert
<1>4. \A m \in Monitors : m # n => monitor'[m] = monitor[m]
    BY <1>2 DEF finish, TypeOK
<1>5. ~writes => monitor' = monitor
    BY DEF finish
<1>6. writes => monitor'[n].warned = current.rung
    <2> SUFFICES ASSUME writes PROVE monitor'[n].warned = current.rung
        OBVIOUS
    <2>1. monitor[n] \in Row
        BY <1>2 DEF TypeOK, HasRow
    <2>2. monitor' = [monitor EXCEPT ![n] = [monitor[n] EXCEPT !.warned = current.rung]]
        BY DEF finish
    <2>3. monitor'[n] = [monitor[n] EXCEPT !.warned = current.rung]
        BY <1>2, <2>2 DEF TypeOK
    <2>4. monitor'[n] \in Row /\ monitor'[n].warned = current.rung
        BY <1>2, <2>1, <2>3, WrittenRow
    <2> QED BY <2>4
<1>7. OneReading' /\ (\A d \in due : Behind(d)) ' /\ WarningInv'
    BY <1>1, <1>3, <1>4 DEF LadderInv, OneReading, Behind, HasRow, WarningInv
<1>8. ASSUME NEW m \in Monitors, NEW c \in Channels, NEW r \in Rungs, OwedTo(m, c, r)'
      PROVE  OwedTo(m, c, r)
    <2>1. openRow(m, r)' \/ \E d \in due : d.id = m /\ open(d.warned, r)
        BY <1>1, <1>8 DEF OwedTo, SendingRung
    <2>2. CASE m # n
        BY <1>1, <1>4, <2>1, <2>2 DEF OwedTo, SendingRung, openRow, HasRow
    <2>3. CASE m = n /\ ~writes
        <3>1. openRow(m, r)
            BY <1>3, <1>5, <2>1, <2>3 DEF openRow, HasRow
        <3>2. ~current.delivered
            BY <2>3, <3>1 DEF openRow, nothingDelivered
        <3> QED BY <1>1, <3>1, <3>2 DEF OwedTo
    <2>4. CASE m = n /\ writes
        <3>1. open(current.rung, r)
            BY <1>3, <1>6, <2>1, <2>4 DEF openRow
        <3>2. current.rung = certWarnDays /\ r = certUrgentDays
            BY <1>2, <3>1, RungFacts DEF open, Rungs
        <3>3. current.cert.warned = 0
            BY <1>1, <1>2, <3>2, RungFacts DEF LadderInv, WarningInv, open, Rungs
        <3>4. monitor[n].expires # NoCert /\ monitor[n].warned = 0
            BY <1>1, <2>4, <3>3 DEF LadderInv, WarningInv, Behind
        <3>5. openRow(m, r) /\ ~SendingRung(m, r)
            BY <2>4, <3>2, <3>4, RungFacts DEF openRow, open, SendingRung
        <3> QED BY <3>5 DEF OwedTo
    <2> QED BY <2>2, <2>3, <2>4
<1>9. Accounted'
    BY <1>1, <1>8, Kept, RungFacts DEF LadderInv, TypeOK
<1> QED BY <1>7, <1>9 DEF LadderInv

LEMMA FaultLadder ==
    ASSUME TypeOK, TypeOK', LadderInv, statementFails \/ Restart
    PROVE  LadderInv'
<1>1. /\ current' = NoWarning /\ due' \subseteq due /\ faults' = faults + 1
      /\ UNCHANGED <<monitor, sent, renewals>>
    BY DEF statementFails, Restart
<1>2. OneReading' /\ (\A d \in due : Behind(d)) ' /\ WarningInv'
    BY <1>1 DEF LadderInv, OneReading, Behind, HasRow, WarningInv
<1>3. \A m \in Monitors : renewals[m] + faults < renewals'[m] + faults'
    BY <1>1, RungFacts DEF TypeOK
<1>4. Accounted'
    BY <1>1, <1>3, Kept, RungFacts DEF LadderInv, TypeOK
<1> QED BY <1>2, <1>4 DEF LadderInv

LEMMA LadderStep ==
    ASSUME Typed, Typed', LadderInv, [Next]_vars
    PROVE  LadderInv'
<1> USE DEF Typed
<1>1. CASE NextDay \/ UNCHANGED vars
    BY <1>1, UntouchedLadder DEF NextDay, vars, history
<1>2. ASSUME NEW m \in Monitors, NEW e \in Expiries, RecordCert(m, e) PROVE LadderInv'
    BY <1>2, RecordLadder
<1>3. ASSUME NEW m \in Monitors, PauseOrResume(m) \/ DeleteMonitor(m) PROVE LadderInv'
    BY <1>3, OwnerLadder
<1>4. CASE list
    BY <1>4, ListLadder
<1>5. ASSUME NEW c \in due, decide(c) PROVE LadderInv'
    BY <1>5, DecideLadder
<1>6. ASSUME NEW c \in Channels, NEW ok \in BOOLEAN, send(c, ok) PROVE LadderInv'
    BY <1>6, SendLadder
<1>7. CASE finish
    BY <1>7, FinishLadder
<1>8. CASE statementFails \/ Restart
    BY <1>8, FaultLadder
<1> QED BY <1>1, <1>2, <1>3, <1>4, <1>5, <1>6, <1>7, <1>8 DEF Next, Notify

\* "at most once per rung per certificate" (certexpiry.go:10-11), as the code
\* keeps it for any number of monitors and channels: every repetition is paid
\* for by a later certificate or a fault of its own.
THEOREM EachRepeatPaidFor == Spec => []RepeatsHaveCause
<1>1. Init => Typed /\ LadderInv
    BY TypedInit, LadderInit
<1>2. Typed /\ LadderInv /\ [Next]_vars => (Typed /\ LadderInv)'
    BY TypedStep, LadderStep
<1>3. Typed /\ LadderInv => RepeatsHaveCause
    <2> SUFFICES ASSUME Typed, LadderInv,
                        NEW m \in Monitors, NEW e \in Expiries, NEW c \in Channels, NEW r \in Rungs
                 PROVE  sent[<<m, e, c, r>>] <= renewals[m] + faults
        BY DEF RepeatsHaveCause
    <2>1. sent[<<m, e, c, r>>] + (IF OwedTo(m, c, r) THEN 1 ELSE 0) <= renewals[m] + faults
        BY DEF LadderInv, Accounted
    <2> QED BY <2>1, SentIsNat DEF Typed
<1> QED BY <1>1, <1>2, <1>3, PTL DEF Spec

(***************************************************************************)
(* The order of the warnings.  The last warning of a certificate is only   *)
(* ever sent when its day has come near, and a first warning is decided on *)
(* before that: none under way is of a certificate whose last was sent.    *)
(***************************************************************************)
DescentInv ==
    /\ \A m \in Monitors, e \in Expiries, c \in Channels :
         sent[<<m, e, c, certUrgentDays>>] > 0 => e <= today + certUrgentDays
    /\ current # NoWarning /\ current.rung = certUrgentDays
         => current.cert.expires <= today + certUrgentDays
    /\ current # NoWarning /\ current.rung = certWarnDays
         => \A c \in Channels : sent[<<current.cert.id, current.cert.expires, c, certUrgentDays>>] = 0

LEMMA DescentInit == Init => DescentInv
BY DEF Init, DescentInv, Rungs

LEMMA Days == \A e \in Expiries : e \in Int
BY RungFacts

LEMMA SentByStep ==
    ASSUME TypeOK, [Next]_vars, NEW m \in Monitors, NEW e \in Expiries, NEW c \in Channels,
           NEW r \in Rungs, sent'[<<m, e, c, r>>] # sent[<<m, e, c, r>>]
    PROVE  /\ current # NoWarning /\ current.cert.id = m /\ current.cert.expires = e
           /\ current.rung = r
           /\ today' = today /\ \E ok \in BOOLEAN : send(c, ok)
<1>1. sent' # sent
    OBVIOUS
<1>2. PICK d \in Channels, ok \in BOOLEAN : send(d, ok)
    BY <1>1 DEF Next, vars, history, Notify, NextDay, RecordCert, PauseOrResume, DeleteMonitor,
                list, decide, finish, statementFails, Restart
<1>3. <<m, e, c, r>> = <<current.cert.id, current.cert.expires, d, current.rung>>
    BY <1>2 DEF send, TypeOK
<1> QED BY <1>2, <1>3 DEF send

LEMMA CurrentByStep ==
    ASSUME [Next]_vars
    PROVE  \/ current' = NoWarning
           \/ \E d \in due : decide(d)
           \/ \E c \in Channels, ok \in BOOLEAN : send(c, ok)
           \/ current' = current
BY DEF Next, vars, history, Notify, NextDay, RecordCert, PauseOrResume, DeleteMonitor, list,
       finish, statementFails, Restart

LEMMA TimeByStep ==
    ASSUME TypeOK, [Next]_vars
    PROVE  today \in Int /\ today' \in Int /\ today <= today'
<1>1. today' = today \/ today' = today + 1
    BY DEF Next, vars, history, Notify, NextDay, RecordCert, PauseOrResume, DeleteMonitor, list,
           decide, send, finish, statementFails, Restart
<1>2. today \in Int
    BY RungFacts DEF TypeOK
<1> QED BY <1>1, <1>2

LEMMA DescentStep ==
    ASSUME TypeOK, TypeOK', DescentInv, [Next]_vars
    PROVE  DescentInv'
<1>1. certUrgentDays \in Rungs /\ certWarnDays \in Rungs
    BY DEF Rungs
<1>2. ASSUME NEW m \in Monitors, NEW e \in Expiries, NEW c \in Channels,
             sent'[<<m, e, c, certUrgentDays>>] > 0
      PROVE  e <= today' + certUrgentDays
    <2>1. e \in Int /\ certUrgentDays \in Int
        BY RungFacts
    <2>2. e <= today + certUrgentDays
        <3>1. CASE sent'[<<m, e, c, certUrgentDays>>] = sent[<<m, e, c, certUrgentDays>>]
            BY <1>2, <3>1 DEF DescentInv
        <3>2. CASE sent'[<<m, e, c, certUrgentDays>>] # sent[<<m, e, c, certUrgentDays>>]
            BY <1>1, <3>2, SentByStep DEF DescentInv
        <3> QED BY <3>1, <3>2
    <2> QED BY <2>1, <2>2, TimeByStep
<1>3. ASSUME current' # NoWarning
      PROVE  /\ current'.rung = certUrgentDays
                  => current'.cert.expires <= today' + certUrgentDays
             /\ current'.rung = certWarnDays
                  => \A c \in Channels :
                       sent'[<<current'.cert.id, current'.cert.expires, c, certUrgentDays>>] = 0
    <2>1. ASSUME NEW d \in due, decide(d)
          PROVE  /\ current'.rung = certUrgentDays
                      => current'.cert.expires <= today' + certUrgentDays
                 /\ current'.rung = certWarnDays
                      => \A c \in Channels :
                           sent'[<<current'.cert.id, current'.cert.expires, c, certUrgentDays>>] = 0
        <3>1. /\ current'.rung = certRung(d.expires - today, d.warned)
              /\ certRung(d.expires - today, d.warned) # 0
              /\ current'.cert = d /\ today' = today /\ sent' = sent
            BY <1>3, <2>1 DEF decide, history
        <3>2. d.id \in Monitors /\ d.expires \in Expiries /\ d.warned \in Rungs \cup {0}
            BY DEF TypeOK, ExpiringCert
        <3>3. d.expires \in Int /\ today \in Int
            BY <3>2, Days, TimeByStep
        <3>4. /\ certRung(d.expires - today, d.warned) = certUrgentDays
                   => d.expires - today <= certUrgentDays
              /\ certRung(d.expires - today, d.warned) = certWarnDays
                   => ~(d.expires - today <= certUrgentDays)
            BY <3>1, <3>2, RungFacts DEF certRung, Rungs
        <3>5. ASSUME d.expires - today > certUrgentDays, NEW c \in Channels
              PROVE  sent[<<d.id, d.expires, c, certUrgentDays>>] = 0
            <4>1. ~(d.expires <= today + certUrgentDays)
                BY <3>3, <3>5, RungFacts
            <4>2. sent[<<d.id, d.expires, c, certUrgentDays>>] \in Nat
                BY <1>1, <3>2, SentIsNat
            <4> QED BY <3>2, <4>1, <4>2 DEF DescentInv
        <3> QED BY <3>1, <3>3, <3>4, <3>5, RungFacts
    <2>2. ASSUME \/ current' = current
                 \/ \E c \in Channels, ok \in BOOLEAN : send(c, ok)
          PROVE  /\ current'.rung = certUrgentDays
                      => current'.cert.expires <= today' + certUrgentDays
                 /\ current'.rung = certWarnDays
                      => \A c \in Channels :
                           sent'[<<current'.cert.id, current'.cert.expires, c, certUrgentDays>>] = 0
        <3>1. current # NoWarning /\ current \in Warning
            BY <1>3, <2>2 DEF send, TypeOK
        <3>2. current'.rung = current.rung /\ current'.cert = current.cert
            <4>1. ASSUME NEW c \in Channels, NEW ok \in BOOLEAN, send(c, ok)
                  PROVE  current'.rung = current.rung /\ current'.cert = current.cert
                BY <3>1, <4>1 DEF send, Warning
            <4> QED BY <2>2, <4>1
        <3>3. current.cert.id \in Monitors /\ current.cert.expires \in Expiries
            BY <3>1 DEF Warning, ExpiringCert
        <3>4. ASSUME current.rung = certWarnDays, NEW c \in Channels
              PROVE  sent'[<<current.cert.id, current.cert.expires, c, certUrgentDays>>] = 0
            <4>1. sent[<<current.cert.id, current.cert.expires, c, certUrgentDays>>] = 0
                BY <3>1, <3>4 DEF DescentInv
            <4>2. current.rung # certUrgentDays
                BY <3>4, RungFacts
            <4> QED BY <1>1, <3>3, <4>1, <4>2, SentByStep
        <3>5. current.rung = certUrgentDays => current.cert.expires <= today' + certUrgentDays
            <4>1. current.cert.expires \in Int
                BY <3>3, Days
            <4>2. current.rung = certUrgentDays => current.cert.expires <= today + certUrgentDays
                BY <3>1 DEF DescentInv
            <4> QED BY <4>1, <4>2, TimeByStep, RungFacts
        <3> QED BY <3>2, <3>4, <3>5
    <2> QED BY <1>3, <2>1, <2>2, CurrentByStep
<1> QED BY <1>2, <1>3 DEF DescentInv

\* Once a channel was told that a certificate is about to expire it is never
\* told that there is time left, for any two rungs and any order of events.
THEOREM NeverCalmedAgain == Spec => LadderDescends
<1> DEFINE Calm ==
        \A m \in Monitors, e \in Expiries, c \in Channels :
            sent'[<<m, e, c, certWarnDays>>] # sent[<<m, e, c, certWarnDays>>]
              => sent[<<m, e, c, certUrgentDays>>] = 0
<1>1. Init => Typed /\ DescentInv
    BY TypedInit, DescentInit
<1>2. Typed /\ DescentInv /\ [Next]_vars => (Typed /\ DescentInv)'
    BY TypedStep, DescentStep DEF Typed
<1>3. Typed /\ DescentInv /\ [Next]_vars => [Calm]_vars
    <2> SUFFICES ASSUME Typed, DescentInv, [Next]_vars,
                        NEW m \in Monitors, NEW e \in Expiries, NEW c \in Channels,
                        sent'[<<m, e, c, certWarnDays>>] # sent[<<m, e, c, certWarnDays>>]
                 PROVE  sent[<<m, e, c, certUrgentDays>>] = 0
        OBVIOUS
    <2>1. certWarnDays \in Rungs
        BY DEF Rungs
    <2>2. /\ current # NoWarning /\ current.rung = certWarnDays
          /\ current.cert.id = m /\ current.cert.expires = e
        BY <2>1, SentByStep DEF Typed
    <2> QED BY <2>2 DEF DescentInv
<1> QED BY <1>1, <1>2, <1>3, PTL DEF Spec, LadderDescends
=============================================================================
