--------------------------- MODULE WorkspaceProofs --------------------------
(***************************************************************************)
(* What the pages of the dashboard guarantee for any number of channels,   *)
(* of changes in flight, of clicks and of failures.                        *)
(***************************************************************************)
EXTENDS Workspace, TLAPS

(***************************************************************************)
(* Types.  What a query is answered is what its kind of query is served,   *)
(* and the argument of a request is what its kind of request asks for.     *)
(***************************************************************************)
Contents == (SUBSET Channels) \cup BOOLEAN \cup {NoData}
Phases == {"idle", "asked", "answered"}
Arguments == Channels \cup BOOLEAN \cup {NoChannel}

QueryShapes ==
    /\ cache \in [Queries -> Contents]
    /\ fetching \in [Queries -> [phase : Phases, data : Contents]]
    /\ \A q \in Queries : fetching[q].phase = "answered" => fetching[q].data \in Data(q)

Fits(kind, arg) ==
    /\ kind \in {"remove", "test"} => arg \in Channels
    /\ kind = "settings" => arg \in BOOLEAN

ArgsFit ==
    \A i \in Slots : requests[i] # NoRequest => Fits(requests[i].kind, requests[i].arg)

Typed == TypeOK /\ QueryShapes /\ ArgsFit

LEMMA Constants ==
    /\ MaxFaults \in Nat /\ MaxRequests \in Nat /\ MaxClicks \in Nat
    /\ NoData \notin BOOLEAN /\ NoData \notin SUBSET Channels
    /\ NoRequest \notin Request /\ NoChannel \notin Channels
BY SessionAssumption, WorkspaceAssumption

LEMMA DataKinds ==
    /\ Data("channels") = SUBSET Channels /\ Data("monitors") = BOOLEAN
    /\ \A q \in Queries : Data(q) \in {SUBSET Channels, BOOLEAN}
    /\ \A q \in Queries : Data(q) \cup {NoData} \subseteq Contents /\ NoData \notin Data(q)
<1>1. Data("channels") = SUBSET Channels
    BY DEF Data
<1>2. Data("monitors") = BOOLEAN
    BY DEF Data
<1>3. \A q \in Queries : Data(q) \in {SUBSET Channels, BOOLEAN}
    BY <1>1, <1>2 DEF Queries
<1>4. \A q \in Queries : Data(q) \cup {NoData} \subseteq Contents
    <2>1. /\ (SUBSET Channels) \cup {NoData} \subseteq Contents
          /\ BOOLEAN \cup {NoData} \subseteq Contents
        BY DEF Contents
    <2> QED BY <1>3, <2>1, Zenon
<1>5. \A q \in Queries : NoData \notin Data(q)
    BY <1>3, Constants, Zenon
<1> QED BY <1>1, <1>2, <1>3, <1>4, <1>5

LEMMA Used == \A p : usedOn(p) \subseteq Queries
BY DEF usedOn

(***************************************************************************)
(* What one step does to a query.                                          *)
(***************************************************************************)
Turn(q) ==
    \/ fetching'[q] \in {fetching[q], Asked, NotAsked}
    \/ fetching[q].phase = "asked"
       /\ fetching'[q] = [phase |-> "answered", data |-> served(q)]

Fill(q) ==
    \/ cache'[q] \in {cache[q], NoData}
    \/ fetching[q].phase = "answered" /\ cache'[q] = fetching[q].data

\* A query that is at rest afterwards, and whose reading did not fail, was at
\* rest before (and is still marked, if it was), has just been answered, or was
\* forgotten.
Settles(q) ==
    fetching'[q].phase = "idle" /\ q \notin failing' =>
        \/ cache'[q] = NoData
        \/ /\ fetching[q].phase = "idle" /\ q \notin failing /\ cache'[q] = cache[q]
           /\ q \in stale => q \in stale'
        \/ fetching[q].phase = "answered" /\ cache'[q] = fetching[q].data

Turns ==
    /\ fetching' = [q \in Queries |-> fetching'[q]] /\ cache' = [q \in Queries |-> cache'[q]]
    /\ \A q \in Queries : Turn(q) /\ Fill(q) /\ Settles(q)
    /\ stale' \subseteq Queries /\ failing' \subseteq Queries

LEMMA Resting ==
    ASSUME Typed, UNCHANGED <<cache, fetching, stale, failing>>
    PROVE  Turns
BY DEF Typed, TypeOK, QueryShapes, Turns, Turn, Fill, Settles

LEMMA AskedPhases == Asked.phase = "asked" /\ NotAsked.phase = "idle"
BY DEF Asked, NotAsked

LEMMA OneQueryTurns ==
    ASSUME Typed, NEW q0 \in Queries, Query(q0) \/ readFails(q0)
    PROVE  Turns
<1> USE DEF Typed, TypeOK, QueryShapes
<1>1. \A q \in Queries : q # q0 =>
        /\ fetching'[q] = fetching[q] /\ cache'[q] = cache[q]
        /\ q \in failing' <=> q \in failing
        /\ q \in stale => q \in stale'
    BY DEF Query, poll, read, receive, readFails
<1>2. \A q \in Queries : q # q0 => Turn(q) /\ Fill(q) /\ Settles(q)
    BY <1>1 DEF Turn, Fill, Settles
<1>3. Turn(q0) /\ Fill(q0) /\ Settles(q0)
    BY AskedPhases DEF Query, poll, read, receive, readFails, Turn, Fill, Settles
<1>4. fetching' = [q \in Queries |-> fetching'[q]] /\ cache' = [q \in Queries |-> cache'[q]]
    BY DEF Query, poll, read, receive, readFails
<1>5. stale' \subseteq Queries /\ failing' \subseteq Queries
    BY DEF Query, poll, read, receive, readFails
<1> QED BY <1>2, <1>3, <1>4, <1>5 DEF Turns

LEMMA InvalidateTurns ==
    ASSUME Typed, NEW q0 \in Queries, invalidate(q0), UNCHANGED <<cache, failing>>
    PROVE  Turns
<1> USE DEF Typed, TypeOK, QueryShapes
<1>1. \A q \in Queries : fetching'[q] \in {fetching[q], Asked}
    BY DEF invalidate
<1>4. \A q \in Queries : q \in stale => q \in stale'
    BY DEF invalidate
<1>2. \A q \in Queries : Turn(q) /\ Fill(q) /\ Settles(q)
    BY <1>1, <1>4, AskedPhases DEF Turn, Fill, Settles
<1>3. fetching' = [q \in Queries |-> fetching'[q]] /\ stale' \subseteq Queries
    BY DEF invalidate
<1> QED BY <1>2, <1>3 DEF Turns

LEMMA MountTurns ==
    ASSUME Typed, NEW p, NEW invalid \in SUBSET Queries, stale \subseteq invalid,
           mountQueries(p, invalid),
           UNCHANGED <<cache, failing>>
    PROVE  Turns
<1> USE DEF Typed, TypeOK, QueryShapes
<1>1. \A q \in Queries : fetching'[q] \in {fetching[q], Asked}
    BY DEF mountQueries
<1>4. \A q \in Queries : fetching'[q].phase = "idle" /\ q \in stale => q \in stale'
    BY AskedPhases DEF mountQueries
<1>2. \A q \in Queries : Turn(q) /\ Fill(q) /\ Settles(q)
    BY <1>1, <1>4, AskedPhases DEF Turn, Fill, Settles
<1>3. fetching' = [q \in Queries |-> fetching'[q]] /\ stale' \subseteq Queries
    BY DEF mountQueries
<1> QED BY <1>2, <1>3 DEF Turns

LEMMA ForgetTurns ==
    ASSUME Typed, reloadTab
    PROVE  Turns
<1>1. \A q \in Queries : cache'[q] = NoData /\ fetching'[q] = NotAsked
    BY DEF reloadTab
<1>2. \A q \in Queries : Turn(q) /\ Fill(q) /\ Settles(q)
    BY <1>1 DEF Turn, Fill, Settles
<1> QED BY <1>1, <1>2 DEF reloadTab, Turns

LEMMA QueriesTurn ==
    ASSUME Typed, [Next]_vars
    PROVE  Turns
<1>1. CASE \E q \in Queries : Query(q) \/ readFails(q)
    BY <1>1, OneQueryTurns
<1>2. CASE reloadTab
    BY <1>2, ForgetTurns
<1>3. ASSUME NEW p \in Pages, visit(p) PROVE Turns
    BY <1>3, MountTurns DEF visit, Typed, TypeOK
<1>4. CASE receiveMeAnswer
    <2>1. UNCHANGED <<cache, failing>>
        BY <1>4 DEF receiveMeAnswer
    <2>2. UNCHANGED <<fetching, stale>> \/ mountQueries(page, stale)
        BY <1>4 DEF receiveMeAnswer
    <2> QED BY <2>1, <2>2, Resting, MountTurns DEF Typed, TypeOK
<1>5. ASSUME NEW i \in Slots, answerOK(i) PROVE Turns
    <2>1. created(requests[i]) \/ removedOne(requests[i]) => Turns
        BY <1>5, InvalidateTurns DEF answerOK, created, removedOne, Queries
    <2>2. tested(requests[i]) \/ switched(requests[i]) => Turns
        BY <1>5, Resting DEF answerOK, tested, switched
    <2> QED BY <1>5, <2>1, <2>2 DEF answerOK
<1>6. ASSUME NEW i \in Slots, monitorCreated(i) PROVE Turns
    <2>1. UNCHANGED <<cache, failing>> /\ stale \cup {"monitors"} \subseteq Queries
        BY <1>6 DEF monitorCreated, Typed, TypeOK, Queries
    <2>2. mountQueries("monitors", stale \cup {"monitors"}) \/ invalidate("monitors")
        BY <1>6 DEF monitorCreated
    <2> QED BY <2>1, <2>2, MountTurns, InvalidateTurns DEF Queries
<1>7. ASSUME NEW i \in Slots, Server(i) \/ answerFailed(i) \/ answerUnheard(i)
      PROVE  Turns
    BY <1>7, Resting DEF Server, handle, refuse, answerFailed, answerUnheard, tested
<1>8. CASE \/ createChannel \/ closeDialog \/ confirmRemove \/ createMonitor \/ toggleStatusPage
           \/ elsewhere \/ \E c \in Channels : openDialog(c) \/ testChannel(c)
    BY <1>8, Resting DEF createChannel, closeDialog, confirmRemove, createMonitor,
       toggleStatusPage, elsewhere, openDialog, testChannel
<1>9. CASE (Background /\ UNCHANGED pageVars) \/ UNCHANGED vars
    BY <1>9, Resting DEF pageVars, vars
<1> QED BY <1>1, <1>2, <1>3, <1>4, <1>5, <1>6, <1>7, <1>8, <1>9 DEF Next, User, Server, Answer

LEMMA QueryTypes ==
    ASSUME Typed, Turns
    PROVE  /\ QueryShapes'
           /\ (\A q \in Queries :
                 /\ cache[q] \in Data(q) \cup {NoData}
                 /\ fetching[q] \in [phase : Phases, data : Data(q) \cup {NoData}])'
<1>1. \A q \in Queries : served(q) \in Data(q)
    BY DEF Typed, TypeOK, served, Data, Queries
<1>2. ASSUME NEW q \in Queries
      PROVE  /\ cache'[q] \in Data(q) \cup {NoData}
             /\ fetching'[q] \in [phase : Phases, data : Data(q) \cup {NoData}]
             /\ fetching'[q].phase = "answered" => fetching'[q].data \in Data(q)
    <2>1. /\ cache[q] \in Data(q) \cup {NoData}
          /\ fetching[q] \in [phase : Phases, data : Data(q) \cup {NoData}]
          /\ fetching[q].phase = "answered" => fetching[q].data \in Data(q)
        BY DEF Typed, TypeOK, QueryShapes, Phases
    <2>2. cache'[q] \in Data(q) \cup {NoData}
        BY <2>1 DEF Turns, Fill
    <2>3. CASE fetching'[q] \in {fetching[q], Asked, NotAsked}
        BY <2>1, <2>2, <2>3 DEF Asked, NotAsked, Phases
    <2>4. CASE fetching'[q] = [phase |-> "answered", data |-> served(q)]
        BY <1>1, <2>2, <2>4 DEF Phases
    <2> QED BY <2>3, <2>4 DEF Turns, Turn
<1>3. \A q \in Queries : Data(q) \cup {NoData} \subseteq Contents
    BY DataKinds
<1>4. \A q \in Queries : cache'[q] \in Contents
                         /\ fetching'[q] \in [phase : Phases, data : Contents]
    BY <1>2, <1>3
<1> QED BY <1>2, <1>4 DEF Turns, QueryShapes, Data

(***************************************************************************)
(* What one step does to the requests: it leaves one, sends one, concludes *)
(* one, or answers one.                                                    *)
(***************************************************************************)
Hands == <<requests, dialog, removeError, results, verdict>>

Quiet == [c \in Channels |-> "none"]

HandTypes ==
    /\ requests \in [Slots -> Request \cup {NoRequest}]
    /\ ArgsFit
    /\ dialog \in Channels \cup {NoChannel} /\ removeError \in Channels \cup {NoChannel}
    /\ results \in [Channels -> ResultTexts] /\ verdict \in [Channels -> ResultTexts]

\* The request of a slot runs on with nobody to tell.
RunsOn(i) ==
    /\ requests[i] = NoRequest => requests'[i] = NoRequest
    /\ requests'[i] # NoRequest =>
         /\ requests[i] # NoRequest
         /\ requests'[i].kind = requests[i].kind /\ requests'[i].arg = requests[i].arg
         /\ requests'[i].phase = requests[i].phase /\ requests'[i].heard # "page"
         /\ requests[i].heard = "nobody" => requests'[i].heard = "nobody"

\* Everybody who waited is gone.
Left ==
    /\ requests' \in [Slots -> Request \cup {NoRequest}]
    /\ \A i \in Slots : RunsOn(i)
    /\ dialog' = NoChannel /\ removeError' = NoChannel /\ results' = Quiet /\ verdict' = Quiet

LEMMA LeftRuns ==
    ASSUME Typed, NEW who \in {"tab", "nobody"}, NEW i \in Slots
    PROVE  /\ leftTo(who)[i] \in Request \cup {NoRequest}
           /\ requests[i] = NoRequest => leftTo(who)[i] = NoRequest
           /\ requests[i] # NoRequest =>
                /\ leftTo(who)[i] # NoRequest
                /\ leftTo(who)[i].kind = requests[i].kind /\ leftTo(who)[i].arg = requests[i].arg
                /\ leftTo(who)[i].phase = requests[i].phase /\ leftTo(who)[i].heard # "page"
                /\ requests[i].heard = "nobody" => leftTo(who)[i].heard = "nobody"
                /\ leftTo(who)[i].heard \in {who, "nobody"}
<1>1. requests[i] \in Request \cup {NoRequest}
    BY DEF Typed, TypeOK
<1>2. CASE requests[i] = NoRequest
    BY <1>2 DEF leftTo
<1>3. CASE requests[i] # NoRequest /\ requests[i].heard = "nobody"
    <2>1. leftTo(who)[i] = requests[i]
        BY <1>3 DEF leftTo
    <2> QED BY <1>1, <1>3, <2>1
<1>4. CASE requests[i] # NoRequest /\ requests[i].heard # "nobody"
    <2>1. leftTo(who)[i] = [requests[i] EXCEPT !.heard = who]
        BY <1>4 DEF leftTo
    <2>2. /\ leftTo(who)[i] \in Request
          /\ leftTo(who)[i].kind = requests[i].kind /\ leftTo(who)[i].arg = requests[i].arg
          /\ leftTo(who)[i].phase = requests[i].phase /\ leftTo(who)[i].heard = who
        BY <1>1, <1>4, <2>1 DEF Request
    <2> QED BY <1>4, <2>2, Constants
<1> QED BY <1>2, <1>3, <1>4

LEMMA Unmounts ==
    ASSUME Typed, NEW who \in {"tab", "nobody"}, requests' = leftTo(who), forgetPage
    PROVE  Left
<1>1. leftTo(who) = [i \in Slots |-> leftTo(who)[i]]
    BY DEF leftTo
<1>2. requests' \in [Slots -> Request \cup {NoRequest}]
    BY <1>1, LeftRuns
<1>3. \A i \in Slots : RunsOn(i)
    BY LeftRuns DEF RunsOn
<1> QED BY <1>2, <1>3 DEF forgetPage, Left, Quiet

LEMMA CreatedLeaves ==
    ASSUME Typed, NEW i \in Slots, monitorCreated(i)
    PROVE  Left
<1>1. requests' = [leftTo("tab") EXCEPT ![i] = NoRequest]
      /\ leftTo("tab") = [j \in Slots |-> leftTo("tab")[j]]
    BY DEF monitorCreated, leftTo
<1>2. requests' \in [Slots -> Request \cup {NoRequest}] /\ requests'[i] = NoRequest
    BY <1>1, LeftRuns
<1>3. \A j \in Slots : j # i => requests'[j] = leftTo("tab")[j]
    BY <1>1
<1>4. \A j \in Slots : RunsOn(j)
    <2>1. RunsOn(i)
        BY <1>2 DEF RunsOn
    <2>2. \A j \in Slots : j # i => RunsOn(j)
        BY <1>3, LeftRuns DEF RunsOn
    <2> QED BY <2>1, <2>2
<1> QED BY <1>2, <1>4 DEF monitorCreated, forgetPage, Left, Quiet

\* The request of a free slot.
Sends(i, kind, arg) ==
    /\ requests[i] = NoRequest
    /\ requests' \in [Slots -> Request \cup {NoRequest}]
    /\ requests'[i] \in Request
    /\ requests'[i].kind = kind /\ requests'[i].arg = arg
    /\ requests'[i].phase = "sent" /\ requests'[i].heard = "page"
    /\ \A j \in Slots : j # i => requests'[j] = requests[j]

LEMMA SendSends ==
    ASSUME Typed, NEW kind \in Kinds, NEW arg \in Arguments, send(kind, arg)
    PROVE  /\ \E i \in Slots : Sends(i, kind, arg)
           /\ Mounted /\ ~Pending(kind) /\ clicks' \in 0..MaxClicks
<1> DEFINE r == [kind |-> kind, arg |-> arg, phase |-> "sent", heard |-> "page"]
<1>1. r \in Request
    BY DEF Request, Arguments
<1>2. r.kind = kind /\ r.arg = arg /\ r.phase = "sent" /\ r.heard = "page"
    OBVIOUS
<1>3. PICK i \in Slots : requests[i] = NoRequest /\ requests' = [requests EXCEPT ![i] = r]
    BY DEF send
<1> HIDE DEF r
<1>4. Sends(i, kind, arg)
    BY <1>1, <1>2, <1>3 DEF Typed, TypeOK, Sends
<1>5. clicks' \in 0..MaxClicks
    BY Constants DEF send, click, Typed, TypeOK
<1> QED BY <1>4, <1>5 DEF send, mayAsk

\* verdictIn: what a test came to, once its request is in this phase.
verdictIn == [sent |-> "none", ok |-> "sent", failed |-> "error"]

Concludes(i, phase) ==
    /\ requests[i] \in Request /\ requests[i] # NoRequest /\ requests[i].phase = "sent"
    /\ requests' \in [Slots -> Request \cup {NoRequest}]
    /\ requests'[i] \in Request
    /\ requests'[i].kind = requests[i].kind /\ requests'[i].arg = requests[i].arg
    /\ requests'[i].heard = requests[i].heard /\ requests'[i].phase = phase
    /\ \A j \in Slots : j # i => requests'[j] = requests[j]
    /\ judged(requests[i], verdictIn[phase])

LEMMA Concluded ==
    ASSUME Typed, NEW i \in Slots, NEW phase \in {"ok", "failed"},
           requests[i] # NoRequest, requests[i].phase = "sent",
           requests' = [requests EXCEPT ![i].phase = phase],
           judged(requests[i], verdictIn[phase])
    PROVE  Concludes(i, phase)
<1>1. requests[i] \in Request
    BY DEF Typed, TypeOK
<1> DEFINE r == [requests[i] EXCEPT !.phase = phase]
<1>2. /\ r \in Request /\ r.kind = requests[i].kind /\ r.arg = requests[i].arg
      /\ r.heard = requests[i].heard /\ r.phase = phase
    BY <1>1 DEF Request
<1>3. requests' = [requests EXCEPT ![i] = r]
    OBVIOUS
<1> HIDE DEF r
<1> QED BY <1>1, <1>2, <1>3 DEF Typed, TypeOK, Concludes

LEMMA ServerConcludes ==
    ASSUME Typed, NEW i \in Slots, Server(i)
    PROVE  Concludes(i, "ok") \/ Concludes(i, "failed")
<1>1. verdictIn["ok"] = "sent" /\ verdictIn["failed"] = "error"
    BY DEF verdictIn
<1> QED BY <1>1, Concluded DEF Server, handle, refuse

\* A request is answered and its slot is free again.
Frees(i) ==
    /\ requests[i] \in Request /\ requests[i] # NoRequest
    /\ requests' = [requests EXCEPT ![i] = NoRequest]
    /\ requests' \in [Slots -> Request \cup {NoRequest}] /\ requests'[i] = NoRequest
    /\ \A j \in Slots : j # i => requests'[j] = requests[j]

LEMMA AnswerFrees ==
    ASSUME Typed, NEW i \in Slots, answerOK(i) \/ answerFailed(i) \/ answerUnheard(i)
    PROVE  Frees(i)
BY DEF Typed, TypeOK, Frees, answerOK, answerFailed, answerUnheard

(***************************************************************************)
(* What one step does to the requests, the dialog and the results.         *)
(***************************************************************************)
SendsOther ==
    \E i \in Slots, kind \in Kinds \ {"test"}, arg \in Arguments :
        /\ Sends(i, kind, arg) /\ ~Pending(kind) /\ Fits(kind, arg)
        /\ IF kind = "remove" THEN dialog = arg /\ removeError' = NoChannel
                              ELSE UNCHANGED removeError
        /\ UNCHANGED <<dialog, results, verdict>>

SendsTest ==
    \E i \in Slots, c \in Channels :
        /\ Sends(i, "test", c) /\ ~Pending("test")
        /\ results' = [results EXCEPT ![c] = "sending"]
        /\ verdict' = [verdict EXCEPT ![c] = "none"]
        /\ UNCHANGED <<dialog, removeError>>

TurnsDialog ==
    /\ ~Pending("remove")
    /\ dialog' \in Channels \cup {NoChannel}
    /\ dialog' # NoChannel => Mounted /\ page = "channels" /\ cache["channels"] # NoData
    /\ UNCHANGED <<requests, removeError, results, verdict>>

Serves ==
    \E i \in Slots, phase \in {"ok", "failed"} :
        Server(i) /\ Concludes(i, phase) /\ UNCHANGED <<dialog, removeError, results>>

Tells ==
    \E i \in Slots :
        /\ Frees(i) /\ requests[i].phase \in {"ok", "failed"} /\ UNCHANGED verdict
        /\ dialog' \in {dialog, NoChannel} /\ removeError' \in {removeError, requests[i].arg}
        /\ dialog' # dialog \/ removeError' # removeError =>
             requests[i].kind = "remove" /\ requests[i].heard = "page"
        /\ results' = IF requests[i].kind = "test" /\ requests[i].heard = "page"
                      THEN [results EXCEPT ![requests[i].arg] = textOf(requests[i])] ELSE results

HandStep ==
    Left \/ SendsOther \/ SendsTest \/ TurnsDialog \/ Serves \/ Tells \/ UNCHANGED Hands

LEMMA AskSteps ==
    ASSUME Typed,
           \/ createChannel \/ confirmRemove \/ createMonitor \/ toggleStatusPage
           \/ \E c \in Channels : testChannel(c)
    PROVE  HandStep
<1>1. CASE createChannel \/ createMonitor
    <2>1. PICK kind \in {"create", "monitor"} : send(kind, NoChannel)
        BY <1>1 DEF createChannel, createMonitor
    <2>2. kind \in Kinds \ {"test"} /\ NoChannel \in Arguments /\ Fits(kind, NoChannel)
        BY DEF Kinds, Arguments, Fits
    <2>3. UNCHANGED <<dialog, removeError, results, verdict>>
        BY <1>1 DEF createChannel, createMonitor
    <2>4. SendsOther
        BY <2>1, <2>2, <2>3, SendSends DEF SendsOther
    <2> QED BY <2>4 DEF HandStep
<1>2. CASE confirmRemove
    <2>1. dialog \in Channels /\ send("remove", dialog)
        BY <1>2 DEF confirmRemove, Typed, TypeOK
    <2>2. "remove" \in Kinds \ {"test"} /\ dialog \in Arguments /\ Fits("remove", dialog)
        BY <2>1 DEF Kinds, Arguments, Fits
    <2>3. removeError' = NoChannel /\ UNCHANGED <<dialog, results, verdict>>
        BY <1>2 DEF confirmRemove
    <2>4. SendsOther
        BY <2>1, <2>2, <2>3, SendSends DEF SendsOther
    <2> QED BY <2>4 DEF HandStep
<1>3. CASE toggleStatusPage
    <2>1. PICK asked \in BOOLEAN : send("settings", asked)
        BY <1>3, Zenon DEF toggleStatusPage
    <2>2. "settings" \in Kinds \ {"test"} /\ asked \in Arguments /\ Fits("settings", asked)
        BY DEF Kinds, Arguments, Fits
    <2>3. UNCHANGED <<dialog, removeError, results, verdict>>
        BY <1>3 DEF toggleStatusPage
    <2>4. SendsOther
        BY <2>1, <2>2, <2>3, SendSends DEF SendsOther
    <2> QED BY <2>4 DEF HandStep
<1>4. ASSUME NEW c \in Channels, testChannel(c) PROVE HandStep
    <2>1. "test" \in Kinds /\ c \in Arguments
        BY DEF Kinds, Arguments
    <2>2. SendsTest
        BY <1>4, <2>1, SendSends DEF testChannel, SendsTest
    <2> QED BY <2>2 DEF HandStep
<1> QED BY <1>1, <1>2, <1>3, <1>4

LEMMA TellSteps ==
    ASSUME Typed, NEW i \in Slots, answerOK(i) \/ answerFailed(i) \/ answerUnheard(i)
    PROVE  HandStep
<1>1. Frees(i)
    BY AnswerFrees
<1>2. verdict' = verdict /\ requests[i].phase \in {"ok", "failed"}
    BY <1>1 DEF answerOK, answerFailed, answerUnheard, Frees, Request
<1>3. CASE answerOK(i)
    <2>1. requests[i].phase = "ok"
        BY <1>3 DEF answerOK
    <2>2. CASE requests[i].kind = "remove"
        <3>1. removedOne(requests[i])
            BY <1>3, <2>2 DEF answerOK
        <3> QED BY <1>1, <1>2, <2>1, <2>2, <3>1 DEF removedOne, Tells, HandStep
    <2>3. CASE requests[i].kind # "remove"
        <3>1. \/ created(requests[i]) /\ requests[i].kind = "create"
              \/ tested(requests[i]) /\ UNCHANGED removeError
              \/ switched(requests[i]) /\ requests[i].kind = "settings"
            BY <1>3, <2>3 DEF answerOK
        <3>2. Tells
            BY <1>1, <1>2, <2>1, <2>3, <3>1 DEF created, tested, switched, Tells
        <3> QED BY <3>2 DEF HandStep
    <2> QED BY <2>2, <2>3
<1>4. CASE answerFailed(i)
    <2>1. Tells
        BY <1>1, <1>2, <1>4 DEF answerFailed, tested, Tells
    <2> QED BY <2>1 DEF HandStep
<1>5. CASE answerUnheard(i)
    <2>1. Tells
        BY <1>1, <1>2, <1>5 DEF answerUnheard, Tells
    <2> QED BY <2>1 DEF HandStep
<1> QED BY <1>3, <1>4, <1>5

LEMMA HandSteps ==
    ASSUME Typed, [Next]_vars
    PROVE  HandStep
<1>1. CASE receiveMeAnswer \/ reloadTab \/ \E p \in Pages : visit(p)
    <2>1. \/ UNCHANGED Hands
          \/ forgetPage /\ \E who \in {"tab", "nobody"} : requests' = leftTo(who)
        BY <1>1 DEF receiveMeAnswer, reloadTab, visit, unmount, Hands
    <2> QED BY <2>1, Unmounts DEF HandStep
<1>2. CASE \/ createChannel \/ confirmRemove \/ createMonitor \/ toggleStatusPage
           \/ \E c \in Channels : testChannel(c)
    BY <1>2, AskSteps
<1>3. ASSUME NEW c \in Channels, openDialog(c) PROVE HandStep
    <2>1. cache["channels"] # NoData
        BY <1>3 DEF openDialog, mayOpenDialog, Listed
    <2>2. TurnsDialog
        BY <1>3, <2>1 DEF openDialog, mayOpenDialog, TurnsDialog
    <2> QED BY <2>2 DEF HandStep
<1>4. CASE closeDialog
    BY <1>4 DEF closeDialog, TurnsDialog, HandStep
<1>5. ASSUME NEW i \in Slots, Server(i) PROVE HandStep
    <2>1. UNCHANGED <<dialog, removeError, results>>
        BY <1>5 DEF Server, handle, refuse
    <2> QED BY <1>5, <2>1, ServerConcludes DEF Serves, HandStep
<1>6. ASSUME NEW i \in Slots, Answer(i) PROVE HandStep
    BY <1>6, TellSteps, CreatedLeaves DEF Answer, HandStep
<1>7. CASE \/ Background /\ UNCHANGED pageVars
           \/ \E q \in Queries : Query(q) \/ readFails(q)
           \/ elsewhere \/ UNCHANGED vars
    <2>1. UNCHANGED Hands
        BY <1>7 DEF pageVars, Query, poll, read, receive, readFails, elsewhere, vars, Hands
    <2> QED BY <2>1 DEF HandStep
<1> QED BY <1>1, <1>2, <1>3, <1>4, <1>5, <1>6, <1>7 DEF Next, User

LEMMA TextTypes == \A r : textOf(r) \in ResultTexts
BY DEF textOf, ResultTexts

LEMMA HandTypesKept ==
    ASSUME Typed, HandStep
    PROVE  HandTypes'
<1> USE DEF HandTypes
<1>1. /\ requests \in [Slots -> Request \cup {NoRequest}] /\ dialog \in Channels \cup {NoChannel}
      /\ removeError \in Channels \cup {NoChannel}
      /\ results \in [Channels -> ResultTexts] /\ verdict \in [Channels -> ResultTexts]
      /\ \A i \in Slots : requests[i] # NoRequest => Fits(requests[i].kind, requests[i].arg)
    BY DEF Typed, TypeOK, ArgsFit
<1>2. CASE Left
    <2>1. Quiet \in [Channels -> ResultTexts]
        BY DEF Quiet, ResultTexts
    <2>2. ArgsFit'
        BY <1>1, <1>2 DEF Left, RunsOn, ArgsFit
    <2> QED BY <1>2, <2>1, <2>2 DEF Left
<1>3. CASE SendsOther
    <2>1. ArgsFit'
        BY <1>1, <1>3 DEF SendsOther, Sends, ArgsFit
    <2> QED BY <1>1, <1>3, <2>1 DEF SendsOther, Sends
<1>4. CASE SendsTest
    <2>1. ArgsFit'
        BY <1>1, <1>4 DEF SendsTest, Sends, ArgsFit, Fits
    <2> QED BY <1>1, <1>4, <2>1 DEF SendsTest, Sends, ResultTexts
<1>5. CASE TurnsDialog
    BY <1>1, <1>5 DEF TurnsDialog, ArgsFit
<1>6. CASE Serves
    <2>1. PICK i \in Slots, phase \in {"ok", "failed"} :
            Concludes(i, phase) /\ UNCHANGED <<dialog, removeError, results>>
        BY <1>6 DEF Serves
    <2>2. ArgsFit'
        BY <1>1, <2>1 DEF Concludes, ArgsFit
    <2>3. verdictIn[phase] \in ResultTexts
        BY DEF verdictIn, ResultTexts
    <2>4. verdict' \in [Channels -> ResultTexts]
        BY <1>1, <2>1, <2>3 DEF Concludes, judged
    <2> QED BY <1>1, <2>1, <2>2, <2>4 DEF Concludes
<1>7. CASE Tells
    <2>1. PICK i \in Slots :
            /\ Frees(i)
            /\ dialog' \in {dialog, NoChannel} /\ verdict' = verdict
            /\ \/ removeError' = removeError
               \/ removeError' = requests[i].arg /\ requests[i].kind = "remove"
            /\ results' \in {results, [results EXCEPT ![requests[i].arg] = textOf(requests[i])]}
        BY <1>7 DEF Tells
    <2>2. ArgsFit'
        BY <1>1, <2>1 DEF Frees, ArgsFit
    <2>3. results' \in [Channels -> ResultTexts]
        BY <1>1, <2>1, TextTypes
    <2>4. removeError' \in Channels \cup {NoChannel}
        BY <1>1, <2>1 DEF Frees, Fits
    <2> QED BY <1>1, <2>1, <2>2, <2>3, <2>4 DEF Frees
<1>8. CASE UNCHANGED Hands
    BY <1>1, <1>8 DEF Hands, ArgsFit
<1> QED BY <1>2, <1>3, <1>4, <1>5, <1>6, <1>7, <1>8 DEF HandStep

(***************************************************************************)
(* The rest of the state: the shell, the page, the server and the counters.*)
(***************************************************************************)
ServerTypes ==
    /\ public \in BOOLEAN /\ watching \in BOOLEAN
    /\ live \subseteq Channels /\ unused \subseteq Channels \ live

ShellTypes ==
    /\ me \in Me /\ meFetch \in MeFetch /\ faults \in 0..MaxFaults
    /\ page \in Pages /\ clicks \in 0..MaxClicks

LEMMA MeTypes == MeAsked \in MeFetch /\ MeIdle \in MeFetch /\ MeUnknown \in Me
BY DEF MeAsked, MeIdle, MeUnknown, MeFetch, Me

LEMMA ServerTypesKept ==
    ASSUME Typed, [Next]_vars
    PROVE  ServerTypes'
<1> USE DEF ServerTypes
<1>1. ServerTypes
    BY DEF Typed, TypeOK, SessionTypeOK
<1>2. ASSUME NEW i \in Slots, handle(i) PROVE ServerTypes'
    <2>1. requests[i].kind = "settings" => requests[i].arg \in BOOLEAN
        BY <1>2 DEF handle, Typed, ArgsFit, Fits
    <2>2. public' \in BOOLEAN
        BY <1>1, <1>2, <2>1 DEF handle, carriedOut
    <2>3. watching' \in BOOLEAN
        BY <1>1, <1>2 DEF handle, carriedOut
    <2>4. live' \subseteq Channels /\ unused' \subseteq Channels \ live'
        BY <1>1, <1>2 DEF handle, carriedOut
    <2> QED BY <2>2, <2>3, <2>4
<1>3. CASE elsewhere
    <2>1. public' \in BOOLEAN /\ watching' \in BOOLEAN
        BY <1>1, <1>3, Zenon DEF elsewhere, sessionVars
    <2>2. live' \subseteq Channels /\ unused' \subseteq Channels \ live'
        BY <1>1, <1>3 DEF elsewhere
    <2> QED BY <2>1, <2>2
<1>4. ASSUME UNCHANGED <<public, watching, live, unused>> PROVE ServerTypes'
    BY <1>1, <1>4
<1>5. CASE \/ Background /\ UNCHANGED pageVars
           \/ receiveMeAnswer
           \/ \E q \in Queries : Query(q) \/ readFails(q)
           \/ User
           \/ UNCHANGED vars
    BY <1>4, <1>5 DEF Background, pollMe, readMe, readMeFails, receiveMeAnswer, receiveMe, Query, poll,
       read, receive, readFails, User, createChannel, closeDialog, confirmRemove, createMonitor,
       toggleStatusPage, reloadTab, reload, visit, openDialog, testChannel, sessionVars, pageVars, vars
<1>6. ASSUME NEW i \in Slots, refuse(i) \/ Answer(i) PROVE ServerTypes'
    BY <1>4, <1>6 DEF refuse, Answer, answerOK, monitorCreated, answerFailed, answerUnheard, sessionVars
<1> QED BY <1>2, <1>3, <1>5, <1>6 DEF Next, Server

LEMMA ShellTypesKept ==
    ASSUME Typed, [Next]_vars
    PROVE  ShellTypes'
<1> USE DEF ShellTypes
<1>1. ShellTypes /\ public \in BOOLEAN
    BY DEF Typed, TypeOK, SessionTypeOK
<1>2. ASSUME UNCHANGED <<me, meFetch, faults, page, clicks>> PROVE ShellTypes'
    BY <1>1, <1>2
<1>3. ASSUME faults < MaxFaults, faults' = faults + 1 PROVE faults' \in 0..MaxFaults
    BY <1>1, <1>3, Constants
<1>4. ASSUME click PROVE clicks' \in 0..MaxClicks
    BY <1>1, <1>4, Constants DEF click
<1>5. CASE Background /\ UNCHANGED pageVars
    <2>1. meFetch' \in MeFetch
        BY <1>1, <1>5, MeTypes DEF Background, pollMe, readMe, readMeFails, MeFetch
    <2> QED BY <1>1, <1>3, <1>5, <2>1 DEF Background, pollMe, readMe, readMeFails, pageVars
<1>6. CASE receiveMeAnswer
    <2>1. me' \in Me
        BY <1>1, <1>6 DEF receiveMeAnswer, receiveMe, Me, MeFetch
    <2> QED BY <1>1, <1>6, <2>1, MeTypes DEF receiveMeAnswer, receiveMe
<1>7. ASSUME NEW q \in Queries, Query(q) \/ readFails(q) PROVE ShellTypes'
    BY <1>1, <1>2, <1>3, <1>7 DEF Query, poll, read, receive, readFails, sessionVars
<1>8. CASE reloadTab
    BY <1>1, <1>4, <1>8, MeTypes DEF reloadTab, reload
<1>9. ASSUME NEW p \in Pages, visit(p) PROVE ShellTypes'
    BY <1>1, <1>4, <1>9 DEF visit, sessionVars
<1>10. CASE \/ createChannel \/ confirmRemove \/ createMonitor \/ toggleStatusPage \/ elsewhere
            \/ \E c \in Channels : testChannel(c)
    <2>1. click /\ UNCHANGED <<me, meFetch, faults, page>>
        BY <1>10 DEF createChannel, confirmRemove, createMonitor, toggleStatusPage, elsewhere,
           testChannel, send, sessionVars
    <2> QED BY <1>1, <1>4, <2>1
<1>11. CASE closeDialog \/ \E c \in Channels : openDialog(c)
    BY <1>2, <1>11 DEF closeDialog, openDialog, sessionVars
<1>12. ASSUME NEW i \in Slots, Server(i) PROVE ShellTypes'
    BY <1>1, <1>3, <1>12 DEF Server, handle, refuse
<1>13. ASSUME NEW i \in Slots, Answer(i) PROVE ShellTypes'
    <2>1. UNCHANGED <<me, faults, clicks>>
        BY <1>13 DEF Answer, answerOK, monitorCreated, answerFailed, answerUnheard, sessionVars
    <2>2. page' \in {page, "monitors"} /\ meFetch' \in {meFetch, MeAsked}
        BY <1>13 DEF Answer, answerOK, monitorCreated, answerFailed, answerUnheard, created, removedOne, tested,
           switched, sessionVars
    <2> QED BY <1>1, <2>1, <2>2, MeTypes DEF Pages
<1>14. CASE UNCHANGED vars
    BY <1>2, <1>14 DEF vars, sessionVars, pageVars
<1> QED BY <1>5, <1>6, <1>7, <1>8, <1>9, <1>10, <1>11, <1>12, <1>13, <1>14 DEF Next, User

\* The only step that adds to the removed channels is the answer to a removal.
LEMMA RemovedSteps ==
    ASSUME Typed, [Next]_vars
    PROVE  \/ removed' \subseteq removed
           \/ \E i \in Slots :
                /\ Frees(i) /\ requests[i].kind = "remove" /\ requests[i].phase = "ok"
                /\ requests[i].heard # "nobody" /\ requests[i].arg \in Channels
                /\ "channels" \in used \/ fetching["channels"].phase = "idle"
                /\ removed' = removed \cup {requests[i].arg}
                /\ invalidate("channels")
                /\ UNCHANGED <<page, me, cache, live, unused>>
<1> DEFINE Told == "channels" \in used \/ fetching["channels"].phase = "idle"
<1>1. ASSUME NEW i \in Slots, answerOK(i), requests[i].kind = "remove", Told
      PROVE  /\ Frees(i) /\ requests[i].phase = "ok" /\ requests[i].arg \in Channels
             /\ requests[i].heard # "nobody"
             /\ removed' = removed \cup {requests[i].arg} /\ invalidate("channels")
             /\ UNCHANGED <<page, me, cache, live, unused>>
    <2>1. removedOne(requests[i]) /\ requests[i] # NoRequest
        BY <1>1 DEF answerOK
    <2> QED BY <1>1, <2>1, AnswerFrees DEF answerOK, removedOne, Typed, ArgsFit, Fits
<1>2. ASSUME NEW i \in Slots, answerOK(i), ~(requests[i].kind = "remove" /\ Told)
      PROVE  removed' = removed
    BY <1>2 DEF answerOK, created, removedOne, tested, switched
<1>3. ASSUME NEW i \in Slots, Server(i) \/ monitorCreated(i) \/ answerFailed(i)
                              \/ answerUnheard(i)
      PROVE  removed' = removed
    BY <1>3 DEF Server, handle, refuse, monitorCreated, answerFailed, answerUnheard, tested
<1>4. CASE reloadTab
    BY <1>4 DEF reloadTab
<1>5. CASE \/ Background /\ UNCHANGED pageVars
           \/ receiveMeAnswer
           \/ \E q \in Queries : Query(q) \/ readFails(q)
           \/ createChannel \/ closeDialog \/ confirmRemove \/ createMonitor \/ toggleStatusPage
           \/ \E p \in Pages : visit(p)
           \/ \E c \in Channels : openDialog(c) \/ testChannel(c)
           \/ elsewhere \/ UNCHANGED vars
    BY <1>5 DEF receiveMeAnswer, Query, poll, read, receive, readFails, createChannel, closeDialog,
       confirmRemove, createMonitor, toggleStatusPage, visit, openDialog, testChannel, elsewhere,
       pageVars, vars
<1> QED BY <1>1, <1>2, <1>3, <1>4, <1>5 DEF Next, User, Answer

LEMMA TypedInit == Init => Typed
<1> SUFFICES ASSUME Init PROVE Typed
    OBVIOUS
<1>1. SessionTypeOK
    <2>1. me \in Me /\ meFetch \in MeFetch
        BY MeTypes DEF Init, SessionInit
    <2>2. faults \in 0..MaxFaults
        BY Constants DEF Init, SessionInit
    <2>3. public \in BOOLEAN
        BY Zenon DEF Init, SessionInit
    <2> QED BY <2>1, <2>2, <2>3 DEF SessionTypeOK
<1>2. QueryShapes /\ \A q \in Queries :
        /\ cache[q] \in Data(q) \cup {NoData}
        /\ fetching[q] \in [phase : {"idle", "asked", "answered"}, data : Data(q) \cup {NoData}]
    <2>1. \A q \in Queries : cache[q] = NoData /\ fetching[q] = NotAsked
        BY DEF Init
    <2>2. NoData \in Contents /\ NotAsked.phase = "idle"
        BY DEF Contents, NotAsked
    <2>3. \A q \in Queries :
            fetching[q] \in [phase : {"idle", "asked", "answered"}, data : Data(q) \cup {NoData}]
        BY <2>1 DEF NotAsked
    <2>4. fetching \in [Queries -> [phase : Phases, data : Contents]]
        BY <2>2 DEF Init, NotAsked, Phases
    <2> QED BY <2>1, <2>2, <2>3, <2>4 DEF Init, QueryShapes
<1>3. results \in [Channels -> ResultTexts] /\ verdict \in [Channels -> ResultTexts]
    BY DEF Init, ResultTexts
<1>4. requests \in [Slots -> Request \cup {NoRequest}] /\ ArgsFit
    BY DEF Init, ArgsFit
<1> QED BY <1>1, <1>2, <1>3, <1>4, Constants DEF Init, Typed, TypeOK

LEMMA TypedStep == Typed /\ [Next]_vars => Typed'
<1> SUFFICES ASSUME Typed, [Next]_vars PROVE Typed'
    OBVIOUS
<1>1. Turns /\ HandStep
    BY QueriesTurn, HandSteps
<1>2. /\ QueryShapes'
      /\ (\A q \in Queries :
            /\ cache[q] \in Data(q) \cup {NoData}
            /\ fetching[q] \in [phase : Phases, data : Data(q) \cup {NoData}])'
    BY <1>1, QueryTypes
<1>3. HandTypes'
    BY <1>1, HandTypesKept
<1>4. ServerTypes' /\ ShellTypes'
    BY ServerTypesKept, ShellTypesKept
<1>5. removed' \subseteq Channels
    BY RemovedSteps DEF Typed, TypeOK
<1>6. stale' \subseteq Queries /\ failing' \subseteq Queries
    BY <1>1 DEF Turns
<1>7. SessionTypeOK'
    BY <1>4 DEF SessionTypeOK, ServerTypes, ShellTypes
<1>8. TypeOK'
    BY <1>2, <1>3, <1>4, <1>5, <1>6, <1>7
       DEF TypeOK, HandTypes, ServerTypes, ShellTypes, Phases
<1> QED BY <1>2, <1>3, <1>8 DEF Typed, HandTypes

\* Every page, list, request and result keeps its type, for any number of
\* channels and of changes in flight.
THEOREM TypeCorrect == Spec => []TypeOK
<1>1. Typed => TypeOK
    BY DEF Typed
<1> QED BY <1>1, TypedInit, TypedStep, PTL DEF Spec

(***************************************************************************)
(* The dialog and the results.  A kind of change is waited for once at a   *)
(* time; a removal is waited for under its dialog, and a test beside its   *)
(* channel, where nothing else is written meanwhile.                       *)
(***************************************************************************)
Owned(i) == requests[i] # NoRequest /\ requests[i].heard = "page"

OneOwnedEach ==
    \A i, j \in Slots :
        Owned(i) /\ Owned(j) /\ requests[i].kind = requests[j].kind => i = j

DialogOnItsPage ==
    dialog # NoChannel => Mounted /\ page = "channels" /\ cache["channels"] # NoData

TestAwaited ==
    \A i \in Slots : Owned(i) /\ requests[i].kind = "test" =>
        /\ results[requests[i].arg] = "sending"
        /\ verdict[requests[i].arg] = verdictIn[requests[i].phase]

HandInv ==
    /\ OneOwnedEach /\ DialogNamesTheRemoval /\ DialogOnItsPage
    /\ TestAwaited /\ TestTellsItsOutcome

LEMMA HandInit == Init => HandInv
BY DEF Init, HandInv, OneOwnedEach, Owned, DialogNamesTheRemoval, DialogOnItsPage, TestAwaited,
       TestTellsItsOutcome

\* A list that was once read stands until the tab is reloaded.
LEMMA ListStays ==
    ASSUME Typed, [Next]_vars, ~reloadTab, cache["channels"] # NoData
    PROVE  cache'["channels"] # NoData
<1>1. CASE \E q \in Queries : receive(q)
    <2>1. \/ cache'["channels"] = cache["channels"]
          \/ /\ fetching["channels"].phase = "answered"
             /\ cache'["channels"] = fetching["channels"].data
        BY <1>1 DEF receive, Typed, QueryShapes, Queries
    <2>2. fetching["channels"].phase = "answered" => fetching["channels"].data # NoData
        BY DataKinds DEF Typed, QueryShapes, Queries
    <2> QED BY <2>1, <2>2
<1>2. CASE ~\E q \in Queries : receive(q)
    <2>1. cache' = cache
        BY <1>2 DEF Next, pageVars, receiveMeAnswer, Query, poll, read, readFails, User,
           createChannel, closeDialog, confirmRemove, createMonitor, toggleStatusPage, openDialog,
           testChannel, visit, elsewhere, Server, handle, refuse, Answer, answerOK, monitorCreated,
           answerFailed, answerUnheard, vars
    <2> QED BY <2>1
<1> QED BY <1>1, <1>2

\* The page stays where it is, with its list, unless everybody leaves it.
LEMMA PageStays ==
    ASSUME Typed, [Next]_vars, ~Left
    PROVE  /\ page' = page /\ (Mounted' <=> Mounted)
           /\ cache["channels"] # NoData => cache'["channels"] # NoData
<1>1. ~(unmount \/ \E i \in Slots : monitorCreated(i))
    BY Unmounts, CreatedLeaves DEF unmount
<1>2. ~(reloadTab \/ \E p \in Pages : visit(p))
    BY <1>1, Unmounts DEF reloadTab, visit
<1>3. page' = page
    BY <1>1, <1>2 DEF Next, pageVars, receiveMeAnswer, Query, poll, read, receive, readFails, User,
       createChannel, closeDialog, confirmRemove, createMonitor, toggleStatusPage, openDialog,
       testChannel, elsewhere, Server, handle, refuse, Answer, answerOK, answerFailed, answerUnheard, created,
       removedOne, tested, switched, vars
<1>4. Mounted' <=> Mounted
    <2>1. CASE receiveMeAnswer
        BY <1>1, <2>1 DEF receiveMeAnswer
    <2>2. CASE ~receiveMeAnswer
        <3>1. me' = me
            BY <1>1, <1>2, <2>2 DEF Next, Background, pollMe, readMe, readMeFails, Query, poll, read,
               receive, readFails, User, createChannel, closeDialog, confirmRemove, createMonitor,
               toggleStatusPage, openDialog, testChannel, elsewhere, Server, handle, refuse, Answer,
               answerOK, answerFailed, answerUnheard, sessionVars, vars
        <3> QED BY <3>1 DEF Mounted
    <2> QED BY <2>1, <2>2
<1> QED BY <1>2, <1>3, <1>4, ListStays

LEMMA NobodyWaits ==
    ASSUME Left
    PROVE  HandInv'
<1>1. \A i \in Slots : ~Owned(i)'
    BY DEF Left, RunsOn, Owned
<1> QED BY <1>1 DEF Left, Quiet, HandInv, OneOwnedEach, Owned, DialogNamesTheRemoval,
                    DialogOnItsPage, TestAwaited, TestTellsItsOutcome

LEMMA SendsOtherHands ==
    ASSUME Typed, HandInv, SendsOther
    PROVE  (OneOwnedEach /\ DialogNamesTheRemoval /\ TestAwaited /\ TestTellsItsOutcome)'
<1>1. PICK i \in Slots, kind \in Kinds \ {"test"}, arg \in Arguments :
        /\ Sends(i, kind, arg) /\ ~Pending(kind)
        /\ IF kind = "remove" THEN dialog = arg /\ removeError' = NoChannel
                              ELSE UNCHANGED removeError
        /\ UNCHANGED <<dialog, results, verdict>>
    BY DEF SendsOther
<1>2. \A j \in Slots : Owned(j)' => j = i \/ (Owned(j) /\ requests'[j] = requests[j])
    BY <1>1 DEF Owned, Sends
<1>3. \A j \in Slots : Owned(j) => requests[j].kind # kind
    BY <1>1 DEF Pending, Owned
<1>4. OneOwnedEach'
    BY <1>1, <1>2, <1>3 DEF HandInv, OneOwnedEach, Sends
<1>5. DialogNamesTheRemoval'
    BY <1>1 DEF HandInv, DialogNamesTheRemoval, Sends
<1>6. TestAwaited'
    BY <1>1, <1>2 DEF HandInv, TestAwaited, Sends
<1> QED BY <1>1, <1>4, <1>5, <1>6 DEF HandInv, TestTellsItsOutcome

LEMMA SendsTestHands ==
    ASSUME Typed, HandInv, SendsTest
    PROVE  (OneOwnedEach /\ DialogNamesTheRemoval /\ TestAwaited /\ TestTellsItsOutcome)'
<1>1. PICK i \in Slots, c \in Channels :
        /\ Sends(i, "test", c) /\ ~Pending("test") /\ UNCHANGED <<dialog, removeError>>
        /\ results' = [results EXCEPT ![c] = "sending"]
        /\ verdict' = [verdict EXCEPT ![c] = "none"]
    BY DEF SendsTest
<1>2. \A j \in Slots : Owned(j)' => j = i \/ (Owned(j) /\ requests'[j] = requests[j])
    BY <1>1 DEF Owned, Sends
<1>3. \A j \in Slots : Owned(j) => requests[j].kind # "test"
    BY <1>1 DEF Pending, Owned
<1>4. OneOwnedEach'
    BY <1>1, <1>2, <1>3 DEF HandInv, OneOwnedEach, Sends
<1>5. DialogNamesTheRemoval'
    BY <1>1 DEF HandInv, DialogNamesTheRemoval, Sends
<1>6. /\ results'[c] = "sending" /\ verdict'[c] = "none"
      /\ \A d \in Channels : d # c => results'[d] = results[d] /\ verdict'[d] = verdict[d]
    BY <1>1 DEF Typed, TypeOK
<1>7. TestAwaited'
    BY <1>1, <1>2, <1>3, <1>6 DEF TestAwaited, Sends, verdictIn
<1>8. TestTellsItsOutcome'
    BY <1>6 DEF HandInv, TestTellsItsOutcome
<1> QED BY <1>4, <1>5, <1>7, <1>8

LEMMA ServesHands ==
    ASSUME Typed, HandInv, Serves
    PROVE  (OneOwnedEach /\ DialogNamesTheRemoval /\ TestAwaited /\ TestTellsItsOutcome)'
<1>1. PICK i \in Slots, phase \in {"ok", "failed"} :
        Concludes(i, phase) /\ UNCHANGED <<dialog, removeError, results>>
    BY DEF Serves
<1>2. \A j \in Slots : Owned(j)' => /\ Owned(j) /\ requests'[j].kind = requests[j].kind
                                    /\ requests'[j].arg = requests[j].arg
                                    /\ j # i => requests'[j] = requests[j]
    BY <1>1 DEF Owned, Concludes
<1>3. OneOwnedEach' /\ DialogNamesTheRemoval'
    BY <1>1, <1>2 DEF HandInv, OneOwnedEach, DialogNamesTheRemoval, Owned
<1>4. CASE requests[i].kind = "test" /\ requests[i].heard = "page"
    <2> DEFINE c == requests[i].arg
    <2>1. c \in Channels /\ results[c] = "sending" /\ Owned(i)
        BY <1>1, <1>4 DEF Concludes, Owned, HandInv, TestAwaited, Typed, ArgsFit, Fits
    <2>2. /\ verdict'[c] = verdictIn[phase] /\ requests'[i].phase = phase
          /\ \A d \in Channels : d # c => verdict'[d] = verdict[d]
        BY <1>1, <1>4, <2>1 DEF Concludes, judged, Typed, TypeOK
    <2>3. \A j \in Slots : Owned(j)' /\ requests'[j].kind = "test" => j = i
        BY <1>2, <1>4, <2>1 DEF HandInv, OneOwnedEach
    <2>4. TestAwaited'
        BY <1>1, <1>2, <2>1, <2>2, <2>3 DEF TestAwaited
    <2>5. TestTellsItsOutcome'
        BY <1>1, <2>1, <2>2 DEF HandInv, TestTellsItsOutcome
    <2> QED BY <1>3, <2>4, <2>5
<1>5. CASE ~(requests[i].kind = "test" /\ requests[i].heard = "page")
    <2>1. verdict' = verdict
        BY <1>1, <1>5 DEF Concludes, judged
    <2>2. \A j \in Slots : Owned(j)' /\ requests'[j].kind = "test" => j # i
        BY <1>2, <1>5 DEF Owned
    <2> QED BY <1>1, <1>2, <1>3, <2>1, <2>2 DEF HandInv, TestAwaited, TestTellsItsOutcome
<1> QED BY <1>4, <1>5

LEMMA TellsHands ==
    ASSUME Typed, HandInv, Tells
    PROVE  (OneOwnedEach /\ DialogNamesTheRemoval /\ TestAwaited /\ TestTellsItsOutcome)'
<1>1. PICK i \in Slots :
        /\ Frees(i) /\ requests[i].phase \in {"ok", "failed"} /\ verdict' = verdict
        /\ dialog' \in {dialog, NoChannel} /\ removeError' \in {removeError, requests[i].arg}
        /\ dialog' # dialog \/ removeError' # removeError =>
             requests[i].kind = "remove" /\ requests[i].heard = "page"
        /\ results' = IF requests[i].kind = "test" /\ requests[i].heard = "page"
                      THEN [results EXCEPT ![requests[i].arg] = textOf(requests[i])] ELSE results
    BY DEF Tells
<1>2. \A j \in Slots : Owned(j)' => j # i /\ Owned(j) /\ requests'[j] = requests[j]
    BY <1>1 DEF Owned, Frees
<1>3. OneOwnedEach'
    BY <1>2 DEF HandInv, OneOwnedEach
<1>4. \A j \in Slots : Owned(j)' /\ Owned(i) => requests[j].kind # requests[i].kind
    BY <1>2 DEF HandInv, OneOwnedEach
<1>5. requests[i] # NoRequest
    BY <1>1 DEF Frees
<1>6. DialogNamesTheRemoval'
    <2> SUFFICES ASSUME NEW j \in Slots, Owned(j)', requests'[j].kind = "remove"
                 PROVE  dialog' = requests'[j].arg /\ removeError' = NoChannel
        BY DEF DialogNamesTheRemoval, Owned
    <2>1. /\ dialog = requests[j].arg /\ removeError = NoChannel
          /\ requests'[j] = requests[j] /\ requests[j].kind = "remove"
        BY <1>2 DEF HandInv, DialogNamesTheRemoval, Owned
    <2> QED BY <1>1, <1>4, <1>5, <2>1 DEF Owned
<1>7. CASE requests[i].kind = "test" /\ requests[i].heard = "page"
    <2> DEFINE c == requests[i].arg
    <2>1. Owned(i)
        BY <1>5, <1>7 DEF Owned
    <2>2. c \in Channels /\ verdict[c] = verdictIn[requests[i].phase]
        BY <1>5, <1>7, <2>1 DEF HandInv, TestAwaited, Typed, ArgsFit, Fits
    <2>3. textOf(requests[i]) = verdictIn[requests[i].phase]
        BY <1>1 DEF textOf, verdictIn
    <2>4. results'[c] = verdict'[c] /\ \A d \in Channels : d # c => results'[d] = results[d]
        BY <1>1, <1>7, <2>2, <2>3 DEF Typed, TypeOK
    <2>5. TestTellsItsOutcome'
        BY <1>1, <2>4 DEF HandInv, TestTellsItsOutcome
    <2>6. TestAwaited'
        BY <1>2, <1>4, <1>7, <2>1 DEF TestAwaited
    <2> QED BY <1>3, <1>6, <2>5, <2>6
<1>8. CASE ~(requests[i].kind = "test" /\ requests[i].heard = "page")
    <2>1. results' = results
        BY <1>1, <1>8
    <2> QED BY <1>1, <1>2, <1>3, <1>6, <2>1 DEF HandInv, TestAwaited, TestTellsItsOutcome
<1> QED BY <1>7, <1>8

LEMMA HandsKept ==
    ASSUME Typed, HandInv, [Next]_vars
    PROVE  HandInv'
<1>1. CASE Left
    BY <1>1, NobodyWaits
<1>2. CASE ~Left
    <2>1. SendsOther \/ SendsTest \/ TurnsDialog \/ Serves \/ Tells \/ UNCHANGED Hands
        BY <1>2, HandSteps DEF HandStep
    <2>2. (OneOwnedEach /\ DialogNamesTheRemoval /\ TestAwaited /\ TestTellsItsOutcome)'
        <3>1. CASE TurnsDialog
            BY <3>1 DEF TurnsDialog, Pending, HandInv, OneOwnedEach, Owned, DialogNamesTheRemoval,
                        TestAwaited, TestTellsItsOutcome
        <3>2. CASE UNCHANGED Hands
            BY <3>2 DEF Hands, HandInv, OneOwnedEach, Owned, DialogNamesTheRemoval, TestAwaited,
                        TestTellsItsOutcome
        <3> QED BY <2>1, <3>1, <3>2, SendsOtherHands, SendsTestHands, ServesHands, TellsHands
    <2>3. dialog' \in {dialog, NoChannel} \/ TurnsDialog
        BY <2>1 DEF SendsOther, SendsTest, Serves, Tells, Hands
    <2>4. DialogOnItsPage'
        BY <1>2, <2>3, PageStays DEF HandInv, DialogOnItsPage, TurnsDialog
    <2> QED BY <2>2, <2>4 DEF HandInv
<1> QED BY <1>1, <1>2

LEMMA HandInvariant == Spec => [](Typed /\ HandInv)
<1>1. Init => Typed /\ HandInv
    BY TypedInit, HandInit
<1>2. Typed /\ HandInv /\ [Next]_vars => (Typed /\ HandInv)'
    BY TypedStep, HandsKept
<1> QED BY <1>1, <1>2, PTL DEF Spec

\* The dialog on the screen while a removal runs is of the channel being
\* removed, whatever people click and in whatever order the answers come.
THEOREM DialogIsOfTheRemoval == Spec => []DialogNamesTheRemoval
<1>1. HandInv => DialogNamesTheRemoval
    BY DEF HandInv
<1> QED BY <1>1, HandInvariant, PTL

\* What stands beside a channel is what the page was told of the newest test of
\* it, also after links, reloads and answers to tests nobody waits for any more.
THEOREM TestsTellTheTruth == Spec => []TestTellsItsOutcome
<1>1. HandInv => TestTellsItsOutcome
    BY DEF HandInv
<1> QED BY <1>1, HandInvariant, PTL

(***************************************************************************)
(* Removed channels.  A channel that was removed never comes back on the   *)
(* server.  The answer to the removal starts a reading that began after it *)
(* or, when nobody uses the list, marks it to be read before it is used.   *)
(***************************************************************************)
GoneForGood ==
    /\ removed \cap (live \cup unused) = {}
    /\ \A i \in Slots :
         requests[i] # NoRequest /\ requests[i].kind = "remove" /\ requests[i].phase = "ok"
         => requests[i].arg \notin live \cup unused

ReadingsAreClean ==
    /\ fetching["channels"].phase = "answered" => fetching["channels"].data \cap removed = {}
    /\ fetching["channels"].phase = "idle" /\ "channels" \notin failing \cup stale
         => Listed \cap removed = {}

\* What is used is not marked: it has been asked for.
UsedIsAsked == "channels" \in used => "channels" \notin stale

\* A removal somebody can hear the answer of was asked for from the list.
ListStands ==
    \A i \in Slots :
        /\ requests[i] # NoRequest
        /\ requests[i].kind = "remove" /\ requests[i].heard # "nobody"
        => cache["channels"] # NoData

GoneInv == GoneForGood /\ ReadingsAreClean /\ UsedIsAsked /\ ListStands

LEMMA GoneInit == Init => GoneInv
BY DEF Init, GoneInv, GoneForGood, ReadingsAreClean, UsedIsAsked, ListStands

LEMMA MountAsks ==
    ASSUME NEW p, NEW invalid, mountQueries(p, invalid)
    PROVE  stale' \subseteq invalid \ usedOn(p)
BY DEF mountQueries

LEMMA UsedIsAskedKept ==
    ASSUME UsedIsAsked, [Next]_vars
    PROVE  UsedIsAsked'
<1> DEFINE Rests == UNCHANGED <<page, me>> /\ (stale' \subseteq stale \/ invalidate("channels")
                                              \/ invalidate("monitors"))
<1>1. ASSUME Rests PROVE UsedIsAsked'
    <2>1. used' = used
        BY <1>1 DEF used, Mounted, usedOn
    <2>2. "channels" \in used => stale' \subseteq stale \cup {"monitors"}
        BY <1>1 DEF invalidate
    <2> QED BY <2>1, <2>2 DEF UsedIsAsked
<1>2. ASSUME stale' \cap usedOn(page') = {} PROVE UsedIsAsked'
    BY <1>2 DEF UsedIsAsked, used
<1>3. CASE \E p \in Pages : visit(p)
    BY <1>2, <1>3, MountAsks DEF visit
<1>4. CASE receiveMeAnswer
    <2>1. CASE Mounted = Mounted'
        BY <1>4, <2>1 DEF receiveMeAnswer, UsedIsAsked, used, usedOn
    <2>2. CASE Mounted # Mounted' /\ Mounted'
        BY <1>2, <1>4, <2>2, MountAsks DEF receiveMeAnswer
    <2>3. CASE ~Mounted'
        BY <2>3 DEF UsedIsAsked, used
    <2> QED BY <2>1, <2>2, <2>3
<1>5. CASE reloadTab
    BY <1>2, <1>5 DEF reloadTab
<1>6. ASSUME NEW i \in Slots, monitorCreated(i) PROVE UsedIsAsked'
    <2>1. CASE Mounted /\ page # "monitors"
        BY <1>2, <1>6, <2>1, MountAsks DEF monitorCreated
    <2>2. CASE ~Mounted
        BY <1>6, <2>2 DEF monitorCreated, sessionVars, Mounted, UsedIsAsked, used
    <2>3. CASE Mounted /\ page = "monitors"
        BY <1>1, <1>6, <2>3 DEF monitorCreated, sessionVars
    <2> QED BY <2>1, <2>2, <2>3
<1>7. ASSUME NEW i \in Slots, answerOK(i) PROVE UsedIsAsked'
    BY <1>1, <1>7 DEF answerOK, created, removedOne, tested, switched
<1>8. CASE \E q \in Queries : Query(q) \/ readFails(q)
    BY <1>1, <1>8 DEF Query, poll, read, receive, readFails, sessionVars
<1>9. CASE \/ createChannel \/ closeDialog \/ confirmRemove \/ createMonitor \/ toggleStatusPage
           \/ \E c \in Channels : openDialog(c) \/ testChannel(c)
           \/ elsewhere
    BY <1>1, <1>9 DEF createChannel, closeDialog, confirmRemove, createMonitor, toggleStatusPage,
       openDialog, testChannel, elsewhere, sessionVars
<1>10. CASE \E i \in Slots : Server(i) \/ answerFailed(i) \/ answerUnheard(i)
    BY <1>1, <1>10 DEF Server, handle, refuse, answerFailed, answerUnheard, tested, sessionVars
<1>11. CASE (Background /\ UNCHANGED pageVars) \/ UNCHANGED vars
    BY <1>1, <1>11 DEF Background, pollMe, readMe, readMeFails, pageVars, sessionVars, vars
<1> QED BY <1>3, <1>4, <1>5, <1>6, <1>7, <1>8, <1>9, <1>10, <1>11 DEF Next, User, Answer

LEMMA ListStandsKept ==
    ASSUME Typed, Typed', HandInv, ListStands, [Next]_vars
    PROVE  ListStands'
<1>1. CASE reloadTab
    <2>1. \A i \in Slots : requests'[i] # NoRequest => requests'[i].heard = "nobody"
        BY <1>1, LeftRuns DEF reloadTab
    <2> QED BY <2>1 DEF ListStands
<1>2. CASE ~reloadTab
    <2> SUFFICES ASSUME NEW i \in Slots, requests'[i] # NoRequest, requests'[i].kind = "remove",
                        requests'[i].heard # "nobody"
                 PROVE  cache["channels"] # NoData
        BY <1>2, ListStays DEF ListStands
    <2>1. \/ dialog # NoChannel
          \/ /\ requests[i] # NoRequest
             /\ requests[i].kind = "remove" /\ requests[i].heard # "nobody"
        <3>1. CASE Left
            BY <3>1 DEF Left, RunsOn
        <3>2. CASE SendsOther
            BY <3>2, Constants DEF SendsOther, Sends, Fits
        <3>3. CASE SendsTest
            BY <3>3 DEF SendsTest, Sends
        <3>4. CASE Serves
            BY <3>4 DEF Serves, Concludes
        <3>5. CASE Tells
            BY <3>5 DEF Tells, Frees
        <3>6. CASE TurnsDialog \/ UNCHANGED Hands
            BY <3>6 DEF TurnsDialog, Hands
        <3> QED BY <3>1, <3>2, <3>3, <3>4, <3>5, <3>6, HandSteps DEF HandStep
    <2> QED BY <2>1 DEF HandInv, DialogOnItsPage, ListStands
<1> QED BY <1>1, <1>2

LEMMA ServerForgets ==
    ASSUME Typed, [Next]_vars
    PROVE  live' \cup unused' \subseteq live \cup unused
<1>1. ASSUME NEW i \in Slots, handle(i) PROVE live' \cup unused' \subseteq live \cup unused
    BY <1>1 DEF handle, carriedOut
<1>2. CASE elsewhere
    BY <1>2 DEF elsewhere
<1>3. CASE ~elsewhere /\ ~\E i \in Slots : handle(i)
    <2>1. UNCHANGED <<live, unused>>
        BY <1>3 DEF Next, pageVars, receiveMeAnswer, Query, poll, read, receive, readFails, User,
           createChannel, closeDialog, confirmRemove, createMonitor, toggleStatusPage, openDialog,
           testChannel, reloadTab, visit, Server, refuse, Answer, answerOK, monitorCreated,
           answerFailed, answerUnheard, vars
    <2> QED BY <2>1
<1> QED BY <1>1, <1>2, <1>3

\* A removal that succeeds has just taken its channel off the server.
LEMMA RemovalTakes ==
    ASSUME Typed, [Next]_vars, NEW i \in Slots,
           requests'[i] # NoRequest, requests'[i].kind = "remove", requests'[i].phase = "ok"
    PROVE  /\ requests'[i].arg \in Channels
           /\ \/ /\ requests[i] # NoRequest /\ requests[i].kind = "remove" /\ requests[i].phase = "ok"
                 /\ requests'[i].arg = requests[i].arg
              \/ requests'[i].arg \notin live' \cup unused'
<1>1. requests'[i].arg \in Channels
    BY TypedStep DEF Typed, ArgsFit, Fits
<1>2. CASE Left
    BY <1>1, <1>2 DEF Left, RunsOn
<1>3. CASE \E j \in Slots : Server(j)
    <2>1. PICK j \in Slots : Server(j)
        BY <1>3
    <2>2. CASE i # j
        BY <1>1, <2>1, <2>2, ServerConcludes DEF Concludes
    <2>3. CASE i = j
        <3>1. requests[i].kind = "remove" /\ requests'[i].arg = requests[i].arg
            BY <2>1, <2>3, ServerConcludes DEF Concludes
        <3>2. handle(i)
            <4>1. CASE refuse(i)
                BY <4>1 DEF refuse, Typed, TypeOK, Request
            <4> QED BY <2>1, <2>3, <4>1 DEF Server
        <3>3. requests[i].arg \in live /\ live' = live \ {requests[i].arg} /\ unused' = unused
            BY <3>1, <3>2 DEF handle, carriedOut
        <3> QED BY <1>1, <3>1, <3>3 DEF Typed, TypeOK
    <2> QED BY <2>2, <2>3
<1>4. CASE ~Left /\ ~\E j \in Slots : Server(j)
    <2>1. SendsOther \/ SendsTest \/ TurnsDialog \/ Tells \/ UNCHANGED Hands
        BY <1>4, HandSteps DEF HandStep, Serves
    <2>2. requests'[i] = requests[i] \/ requests'[i].phase = "sent"
        <3>1. CASE SendsOther \/ SendsTest
            BY <3>1 DEF SendsOther, SendsTest, Sends
        <3>2. CASE Tells
            BY <3>2 DEF Tells, Frees
        <3>3. CASE TurnsDialog \/ UNCHANGED Hands
            BY <3>3 DEF TurnsDialog, Hands
        <3> QED BY <2>1, <3>1, <3>2, <3>3
    <2> QED BY <1>1, <2>2
<1> QED BY <1>2, <1>3, <1>4

LEMMA GoneStep ==
    ASSUME Typed, Typed', HandInv, GoneInv, [Next]_vars
    PROVE  GoneInv'
<1> USE DEF GoneInv
<1>1. live' \cup unused' \subseteq live \cup unused
    BY ServerForgets
<1>2. \A i \in Slots :
        requests'[i] # NoRequest /\ requests'[i].kind = "remove" /\ requests'[i].phase = "ok"
        => requests'[i].arg \notin live' \cup unused'
    BY <1>1, RemovalTakes DEF GoneForGood
<1>3. UsedIsAsked' /\ ListStands'
    BY UsedIsAskedKept, ListStandsKept
<1>4. CASE removed' \subseteq removed
    <2>1. GoneForGood'
        BY <1>1, <1>2, <1>4 DEF GoneForGood
    <2>2. served("channels") = live /\ live \cap removed = {} /\ "channels" \in Queries
        BY DEF served, GoneForGood, Queries
    <2>3. Turn("channels") /\ Settles("channels")
        BY <2>2, QueriesTurn DEF Turns
    <2>4. fetching'["channels"].phase = "answered" => fetching'["channels"].data \cap removed' = {}
        BY <1>4, <2>2, <2>3, AskedPhases DEF Turn, ReadingsAreClean
    <2>5. fetching'["channels"].phase = "idle" /\ "channels" \notin failing' \cup stale'
            => Listed' \cap removed' = {}
        BY <1>4, <2>3 DEF Settles, ReadingsAreClean, Listed
    <2> QED BY <1>3, <2>1, <2>4, <2>5 DEF ReadingsAreClean
<1>5. CASE ~(removed' \subseteq removed)
    <2>1. PICK i \in Slots :
            /\ Frees(i) /\ requests[i].kind = "remove" /\ requests[i].phase = "ok"
            /\ requests[i].heard # "nobody" /\ requests[i].arg \in Channels
            /\ "channels" \in used \/ fetching["channels"].phase = "idle"
            /\ removed' = removed \cup {requests[i].arg}
            /\ invalidate("channels")
            /\ UNCHANGED <<page, me, cache, live, unused>>
        BY <1>5, RemovedSteps
    <2>2. requests[i].arg \notin live \cup unused
        BY <2>1 DEF Frees, GoneForGood
    <2>3. GoneForGood'
        BY <1>2, <2>1, <2>2 DEF GoneForGood
    <2>4. CASE "channels" \in used
        <3>1. cache["channels"] # NoData
            BY <2>1 DEF Frees, ListStands
        <3>2. fetching' = [fetching EXCEPT !["channels"] = Asked]
            BY <2>1, <2>4, <3>1 DEF invalidate, rereads
        <3>3. fetching'["channels"].phase = "asked"
            BY <3>2, AskedPhases DEF Typed, QueryShapes, Queries
        <3> QED BY <1>3, <2>3, <3>3 DEF ReadingsAreClean
    <2>5. CASE "channels" \notin used
        <3>1. fetching' = fetching /\ "channels" \in stale'
            BY <2>1, <2>5 DEF invalidate, rereads
        <3> QED BY <1>3, <2>1, <2>3, <2>5, <3>1 DEF ReadingsAreClean
    <2> QED BY <2>4, <2>5
<1> QED BY <1>4, <1>5

\* Once a removal is answered, on its page or after it was left, and the list is
\* at rest on the screen, the removed channel is not in it: the answer drops the
\* reading that had begun before, or marks a list nobody uses to be read first.
\* Of an answer that finds nobody with the list and a reading of it under way
\* nothing is said: that reading stands.
THEOREM RemovedIsGone == Spec => []RemovedStaysGone
<1>1. Init => Typed /\ HandInv /\ GoneInv
    BY TypedInit, HandInit, GoneInit
<1>2. Typed /\ HandInv /\ GoneInv /\ [Next]_vars => (Typed /\ HandInv /\ GoneInv)'
    BY TypedStep, HandsKept, GoneStep
<1>3. GoneInv => RemovedStaysGone
    BY DEF GoneInv, ReadingsAreClean, UsedIsAsked, RemovedStaysGone
<1> QED BY <1>1, <1>2, <1>3, PTL DEF Spec
=============================================================================
