----------------------------- MODULE Workspace -----------------------------
(***************************************************************************)
(* The pages of the dashboard that change a workspace, inside the shell of *)
(* Session: the channels page with its remove dialog and test sends        *)
(* (channels/page.tsx, confirm-dialog.tsx), the new-monitor page           *)
(* (monitors/new/page.tsx), the status-page switch (settings/page.tsx) and *)
(* the guide that warns of a workspace nobody would be told about          *)
(* (setup-guide.tsx), shown above the list of monitors.                    *)
(*                                                                         *)
(* Leaving a page, and a failed reading of /api/me, unmounts its           *)
(* component: the requests it sent run on, with nobody to tell.            *)
(***************************************************************************)
EXTENDS Session, FiniteSets

CONSTANTS
    Channels,    \* every alert channel that may come to exist
    MaxRequests, \* bound on the changes in flight at once
    MaxClicks,   \* bound on what people do: changes, links, reloads
    NoRequest,   \* a free slot
    NoChannel    \* no dialog is open

VARIABLES
    page,     \* the page the person is on
    live,     \* the server's alert channels
    unused,   \* channels not created yet
    watching, \* the server has a monitor of this workspace
    cache,    \* the queries ["channels"] and ["monitors"]
    fetching, \* their readings in flight
    stale,    \* queries invalidated while no mounted component used them
    failing,  \* queries whose newest reading failed: the page says so
    requests, \* the changes in flight
    dialog,   \* the channel of the remove dialog: pendingRemove
    removeError, \* the channel whose removal failed: remove.error
    results,  \* testResult: what stands beside each channel
    verdict,  \* history: how the newest test of each channel here went
    removed,  \* history: channels whose removal was answered (see removedOne)
    clicks

pageVars == <<page, live, unused, watching, cache, fetching, stale, failing, requests,
              dialog, removeError, results, verdict, removed, clicks>>
vars == <<sessionVars, pageVars>>

---------------------------------------------------------------------------
Pages == {"monitors", "channels", "new", "settings"}
Queries == {"channels", "monitors"}
Slots == 1..MaxRequests

Data(q) == IF q = "channels" THEN SUBSET Channels ELSE BOOLEAN
served(q) == IF q = "channels" THEN live ELSE watching

\* The queries the mounted page and its guide use.
usedOn(p) == {q \in Queries : p \in {"monitors", q}}
used == IF Mounted THEN usedOn(page) ELSE {}

Kinds == {"create", "remove", "test", "monitor", "settings"}

\* arg: the channel, or the value asked for by the switch.  heard: who is left
\* to hear the answer: the page that asked, the hooks in its tab, or nobody.
Request == [kind : Kinds, arg : Channels \cup BOOLEAN \cup {NoChannel},
            phase : {"sent", "ok", "failed"}, heard : {"page", "tab", "nobody"}]

ASSUME WorkspaceAssumption ==
    /\ MaxRequests \in Nat /\ MaxClicks \in Nat
    /\ \A S \in SUBSET Channels : S # NoData
    /\ NoRequest \notin Request
    /\ NoChannel \notin Channels

Pending(kind) == \E i \in Slots :
    requests[i] # NoRequest /\ requests[i].kind = kind /\ requests[i].heard = "page"

ResultTexts == {"none", "sending", "sent", "error"}

Asked == [phase |-> "asked", data |-> NoData]
NotAsked == [phase |-> "idle", data |-> NoData]

---------------------------------------------------------------------------
(* The two queries *)

\* Slip: no polling of what is already there.
pollsOnce(q) == q \in used /\ fetching[q].phase = "idle" /\ cache[q] = NoData

polls(q) == q \in used /\ fetching[q].phase = "idle"

poll(q) ==
    /\ polls(q)
    /\ fetching' = [fetching EXCEPT ![q] = Asked]
    /\ UNCHANGED <<sessionVars, page, live, unused, watching, cache, stale, failing, requests,
                   dialog, removeError, results, verdict, removed, clicks>>

read(q) ==
    /\ fetching[q].phase = "asked"
    /\ fetching' = [fetching EXCEPT ![q] = [phase |-> "answered", data |-> served(q)]]
    /\ UNCHANGED <<sessionVars, page, live, unused, watching, cache, stale, failing, requests,
                   dialog, removeError, results, verdict, removed, clicks>>

\* A reading that fails leaves the data of the one before.
readFails(q) ==
    /\ fetching[q].phase = "asked"
    /\ faults < MaxFaults
    /\ faults' = faults + 1
    /\ fetching' = [fetching EXCEPT ![q] = NotAsked]
    /\ failing' = failing \cup {q}
    /\ UNCHANGED <<public, me, meFetch, page, live, unused, watching, cache, stale, requests,
                   dialog, removeError, results, verdict, removed, clicks>>

receive(q) ==
    /\ fetching[q].phase = "answered"
    /\ cache' = [cache EXCEPT ![q] = fetching[q].data]
    /\ fetching' = [fetching EXCEPT ![q] = NotAsked]
    /\ stale' = stale \ {q}
    /\ failing' = failing \ {q}
    /\ UNCHANGED <<sessionVars, page, live, unused, watching, requests, dialog, removeError,
                   results, verdict, removed, clicks>>

\* Slip: a reading in flight is joined.
rereadsIdle(q) == q \in used /\ fetching[q].phase = "idle"

\* A used query is read anew and a reading in flight for it dropped, except the
\* first one, which is joined.
rereads(q) == q \in used /\ (fetching[q].phase = "idle" \/ cache[q] # NoData)

\* invalidateQueries: what no mounted component uses is read when one next does.
invalidate(q) ==
    /\ fetching' = IF rereads(q) THEN [fetching EXCEPT ![q] = Asked] ELSE fetching
    /\ stale' = IF q \in used THEN stale ELSE stale \cup {q}

---------------------------------------------------------------------------
(* Mounting and unmounting *)

\* The page is gone, or the whole tab: what becomes of the requests it sent.
leftTo(who) == [i \in Slots |->
    IF requests[i] = NoRequest \/ requests[i].heard = "nobody" THEN requests[i]
    ELSE [requests[i] EXCEPT !.heard = who]]

\* Component state goes with the component.
forgetPage ==
    /\ dialog' = NoChannel /\ removeError' = NoChannel
    /\ results' = [c \in Channels |-> "none"]
    /\ verdict' = results'

unmount == requests' = leftTo("tab") /\ forgetPage

\* On mount a query is read if it has no data, was invalidated, or is older
\* than its staleTime; a reading in flight is joined.
mountQueries(p, invalid) ==
    \E old \in SUBSET Queries :
        LET again == {q \in usedOn(p) : q \in invalid \cup old \/ cache[q] = NoData}
        IN /\ fetching' = [q \in Queries |-> IF q \in again /\ fetching[q].phase = "idle"
                                             THEN Asked ELSE fetching[q]]
           /\ stale' = invalid \ again

click == clicks < MaxClicks /\ clicks' = clicks + 1

\* A link of the navigation, the guide or a card.
visit(p) ==
    /\ Mounted /\ page # p /\ click
    /\ page' = p
    /\ unmount
    /\ mountQueries(p, stale)
    /\ UNCHANGED <<sessionVars, live, unused, watching, cache, failing, removed>>

\* Bootstrap swaps the pages for its error and, later, back.
receiveMeAnswer ==
    /\ receiveMe
    /\ IF Mounted = Mounted'
       THEN UNCHANGED <<fetching, stale, requests, dialog, removeError, results, verdict>>
       ELSE /\ unmount
            /\ IF Mounted' THEN mountQueries(page, stale) ELSE UNCHANGED <<fetching, stale>>
    /\ UNCHANGED <<page, live, unused, watching, cache, failing, removed, clicks>>

\* A reload loses every query and every hook that waited for an answer.
reloadTab ==
    /\ reload /\ click
    /\ requests' = leftTo("nobody") /\ forgetPage
    /\ cache' = [q \in Queries |-> NoData]
    /\ fetching' = [q \in Queries |-> NotAsked]
    /\ stale' = {} /\ failing' = {}
    /\ removed' = {}
    /\ UNCHANGED <<page, live, unused, watching>>

---------------------------------------------------------------------------
(* What the person asks for *)

\* Slip: the buttons stay enabled while their mutation is pending.
mayAskAlways(kind) == Mounted

mayAsk(kind) == Mounted /\ ~Pending(kind)

send(kind, arg) ==
    /\ mayAsk(kind) /\ click
    /\ \E i \in Slots :
         /\ requests[i] = NoRequest
         /\ \A j \in 1..(i - 1) : requests[j] # NoRequest
         /\ requests' = [requests EXCEPT ![i] =
                           [kind |-> kind, arg |-> arg, phase |-> "sent", heard |-> "page"]]

createChannel ==
    /\ page = "channels"
    /\ send("create", NoChannel)
    /\ UNCHANGED <<sessionVars, page, live, unused, watching, cache, fetching, stale, failing,
                   dialog, removeError, results, verdict, removed>>

Listed == IF cache["channels"] = NoData THEN {} ELSE cache["channels"]

\* Slip: the other Remove buttons stay enabled.
mayOpenDialogAlways(c) == Mounted /\ page = "channels" /\ c \in Listed

mayOpenDialog(c) ==
    Mounted /\ page = "channels" /\ c \in Listed /\ ~Pending("remove") /\ dialog = NoChannel

openDialog(c) ==
    /\ mayOpenDialog(c)
    /\ dialog' = c
    /\ UNCHANGED <<sessionVars, page, live, unused, watching, cache, fetching, stale, failing,
                   requests, removeError, results, verdict, removed, clicks>>

\* Cancel, Esc and the backdrop, none of them while the removal runs.
closeDialog ==
    /\ Mounted /\ dialog # NoChannel /\ ~Pending("remove")
    /\ dialog' = NoChannel
    /\ UNCHANGED <<sessionVars, page, live, unused, watching, cache, fetching, stale, failing,
                   requests, removeError, results, verdict, removed, clicks>>

confirmRemove ==
    /\ dialog # NoChannel
    /\ send("remove", dialog)
    /\ removeError' = NoChannel
    /\ UNCHANGED <<sessionVars, page, live, unused, watching, cache, fetching, stale, failing,
                   dialog, results, verdict, removed>>

testChannel(c) ==
    /\ page = "channels" /\ c \in Listed
    /\ send("test", c)
    /\ results' = [results EXCEPT ![c] = "sending"]
    /\ verdict' = [verdict EXCEPT ![c] = "none"]
    /\ UNCHANGED <<sessionVars, page, live, unused, watching, cache, fetching, stale, failing,
                   dialog, removeError, removed>>

createMonitor ==
    /\ page = "new"
    /\ send("monitor", NoChannel)
    /\ UNCHANGED <<sessionVars, page, live, unused, watching, cache, fetching, stale, failing,
                   dialog, removeError, results, verdict, removed>>

\* The switch asks for the opposite of what the cached /api/me says.
toggleStatusPage ==
    /\ page = "settings"
    /\ send("settings", ~me.data)
    /\ UNCHANGED <<sessionVars, page, live, unused, watching, cache, fetching, stale, failing,
                   dialog, removeError, results, verdict, removed>>

---------------------------------------------------------------------------
(* The server *)

\* What a change does when it is carried out; a deleted channel answers 404.
carriedOut(r) ==
    \/ /\ r.kind = "create"
       /\ \E c \in unused : live' = live \cup {c} /\ unused' = unused \ {c}
       /\ UNCHANGED <<watching, public>>
    \/ /\ r.kind = "remove"
       /\ r.arg \in live /\ live' = live \ {r.arg}
       /\ UNCHANGED <<unused, watching, public>>
    \/ /\ r.kind = "test"
       /\ r.arg \in live
       /\ UNCHANGED <<live, unused, watching, public>>
    \/ /\ r.kind = "monitor"
       /\ watching' = TRUE
       /\ UNCHANGED <<live, unused, public>>
    \/ /\ r.kind = "settings"
       /\ public' = r.arg
       /\ UNCHANGED <<live, unused, watching>>

\* The newest test of a channel is the one its page still waits for.
judged(r, text) ==
    verdict' = IF r.kind = "test" /\ r.heard = "page"
               THEN [verdict EXCEPT ![r.arg] = text] ELSE verdict

handle(i) ==
    /\ requests[i] # NoRequest /\ requests[i].phase = "sent"
    /\ carriedOut(requests[i])
    /\ \/ /\ requests' = [requests EXCEPT ![i].phase = "ok"]
          /\ judged(requests[i], "sent")
          /\ UNCHANGED faults
       \/ /\ faults < MaxFaults /\ faults' = faults + 1     \* the answer is lost
          /\ requests' = [requests EXCEPT ![i].phase = "failed"]
          /\ judged(requests[i], "error")
    /\ UNCHANGED <<me, meFetch, page, cache, fetching, stale, failing, dialog, removeError, results,
                   removed, clicks>>

\* Not there any more, refused, or failed before anything changed.
refuse(i) ==
    /\ requests[i] # NoRequest /\ requests[i].phase = "sent"
    /\ \/ /\ requests[i].kind \in {"remove", "test"} /\ requests[i].arg \notin live
          /\ UNCHANGED faults
       \/ faults < MaxFaults /\ faults' = faults + 1
    /\ requests' = [requests EXCEPT ![i].phase = "failed"]
    /\ judged(requests[i], "error")
    /\ UNCHANGED <<public, me, meFetch, page, live, unused, watching, cache, fetching, stale,
                   failing, dialog, removeError, results, removed, clicks>>

\* Another tab: a channel comes or goes, the last monitor is deleted.
elsewhere ==
    /\ click
    /\ \/ \E c \in live : live' = live \ {c} /\ UNCHANGED <<unused, watching>>
       \/ \E c \in unused : live' = live \cup {c} /\ unused' = unused \ {c} /\ UNCHANGED watching
       \/ watching' = ~watching /\ UNCHANGED <<live, unused>>
    /\ UNCHANGED <<sessionVars, page, cache, fetching, stale, failing, requests, dialog,
                   removeError, results, verdict, removed>>

---------------------------------------------------------------------------
(* onSuccess and onError: hooks of the mutation, run also after the unmount *)

created(r) ==
    /\ invalidate("channels")
    /\ UNCHANGED <<page, meFetch, failing, dialog, removeError, results, removed>>

\* An answer that finds no page with the list, and a reading of it under way,
\* leaves that reading alone: the history is of the other answers.
removedOne(r) ==
    /\ dialog' = IF r.heard = "page" THEN NoChannel ELSE dialog
    /\ invalidate("channels")
    /\ removed' = IF "channels" \in used \/ fetching["channels"].phase = "idle"
                  THEN removed \cup {r.arg} ELSE removed
    /\ UNCHANGED <<page, meFetch, failing, removeError, results>>

\* "sent" with its tick, or the message of the error.
textOf(r) == IF r.phase = "ok" THEN "sent" ELSE "error"

tested(r) ==
    /\ results' = IF r.kind = "test" /\ r.heard = "page"
                  THEN [results EXCEPT ![r.arg] = textOf(r)] ELSE results
    /\ UNCHANGED <<page, meFetch, fetching, stale, failing, dialog, removed>>

switched(r) ==
    /\ meFetch' = MeAsked
    /\ UNCHANGED <<page, fetching, stale, failing, dialog, removeError, results, removed>>

answerOK(i) ==
    LET r == requests[i]
    IN /\ r # NoRequest /\ r.phase = "ok" /\ r.heard # "nobody" /\ r.kind # "monitor"
       /\ requests' = [requests EXCEPT ![i] = NoRequest]
       /\ \/ r.kind = "create" /\ created(r)
          \/ r.kind = "remove" /\ removedOne(r)
          \/ r.kind = "test" /\ tested(r) /\ UNCHANGED removeError
          \/ r.kind = "settings" /\ switched(r)
       /\ UNCHANGED <<public, me, faults, live, unused, watching, cache, verdict, clicks>>

\* The new monitor's answer takes the person to the list (or to the page of a
\* heartbeat, which shows the guide as well) wherever they are by then.
monitorCreated(i) ==
    LET r == requests[i]
    IN /\ r # NoRequest /\ r.phase = "ok" /\ r.heard # "nobody" /\ r.kind = "monitor"
       /\ page' = "monitors"
       /\ forgetPage
       /\ requests' = [leftTo("tab") EXCEPT ![i] = NoRequest]
       /\ IF Mounted /\ page # "monitors"
          THEN mountQueries("monitors", stale \cup {"monitors"})
          ELSE invalidate("monitors")
       /\ UNCHANGED <<sessionVars, live, unused, watching, cache, failing, removed, clicks>>

\* The message stands in the dialog until the next removal is asked for.
answerFailed(i) ==
    LET r == requests[i]
    IN /\ r # NoRequest /\ r.phase = "failed" /\ r.heard # "nobody"
       /\ requests' = [requests EXCEPT ![i] = NoRequest]
       /\ tested(r)
       /\ removeError' = IF r.kind = "remove" /\ r.heard = "page" THEN r.arg ELSE removeError
       /\ UNCHANGED <<sessionVars, live, unused, watching, cache, verdict, clicks>>

\* Its tab was reloaded.
answerUnheard(i) ==
    /\ requests[i] # NoRequest /\ requests[i].phase # "sent" /\ requests[i].heard = "nobody"
    /\ requests' = [requests EXCEPT ![i] = NoRequest]
    /\ UNCHANGED <<sessionVars, page, live, unused, watching, cache, fetching, stale, failing,
                   dialog, removeError, results, verdict, removed, clicks>>

---------------------------------------------------------------------------
Init ==
    /\ SessionInit
    /\ page \in Pages
    /\ live \in SUBSET Channels
    /\ unused = Channels \ live
    /\ watching \in BOOLEAN
    /\ cache = [q \in Queries |-> NoData]
    /\ fetching = [q \in Queries |-> NotAsked]
    /\ stale = {} /\ failing = {}
    /\ requests = [i \in Slots |-> NoRequest]
    /\ dialog = NoChannel /\ removeError = NoChannel
    /\ results = [c \in Channels |-> "none"]
    /\ verdict = results
    /\ removed = {}
    /\ clicks = 0

Query(q) == poll(q) \/ read(q) \/ receive(q)

User ==
    \/ createChannel \/ closeDialog \/ confirmRemove \/ createMonitor \/ toggleStatusPage
    \/ reloadTab \/ \E p \in Pages : visit(p)
    \/ \E c \in Channels : openDialog(c) \/ testChannel(c)

Server(i) == handle(i) \/ refuse(i)
Answer(i) == answerOK(i) \/ monitorCreated(i) \/ answerFailed(i) \/ answerUnheard(i)

Next ==
    \/ Background /\ UNCHANGED pageVars
    \/ receiveMeAnswer
    \/ \E q \in Queries : Query(q) \/ readFails(q)
    \/ User \/ elsewhere
    \/ \E i \in Slots : Server(i) \/ Answer(i)

Spec == Init /\ [][Next]_vars

\* The queries poll and the network answers; nothing is assumed of people, nor
\* that anything succeeds.
FairSpec ==
    /\ Spec
    /\ WF_vars((pollMe \/ readMe) /\ UNCHANGED pageVars) /\ WF_vars(receiveMeAnswer)
    /\ \A q \in Queries : WF_vars(poll(q)) /\ WF_vars(read(q)) /\ WF_vars(receive(q))
    /\ \A i \in Slots : WF_vars(Server(i)) /\ WF_vars(Answer(i))

---------------------------------------------------------------------------
(* Properties *)

TypeOK ==
    /\ SessionTypeOK
    /\ page \in Pages
    /\ live \subseteq Channels /\ unused \subseteq Channels \ live /\ watching \in BOOLEAN
    /\ \A q \in Queries :
         /\ cache[q] \in Data(q) \cup {NoData}
         /\ fetching[q] \in [phase : {"idle", "asked", "answered"}, data : Data(q) \cup {NoData}]
    /\ stale \subseteq Queries /\ failing \subseteq Queries
    /\ requests \in [Slots -> Request \cup {NoRequest}]
    /\ dialog \in Channels \cup {NoChannel} /\ removeError \in Channels \cup {NoChannel}
    /\ results \in [Channels -> ResultTexts] /\ verdict \in [Channels -> ResultTexts]
    /\ removed \subseteq Channels
    /\ clicks \in 0..MaxClicks

\* The dialog a person sees while a removal runs is the one of the channel that
\* is being removed, and shows no error of an earlier removal: it can be neither
\* dismissed nor replaced, so its closing means that channel is gone and an error
\* that appears is about that channel (channels/page.tsx:38-44, 148-157;
\* confirm-dialog.tsx:42-50).  Nothing is said of a dialog nobody has confirmed
\* yet: the error of the removal before still stands in it, for any channel.
DialogNamesTheRemoval ==
    \A i \in Slots :
        requests[i] # NoRequest /\ requests[i].kind = "remove" /\ requests[i].heard = "page"
        => dialog = requests[i].arg /\ removeError = NoChannel

\* "Send a test to prove it works before you rely on it" (setup-guide.tsx:86):
\* what stands beside a channel is what the page was told of the newest test of
\* it, whatever was sent, answered late or left behind in between (a test that
\* was delivered and whose answer was lost is an error).
TestTellsItsOutcome ==
    \A c \in Channels : results[c] \in {"sent", "error"} => results[c] = verdict[c]

\* Once a removal is answered, on its page, on another or back on it, and no
\* reading of the list is under way or has failed, the list does not show the
\* removed channel: a poll that read the old list and comes back after the answer
\* must not bring it back (channels/page.tsx:38-44).  Left out by name, for there
\* it does come back until the next reading: the answer that comes while no page
\* with the list is mounted and a reading of it is under way (removedOne).
RemovedStaysGone ==
    /\ "channels" \in used
    /\ fetching["channels"].phase = "idle" /\ "channels" \notin failing
    => Listed \cap removed = {}

\* What SetupGuide shows above the monitors.
Warned == FALSE \notin {cache["monitors"]} /\ NoData \notin {cache[q] : q \in Queries}
          /\ cache["channels"] = {}

\* "a workspace with monitors but no alert channel looks healthy and does
\* nothing ... a warning, always shown" (setup-guide.tsx:8-15): when people stop,
\* the warning comes to stand above the monitors of a workspace with no channel,
\* and of no other.
SilenceIsWarned ==
    <>[](Mounted /\ page = "monitors" => (Warned <=> watching /\ live = {}))
=============================================================================
