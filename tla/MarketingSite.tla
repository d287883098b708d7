--------------------------- MODULE MarketingSite ---------------------------
(***************************************************************************)
(* The forms of the marketing site under its consent banner: the free site *)
(* check (SiteCheck.tsx), which reveals the waitlist below its result, the *)
(* waitlist (Waitlist.tsx), the contact form (ContactForm.tsx), and the    *)
(* Turnstile widget each of them holds (Turnstile.tsx).                    *)
(*                                                                         *)
(* Links keep the page's script alive and unmount its forms; what a form   *)
(* asked for is carried out all the same.  A Turnstile token is good for   *)
(* one submission: its server accepts it once.                             *)
(***************************************************************************)
EXTENDS Consent

CONSTANTS
    Sites,       \* the addresses visitors have checked
    MaxRequests, \* bound on the submissions in flight at once
    MaxClicks,   \* bound on what the visitor does
    NoSite, NoRequest

Forms == {"scan", "waitlist", "contact"}

Request == [form : Forms, token : {"new", "again", "none"}, site : Sites \cup {NoSite},
            phase : {"sent", "ok", "refused", "lost"}, owned : BOOLEAN]

ASSUME SiteAssumption ==
    /\ MaxRequests \in Nat /\ MaxClicks \in Nat
    /\ NoSite \notin Sites /\ NoRequest \notin Request

VARIABLES
    page,
    api,       \* the Turnstile script; "failed": asked for, and never retried
    widget,    \* the token in each form
    busy,      \* the button of each form is disabled
    note,      \* the line of status of each form
    result,    \* the site whose result is shown
    scanned,   \* history: the site of the newest scan from this page
    taken,     \* history: the newest submission of each form was accepted
    requests,  \* the submissions in flight
    clicks

formVars == <<page, api, widget, busy, note, result, scanned, taken, requests, clicks>>
vars == <<consentVars, formVars>>

---------------------------------------------------------------------------
Pages == {"check", "home", "contact"}
Slots == 1..MaxRequests

mounted(p, shown) ==
    IF p = "contact" THEN {"contact"}
    ELSE IF p = "home" THEN {"waitlist"}
    ELSE IF shown = NoSite THEN {"scan"} ELSE {"scan", "waitlist"}

Mounted == mounted(page, result)

click == clicks < MaxClicks /\ clicks' = clicks + 1

---------------------------------------------------------------------------
(* Turnstile.tsx *)

\* "none": no widget; "solving": no token yet; "used": the token was sent.
Widgets == {"none", "solving", "fresh", "used"}

\* loadScript, with the cleanup of the forms that go: a form mounted before the
\* script is there waits for its load event, which comes once or never.
widgetsOn(forms, kept) ==
    [f \in Forms |-> IF f \in forms \cap kept THEN widget[f]
                     ELSE IF f \in forms /\ api = "ready" THEN "solving" ELSE "none"]

apiEnds ==
    /\ api = "loading"
    /\ \/ api' = "failed" /\ UNCHANGED widget
       \/ /\ api' = "ready"
          /\ widget' = [f \in Forms |-> IF f \in Mounted THEN "solving" ELSE "none"]
    /\ UNCHANGED <<consentVars, page, busy, note, result, scanned, taken, requests, clicks>>

\* The widget puts a token into its form, and replaces it when it expires.
solve(f) ==
    /\ widget[f] = "solving"
    /\ widget' = [widget EXCEPT ![f] = "fresh"]
    /\ UNCHANGED <<consentVars, page, api, busy, note, result, scanned, taken, requests, clicks>>

expire(f) ==
    /\ widget[f] \in {"fresh", "used"}
    /\ widget' = [widget EXCEPT ![f] = "solving"]
    /\ UNCHANGED <<consentVars, page, api, busy, note, result, scanned, taken, requests, clicks>>

---------------------------------------------------------------------------
(* Links and reloads *)

noNotes == [f \in Forms |-> "none"]

\* A form that goes is not there to be told.
disowned(gone) ==
    [i \in Slots |-> IF requests[i] = NoRequest \/ requests[i].form \notin gone
                     THEN requests[i] ELSE [requests[i] EXCEPT !.owned = FALSE]]

freshForms ==
    /\ busy' = [f \in Forms |-> FALSE]
    /\ note' = noNotes
    /\ taken' = busy'
    /\ result' = NoSite /\ scanned' = NoSite

goTo(p) ==
    /\ page # p /\ click
    /\ page' = p
    /\ freshForms
    /\ widget' = widgetsOn(mounted(p, NoSite), {})
    /\ requests' = disowned(Forms)
    /\ UNCHANGED <<consentVars, api>>

reloadPage ==
    /\ reload /\ click
    /\ api' = "loading"
    /\ freshForms
    /\ widget' = noNotes
    /\ requests' = [i \in Slots |-> NoRequest]
    /\ UNCHANGED page

---------------------------------------------------------------------------
(* The submit handlers *)

\* Slip: the button of a busy form stays enabled.
maySubmitAlways(f) == f \in Mounted

maySubmit(f) == f \in Mounted /\ ~busy[f]

\* A required field is empty.
submitIncomplete(f) ==
    /\ maySubmit(f)
    /\ note' = [note EXCEPT ![f] = "problem"]
    /\ UNCHANGED <<consentVars, page, api, widget, busy, result, scanned, taken, requests, clicks>>

\* What a submission of f leaves on the page: a scan takes the old result away,
\* and the waitlist below it.
\* Slip: the old result stays until the new one comes.
shownDuringAlways(f) == result

shownDuring(f) == IF f = "scan" THEN NoSite ELSE result

submit(f, site) ==
    LET stay == mounted(page, shownDuring(f))
        token == IF widget[f] = "fresh" THEN "new" ELSE IF widget[f] = "used" THEN "again" ELSE "none"
    IN /\ maySubmit(f) /\ click
       /\ f = "scan" <=> site # NoSite
       /\ \E i \in Slots :
            /\ requests[i] = NoRequest
            /\ \A j \in 1..(i - 1) : requests[j] # NoRequest
            /\ requests' = [disowned(Forms \ stay) EXCEPT ![i] =
                 [form |-> f, token |-> token, site |-> site, phase |-> "sent", owned |-> TRUE]]
       /\ result' = shownDuring(f)
       /\ scanned' = IF f = "scan" THEN site ELSE scanned
       /\ busy' = [g \in Forms |-> g \in stay /\ (g = f \/ busy[g])]
       /\ note' = [g \in Forms |-> IF g = f THEN "working" ELSE IF g \in stay THEN note[g] ELSE "none"]
       /\ taken' = [taken EXCEPT ![f] = FALSE]
       /\ widget' = [g \in Forms |->
                       IF g = f /\ widget[f] = "fresh" THEN "used"
                       ELSE IF g \in stay THEN widget[g] ELSE "none"]
       /\ UNCHANGED <<consentVars, page, api>>

\* The contact service accepts what carries a token for the first time, unless
\* its limits or its data refuse it; the answer may be lost on its way.  Left out:
\* the thanks for a submission dropped because its hidden field was filled.
serve(i) ==
    LET r == requests[i]
    IN /\ r # NoRequest /\ r.phase = "sent"
       /\ \/ /\ r.token # "none"
             /\ \E p \in {"ok", "lost"} : requests' = [requests EXCEPT ![i].phase = p]
             /\ taken' = [taken EXCEPT ![r.form] = @ \/ r.owned]
          \/ /\ \E p \in {"refused", "lost"} : requests' = [requests EXCEPT ![i].phase = p]
             /\ UNCHANGED taken
       /\ UNCHANGED <<consentVars, page, api, widget, busy, note, result, scanned, clicks>>

\* turnstile.reset() names no widget: it takes whichever the page has.
resetOne(shown) ==
    IF \A f \in Forms : widget[f] = "none"
    THEN widget' = shown
    ELSE \E f \in Forms : widget[f] # "none" /\ widget' = [shown EXCEPT ![f] = "solving"]

\* A scan is answered: its finally runs also when its page is gone, before the
\* result and the waitlist below it are rendered.
scanAnswered(i) ==
    LET r == requests[i]
        shown == IF r.owned /\ r.phase = "ok" THEN r.site ELSE result
    IN /\ r # NoRequest /\ r.phase # "sent" /\ r.form = "scan"
       /\ requests' = [requests EXCEPT ![i] = NoRequest]
       /\ result' = shown
       /\ IF r.owned
          THEN /\ busy' = [busy EXCEPT !["scan"] = FALSE]
               /\ note' = [note EXCEPT !["scan"] = IF r.phase = "ok" THEN "thanks" ELSE "problem"]
          ELSE UNCHANGED <<busy, note>>
       /\ resetOne(widgetsOn(mounted(page, shown), Mounted))
       /\ UNCHANGED <<consentVars, page, api, scanned, taken, clicks>>

\* Slip: only an accepted form is enabled again.
busyAfterOnOK(phase) == phase # "ok"

busyAfter(phase) == FALSE

\* The waitlist and the contact form keep the token they sent.
formAnswered(i) ==
    LET r == requests[i]
    IN /\ r # NoRequest /\ r.phase # "sent" /\ r.form # "scan"
       /\ requests' = [requests EXCEPT ![i] = NoRequest]
       /\ IF r.owned
          THEN /\ busy' = [busy EXCEPT ![r.form] = busyAfter(r.phase)]
               /\ note' = [note EXCEPT ![r.form] = IF r.phase = "ok" THEN "thanks" ELSE "problem"]
          ELSE UNCHANGED <<busy, note>>
       /\ UNCHANGED <<consentVars, page, api, widget, result, scanned, taken, clicks>>

---------------------------------------------------------------------------
Init ==
    /\ ConsentInit
    /\ page \in Pages
    /\ api = "loading"
    /\ widget = noNotes
    /\ busy = [f \in Forms |-> FALSE]
    /\ note = noNotes
    /\ taken = busy
    /\ result = NoSite /\ scanned = NoSite
    /\ requests = [i \in Slots |-> NoRequest]
    /\ clicks = 0

Answer(i) == scanAnswered(i) \/ formAnswered(i)

Next ==
    \/ Visitor /\ click /\ UNCHANGED <<page, api, widget, busy, note, result, scanned, taken, requests>>
    \/ scriptEnds /\ UNCHANGED formVars
    \/ reloadPage \/ \E p \in Pages : goTo(p)
    \/ apiEnds \/ \E f \in Forms : solve(f) \/ expire(f) \/ submitIncomplete(f)
    \/ \E f \in Forms, s \in Sites \cup {NoSite} : submit(f, s)
    \/ \E i \in Slots : serve(i) \/ Answer(i)

Spec == Init /\ [][Next]_vars

\* Every submission is answered or fails; nothing is assumed of the visitor, of
\* the challenges or of the scripts.
FairSpec ==
    /\ Spec
    /\ \A i \in Slots : WF_vars(serve(i)) /\ WF_vars(Answer(i))

---------------------------------------------------------------------------
\* "Turnstile tokens are single-use; reset so the next scan gets a fresh one"
\* (SiteCheck.tsx:85): no scan carries a token that was sent before.  It rests
\* on the waitlist being gone while a scan runs: the reset names no widget.
ScansCarryNewTokens ==
    \A i \in Slots : requests[i] # NoRequest /\ requests[i].form = "scan" => requests[i].token # "again"

\* What a form says is about what was last submitted from it: the result shown
\* is of the site asked for last, and thanks are given for a submission the
\* service has accepted (SiteCheck.tsx:59-80, Waitlist.tsx:34-37,
\* ContactForm.tsx:29-32), whatever was sent from forms that are gone.
AnswersAreOfTheLastSubmission ==
    /\ result \in {NoSite, scanned}
    /\ \A f \in Forms : note[f] = "thanks" => taken[f]

\* "finally { setBusy(false) }": no form stays disabled, whatever became of its
\* submission and of the page in between.
BusyEnds == \A f \in Forms : []<>~busy[f]
=============================================================================
