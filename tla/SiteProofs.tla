----------------------------- MODULE SiteProofs -----------------------------
(***************************************************************************)
(* What the marketing site guarantees for any addresses and any number of  *)
(* submissions in flight.                                                  *)
(***************************************************************************)
EXTENDS MarketingSite, TLAPS

(***************************************************************************)
(* Consent.  A script listens only for a yes, or for a refusal it missed.  *)
(***************************************************************************)
ConsentInv ==
    /\ ga = "on" => applied = "yes"
    /\ posthog = "loading" => applied = "yes" \/ late
    /\ posthog = "ready" => optedOut \/ applied = "yes" \/ late

LEMMA ConsentStep ==
    ASSUME ConsentInv, Visitor \/ scriptEnds \/ reload \/ UNCHANGED consentVars
    PROVE  ConsentInv'
<1> USE DEF ConsentInv
<1>1. ASSUME NEW a \in {"yes", "no"}, save(a) PROVE ConsentInv'
    BY <1>1 DEF save, posthogAfter, gaAfter, optedOutAfter
<1>2. CASE openPrefs \/ dismiss \/ \E a \in {"yes", "no"} : otherTabSaves(a)
    BY <1>2 DEF openPrefs, dismiss, otherTabSaves
<1>3. CASE scriptEnds
    BY <1>3 DEF scriptEnds
<1>4. CASE reload
    BY <1>4 DEF reload
<1>5. CASE UNCHANGED consentVars
    BY <1>5 DEF consentVars
<1> QED BY <1>1, <1>2, <1>3, <1>4, <1>5 DEF Visitor

LEMMA ConsentPart ==
    [Next]_vars => Visitor \/ scriptEnds \/ reload \/ UNCHANGED consentVars
BY DEF Next, vars, reloadPage, goTo, apiEnds, solve, expire, submitIncomplete, submit, serve,
       Answer, scanAnswered, formAnswered

\* Nobody listens in a tab that goes by a refusal or by no answer, whatever was
\* answered or reopened in it before and whatever an earlier load left in PostHog;
\* but for a refusal that met the script on its way.  A refusal in another tab is
\* gone by after the next reload only, so the theorem says nothing of it till then.
THEOREM Quiet == Spec => []QuietAfterDecline
<1>1. Init => ConsentInv
    BY DEF Init, ConsentInit, ConsentInv
<1>2. ConsentInv /\ [Next]_vars => ConsentInv'
    BY ConsentStep, ConsentPart
<1>3. ConsentInv => QuietAfterDecline
    BY DEF ConsentInv, QuietAfterDecline, Listening
<1> QED BY <1>1, <1>2, <1>3, PTL DEF Spec

(***************************************************************************)
(* The forms.  A submission of a form that is still on its page keeps the  *)
(* form busy, so there is one of each form at most; a scan takes the old   *)
(* result away, and with it the waitlist, so that the only widget of the   *)
(* page while it runs is its own.                                          *)
(***************************************************************************)
Notes == {"none", "problem", "working", "thanks"}

Shapes ==
    /\ page \in Pages
    /\ widget \in [Forms -> Widgets]
    /\ busy \in [Forms -> BOOLEAN]
    /\ note \in [Forms -> Notes]
    /\ taken \in [Forms -> BOOLEAN]
    /\ scanned \in Sites \cup {NoSite}
    /\ result \in {NoSite, scanned}
    /\ DOMAIN requests = Slots
    /\ \A i \in Slots : requests[i] # NoRequest => requests[i] \in Request

Owned(i) == requests[i] # NoRequest /\ requests[i].owned

OwnedKeepsItsForm ==
    \A i \in Slots : Owned(i) =>
        /\ requests[i].form \in Mounted /\ busy[requests[i].form]
        /\ requests[i].phase = "ok" => taken[requests[i].form]
        /\ requests[i].form = "scan" => result = NoSite /\ requests[i].site = scanned

OneOwnedEach ==
    \A i, j \in Slots :
        Owned(i) /\ Owned(j) /\ requests[i].form = requests[j].form => i = j

ScansNameASite ==
    \A i \in Slots :
        requests[i] # NoRequest /\ requests[i].form = "scan" => requests[i].site # NoSite

WidgetsOfThePage ==
    /\ \A f \in Forms : widget[f] # "none" => f \in Mounted
    /\ widget["scan"] = "used" => busy["scan"]

ThanksForTaken == \A f \in Forms : note[f] = "thanks" => taken[f]

FormInv ==
    /\ Shapes /\ OwnedKeepsItsForm /\ OneOwnedEach /\ ScansNameASite
    /\ WidgetsOfThePage /\ ThanksForTaken /\ ScansCarryNewTokens

LEMMA FormInit == Init => FormInv
BY SiteAssumption
   DEF Init, FormInv, Shapes, Owned, OwnedKeepsItsForm, OneOwnedEach, ScansNameASite, noNotes,
       WidgetsOfThePage, ThanksForTaken, ScansCarryNewTokens, Widgets, Notes, Forms, Pages, Slots

LEMMA MountedForms ==
    ASSUME page \in Pages
    PROVE  /\ Mounted \subseteq Forms
           /\ mounted(page, NoSite) \subseteq Mounted
           /\ \A shown : shown # NoSite => Mounted \subseteq mounted(page, shown)
BY DEF Mounted, mounted, Pages, Forms

\* What leaves the forms, their submissions and their page alone.
LEMMA FormsUntouched ==
    ASSUME FormInv,
           UNCHANGED <<page, busy, note, result, scanned, taken, requests>>,
           widget' \in [Forms -> Widgets],
           \A f \in Forms : widget'[f] # "none" => f \in Mounted,
           widget'["scan"] = "used" => busy["scan"]
    PROVE  FormInv'
BY DEF FormInv, Shapes, Owned, OwnedKeepsItsForm, OneOwnedEach, ScansNameASite, Mounted,
       WidgetsOfThePage, ThanksForTaken, ScansCarryNewTokens

LEMMA WidgetSteps ==
    ASSUME FormInv,
           \/ apiEnds
           \/ \E f \in Forms : solve(f) \/ expire(f)
           \/ UNCHANGED formVars
           \/ UNCHANGED <<page, api, widget, busy, note, result, scanned, taken, requests>>
    PROVE  FormInv'
<1> USE DEF Forms, Widgets
<1>1. CASE apiEnds
    BY <1>1, FormsUntouched DEF apiEnds, FormInv, Shapes, WidgetsOfThePage
<1>2. ASSUME NEW f \in Forms, solve(f) \/ expire(f) PROVE FormInv'
    BY <1>2, FormsUntouched DEF solve, expire, FormInv, Shapes, WidgetsOfThePage
<1>3. CASE \/ UNCHANGED formVars
           \/ UNCHANGED <<page, api, widget, busy, note, result, scanned, taken, requests>>
    BY <1>3, FormsUntouched DEF formVars, FormInv, Shapes, WidgetsOfThePage
<1> QED BY <1>1, <1>2, <1>3

LEMMA IncompleteStep ==
    ASSUME FormInv, NEW f \in Forms, submitIncomplete(f)
    PROVE  FormInv'
BY DEF submitIncomplete, FormInv, Shapes, Owned, OwnedKeepsItsForm, OneOwnedEach, ScansNameASite,
       Mounted, WidgetsOfThePage, ThanksForTaken, ScansCarryNewTokens, Notes

(***************************************************************************)
(* A form that goes takes its claim on the answer with it.                 *)
(***************************************************************************)
LEMMA Disowned ==
    ASSUME Shapes, NEW F, NEW i \in Slots
    PROVE  LET d == disowned(F)
           IN  /\ requests[i] = NoRequest => d[i] = NoRequest
               /\ requests[i] # NoRequest =>
                    /\ d[i] \in Request
                    /\ d[i].form = requests[i].form /\ d[i].token = requests[i].token
                    /\ d[i].site = requests[i].site /\ d[i].phase = requests[i].phase
                    /\ d[i].owned <=> requests[i].owned /\ requests[i].form \notin F
<1>1. ASSUME requests[i] # NoRequest
      PROVE  LET r == [requests[i] EXCEPT !.owned = FALSE]
             IN  /\ r \in Request /\ r.owned = FALSE
                 /\ r.form = requests[i].form /\ r.token = requests[i].token
                 /\ r.site = requests[i].site /\ r.phase = requests[i].phase
    BY <1>1 DEF Shapes, Request
<1>2. requests[i] # NoRequest => requests[i] \in Request
    BY DEF Shapes
<1> QED BY <1>1, <1>2 DEF disowned, Request

LEMMA FreshFormsStep ==
    ASSUME FormInv, freshForms, page' \in Pages,
           widget' \in [Forms -> {"none", "solving"}],
           \A f \in Forms : widget'[f] # "none" => f \in Mounted',
           \/ requests' = disowned(Forms)
           \/ requests' = [i \in Slots |-> NoRequest]
    PROVE  FormInv'
<1>1. DOMAIN requests' = Slots
    BY DEF disowned
<1>2. ASSUME NEW i \in Slots, requests'[i] # NoRequest
      PROVE  /\ requests[i] # NoRequest
             /\ requests'[i] \in Request /\ ~requests'[i].owned
             /\ requests'[i].form = requests[i].form /\ requests'[i].token = requests[i].token
             /\ requests'[i].site = requests[i].site
    BY <1>2, Disowned DEF FormInv, Shapes, Request
<1>3. Shapes'
    BY <1>1, <1>2 DEF Shapes, freshForms, noNotes, Notes, Widgets
<1>4. OwnedKeepsItsForm' /\ OneOwnedEach'
    BY <1>2 DEF OwnedKeepsItsForm, OneOwnedEach, Owned
<1>5. ScansNameASite' /\ ScansCarryNewTokens'
    BY <1>2 DEF ScansNameASite, ScansCarryNewTokens, FormInv
<1>6. WidgetsOfThePage' /\ ThanksForTaken'
    BY DEF WidgetsOfThePage, ThanksForTaken, freshForms, noNotes, Forms
<1> QED BY <1>3, <1>4, <1>5, <1>6 DEF FormInv

LEMMA LinkStep ==
    ASSUME FormInv, reloadPage \/ \E p \in Pages : goTo(p)
    PROVE  FormInv'
<1>1. CASE reloadPage
    BY <1>1, FreshFormsStep DEF reloadPage, noNotes, FormInv, Shapes
<1>2. ASSUME NEW p \in Pages, goTo(p) PROVE FormInv'
    <2>1. Mounted' = mounted(p, NoSite)
        BY <1>2 DEF goTo, freshForms, Mounted
    <2> QED BY <1>2, <2>1, FreshFormsStep DEF goTo, widgetsOn
<1> QED BY <1>1, <1>2

(***************************************************************************)
(* The service settles a submission, and an answer clears it.              *)
(***************************************************************************)
LEMMA ServeStep ==
    ASSUME FormInv, NEW i \in Slots, serve(i)
    PROVE  FormInv'
<1> DEFINE r == requests[i]
<1>1. r # NoRequest /\ r \in Request /\ r.phase = "sent"
    BY DEF serve, FormInv, Shapes
<1>2. PICK p \in {"ok", "lost", "refused"} :
        /\ requests' = [requests EXCEPT ![i].phase = p]
        /\ \/ p # "ok" /\ UNCHANGED taken
           \/ taken' = [taken EXCEPT ![r.form] = @ \/ r.owned]
    BY DEF serve
<1>3. UNCHANGED <<page, widget, busy, note, result, scanned>>
    BY DEF serve
<1>4. [r EXCEPT !.phase = p] \in Request
    BY <1>1 DEF Request
<1>5. ASSUME NEW j \in Slots, requests'[j] # NoRequest
      PROVE  /\ requests[j] # NoRequest /\ requests'[j] \in Request
             /\ requests'[j].form = requests[j].form /\ requests'[j].token = requests[j].token
             /\ requests'[j].site = requests[j].site /\ requests'[j].owned = requests[j].owned
             /\ requests'[j].phase = IF j = i THEN p ELSE requests[j].phase
    BY <1>1, <1>2, <1>4, <1>5 DEF FormInv, Shapes, Request
<1>6. \A f \in Forms : taken'[f] \in BOOLEAN /\ (taken[f] => taken'[f])
    BY <1>1, <1>2 DEF FormInv, Shapes, Request
<1>7. p = "ok" /\ r.owned => taken'[r.form]
    BY <1>1, <1>2 DEF FormInv, Shapes, Request
<1>8. Shapes'
    <2>1. taken' \in [Forms -> BOOLEAN]
        BY <1>2, <1>6 DEF FormInv, Shapes
    <2> QED BY <1>2, <1>3, <1>5, <2>1 DEF FormInv, Shapes
<1>9. OwnedKeepsItsForm'
    <2> SUFFICES ASSUME NEW j \in Slots, Owned(j)'
                 PROVE  /\ requests'[j].form \in Mounted' /\ busy'[requests'[j].form]
                        /\ requests'[j].phase = "ok" => taken'[requests'[j].form]
                        /\ requests'[j].form = "scan" =>
                             result' = NoSite /\ requests'[j].site = scanned'
        BY DEF OwnedKeepsItsForm
    <2>1. Owned(j) /\ requests[j] \in Request
        BY <1>5 DEF Owned, FormInv, Shapes
    <2>2. Mounted' = Mounted
        BY <1>3 DEF Mounted
    <2> QED BY <1>3, <1>5, <1>6, <1>7, <2>1, <2>2
            DEF Owned, FormInv, OwnedKeepsItsForm, Request
<1>10. OneOwnedEach' /\ ScansNameASite' /\ ScansCarryNewTokens'
    BY <1>5 DEF OneOwnedEach, ScansNameASite, ScansCarryNewTokens, Owned, FormInv
<1>11. WidgetsOfThePage' /\ ThanksForTaken'
    BY <1>3, <1>6 DEF WidgetsOfThePage, ThanksForTaken, FormInv, Mounted
<1> QED BY <1>8, <1>9, <1>10, <1>11 DEF FormInv

\* What both kinds of answer leave of the submissions.
LEMMA Cleared ==
    ASSUME FormInv, NEW i \in Slots, requests[i] # NoRequest,
           requests' = [requests EXCEPT ![i] = NoRequest]
    PROVE  /\ DOMAIN requests' = Slots
           /\ \A j \in Slots : requests'[j] # NoRequest => j # i /\ requests'[j] = requests[j]
           /\ OneOwnedEach' /\ ScansNameASite' /\ ScansCarryNewTokens'
BY DEF FormInv, Shapes, Owned, OneOwnedEach, ScansNameASite, ScansCarryNewTokens

LEMMA FormAnsweredStep ==
    ASSUME FormInv, NEW i \in Slots, formAnswered(i)
    PROVE  FormInv'
<1> DEFINE r == requests[i]
<1>1. r # NoRequest /\ r \in Request /\ r.form # "scan"
    BY DEF formAnswered, FormInv, Shapes
<1>2. requests' = [requests EXCEPT ![i] = NoRequest]
    BY DEF formAnswered
<1>3. UNCHANGED <<page, widget, result, scanned, taken>>
    BY DEF formAnswered
<1>4. CASE Owned(i)
    <2>1. /\ busy' = [busy EXCEPT ![r.form] = FALSE]
          /\ note' = [note EXCEPT ![r.form] = IF r.phase = "ok" THEN "thanks" ELSE "problem"]
        BY <1>4 DEF formAnswered, busyAfter, Owned
    <2>2. Shapes'
        BY <1>1, <1>2, <1>3, <2>1, Cleared DEF FormInv, Shapes, Notes
    <2>3. OwnedKeepsItsForm'
        <3> SUFFICES ASSUME NEW j \in Slots, Owned(j)'
                     PROVE  /\ requests'[j].form \in Mounted' /\ busy'[requests'[j].form]
                            /\ requests'[j].phase = "ok" => taken'[requests'[j].form]
                            /\ requests'[j].form = "scan" =>
                                 result' = NoSite /\ requests'[j].site = scanned'
            BY DEF OwnedKeepsItsForm
        <3>1. j # i /\ requests'[j] = requests[j] /\ Owned(j) /\ requests[j] \in Request
            BY <1>1, <1>2, Cleared DEF Owned, FormInv, Shapes
        <3>2. requests[j].form # r.form
            BY <1>4, <3>1 DEF FormInv, OneOwnedEach
        <3>3. busy'[requests[j].form] = busy[requests[j].form]
            BY <1>1, <2>1, <3>1, <3>2 DEF FormInv, Shapes, Request
        <3>4. Mounted' = Mounted
            BY <1>3 DEF Mounted
        <3> QED BY <1>3, <3>1, <3>3, <3>4 DEF FormInv, OwnedKeepsItsForm
    <2>4. WidgetsOfThePage'
        BY <1>1, <1>3, <2>1 DEF WidgetsOfThePage, FormInv, Shapes, Mounted, Forms, Request
    <2>5. ThanksForTaken'
        BY <1>1, <1>3, <1>4, <2>1 DEF ThanksForTaken, OwnedKeepsItsForm, FormInv, Shapes, Request
    <2> QED BY <1>1, <1>2, <2>2, <2>3, <2>4, <2>5, Cleared DEF FormInv
<1>5. CASE ~Owned(i)
    <2>1. UNCHANGED <<busy, note>>
        BY <1>1, <1>5 DEF formAnswered, Owned
    <2>2. Shapes'
        BY <1>1, <1>2, <1>3, <2>1, Cleared DEF FormInv, Shapes
    <2>3. OwnedKeepsItsForm'
        BY <1>1, <1>2, <1>3, <2>1, Cleared DEF FormInv, OwnedKeepsItsForm, Owned, Mounted
    <2>4. WidgetsOfThePage' /\ ThanksForTaken'
        BY <1>3, <2>1 DEF WidgetsOfThePage, ThanksForTaken, FormInv, Mounted
    <2> QED BY <1>1, <1>2, <2>2, <2>3, <2>4, Cleared DEF FormInv
<1> QED BY <1>4, <1>5

\* While a scan of this page runs its widget is the only one, and the reset that
\* names none takes it; the reset of a scan whose page is gone takes any.
LEMMA ScanAnsweredStep ==
    ASSUME FormInv, NEW i \in Slots, scanAnswered(i)
    PROVE  FormInv'
<1> DEFINE r == requests[i]
           shown == IF r.owned /\ r.phase = "ok" THEN r.site ELSE result
           W == widgetsOn(mounted(page, shown), Mounted)
<1>1. r # NoRequest /\ r \in Request /\ r.form = "scan"
    BY DEF scanAnswered, FormInv, Shapes
<1>2. requests' = [requests EXCEPT ![i] = NoRequest]
    BY DEF scanAnswered
<1>3. UNCHANGED <<page, scanned, taken>> /\ result' = shown
    BY DEF scanAnswered
<1>4. Mounted' = mounted(page, shown) /\ Mounted \subseteq Mounted'
    <2>1. r.site # NoSite
        BY <1>1 DEF FormInv, ScansNameASite
    <2> QED BY <1>3, <2>1, MountedForms DEF Mounted, FormInv, Shapes
<1>5. /\ Owned(i) => result = NoSite /\ r.site = scanned /\ "scan" \in Mounted
                     /\ (r.phase = "ok" => taken["scan"])
      /\ result' \in {NoSite, scanned}
    BY <1>1, <1>3 DEF Owned, FormInv, OwnedKeepsItsForm, Shapes
<1>6. /\ Owned(i) => /\ busy' = [busy EXCEPT !["scan"] = FALSE]
                     /\ note' = [note EXCEPT !["scan"] = IF r.phase = "ok" THEN "thanks" ELSE "problem"]
      /\ ~Owned(i) => UNCHANGED <<busy, note>>
    BY <1>1 DEF scanAnswered, Owned
<1>7. resetOne(W)
    BY DEF scanAnswered
<1>8. \/ widget' = W /\ \A f \in Forms : widget[f] = "none"
      \/ \E f \in Forms : widget[f] # "none" /\ widget' = [W EXCEPT ![f] = "solving"]
    BY <1>7 DEF resetOne
<1>9. /\ W \in [Forms -> Widgets]
      /\ \A f \in Forms : W[f] # "none" => f \in Mounted'
      /\ W["scan"] = "used" => widget["scan"] = "used"
    BY <1>4 DEF widgetsOn, FormInv, Shapes, Widgets, Forms
<1>10. /\ widget' \in [Forms -> Widgets]
       /\ \A f \in Forms : widget'[f] # "none" => f \in Mounted'
    BY <1>4, <1>8, <1>9 DEF FormInv, WidgetsOfThePage, Widgets
<1>11. widget'["scan"] = "used" => busy'["scan"]
    <2>1. widget'["scan"] = "used" => widget["scan"] = "used"
        BY <1>8, <1>9 DEF Forms
    <2>2. CASE Owned(i)
        <3>1. Mounted = {"scan"}
            BY <1>5, <2>2 DEF Mounted, mounted, FormInv, Shapes, Pages
        <3>2. \A f \in Forms : widget[f] # "none" => f = "scan"
            BY <3>1 DEF FormInv, WidgetsOfThePage
        <3> QED BY <1>8, <1>9, <2>1, <3>2 DEF Forms
    <2>3. CASE ~Owned(i)
        BY <1>6, <2>1, <2>3 DEF FormInv, WidgetsOfThePage
    <2> QED BY <2>2, <2>3
<1>12. Shapes'
    <2>1. busy' \in [Forms -> BOOLEAN] /\ note' \in [Forms -> Notes]
        BY <1>6 DEF FormInv, Shapes, Notes, Forms
    <2>2. /\ DOMAIN requests' = Slots
          /\ \A j \in Slots : requests'[j] # NoRequest => requests'[j] \in Request
        BY <1>1, <1>2, Cleared DEF FormInv, Shapes
    <2>3. result' \in {NoSite, scanned'}
        BY <1>3, <1>5
    <2> QED BY <1>3, <1>10, <2>1, <2>2, <2>3 DEF FormInv, Shapes
<1>13. OwnedKeepsItsForm'
    <2> SUFFICES ASSUME NEW j \in Slots, Owned(j)'
                 PROVE  /\ requests'[j].form \in Mounted' /\ busy'[requests'[j].form]
                        /\ requests'[j].phase = "ok" => taken'[requests'[j].form]
                        /\ requests'[j].form = "scan" =>
                             result' = NoSite /\ requests'[j].site = scanned'
        BY DEF OwnedKeepsItsForm
    <2>1. j # i /\ requests'[j] = requests[j] /\ Owned(j) /\ requests[j] \in Request
        BY <1>1, <1>2, Cleared DEF Owned, FormInv, Shapes
    <2>2. /\ requests[j].form \in Mounted /\ busy[requests[j].form]
          /\ requests[j].phase = "ok" => taken[requests[j].form]
          /\ requests[j].form = "scan" => result = NoSite /\ requests[j].site = scanned
        BY <2>1 DEF FormInv, OwnedKeepsItsForm
    <2>3. Owned(i) => requests[j].form # "scan"
        BY <1>1, <2>1 DEF FormInv, OneOwnedEach
    <2>4. busy'[requests[j].form]
        BY <1>6, <2>1, <2>2, <2>3 DEF FormInv, Shapes, Request
    <2>5. requests[j].form = "scan" => result' = result
        BY <1>1, <1>3, <2>3 DEF Owned
    <2> QED BY <1>3, <1>4, <2>1, <2>2, <2>4, <2>5
<1>14. ThanksForTaken'
    BY <1>3, <1>5, <1>6 DEF FormInv, Shapes, ThanksForTaken, Forms
<1> QED BY <1>1, <1>2, <1>10, <1>11, <1>12, <1>13, <1>14, Cleared
        DEF FormInv, WidgetsOfThePage

(***************************************************************************)
(* A new submission finds its form free.                                   *)
(***************************************************************************)
LEMMA SubmitStep ==
    ASSUME FormInv, NEW f \in Forms, NEW site \in Sites \cup {NoSite}, submit(f, site)
    PROVE  FormInv'
<1> DEFINE stay == mounted(page, shownDuring(f))
           d == disowned(Forms \ stay)
           token == IF widget[f] = "fresh" THEN "new"
                    ELSE IF widget[f] = "used" THEN "again" ELSE "none"
           new == [form |-> f, token |-> token, site |-> site, phase |-> "sent", owned |-> TRUE]
<1>1. f \in Mounted /\ ~busy[f] /\ (f = "scan" <=> site # NoSite)
    BY DEF submit, maySubmit
<1>2. PICK i \in Slots : requests[i] = NoRequest /\ requests' = [d EXCEPT ![i] = new]
    BY DEF submit
<1>3. /\ UNCHANGED page
      /\ result' = IF f = "scan" THEN NoSite ELSE result
      /\ scanned' = IF f = "scan" THEN site ELSE scanned
      /\ busy' = [g \in Forms |-> g \in stay /\ (g = f \/ busy[g])]
      /\ note' = [g \in Forms |-> IF g = f THEN "working" ELSE IF g \in stay THEN note[g] ELSE "none"]
      /\ taken' = [taken EXCEPT ![f] = FALSE]
      /\ widget' = [g \in Forms |->
                      IF g = f /\ widget[f] = "fresh" THEN "used"
                      ELSE IF g \in stay THEN widget[g] ELSE "none"]
    BY DEF submit, shownDuring
<1>4. Mounted' = stay /\ f \in stay /\ stay \subseteq Mounted
    <2>1. Mounted' = stay
        BY <1>3 DEF Mounted, shownDuring
    <2>2. f \in stay
        BY <1>1 DEF Mounted, mounted, shownDuring, FormInv, Shapes, Pages, Forms
    <2>3. stay \subseteq Mounted
        BY MountedForms DEF Mounted, shownDuring, FormInv, Shapes
    <2> QED BY <2>1, <2>2, <2>3
<1>6. new \in Request
    BY DEF Request
<1>7. /\ DOMAIN requests' = Slots /\ requests'[i] = new
      /\ \A j \in Slots : j # i => requests'[j] = d[j]
    BY <1>2 DEF disowned
<1>8. ASSUME NEW j \in Slots, j # i, requests'[j] # NoRequest
      PROVE  /\ requests[j] # NoRequest /\ requests[j] \in Request /\ requests'[j] \in Request
             /\ requests'[j].form = requests[j].form /\ requests'[j].token = requests[j].token
             /\ requests'[j].site = requests[j].site /\ requests'[j].phase = requests[j].phase
             /\ requests'[j].owned => requests[j].owned /\ requests[j].form \in stay
    BY <1>7, <1>8, Disowned DEF FormInv, Shapes, Request
<1>9. ASSUME NEW j \in Slots, j # i, Owned(j)'
      PROVE  Owned(j) /\ requests[j].form # f /\ requests[j].form \in stay
    BY <1>1, <1>8, <1>9 DEF Owned, FormInv, OwnedKeepsItsForm
<1>10. Shapes'
    <2>1. \A j \in Slots : requests'[j] # NoRequest => requests'[j] \in Request
        <3> HIDE DEF new, d, stay
        <3> QED BY <1>6, <1>7, <1>8
    <2> QED BY <1>3, <1>7, <2>1 DEF FormInv, Shapes, Notes, Widgets
<1>11. OwnedKeepsItsForm'
    <2> SUFFICES ASSUME NEW j \in Slots, Owned(j)'
                 PROVE  /\ requests'[j].form \in Mounted' /\ busy'[requests'[j].form]
                        /\ requests'[j].phase = "ok" => taken'[requests'[j].form]
                        /\ requests'[j].form = "scan" =>
                             result' = NoSite /\ requests'[j].site = scanned'
        BY DEF OwnedKeepsItsForm
    <2>1. CASE j = i
        <3>1. /\ requests'[j].form = f /\ requests'[j].phase = "sent"
              /\ requests'[j].site = site
            BY <1>7, <2>1
        <3>2. busy'[f] /\ (f = "scan" => result' = NoSite /\ scanned' = site)
            BY <1>3, <1>4
        <3> QED BY <1>4, <3>1, <3>2
    <2>2. CASE j # i
        <3>1. /\ Owned(j) /\ requests[j].form # f /\ requests[j].form \in stay
              /\ requests[j] \in Request
              /\ requests'[j].form = requests[j].form /\ requests'[j].phase = requests[j].phase
              /\ requests'[j].site = requests[j].site
            BY <1>8, <1>9, <2>2 DEF Owned
        <3>2. /\ busy[requests[j].form]
              /\ requests[j].phase = "ok" => taken[requests[j].form]
              /\ requests[j].form = "scan" => result = NoSite /\ requests[j].site = scanned
            BY <3>1 DEF FormInv, OwnedKeepsItsForm
        <3> QED BY <1>3, <1>4, <3>1, <3>2 DEF FormInv, Shapes, Request
    <2> QED BY <2>1, <2>2
<1>12. OneOwnedEach'
    <2> SUFFICES ASSUME NEW j \in Slots, NEW k \in Slots, Owned(j)', Owned(k)',
                        requests'[j].form = requests'[k].form
                 PROVE  j = k
        BY DEF OneOwnedEach
    <2>1. \A l \in {j, k} : l # i => /\ Owned(l) /\ requests[l].form # f
                                     /\ requests'[l].form = requests[l].form
        BY <1>8, <1>9 DEF Owned
    <2>2. \A l \in {j, k} : l = i => requests'[l].form = f
        BY <1>7
    <2> QED BY <2>1, <2>2 DEF FormInv, OneOwnedEach
<1>13. ScansNameASite'
    BY <1>1, <1>7, <1>8 DEF FormInv, ScansNameASite
<1>14. ScansCarryNewTokens'
    BY <1>1, <1>7, <1>8 DEF FormInv, ScansCarryNewTokens, WidgetsOfThePage
<1>15. WidgetsOfThePage'
    BY <1>3, <1>4 DEF FormInv, Shapes, WidgetsOfThePage, Forms
<1>16. ThanksForTaken'
    BY <1>3 DEF FormInv, Shapes, ThanksForTaken
<1> QED BY <1>10, <1>11, <1>12, <1>13, <1>14, <1>15, <1>16 DEF FormInv

LEMMA FormStep == FormInv /\ [Next]_vars => FormInv'
<1> SUFFICES ASSUME FormInv, [Next]_vars PROVE FormInv'
    OBVIOUS
<1>1. CASE /\ Visitor /\ click
           /\ UNCHANGED <<page, api, widget, busy, note, result, scanned, taken, requests>>
    BY <1>1, WidgetSteps
<1>2. CASE (scriptEnds /\ UNCHANGED formVars) \/ UNCHANGED vars
    BY <1>2, WidgetSteps DEF vars
<1>3. CASE apiEnds \/ \E f \in Forms : solve(f) \/ expire(f)
    BY <1>3, WidgetSteps
<1>4. ASSUME NEW f \in Forms, submitIncomplete(f) PROVE FormInv'
    BY <1>4, IncompleteStep
<1>5. CASE reloadPage \/ \E p \in Pages : goTo(p)
    BY <1>5, LinkStep
<1>6. ASSUME NEW f \in Forms, NEW site \in Sites \cup {NoSite}, submit(f, site) PROVE FormInv'
    BY <1>6, SubmitStep
<1>7. ASSUME NEW i \in Slots, serve(i) PROVE FormInv'
    BY <1>7, ServeStep
<1>8. ASSUME NEW i \in Slots, Answer(i) PROVE FormInv'
    BY <1>8, ScanAnsweredStep, FormAnsweredStep DEF Answer
<1> QED BY <1>1, <1>2, <1>3, <1>4, <1>5, <1>6, <1>7, <1>8 DEF Next

\* Whatever links, reloads, lost answers and expiring challenges come between,
\* no scan is sent with a token that was sent before: the reset that names no
\* widget only ever meets the scan's own while a scan of this page runs.
THEOREM NewTokens == Spec => []ScansCarryNewTokens
<1>1. FormInv => ScansCarryNewTokens
    BY DEF FormInv
<1> QED BY <1>1, FormInit, FormStep, PTL DEF Spec

\* The result shown is of the site asked for last, and thanks are only given for
\* an accepted submission, however many are in flight from forms that are gone.
THEOREM AnswersBelong == Spec => []AnswersAreOfTheLastSubmission
<1>1. FormInv => AnswersAreOfTheLastSubmission
    BY DEF FormInv, Shapes, ThanksForTaken, AnswersAreOfTheLastSubmission
<1> QED BY <1>1, FormInit, FormStep, PTL DEF Spec

(***************************************************************************)
(* A form is busy for a submission that is under way, and nothing else.    *)
(***************************************************************************)
BusyIsAwaited == \A f \in Forms : busy[f] => \E i \in Slots : Owned(i) /\ requests[i].form = f

LEMMA AwaitedAtSubmit ==
    ASSUME FormInv, BusyIsAwaited, NEW f \in Forms, NEW site \in Sites \cup {NoSite},
           submit(f, site)
    PROVE  BusyIsAwaited'
<1> DEFINE stay == mounted(page, shownDuring(f))
           d == disowned(Forms \ stay)
<1>1. busy' = [g \in Forms |-> g \in stay /\ (g = f \/ busy[g])]
    BY DEF submit
<1>2. PICK i \in Slots : /\ requests[i] = NoRequest
                         /\ requests'[i] # NoRequest
                         /\ requests'[i].owned /\ requests'[i].form = f
                         /\ \A j \in Slots : j # i => requests'[j] = d[j]
    <2>1. PICK i \in Slots, r \in Request :
            /\ requests[i] = NoRequest /\ r.owned /\ r.form = f
            /\ requests' = [d EXCEPT ![i] = r]
        BY DEF submit, Request
    <2>2. d = [j \in Slots |-> d[j]]
        BY DEF disowned
    <2>3. NoRequest \notin Request
        BY SiteAssumption
    <2> HIDE DEF d
    <2> QED BY <2>1, <2>2, <2>3
<1> SUFFICES ASSUME NEW g \in Forms, busy'[g]
             PROVE  \E j \in Slots : Owned(j)' /\ requests'[j].form = g
    BY DEF BusyIsAwaited
<1>3. CASE g = f
    BY <1>2, <1>3 DEF Owned
<1>4. CASE g # f
    <2>1. g \in stay /\ busy[g]
        BY <1>1, <1>4
    <2>2. PICK j \in Slots : Owned(j) /\ requests[j].form = g
        BY <2>1 DEF BusyIsAwaited
    <2>3. /\ d[j] \in Request /\ d[j].form = g
          /\ d[j].owned <=> requests[j].owned /\ requests[j].form \notin Forms \ stay
        BY <2>2, Disowned DEF Owned, FormInv
    <2>4. d[j].owned
        BY <2>1, <2>2, <2>3 DEF Owned
    <2>5. j # i /\ requests'[j] = d[j] /\ d[j] # NoRequest
        BY <1>2, <2>2, <2>3, SiteAssumption DEF Owned
    <2> QED BY <2>3, <2>4, <2>5 DEF Owned
<1> QED BY <1>3, <1>4

LEMMA AwaitedAtAnswer ==
    ASSUME FormInv, BusyIsAwaited, NEW i \in Slots, Answer(i)
    PROVE  BusyIsAwaited'
<1>1. /\ requests[i] # NoRequest /\ requests[i] \in Request
      /\ requests' = [requests EXCEPT ![i] = NoRequest]
    BY DEF Answer, scanAnswered, formAnswered, FormInv, Shapes
<1>2. \A g \in Forms : busy'[g] => busy[g] /\ ~(Owned(i) /\ requests[i].form = g)
    BY <1>1 DEF Answer, scanAnswered, formAnswered, busyAfter, Owned, FormInv, Shapes, Request
<1> SUFFICES ASSUME NEW g \in Forms, busy'[g]
             PROVE  \E j \in Slots : Owned(j)' /\ requests'[j].form = g
    BY DEF BusyIsAwaited
<1>3. PICK j \in Slots : Owned(j) /\ requests[j].form = g
    BY <1>2 DEF BusyIsAwaited
<1>4. j # i
    BY <1>2, <1>3
<1> QED BY <1>1, <1>3, <1>4 DEF Owned, FormInv, Shapes

LEMMA AwaitedStep == FormInv /\ BusyIsAwaited /\ [Next]_vars => BusyIsAwaited'
<1> SUFFICES ASSUME FormInv, BusyIsAwaited, [Next]_vars PROVE BusyIsAwaited'
    OBVIOUS
<1>1. ASSUME UNCHANGED <<busy, requests>> PROVE BusyIsAwaited'
    BY <1>1 DEF BusyIsAwaited, Owned
<1>2. CASE reloadPage \/ \E p \in Pages : goTo(p)
    <2>1. busy' = [f \in Forms |-> FALSE]
        BY <1>2 DEF reloadPage, goTo, freshForms
    <2> QED BY <2>1 DEF BusyIsAwaited
<1>3. ASSUME NEW i \in Slots, serve(i) PROVE BusyIsAwaited'
    <2>1. /\ busy' = busy /\ requests[i] \in Request /\ requests[i] # NoRequest
          /\ \E p \in {"ok", "refused", "lost"} : requests' = [requests EXCEPT ![i].phase = p]
        BY <1>3 DEF serve, FormInv, Shapes
    <2>2. ASSUME NEW j \in Slots, Owned(j)
          PROVE  Owned(j)' /\ requests'[j].form = requests[j].form
        <3>1. PICK p \in {"ok", "refused", "lost"} : requests' = [requests EXCEPT ![i].phase = p]
            BY <2>1
        <3>2. CASE j = i
            <4>1. requests'[i] = [requests[i] EXCEPT !.phase = p]
                BY <3>1 DEF FormInv, Shapes
            <4>2. /\ requests'[i] \in Request
                  /\ requests'[i].form = requests[i].form
                  /\ requests'[i].owned = requests[i].owned
                BY <2>1, <4>1 DEF Request
            <4> QED BY <2>2, <3>2, <4>2, SiteAssumption DEF Owned
        <3>3. CASE j # i
            BY <2>2, <3>1, <3>3 DEF Owned, FormInv, Shapes
        <3> QED BY <3>2, <3>3
    <2> QED BY <2>1, <2>2 DEF BusyIsAwaited
<1>4. CASE \/ apiEnds \/ \E f \in Forms : solve(f) \/ expire(f) \/ submitIncomplete(f)
    BY <1>1, <1>4 DEF apiEnds, solve, expire, submitIncomplete
<1>5. CASE \/ /\ Visitor /\ click
              /\ UNCHANGED <<page, api, widget, busy, note, result, scanned, taken, requests>>
           \/ scriptEnds /\ UNCHANGED formVars
           \/ UNCHANGED vars
    BY <1>1, <1>5 DEF vars, formVars
<1> QED BY <1>2, <1>3, <1>4, <1>5, AwaitedAtSubmit, AwaitedAtAnswer DEF Next

\* A button is off only while the form's own submission is in flight, whatever
\* was clicked, answered, lost or left in between: every answer turns it on.
THEOREM BusyForAReason == Spec => []BusyIsAwaited
<1>1. Init => BusyIsAwaited
    BY DEF Init, BusyIsAwaited
<1> QED BY <1>1, FormInit, FormStep, AwaitedStep, PTL DEF Spec
=============================================================================
