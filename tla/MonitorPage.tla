---------------------------- MODULE MonitorPage ----------------------------
(***************************************************************************)
(* The monitor page of the dashboard,                                      *)
(* apps/dashboard/src/app/(app)/monitors/[id]/page.tsx, with the edit form *)
(* of components/edit-monitor.tsx and the dialog of confirm-dialog.tsx.    *)
(*                                                                         *)
(* The page shows a cached copy of one row of the monitors table.  The     *)
(* copy is read again every minute and after every change made here; a     *)
(* reading and a change each take three steps (sent, handled by the        *)
(* server, answered), and in between the prober records checks and other   *)
(* people change or delete the row.  The form starts from the copy it was  *)
(* mounted with and is mounted anew whenever updated_at changes            *)
(* (key={m.updated_at}).  One visit to the page is modelled; the texts it  *)
(* shows ("saved", the errors) are left out.                               *)
(***************************************************************************)
EXTENDS Integers

CONSTANTS
    Fields,      \* the editable fields: name, url, interval_seconds, ...
    Values,      \* what a field may hold
    MaxStamp,    \* bound on the writes to the row: updated_at, as a number
    MaxRequests, \* bound on the changes in flight at once
    MaxFaults,   \* bound on the readings and changes that fail
    FirstConfig, \* what the row holds when the page is opened
    NoRow,       \* no row: deleted, or not read yet
    Failed,      \* the answer of a reading that failed, after its retry
    NoRequest    \* a free slot

ASSUME MonitorPageAssumption ==
    /\ MaxStamp \in Nat /\ MaxRequests \in Nat \ {0} /\ MaxFaults \in Nat
    /\ FirstConfig \in [Fields -> Values]

VARIABLES
    row,       \* the monitor in the database
    view,      \* the query ["monitor", id]: its status and its data
    fetch,     \* the reading in flight
    form,      \* the mounted EditMonitor
    requests,  \* the changes in flight: PATCH and DELETE
    page,      \* where the person is
    acked,     \* history: updated_at of the newest change answered here
    faults

vars == <<row, view, fetch, form, requests, page, acked, faults>>

---------------------------------------------------------------------------
Config == [Fields -> Values]
Row == [config : Config, enabled : BOOLEAN, stamp : 0..MaxStamp]
Slots == 1..MaxRequests

\* What a save writes: some of the fields.
Body == UNION {[F -> Values] : F \in SUBSET Fields}

\* A change on its way to the server with what it writes, or on its way back
\* with the updated_at it gave the row.
Request ==
    [kind : {"save"}, phase : {"sent"}, writes : Body,
     owned : BOOLEAN]            \* the form that sent it is still mounted
    \cup [kind : {"toggle"}, phase : {"sent"}, writes : BOOLEAN, owned : {TRUE}]
    \cup [kind : {"remove"}, phase : {"sent"}, writes : {NoRow}, owned : {TRUE}]
    \cup [kind : {"save", "toggle", "remove"}, phase : {"ok", "failed"},
          writes : 0..MaxStamp, owned : BOOLEAN]

ASSUME DistinctAssumption ==
    /\ NoRow \notin Row /\ Failed \notin Row /\ NoRow # Failed
    /\ NoRequest \notin Request

View == [status : {"pending", "error", "success"}, row : Row \cup {NoRow}]
Fetch == [phase : {"idle", "asked", "answered"}, row : Row \cup {NoRow, Failed}]

Form == [open : BOOLEAN, draft : Config, touched : SUBSET Fields]

\* Slip: the form starts from the row itself, not from its editable fields.
freshFormWhole(r) == [open |-> FALSE, draft |-> r, touched |-> {}]

freshForm(r) == [open |-> FALSE, draft |-> r.config, touched |-> {}]

Shown == page = "monitor" /\ view.status = "success"
Pending(kind) == \E i \in Slots :
    requests[i] # NoRequest /\ requests[i].kind = kind /\ requests[i].owned

---------------------------------------------------------------------------
(* The query of the page: useQuery with refetchInterval, api() *)

Asked == [phase |-> "asked", row |-> Failed]
NotAsked == [phase |-> "idle", row |-> Failed]

\* Slip: no polling after an error.
pollsUntilError == page = "monitor" /\ fetch.phase = "idle" /\ view.status # "error"

\* refetchInterval, also after a reading that failed; the tab is visible.
polls == page = "monitor" /\ fetch.phase = "idle"

poll ==
    /\ polls
    /\ fetch' = Asked
    /\ UNCHANGED <<row, view, form, requests, page, acked, faults>>

read ==
    /\ fetch.phase = "asked"
    /\ fetch' = [phase |-> "answered", row |-> row]
    /\ UNCHANGED <<row, view, form, requests, page, acked, faults>>

readFails ==
    /\ fetch.phase = "asked"
    /\ faults < MaxFaults
    /\ faults' = faults + 1
    /\ fetch' = [phase |-> "answered", row |-> Failed]
    /\ UNCHANGED <<row, view, form, requests, page, acked>>

\* A form that is unmounted leaves its save running, with nobody to tell.
disown == [i \in Slots |->
    IF requests[i] # NoRequest /\ requests[i].kind = "save"
    THEN [requests[i] EXCEPT !.owned = FALSE] ELSE requests[i]]

\* Slip: <EditMonitor monitor={m} /> without its key.
remountsOnlyAfterError(new) == view.status # "success"

remounts(new) == view.status # "success" \/ new.stamp # view.row.stamp

\* An error, also a 404, replaces the page and keeps the data of the query.
receive ==
    /\ fetch.phase = "answered"
    /\ fetch' = NotAsked
    /\ IF fetch.row \in {NoRow, Failed}
       THEN /\ view' = [view EXCEPT !.status = "error"]
            /\ requests' = disown
            /\ form' = IF view.row = NoRow THEN form ELSE freshForm(view.row)
       ELSE /\ view' = [status |-> "success", row |-> fetch.row]
            /\ IF remounts(fetch.row)
               THEN /\ form' = freshForm(fetch.row)
                    /\ requests' = disown
               ELSE UNCHANGED <<form, requests>>
    /\ UNCHANGED <<row, page, acked, faults>>

\* Slip: a reading in flight is joined, as it would be without cancelRefetch.
invalidatedJoining == IF page = "list" \/ fetch.phase # "idle" THEN fetch ELSE Asked

\* invalidateQueries, with data on the page: a reading in flight is dropped and
\* another one sent.  Nothing is read for a page that was left.
invalidated == IF page = "list" THEN fetch ELSE Asked

---------------------------------------------------------------------------
(* EditMonitor *)

openForm ==
    /\ Shown /\ ~form.open
    /\ form' = [form EXCEPT !.open = TRUE]
    /\ UNCHANGED <<row, view, fetch, requests, page, acked, faults>>

type(f, v) ==
    /\ Shown /\ form.open
    /\ form.draft[f] # v
    /\ form' = [form EXCEPT !.draft[f] = v, !.touched = @ \cup {f}]
    /\ UNCHANGED <<row, view, fetch, requests, page, acked, faults>>

\* The Cancel button only closes the form: what was typed is still in it.
cancelForm ==
    /\ Shown /\ form.open
    /\ form' = [form EXCEPT !.open = FALSE]
    /\ UNCHANGED <<row, view, fetch, requests, page, acked, faults>>

send(r) ==
    \E i \in Slots :
        /\ requests[i] = NoRequest
        /\ \A j \in 1..(i - 1) : requests[j] # NoRequest
        /\ requests' = [requests EXCEPT ![i] = r]

request(kind, writes) ==
    [kind |-> kind, phase |-> "sent", writes |-> writes, owned |-> TRUE]

\* Slip: every field of the form is sent.
changedAll == Fields

\* put(): the fields that differ from the monitor as the page has it now.
changed == {f \in Fields : form.draft[f] # view.row.config[f]}

save ==
    /\ Shown /\ form.open
    /\ ~Pending("save")
    /\ send(request("save", [f \in changed |-> form.draft[f]]))
    /\ UNCHANGED <<row, view, fetch, form, page, acked, faults>>

---------------------------------------------------------------------------
(* Pause, resume and delete *)

toggle ==
    /\ Shown /\ ~Pending("toggle")
    /\ send(request("toggle", ~view.row.enabled))
    /\ UNCHANGED <<row, view, fetch, form, page, acked, faults>>

\* Both clicks: on Delete and in the dialog, whose buttons are off meanwhile.
remove ==
    /\ Shown /\ ~Pending("remove")
    /\ send(request("remove", NoRow))
    /\ UNCHANGED <<row, view, fetch, form, page, acked, faults>>

---------------------------------------------------------------------------
(* The server, see Uptime for the whole of these transactions *)

written(r) ==
    CASE r.kind = "save" ->
            [row EXCEPT !.config = [f \in Fields |->
                            IF f \in DOMAIN r.writes THEN r.writes[f] ELSE @[f]],
                        !.stamp = @ + 1]
      [] r.kind = "toggle" -> [row EXCEPT !.enabled = r.writes, !.stamp = @ + 1]
      [] r.kind = "remove" -> NoRow

answered(i, phase, stamp) ==
    requests' = [requests EXCEPT ![i].phase = phase, ![i].writes = stamp]

\* updateMonitor and deleteMonitor.
handle(i) ==
    /\ requests[i] # NoRequest /\ requests[i].phase = "sent"
    /\ row # NoRow
    /\ requests[i].kind = "remove" \/ row.stamp < MaxStamp
    /\ row' = written(requests[i])
    /\ \/ /\ answered(i, "ok", IF row' = NoRow THEN 0 ELSE row'.stamp)
          /\ UNCHANGED faults
       \/ /\ faults < MaxFaults /\ faults' = faults + 1     \* the answer is lost
          /\ answered(i, "failed", 0)
    /\ UNCHANGED <<view, fetch, form, page, acked>>

\* 404, or a failure before anything changed.
refuse(i) ==
    /\ requests[i] # NoRequest /\ requests[i].phase = "sent"
    /\ \/ row = NoRow /\ UNCHANGED faults
       \/ faults < MaxFaults /\ faults' = faults + 1
    /\ answered(i, "failed", 0)
    /\ UNCHANGED <<row, view, fetch, form, page, acked>>

\* apply of the scheduler and RecordPing: updated_at moves at every check.
check ==
    /\ row # NoRow /\ row.stamp < MaxStamp
    /\ row' = [row EXCEPT !.stamp = @ + 1]
    /\ UNCHANGED <<view, fetch, form, requests, page, acked, faults>>

\* Another tab or another member of the tenant.
someoneElse ==
    /\ row # NoRow
    /\ \/ /\ row.stamp < MaxStamp
          /\ \/ \E f \in Fields, v \in Values :
                  row' = [row EXCEPT !.config[f] = v, !.stamp = @ + 1]
             \/ row' = [row EXCEPT !.enabled = ~@, !.stamp = @ + 1]
       \/ row' = NoRow
    /\ UNCHANGED <<view, fetch, form, requests, page, acked, faults>>

---------------------------------------------------------------------------
(* onSuccess and onError *)

answerOK(i) ==
    /\ requests[i] # NoRequest /\ requests[i].phase = "ok"
    /\ requests' = [requests EXCEPT ![i] = NoRequest]
    /\ IF requests[i].kind = "remove"
       THEN page' = "list" /\ UNCHANGED <<fetch, form, acked>>
       ELSE /\ fetch' = invalidated
            /\ acked' = IF requests[i].writes > acked THEN requests[i].writes ELSE acked
            /\ form' = IF requests[i].kind = "save" /\ requests[i].owned
                       THEN [form EXCEPT !.open = FALSE] ELSE form
            /\ UNCHANGED page
    /\ UNCHANGED <<row, view, faults>>

answerFailed(i) ==
    /\ requests[i] # NoRequest /\ requests[i].phase = "failed"
    /\ requests' = [requests EXCEPT ![i] = NoRequest]
    /\ UNCHANGED <<row, view, fetch, form, page, acked, faults>>

---------------------------------------------------------------------------
Init ==
    /\ row = [config |-> FirstConfig, enabled |-> TRUE, stamp |-> 0]
    /\ view = [status |-> "pending", row |-> NoRow]
    /\ fetch = Asked
    /\ form = freshForm(row)
    /\ requests = [i \in Slots |-> NoRequest]
    /\ page = "monitor"
    /\ acked = 0
    /\ faults = 0

User == openForm \/ cancelForm \/ save \/ toggle \/ remove
            \/ \E f \in Fields, v \in Values : type(f, v)

Query == poll \/ read \/ receive

Answer(i) == answerOK(i) \/ answerFailed(i)

Next ==
    \/ Query \/ readFails
    \/ User
    \/ \E i \in Slots : handle(i) \/ refuse(i) \/ Answer(i)
    \/ check \/ someoneElse

Spec == Init /\ [][Next]_vars

\* The page polls, readings and changes are answered (fetch fails when the
\* connection does).  Nothing is assumed of people, checks or success.
FairSpec ==
    /\ Spec
    /\ WF_vars(poll) /\ WF_vars(read) /\ WF_vars(receive)
    /\ \A i \in Slots : WF_vars(handle(i) \/ refuse(i)) /\ WF_vars(Answer(i))

---------------------------------------------------------------------------
(* Properties *)

TypeOK ==
    /\ row \in Row \cup {NoRow}
    /\ view \in View
    /\ fetch \in Fetch
    /\ form \in Form
    /\ requests \in [Slots -> Request \cup {NoRequest}]
    /\ page \in {"monitor", "list"}
    /\ acked \in 0..MaxStamp
    /\ faults \in 0..MaxFaults

\* "Sends only the fields that actually changed, so a PATCH never rewrites
\* something you didn't touch" (edit-monitor.tsx:9-10): whatever the copy under
\* the form was replaced by meanwhile, a save that leaves writes only fields
\* its author changed since the form was mounted.
UntouchedFieldsAreKept ==
    [][\A i \in Slots :
         requests'[i] # requests[i] /\ requests'[i] # NoRequest
         /\ requests'[i].kind = "save" /\ requests'[i].phase = "sent"
         /\ requests[i] = NoRequest
         => DOMAIN requests'[i].writes \subseteq form.touched]_vars

\* Once a change is answered and no reading is under way, the page never shows
\* the row as it was before the change: a poll that read the old row and comes
\* back after the answer must not win (page.tsx:75-78, edit-monitor.tsx:51-54).
OwnChangesAreShown ==
    Shown /\ fetch.phase = "idle" => view.row.stamp >= acked

\* When the writes stop, the page comes to show the row as it is, or that it is
\* gone, whatever was lost, dropped or answered late.
PageCatchesUp ==
    <>[](page = "monitor" =>
           \/ view = [status |-> "success", row |-> row]
           \/ view.status = "error" /\ row = NoRow)
=============================================================================
