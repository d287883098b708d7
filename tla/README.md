# Formal models of DevOps Access

TLA+ models of the uptime monitoring system of this repository - its scheduler,
its API, its dashboard and the forms of its marketing site -, the TLC runs
that check them on small instances, and TLAPS proofs of what matters most for
every size of the system. All source paths below are relative to `src/`.

    tlc -workers 2 -config UptimeCore.cfg Uptime.tla
    tlapm UptimeProofs.tla
    tlc -workers 2 -config Provisioning.cfg MCProvisioning.tla
    tlapm ProvisioningProofs.tla
    tlc -workers 2 -config Workspace.cfg Workspace.tla
    tlapm WorkspaceProofs.tla
    tlc -workers 2 -config MarketingSite.cfg MarketingSite.tla
    tlapm SiteProofs.tla

## 1. The system

DevOps Access is a multi-tenant uptime monitor: users register monitors, a
scheduler checks them, failures open incidents, incidents are announced on the
tenant's alert channels. All state is in one Postgres database, written by two
Go processes; a third, independent process serves the marketing site's forms.
People use it through the dashboard, a Next.js application whose pages keep
polled copies of the API's answers, and meet it first on the marketing site.

| Component | State it keeps | Operations | Hard behaviour |
|---|---|---|---|
| State machine, `services/scheduler/statemachine.go` | none, pure | `evaluate` | thresholds changed under a running count |
| Prober, `prober.go` | jobs in memory: claimed batch, channel of 200, workers | `claimDue`, `tick`, `worker`, `runOne`, `apply` | a job is a snapshot of its monitor, applied seconds or minutes later |
| Incident notifier, `notifier.go` | none of its own; `incidents.notify_state` | `notifyIncidents`, `notifyOne`, `sendAll` | read, send and write are separate; crash between them; partial failure |
| Certificate notifier, `certexpiry.go` | `monitors.tls_*` | `notifyCertExpiry`, `warnCertExpiry`, and the reset in `apply` | unconditional write after a stale read; starvation by `LIMIT` |
| Heartbeats, `heartbeat.go`, `services/api/ping.go` | `last_ping_at` | `evaluateHeartbeat`, `handlePing`, `RecordPing` | a ping races an evaluation under way |
| Housekeeping, `housekeeping.go` | none | nightly deletes | none |
| Scheduler main loop, `main.go` | two tickers | tick, incidents, certificates, purge, in sequence | one pass blocks the others; shutdown cancels what is in flight |
| Monitor API, `services/api/monitors.go`, `internal/store` | `monitors`, `heartbeat_tokens` | create, patch, delete | concurrent with every job of the monitor |
| Channel API, `channels.go` | `alert_channels` | create, delete, test | changes between the notifier's read and its sends |
| Audit trail, `audit.go`, `internal/store/audit.go` | `audit_log` | one row per mutation, same transaction | divergence from the incidents it records |
| Provisioning, `me.go`, `store.EnsureUser` | `users`, `tenants`, `tenant_members` | first login | concurrent first logins, slug search |
| Token verification, `internal/auth` | JWKS key cache | `key`, `fetchLocked` | rotation, outage, rate limit, staleness |
| Tenancy, `services/shared/db` | `app.tenant_id` of a transaction | `WithTenant` | rows of another tenant |
| Migration, `migrate.go` | `schema_migrations` | `migrate` | concurrent starts, crash between files |
| Read endpoints (`incidents`, `status`, `badge`, results, series) | none | reads | window arithmetic |
| Contact service, `services/contact` | limiters in memory; `waitlist`, `payments`, `scans` | contact, waitlist, site check, Razorpay webhook | retried and duplicated deliveries, eviction |
| Dashboard shell, `apps/dashboard/src/app/(app)/providers.tsx` | the query cache; the answer of `/api/me` | `useMe`, `Bootstrap`, polling every minute | a failed poll takes every page away |
| Dashboard analytics, `lib/analytics.ts`, `components/consent-banner.tsx` | consent in localStorage, the script | `applyPrefs`, `loadPostHog`, `track`, `identify` | consent, script and event in any order |
| Monitor page, `monitors/[id]/page.tsx`, `edit-monitor.tsx` | cached row, form, changes in flight | edit, pause, resume, delete | the row changes under the form at every check; polls overtake answers |
| Workspace pages: channels, new monitor, settings, setup guide | cached lists, dialog, test results | create, remove, test, switch | answers after the page was left; stale lists |
| Figures and marks: `lib/format.ts`, charts, chips | the chart's tooltip | formats; `onMove` | boundaries between units; a series that changes under the mouse |
| Marketing site forms: `SiteCheck`, `Waitlist`, `ContactForm`, `Turnstile` | one widget and one status line per form | submit, answer | tokens that are good once; answers after the form was left |
| Marketing site consent, `ConsentBanner.tsx` | localStorage, two scripts | save, reopen | a refusal while a script loads |
| e2e tests, infrastructure, static pages | none | | |

How they interact: the API and the prober share the tables and nothing else.
Each of their operations is one transaction that locks the monitor's row. The
prober talks to its workers through a bounded channel. The notifiers run in
the main loop between two ticks and see the incidents only through the table;
what they owe is in `notify_state` and `tls_warned_threshold`. Nothing is
retried except by being found again in a table on a later tick.

A page of the dashboard reads a query when it is mounted, every minute and
after each change made through it. A reading and a change each take three steps
(sent, handled by the server, answered), so polls, changes, the prober and other
members interleave between any two of them. Leaving a page unmounts it; what it
asked for is carried out all the same, and nobody is told.

What makes each part correct:

* prober and API: at most one open incident per monitor; an open incident's
  monitor is down, so that the next success resolves it; a monitor is in the
  end what its checks say;
* notifier: no alert is lost, none repeated without a failure, recovery after
  down, and every incident leaves the list in the end;
* certificates: the ladder descends, repeats have a cause, the last warning
  comes unless the row holds the last rung of another certificate (section 5);
* provisioning: one tenant per subject, whole or not at all, the same to every
  handler, and no request left waiting; keys: a known key is
  served through an outage and a flood does not reach the key server; contact:
  one row per payment or signup; audit: the trail tells the incidents' story;
* dashboard: what a person changed is shown and stays shown, what they did not
  touch is not written, a dialog and a result speak of the thing they stand
  beside, a figure can be read back as exactly as it is said, and a workspace whose alerts reach nobody
  is told so;
* marketing site: nobody listens in a tab that goes by a refusal, but for the
  two cases of section 5, no scan sends a spent token,
  an answer is shown for the submission it belongs to, and no button stays off.

## 2. Modules

| Module | Models | Extends / instantiates |
|---|---|---|
| `StateMachine` | `evaluate`, a pure operator | |
| `IncidentTable` | abstract specification of the `incidents` table | |
| `Uptime` | prober, workers and the API's writes | extends `StateMachine`, implements `IncidentTable` |
| `UptimeProofs` | theorems about `Uptime` | extends `Uptime`, TLAPS |
| `Notifier`, `MCNotifier` | incident notifier; its instance | composes with `IncidentTable`'s actions and implements it |
| `NotifierProofs` | theorems about `Notifier` | extends `Notifier`, TLAPS |
| `CertLadder` | certificate warnings | |
| `CertProofs` | theorems about `CertLadder` | extends `CertLadder`, TLAPS |
| `Provisioning`, `MCProvisioning` | first sign-in and `requireTenant`; its instance | |
| `ProvisioningProofs` | theorems about `Provisioning` | extends `Provisioning`, TLAPS |
| `MonitorPage`, `MCMonitorPage` | one visit to a monitor's page; its instance | |
| `MonitorPageProofs` | theorems about `MonitorPage` | extends `MonitorPage`, TLAPS |
| `Session` | the bootstrap: `/api/me` and what it mounts | |
| `Funnel` | consent, script and signup report of the dashboard | extends `Session` |
| `Workspace` | channels, new monitor, settings, setup guide | extends `Session` |
| `WorkspaceProofs` | theorems about `Workspace` | extends `Workspace`, TLAPS |
| `Display`, `MCDisplay` | formats, phases, chip and chart as pure operators, the tooltip as state; their inputs | |
| `DisplayProofs` | theorems about `Display` | extends `Display`, TLAPS |
| `Consent` | consent and scripts of the marketing site | |
| `MarketingSite` | its forms and Turnstile widgets | extends `Consent` |
| `SiteProofs` | theorems about `Consent` and `MarketingSite` | extends `MarketingSite`, TLAPS |

**`Uptime`.** `monitor` and `incident` are the rows; `batch`, `queue` and
`worker` are the jobs in the tick's slice, the channel and the workers' hands.
A job is a *snapshot*: id, URL, threshold, state, failure count. Each action is
a committed transaction or one step on the channel, named after its function:
`CreateMonitor`, `UpdateMonitor`, `DeleteMonitor`, `RecordPing`, `claimDue`,
`enqueue`, `takeJob`, `apply`. `abandon` is a panic or a transaction that
failed and rolled back, also the apply of a deleted monitor, whose result row
violates its foreign key. `Restart` is a crash or a shutdown: jobs are lost,
rows stay. Time is one bit per monitor: `due`, set by `IntervalElapses` and
cleared by the claim. The constant `Slow` says of which monitors a claimed job
may outlive the interval; for the others the interval elapses only after the
job ended. That separates what the code guarantees always from what it
guarantees while the workers keep up. A patch's effect on `interval_seconds`
is `postpone`: a longer interval may make a due monitor not due.

**`Notifier`.** `list` reads the pass (oldest first, `ListLimit` rows); `load`
takes the next alert and the tenant's channels; `send` is one channel with
either outcome; `finish` keeps the alert for a retry or advances
`notify_state` if it is still what was read. The table's other writers are the
actions of `IncidentTable`, at any point in between. `age` says which of the
incident's two times has passed the one-hour retry window. The history
variables `sent` and `excused` exist for the properties only.

**`CertLadder`.** A certificate is its expiry day. `RecordCert` is apply's
statement on the certificate: any certificate not yet expired may be seen
next (renewal, several servers behind a name, a changed URL). The pass is
`list`, `decide` (with `certRung`), `send`, `finish`. The code's 14 and 3 days
are constants. `sent` counts the warnings of each rung per certificate, and
`warnedOf` remembers for which certificate the rung in a row was written, which
the row itself does not say; both are history.

**`Provisioning`.** A request is a goroutine whose `pc` names the statement it
runs next. `Lookup`, `Begin`, `Lock`, `Recheck`, `InsertUser`, `TrySlug` (one
turn of the loop), `Join` (membership and audit entry) and `Commit` are
`EnsureUser` from top to bottom; `RequireTenant` is the middleware of every
other request. The rows carry the request that wrote them, so that "its
transaction is open" says which rows another statement sees (`Visible`,
READ COMMITTED) and which insert must wait (`Decided`, a unique index). The
advisory lock is held from `Lock` to the end of the transaction and a
connection from `Begin` to the end; both follow from `pc`. `Abort` is a failed
statement, the 30 s deadline or a dead process, at any point;
`CommitUnanswered` commits and answers 500. `HashOf` lets two subjects share a
lock key, and `Candidate` lets two base names meet in one slug ("info-2").

**`MonitorPage`.** `row` is the monitor in the database with a counter for
`updated_at`; `view` and `fetch` are the query and its reading in flight;
`requests` the PATCHes and DELETEs. `save`, `toggle` and `remove` send;
`handle` and `refuse` are the server (the answer may be lost after the change
was made); `answerOK` is each mutation's `onSuccess`, which closes the form and
reads the row again, dropping a reading under way (`invalidated`). `receive`
takes an answer into the cache and mounts the form anew when `updated_at`
moved, which leaves a save without an owner (`disown`). `check` is the prober
and `someoneElse` another member. `acked` is history.

**`Session`, `Funnel`, `Workspace`.** `Session` is the bootstrap: its pages are
mounted only while the newest reading of `/api/me` succeeded. `Funnel` adds
consent and the report of the signup, made once per load. `Workspace` adds the
pages: `visit`, `reloadTab` and `receiveMeAnswer` unmount them
(`unmount`, `mountQueries`). A request is `heard` by the page that sent it, by
the tab only (the page was left: the mutation's hooks still run, its component
state is gone), or by nobody (the tab was reloaded). `removeError` is the error
of the last failed removal, which stays in the dialog until the next removal is
confirmed. The rest are the handlers and mutations of the
pages, with `created`, `removedOne`, `tested`, `switched` and `monitorCreated`
their `onSuccess`. How the query library cancels, joins and keeps readings is
external and stated in `rereads`, `invalidate` and `mountQueries`. `verdict`
and `removed` are history: `removed` has every answered removal but those that
find no page with the list mounted while a reading of it is under way.

**`Display`.** A behaviour picks one input and renders it. A chart goes on:
`newSeries` is a poll or a range button, `onMove` and `onLeave` are the mouse.
`hover` is the component's state, the point of the last mouse move, which a new
series leaves alone; `moved` is history. Durations, windows, uptimes and the plot use exact integers: coordinates are compared after
multiplication with their denominators.

**`Consent`, `MarketingSite`.** One load of one tab: links keep it, a reload
ends it, another tab may store another answer. A widget has no token, is
solving, or has a fresh or a spent one; `resetOne` takes whichever widget the
library picks, because the code's `reset()` names none.

**Composition.** `IncidentTable` is the seam. Uptime shows that prober and API
change incidents only as it allows, abstracting the notifier to
`advanceNotify`; Notifier shows the same of the notifier against *any* writers
that obey the table. A definition called a *slip* in a comment is a plausible
mistake in the code; it is used by no specification and serves to confirm that
the properties can tell it from the code.

## 3. Runs

| Run | Config | Question | Instance |
|---|---|---|---|
| core | `UptimeCore` | safety, refinement and liveness while checks fit their interval | 1 monitor that can be pinged, 3 incidents, 2 workers, channel of 1, thresholds 1 and 2 |
| overlap | `UptimeOverlap` | what survives overlapping jobs | 1 monitor in `Slow` that is not pinged, 2 incidents, 2 workers, channel of 1, threshold 2 |
| paused | `UptimePaused` | see 5 | 1 monitor |
| notifier_channels | `NotifierChannels` | partial failures and faults | 2 monitors of 2 tenants, one without channels, 2 channels, 1 incident, 2 faults |
| notifier_queue | `NotifierQueue` | the limited list, refinement, liveness | 2 monitors, 2 incidents, 1 channel, one row per read, 1 fault |
| certificates | `CertLadder` | order, causes and arrival of the warnings | 1 monitor, 2 channels, 2 expiries, 3 recordings, 1 fault |
| provisioning | `Provisioning` | races and failures of first sign-ins | 5 requests of 3 subjects, 2 sharing a lock key, 2 a base name, 2 a numbered slug; 2 connections, 2 candidates, 2 faults |
| monitor_page | `MonitorPage` | a person's changes among polls, checks and other people's | 1 field of 2 values, 2 requests, 2 writes, 1 fault |
| workspace | `Workspace` | dialogs, results, lists and the warning | 2 channels, 2 requests, 2 clicks, 1 fault |
| signup | `FunnelSignup` | see 5 | 1 fault |
| site | `MarketingSite` | consent, tokens and answers | 2 addresses, 2 submissions, 4 clicks |
| display | `Display` | figures, marks and the tooltip | inputs within 2 of each boundary; up to 20001 checks; series of 0 to 3 buckets, 7 mouse positions |

What they show, property by property:

* `OpenMeansDown`, `SnapshotKnowsIncident` (core): with checks inside their
  interval an open incident means its monitor is down *and* the job in flight knows it, although the API
  may patch, ping or delete while the job waits. A failed transaction or a
  restart does not break it.
* `ImplementsIncidentTable` (core, overlap, notifier_queue): the refinement. In
  overlap it says that two open incidents of one monitor are impossible even
  when jobs overlap, thanks to the index and `ON CONFLICT`.
* `Recovers` (core), `Detects` (core, overlap): a monitor left alone whose checks
  all end the same way ends up, with no open incident, or down. Detection
  survives overlapping jobs, which overwrite each other's counts; recovery does
  not (section 5).
* `AlertNeverLost`, `RecoveryFollowsDown`, `RepeatedOnlyAfterFault`,
  `EverythingSettles` (notifier): `notify_state` moves only after somebody was
  told or nobody could be; a recovery is never told before the outage; a
  channel hears a message at most once more than there were faults; nothing
  owed stays owed for ever.
* `RepeatsHaveCause`, `LadderDescends`, `LastWarningComes` (certificates): a
  warning comes again only after a renewal or a fault, each of which repeats it
  once; nobody is calmed after the last warning; and the last warning reaches
  somebody, unless the row holds the last rung of another certificate.
* `OneTenantEach`, `WholeWorkspace` (provisioning): a double-fired first sign-in
  gives one tenant, complete with owner, membership and first audit entry. A
  request that ends in an error has left all of it (its commit went through) or
  nothing, one that runs out of slugs nothing. `AnswersAgree`, `KnownStaysKnown`: `/api/me` and
  `requireTenant` name the same tenant, and whoever was answered is not turned
  away. `NoGaps`: `base-3` exists only beside committed `base` and `base-2`.
  `EveryRequestEnds`: lock, slug waits and pool never wait in a circle.
* `OwnChangesAreShown`, `UntouchedFieldsAreKept`, `PageCatchesUp`
  (monitor_page): no poll undoes an answered change on the screen, no save
  writes back somebody else's, and the page ends up showing the row or that it
  is gone.
* `DialogNamesTheRemoval`, `TestTellsItsOutcome`, `RemovedStaysGone`,
  `SilenceIsWarned` (workspace): a removal under way has its own channel's dialog
  and no older error in it; what stands beside a channel is what the page was
  told of its newest test (a lost answer is told as an error); a channel whose
  removal was answered, on its page or after it was left, is not shown again,
  with the exception in section 5; the warning comes when, and only when, monitors run
  and nobody would be told.
* `QuietAfterDecline` (site): a withdrawal in this tab, with its script arrived or
  blocked, silences both scripts, however often the preferences are reopened
  and whatever an earlier load left; the two refusals of section 5 are left out.
  `ScansCarryNewTokens`, `AnswersAreOfTheLastSubmission`, `BusyEnds` (site): no
  scan sends a spent token, late answers touch no newer submission, no button
  stays off.
* `FiguresReadBack` (display): a duration is said to its last unit and never reads
  `60s`, periods and phases exactly, an uptime to half a hundredth of a percent,
  and `100%` only where no check failed. `MarksAreTrue`: the certificate chip and
  the scheduler's mails follow one ladder, and every point lies in its plot, in
  order of time and height. `TooltipIsTrue`: the tooltip is of the nearest point
  to where the mouse last moved over this series, and goes with the mouse.

**Bounds.** One monitor is enough in `Uptime`: every statement there names one
monitor, and monitors meet only in the batch, the channel and the workers. Two
workers and a channel of one give a job in each place; in core one monitor has
one job at a time, so the channel is full, with a tick that waits, only in the
overlap run. Three incidents allow one closed, one resolved and one open at once;
thresholds 1 and 2 give a count below, at and, after a patch, above the
threshold. When the incident ids are used up, a failure
that crosses the threshold can only be abandoned; that is a limit of the
instance, and the premise of `Detects` excludes it, so that `Detects` speaks of
the behaviours that still have an id to open. Faults are counted because each excuses one
repetition. The runs set `CHECK_DEADLOCK FALSE`: when all monitors are deleted
or all ids used there is nothing left to do.

In `Provisioning`, two requests of one subject, a third that needs the tenant,
one subject with the same base name and one with the same lock key and a
colliding slug are every kind of conflict two sign-ins can have; two
connections for five requests make the pool run out, and two candidates let
the search succeed at once, succeed late and fail.

In `MonitorPage` one field suffices for the safety properties, which are stated
per field and proved for any number; two writes are a check, a save or another
member's change in either order, one of them under a reading, and two requests
a save beside a pause or a deletion. In `Workspace` the first page is any page
and the lists any lists, so two clicks (a change here, another elsewhere, or a
link or a reload between) reach every pair of actions; polls and the
bootstrap's readings are not bounded. In `MarketingSite` four clicks allow a
scan, the waitlist under its result, a second scan and a consent or a link in
between.

**Fairness.** `Uptime!Fairness` assumes that time passes, that a monitor that
keeps being due is claimed (the tick's `ORDER BY last_checked_at` serves the
longest unchecked first; strong fairness, for a user may pause in between),
that the tick puts its batch on the channel when there is room, and that a
worker finishes its job *somehow* (checks have a timeout, Postgres answers or
the connection breaks). It never assumes that users act, that checks succeed
or that transactions commit: `Recovers` and `Detects` have that as an explicit
premise (`Undisturbed`: from some point on the monitor stays enabled, nobody
but the prober changes it, its checks all end the same way and none of its jobs
is lost). `Notifier!FairSpec` assumes that passes are run and
time passes; every send has a timeout, its outcome is free. `CertLadder`
assumes in addition that a channel tried again and again accepts at last,
because the code retries certificate warnings without limit. `Provisioning`
assumes that each request's next statement is run when nothing blocks it.
`MonitorPage`, `Workspace` and `MarketingSite` assume that mounted queries poll
(the tab is visible) and that what was sent is answered or fails; nothing of
what people do, and nothing succeeds by assumption.

## 4. Proofs

### `UptimeProofs`

For all monitors, workers, incidents, URLs, thresholds and capacities, from
the assumptions in `StateMachine` and `Uptime` (thresholds below the counter's
cap, distinct sentinel values, a channel with room for one job):

* `TypeCorrect`: `Spec => []TypeOK`.
* `OpenIncidentMeansDown` and `SnapshotAgrees`: both from the inductive invariant `SnapshotInv`. `OpenMeansDown`
  alone is not inductive: a success applied with a stale snapshot that says
  "up" would take the monitor up and leave the incident open. The invariant
  adds that snapshots know of the incident (`SnapshotKnowsIncident`), and that
  itself needs the exclusiveness of claims (`ClaimsAreExclusive`): no second
  job may hold an older snapshot, and a due monitor has no job in flight. The
  proof goes action by action; apply is split by the three outcomes of
  `evaluate`.
* `Implementation`: `Spec => ImplementsIncidentTable`, each step a step of the
  table or a stutter.

### `ProvisioningProofs`

For all requests, subjects, lock keys, base names, candidates, connections and
faults, from `ProvisioningAssumption` and, for the slugs only,
`CandidateAssumption` (the suffixes of one base differ):

* `Invariance`: `Spec => []Inv`. `OneTenantEach` alone is not inductive; `Inv`
  adds that the requests of a subject are not past the lock together
  (`Exclusive`), which rows a request at each statement has written
  (`UserRows` ... `Progress`), that a membership's user row is its own
  transaction's or a committed one (`Owned`, so a rollback never takes the user
  from under another's membership), and that a request which found no tenant
  under the lock stays right about it (`StillNew`).
* `TypeCorrect`, `OneTenant`, `Agreement`, `StaysKnown` follow from it, and `Whole`
  with `Backed`: the rows of a request that ended are those of a commit.
* `SlugsHaveNoGaps`: by a second induction over `Searched`, the candidates a
  request has passed over, since a committed tenant is never removed.

* `NoCircle` and `NeverStuck`, the safety side of `EveryRequestEnds`.
  `WaitsFor(r)` is whom a request waits for: the holders of connections, of its
  lock key, of its subject's row or of its slug; `WaitersStand` shows that a
  request which waits takes no step, so these are all the waits there are.
  Waits go from pool to lock to slug only: the holder of a slug has nothing left
  to wait for, the subject's row is never waited for (`Exclusive`), and who
  waits for a connection holds none, since the second look and the inserts run
  on the transaction's own. So some request can always go on, with a pool of
  one as well. That it does so in the end is fairness, and TLC's.

### `MonitorPageProofs`

For all fields, values and numbers of requests:

* `TypeCorrect`, and `OwnChangesShown` from an invariant that adds, to the
  property itself, that a reading that will be taken is not older than what was
  acknowledged: `invalidated` drops the one in flight in the very step that
  raises `acked`. No stamp in the system is ahead of the row.
* `UntouchedKept`: the form's draft differs from the cached row only where it
  was touched, *because* a reading with another `updated_at` mounts it anew;
  without `key={m.updated_at}` the invariant breaks at `receive`.

### `NotifierProofs`

For all incidents, monitors, channels, tenants, limits and numbers of faults,
from `NotifierAssumption` and `DistinctAssumption` (no alert is not an alert):

* `TypeCorrect`, together with the type of the table's rows and of their order.
* `DownBeforeRecovery` and `NoAlertLost` from `ToldInv`. `RecoveryFollowsDown`
  is not inductive: the recovery notice of an alert read a moment ago is right
  only because an incident is notified once somebody was told
  (`incident[i].notify = "notified" => Told(i, "DOWN")`) and because an alert
  that found its incident notified was read of a resolved one (`Sound`).
* `RepeatsNeedFaults` from `RepeatInv`, an account: what a channel was sent,
  plus one while it is still owed the message by the row, by the pass or by the
  alert in hand, is at most one more than the faults. It rests on a pass
  holding one reading of an incident, and none of the one in hand
  (`OneReading`), and on a reading being ahead of its row in no way
  (`Behind`): the guarded `UPDATE` then always closes what was delivered.
* `Implementation`: the notifier among arbitrary writers of the table
  implements the table. The recovery `UPDATE` names only `notify_state`; that
  its incident is still resolved is `ReadingsLast`.

### `CertProofs`

For all thresholds, monitors, channels, expiry days and faults:

* `TypeCorrect`, and `EachRepeatPaidFor` from `LadderInv`: the same account with
  renewals besides faults, per rung. A rung is open in a row when a warning of
  it may still come; `Behind` says a reading differs from its row only by a
  reset.
* `NeverCalmedAgain` from `DescentInv`: the last warning of a certificate is
  only sent when its day has come near, and a first warning is decided upon
  before; so none under way is of a certificate whose last was sent.

### `SiteProofs`

For all sites and any number of submissions in flight:

* `Quiet` from `ConsentInv`: a script listens only for a yes this tab goes by, or
  for a refusal it missed while loading.
* `NewTokens` and `AnswersBelong` from `FormInv`. A spent token of the site
  check is only ever there while its form is busy (`WidgetsOfThePage`), since
  the waitlist, whose widget the reset might pick instead, is not shown during
  a scan; and each form owns at most one submission (`OneOwnedEach`), which is
  what keeps an answer from landing under a later question.

* `BusyForAReason`, the safety side of `BusyEnds`: while a button is off, a
  submission its form owns is in flight, whose answer turns it on. An answer to
  an older submission turns nothing on, for a form that is unmounted gives up
  what it sent (`disowned`) and is mounted with its button on.

### `WorkspaceProofs`

For all channels, numbers of changes in flight, clicks and faults, from
`SessionAssumption` and `WorkspaceAssumption` (the sentinels are no values):

* `TypeCorrect`, with what each query may be answered (`QueryShapes`) and what
  each kind of request carries (`ArgsFit`).
* `DialogIsOfTheRemoval` and `TestsTellTheTruth` from `HandInv`. Of each kind of
  change at most one is waited for (`OneOwnedEach`): two tests under way would
  write their results into each other's channel. The dialog is open only where
  the channels page is mounted with its list (`DialogOnItsPage`), and it cannot
  be dismissed or replaced while its removal runs. `TestAwaited` ties the word
  "sending" to the request that will replace it.
* `RemovedIsGone` from `GoneInv`. A channel whose removal was answered is not on
  the server, and never returns there (`GoneForGood`: ids are not used again). No
  list at rest, and no answer that will be taken, shows it (`ReadingsAreClean`).
  That has two sides: where the list is mounted, the answer to the removal drops
  the reading under way, because the list stood behind the dialog it was
  confirmed in (`ListStands`); where it is not, the list is marked, and whoever
  mounts it next reads it first (`UsedIsAsked`). Only a reading that is under way
  with nobody using the list escapes both, and those answers are not in
  `removed`. Where readings come from and which of them a step may end is
  `Turns`, one lemma for each handler.

### `DisplayProofs`

For all inputs, from `DisplayAssumption`. What is shown is the view of the input,
through every change of series, so the theorems rest on lemmas about arithmetic:

* `FiguresAreTrue`: durations by their parts (`PartsReadBack`), periods by their
  largest exact unit (`SecondsReadBack`), phases one by one (`SegmentsReadBack`),
  uptimes by the rounding of their share (`PctWhole`, `PctInRange`).
* `MarksTellTheTruth`: the chip (`ChipOfLead`), the scale (`ScaleCovers`) and the
  points (`PointsAcross`, `PointsWithin`, `HigherIsLonger`).
* `TooltipTellsTheTruth` by induction over the mouse's and the series' steps: a
  move sets a nearest point of this series, a new series makes `moved` forget
  it. That a series of any length *has* a highest average (`HighestExists`) and
  a nearest point (`NearestIsNearest`) is argued by the least counterexample: a
  set of naturals that is not empty has a least member (`LeastOfSet`).

Left to TLC: the liveness properties (the provers have no rules for fairness or
`ENABLED`), that is `Recovers`, `Detects`, `EverythingSettles`,
`LastWarningComes`, `EveryRequestEnds`, `PageCatchesUp`, `SilenceIsWarned` and
`BusyEnds`: they are checked on the instances of section 3 only. Every safety
invariant and action property of a passing run is a theorem.

## 5. Where code and comments disagree

Two are runs that TLC finds violated, listed in `PROJECT.json` with quotes.

* `paused`: a check in flight at the pause opens an incident on the paused
  monitor; nothing resolves it while it is paused.
* `signup`: the dashboard reports a new workspace once, with the first answer of
  `/api/me` (`providers.tsx:26-38`), and what is reported before the analytics
  script is there is dropped. Consent stored earlier only starts the loading of
  the script when the page opens, so the answer may come first; whoever clicks
  Allow after the answer is too late in any case. Such a person is never counted
  as a signup, nor identified.

Others show in the models but have no run of their own; the properties above are
stated so as not to claim what they break.

* A claimed monitor *can* be dispatched twice while its check is in flight, once
  queueing and timeout exceed the interval (`Slow`, run overlap), against
  `prober.go:49-52`. Then a success with a snapshot from before the incident takes
  the monitor up and leaves the incident open: beside a monitor that stays up
  nothing resolves it ever after. `Recovers` and `OpenMeansDown` therefore speak
  of monitors outside `Slow`.
* "At most once per rung per certificate", and "a restart never re-sends"
  (`certexpiry.go:9-11`), do not hold: a crash or a failed `UPDATE` between the
  sends and the write of the rung repeats the warning, and so does every return
  to a certificate with a later expiry, for instance when two servers behind one
  name serve different ones. `RepeatsHaveCause` bounds the repetitions by those
  causes.
* Nobody may be warned of a certificate at all, against "caught in advance rather
  than reported after" (`certexpiry.go:27-29`): the rung is written without a
  look at the row (`certexpiry.go:99`), so a pass that read the old certificate
  marks a renewed one as warned; and a certificate that expires *earlier* than
  the one before keeps its rung (`prober.go:116-121`). `LastWarningComes` leaves
  out the rows that hold the last rung of another certificate.
* Pause and resume of a down monitor closes its incident and leaves it down
  (`store.go:338`), so the outage that goes on has no incident and alerts nobody.
* The result of a check of the old URL is applied to the new one
  (`prober.go:106`, `store.go:296`).
* A hundred monitors with expired certificates keep the others from ever being
  warned (`certexpiry.go:38`): the list is limited and those already warned stay
  in it.
* When forty workspaces share a base name ("team" for users without claims, or a
  common localpart) the next sign-in with it always fails (`store.go:682`).
* The prober's checks move `updated_at`, and the edit form is mounted anew when
  it moves (`monitors/[id]/page.tsx:189`): whatever is being typed is discarded
  at the first poll after a check, once a minute for most monitors.
* A refusal given while the marketing site's PostHog script is loading is
  forgotten: `stopAnalytics` finds nothing to stop and `onload` starts the
  capture (`ConsentBanner.tsx:39-52`, `73-78`). The variable `late` marks this
  case, and `QuietAfterDecline` excludes it.
* A refusal in another tab is not noticed by this one, whose scripts listen until
  its next reload (there is no `storage` listener); `QuietAfterDecline` goes by
  the answer this tab goes by (`applied`).
* The error of a failed removal stays in the dialog when, after Cancel, it is
  opened for another channel (`channels/page.tsx:154`; the mutation is never
  reset). `DialogNamesTheRemoval` speaks of dialogs whose removal runs.
* A removed channel comes back when the answer arrives after the page was left
  and while a reading of the list is under way: nobody uses the list, so the
  invalidation (`channels/page.tsx:40-43`) only marks it, the reading made before
  the removal clears the mark, and the next visit within the staleTime shows the
  channel until the next poll. `removedOne` keeps these answers out of `removed`.
* An uptime of 20000 checks in 20001 is shown as "100.00%" (`format.ts:13-17`).
* The chart's tooltip keeps its point when the series changes under a mouse at
  rest (`latency-chart.tsx:17`, `67-76`): it may be of a bucket that is no longer
  drawn. `TooltipIsTrue` says nothing between the change and the next move.
* After a failed submission the waitlist and the contact form send the same,
  spent, Turnstile token again; only the site check asks for a new one, and
  its `reset()` names no widget.

## 6. Not modelled

The HTTP probe and its diagnosis (a check is any outcome), wording and layout,
the sparkline's bars, the chart's failure marks, the headline of the public
status page, the contact service's thanks for a submission whose hidden field
was filled and which it drops (`contact/handler.go:77-81`, `waitlist.go:44-48`),
monitor_results and their retention, validation of requests, the text typed
into the dashboard's forms other than the edit form, pages that only display a
query (activity, incidents, embed snippets), the site's static pages,
deployment: pure I/O, data or layout. Postgres is taken to run each transaction
atomically where the code locks the row it works on; two schedulers at once (a
deploy overlap) are two batches' worth of jobs and are covered only through
`Slow`. The query library and React are modelled by the behaviour the pages
rely on: cancelling or joining a reading, hooks of a mutation that run after
the unmount, state that goes with its component. Token verification, the audit
trail, migration, housekeeping and the contact service's limiters and webhooks
are in no module; their hazards are listed in `PROJECT.json` with a note.

## 7. Plan

1. done: `StateMachine`, `IncidentTable`, `Uptime`, `Notifier`, `CertLadder`,
   `Provisioning`, `MonitorPage`, `Session`, `Funnel`, `Workspace`, `Display`,
   `Consent`, `MarketingSite`, and the proofs of section 4: all their safety
   properties, the refinements of `IncidentTable`, and the absence of circular
   waits in `Provisioning`.
2. `Heartbeat` (the exact clock: window, ping, pause and resume) and
   `Scheduler` (one loop, blocking passes, two tickers, shutdown).
3. `KeyCache`, `AuditTrail`, `Contact`, `Migrate`.
