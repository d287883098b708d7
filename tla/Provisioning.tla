---------------------------- MODULE Provisioning ----------------------------
(***************************************************************************)
(* The first sign-in of services/api: EnsureUser behind GET /api/me, which *)
(* gives a new subject its user, its tenant with a free slug, its          *)
(* membership and the first entry of its audit trail in one transaction,   *)
(* and requireTenant, which every other request of the dashboard passes.   *)
(*                                                                         *)
(* A request is one goroutine. It runs its statements one by one, on a     *)
(* connection of the pool, under the isolation of PostgreSQL's READ        *)
(* COMMITTED: a statement sees its own transaction's rows and the rows     *)
(* committed when it starts, and an insert that meets another open         *)
(* transaction's unique key waits for that transaction to end. Any         *)
(* statement may fail, any request be cut off by its 30 s deadline, and a  *)
(* commit may succeed without its answer arriving.                         *)
(***************************************************************************)
EXTENDS Integers, FiniteSets

CONSTANTS
    Requests,    \* the requests of a behaviour; a retry is a request of its own
    Subs,        \* Auth0 subjects
    LockKeys,    \* the range of hashtext: two subjects may share a key
    Bases,       \* slugified tenant base names
    Slugs,
    SubOf,       \* the subject of each request's token
    BaseOf,      \* the base name its email and name claims give
    MeRequests,  \* those to /api/me; the others need a tenant
    HashOf,      \* hashtext of a subject
    Candidate,   \* Candidate[base][i]: base for i = 1, base-i after that
    SlugLimit,   \* candidates tried (40 in the code)
    PoolSize,    \* connections of the pool
    MaxFaults,   \* bound on the failures of a behaviour
    NoTenant

ASSUME ProvisioningAssumption ==
    /\ SubOf \in [Requests -> Subs]
    /\ BaseOf \in [Requests -> Bases]
    /\ HashOf \in [Subs -> LockKeys]
    /\ SlugLimit \in Nat \ {0}
    /\ Candidate \in [Bases -> [1..SlugLimit -> Slugs]]
    /\ MeRequests \subseteq Requests
    /\ PoolSize \in Nat \ {0}
    /\ MaxFaults \in Nat
    /\ NoTenant \notin Requests

\* The suffixes of one base differ; candidates of two bases may coincide.
ASSUME CandidateAssumption ==
    \A b \in Bases : \A i, j \in 1..SlugLimit : Candidate[b][i] = Candidate[b][j] => i = j

VARIABLES
    pc,        \* the statement each request runs next, or how it ended
    attempt,   \* the candidate slug it tries next
    users,     \* rows of users: the subject and the request that inserted it
    tenants,   \* rows of tenants, identified by the request that inserted them
    members,   \* rows of tenant_members
    trail,     \* the tenants whose audit trail starts with user.first_login
    answer,    \* the tenant a request was answered with or let through to
    faults     \* failures so far

tables == <<users, tenants, members, trail>>
vars == <<pc, attempt, users, tenants, members, trail, answer, faults>>

---------------------------------------------------------------------------
Idle == {"lookup", "begin"}
Unlocked == {"lock"}
Locked == {"recheck", "user", "slug", "join", "commit"}
InTransaction == Unlocked \cup Locked
Ended == {"ok", "failed", "exhausted", "forbidden"}

User == [sub : Subs, by : Requests]
Tenant == [id : Requests, slug : Slugs]
Member == [tenant : Requests, sub : Subs]

TypeOK ==
    /\ pc \in [Requests -> Idle \cup InTransaction \cup Ended]
    /\ attempt \in [Requests -> 1..SlugLimit]
    /\ users \subseteq User
    /\ tenants \subseteq Tenant
    /\ members \subseteq Member
    /\ trail \subseteq Requests
    /\ answer \in [Requests -> Requests \cup {NoTenant}]
    /\ faults \in 0..MaxFaults

Init ==
    /\ pc = [r \in Requests |-> "lookup"]
    /\ attempt = [r \in Requests |-> 1]
    /\ users = {} /\ tenants = {} /\ members = {} /\ trail = {}
    /\ answer = [r \in Requests |-> NoTenant]
    /\ faults = 0

---------------------------------------------------------------------------
Open(r) == pc[r] \in InTransaction

\* A transaction keeps one connection from its BEGIN to its end.
Connected == {r \in Requests : Open(r)}
FreeConnection == Cardinality(Connected) < PoolSize

\* What a statement of r sees of a row written by w.
Visible(r, w) == w = r \/ ~Open(w)

HasUser(r) == \E u \in users : u.sub = SubOf[r] /\ Visible(r, u.by)

\* userTenant and TenantForSub: the tenants the join finds. Which of several
\* comes first does not matter here: OneTenantEach says there is one.
TenantsOf(r) ==
    IF HasUser(r)
    THEN {m.tenant : m \in {n \in members : n.sub = SubOf[r] /\ Visible(r, n.tenant)}}
    ELSE {}

Finish(r, how, tenant) ==
    /\ pc' = [pc EXCEPT ![r] = how]
    /\ answer' = [answer EXCEPT ![r] = tenant]

Goto(r, step) ==
    /\ pc' = [pc EXCEPT ![r] = step]
    /\ UNCHANGED answer

\* Slip: the audit entry is written outside the transaction.
UndoKeepsTrail(r) ==
    /\ users' = {u \in users : u.by # r}
    /\ tenants' = {t \in tenants : t.id # r}
    /\ members' = {m \in members : m.tenant # r}
    /\ UNCHANGED trail

\* ROLLBACK, also what PostgreSQL does with a transaction whose connection is gone.
Undo(r) ==
    /\ users' = {u \in users : u.by # r}
    /\ tenants' = {t \in tenants : t.id # r}
    /\ members' = {m \in members : m.tenant # r}
    /\ trail' = trail \ {r}

---------------------------------------------------------------------------
(* GET /api/me *)

Lookup(r) ==
    /\ pc[r] = "lookup" /\ r \in MeRequests
    /\ FreeConnection
    /\ \/ \E t \in TenantsOf(r) : Finish(r, "ok", t)
       \/ TenantsOf(r) = {} /\ Goto(r, "begin")
    /\ UNCHANGED <<tables, attempt, faults>>

Begin(r) ==
    /\ pc[r] = "begin"
    /\ FreeConnection
    /\ Goto(r, "lock")
    /\ UNCHANGED <<tables, attempt, faults>>

\* Slip: the lock is tried and the result of trying ignored.
LockTried(r) ==
    /\ pc[r] = "lock"
    /\ Goto(r, "recheck")
    /\ UNCHANGED <<tables, attempt, faults>>

\* pg_advisory_xact_lock(hashtext(sub)), held until the transaction ends.
Lock(r) ==
    /\ pc[r] = "lock"
    /\ \A q \in Requests : pc[q] \in Locked => HashOf[SubOf[q]] # HashOf[SubOf[r]]
    /\ Goto(r, "recheck")
    /\ UNCHANGED <<tables, attempt, faults>>

\* Slip: no second look inside the lock.
RecheckSkipped(r) ==
    /\ pc[r] = "recheck"
    /\ Goto(r, "user")
    /\ UNCHANGED <<tables, attempt, faults>>

\* Slip: the second look takes another connection of the pool.
RecheckOnPool(r) ==
    /\ pc[r] = "recheck"
    /\ FreeConnection
    /\ \/ \E t \in TenantsOf(r) : Finish(r, "ok", t)
       \/ TenantsOf(r) = {} /\ Goto(r, "user")
    /\ UNCHANGED <<tables, attempt, faults>>

Recheck(r) ==
    /\ pc[r] = "recheck"
    /\ \/ \E t \in TenantsOf(r) : Finish(r, "ok", t)
       \/ TenantsOf(r) = {} /\ Goto(r, "user")
    /\ UNCHANGED <<tables, attempt, faults>>

InsertUser(r) ==
    /\ pc[r] = "user"
    /\ \A u \in users : u.sub = SubOf[r] => Visible(r, u.by)
    /\ users' = IF HasUser(r) THEN users ELSE users \cup {[sub |-> SubOf[r], by |-> r]}
    /\ Goto(r, "slug")
    /\ UNCHANGED <<tenants, members, trail, attempt, faults>>

Holders(slug) == {t \in tenants : t.slug = slug}

\* Slip: a slug of a transaction still open counts as taken.
DecidedDirty(r, slug) == TRUE

\* The insert waits for the transaction that holds its key.
Decided(r, slug) == \A t \in Holders(slug) : Visible(r, t.id)

\* Slip: one turn too many.
OutOfCandidatesLate(r) == attempt[r] > SlugLimit

OutOfCandidates(r) == attempt[r] = SlugLimit

\* One turn of createTenantWithUniqueSlug: ON CONFLICT (slug) DO NOTHING.
TrySlug(r) ==
    LET slug == Candidate[BaseOf[r]][attempt[r]] IN
    /\ pc[r] = "slug"
    /\ Decided(r, slug)
    /\ \/ /\ Holders(slug) = {}
          /\ tenants' = tenants \cup {[id |-> r, slug |-> slug]}
          /\ Goto(r, "join")
          /\ UNCHANGED <<users, members, trail, attempt, faults>>
       \/ /\ Holders(slug) # {} /\ ~OutOfCandidates(r)
          /\ attempt' = [attempt EXCEPT ![r] = @ + 1]
          /\ UNCHANGED <<pc, tables, answer, faults>>
       \/ /\ Holders(slug) # {} /\ OutOfCandidates(r)
          /\ Undo(r)
          /\ Finish(r, "exhausted", NoTenant)
          /\ UNCHANGED <<attempt, faults>>

\* Slip: the request is answered before its transaction commits.
JoinAnswers(r) ==
    /\ pc[r] = "join"
    /\ members' = members \cup {[tenant |-> r, sub |-> SubOf[r]]}
    /\ trail' = trail \cup {r}
    /\ Finish(r, "commit", r)
    /\ UNCHANGED <<users, tenants, attempt, faults>>

\* The membership and the entry user.first_login.
Join(r) ==
    /\ pc[r] = "join"
    /\ members' = members \cup {[tenant |-> r, sub |-> SubOf[r]]}
    /\ trail' = trail \cup {r}
    /\ Goto(r, "commit")
    /\ UNCHANGED <<users, tenants, attempt, faults>>

Commit(r) ==
    /\ pc[r] = "commit"
    /\ Finish(r, "ok", r)
    /\ UNCHANGED <<tables, attempt, faults>>

---------------------------------------------------------------------------
(* Every other request of the dashboard *)

RequireTenant(r) ==
    /\ pc[r] = "lookup" /\ r \notin MeRequests
    /\ FreeConnection
    /\ \/ \E t \in TenantsOf(r) : Finish(r, "ok", t)
       \/ TenantsOf(r) = {} /\ Finish(r, "forbidden", NoTenant)
    /\ UNCHANGED <<tables, attempt, faults>>

---------------------------------------------------------------------------
(* Failures *)

Fault == faults < MaxFaults /\ faults' = faults + 1

\* A statement fails, the deadline passes, or the process dies.
Abort(r) ==
    /\ Fault
    /\ pc[r] \notin Ended
    /\ Undo(r)
    /\ Finish(r, "failed", NoTenant)
    /\ UNCHANGED attempt

\* The transaction commits and the request is answered 500 all the same.
CommitUnanswered(r) ==
    /\ Fault
    /\ pc[r] = "commit"
    /\ Finish(r, "failed", NoTenant)
    /\ UNCHANGED <<tables, attempt>>

---------------------------------------------------------------------------
Proceed(r) ==
    \/ Lookup(r) \/ Begin(r) \/ Lock(r) \/ Recheck(r) \/ InsertUser(r)
    \/ TrySlug(r) \/ Join(r) \/ Commit(r) \/ RequireTenant(r)

Next == \E r \in Requests : Proceed(r) \/ Abort(r) \/ CommitUnanswered(r)

Spec == Init /\ [][Next]_vars

\* PostgreSQL runs each statement sent to it and grants a lock that is free;
\* nothing else is asked of clients, and no failure is ever owed.
FairSpec == Spec /\ \A r \in Requests : WF_vars(Proceed(r))

---------------------------------------------------------------------------
(* Two first requests of one subject, in any interleaving and with any     *)
(* failures between them, never leave the subject with two tenants: what   *)
(* EnsureUser's advisory lock and its second look are for.                 *)
OneTenantEach == \A m, n \in members : m.sub = n.sub => m = n

(* A workspace is there whole or not at all: a committed tenant has its    *)
(* owner's row, its membership and its first audit entry, a user's row     *)
(* stands only beside the workspace of the request that wrote it, and a    *)
(* request that was turned away or ran out of slugs leaves nothing.  One   *)
(* that ended in an error has left all of it or nothing: its commit may    *)
(* have gone through.                                                      *)
WholeWorkspace ==
    /\ \A t \in tenants : ~Open(t.id) =>
          /\ t.id \in trail
          /\ \E u \in users : u.sub = SubOf[t.id] /\ ~Open(u.by)
          /\ [tenant |-> t.id, sub |-> SubOf[t.id]] \in members
    /\ \A i \in trail \cup {m.tenant : m \in members} :
          i \in {t.id : t \in tenants}
    /\ \A u \in users : ~Open(u.by) => u.by \in {t.id : t \in tenants}
    /\ \A r \in Requests : pc[r] \in {"forbidden", "exhausted"} =>
          r \notin {t.id : t \in tenants} \cup {u.by : u \in users}

(* /api/me and requireTenant, which run different queries, agree on the    *)
(* tenant of a subject, and it is a tenant the subject is a member of.     *)
AnswersAgree ==
    /\ \A q, r \in Requests :
          answer[q] # NoTenant /\ answer[r] # NoTenant /\ SubOf[q] = SubOf[r]
             => answer[q] = answer[r]
    /\ \A r \in Requests : answer[r] # NoTenant =>
          ~Open(answer[r]) /\ [tenant |-> answer[r], sub |-> SubOf[r]] \in members

(* The numbered slugs of a base have no gaps: a workspace is called base-3 *)
(* only while base and base-2 are other, committed workspaces. A candidate *)
(* held by a transaction that later fails is waited for, not skipped.      *)
NoGaps ==
    \A t \in tenants : \A i \in 1..SlugLimit :
        t.slug = Candidate[BaseOf[t.id]][i] =>
            \A j \in 1..(i - 1) :
                \E s \in tenants : s.slug = Candidate[BaseOf[t.id]][j] /\ ~Open(s.id)

(* Once /api/me has answered a subject, none of its requests is turned     *)
(* away for having no tenant.                                              *)
KnownStaysKnown ==
    [][\A r \in Requests : pc[r] # "forbidden" /\ pc'[r] = "forbidden" =>
          \A q \in Requests : SubOf[q] = SubOf[r] => answer[q] = NoTenant]_vars

(* Neither the advisory lock, the waits for another transaction's slug nor *)
(* the pool, which may be as small as one connection, leave a request      *)
(* waiting for ever.                                                       *)
EveryRequestEnds == \A r \in Requests : <>(pc[r] \in Ended)
=============================================================================
