------------------------- MODULE ProvisioningProofs -------------------------
(***************************************************************************)
(* What Provisioning guarantees for any number of requests and subjects,   *)
(* any collisions of hashtext, any candidate slugs and any pool.           *)
(***************************************************************************)
EXTENDS Provisioning, FiniteSetTheorems, TLAPS

USE DEF Open, Visible, InTransaction, Unlocked, Locked, Idle, Ended, Decided, OutOfCandidates

(***************************************************************************)
(* The inductive invariant. Statements follow one another, so the progress *)
(* of a request tells which rows are its own; the lock keeps the progress  *)
(* of two requests of one subject apart; and a request that found no       *)
(* tenant under the lock stays right about it until it commits.            *)
(***************************************************************************)
Exclusive ==
    \A q, r \in Requests :
        pc[q] \in Locked /\ pc[r] \in Locked /\ SubOf[q] = SubOf[r] => q = r

UserRows ==
    \A u \in users : u.sub = SubOf[u.by]
                     /\ pc[u.by] \in {"slug", "join", "commit", "ok", "failed"}

TenantRows ==
    \A t \in tenants : /\ pc[t.id] \in {"join", "commit", "ok", "failed"}
                       /\ pc[t.id] # "join" => t.id \in trail

MemberRows ==
    \A m \in members : m.sub = SubOf[m.tenant] /\ m.tenant \in trail

TrailRows ==
    \A i \in trail : /\ pc[i] \in {"commit", "ok", "failed"}
                     /\ [tenant |-> i, sub |-> SubOf[i]] \in members
                     /\ \E t \in tenants : t.id = i

Progress ==
    \A r \in Requests :
        /\ pc[r] \in {"slug", "join", "commit"} =>
              \E u \in users : u.sub = SubOf[r] /\ Visible(r, u.by)
        /\ pc[r] = "join" => \E t \in tenants : t.id = r
        /\ pc[r] = "commit" => r \in trail

Owned ==
    \A m \in members : \E u \in users : u.sub = m.sub /\ Visible(m.tenant, u.by)

StillNew ==
    \A r \in Requests : pc[r] \in {"user", "slug", "join"} =>
        \A m \in members : m.sub # SubOf[r]

Answered ==
    \A r \in Requests : answer[r] # NoTenant =>
        ~Open(answer[r]) /\ [tenant |-> answer[r], sub |-> SubOf[r]] \in members

Inv == /\ TypeOK
       /\ Exclusive
       /\ UserRows /\ TenantRows /\ MemberRows /\ TrailRows
       /\ Progress /\ Owned /\ StillNew /\ Answered
       /\ OneTenantEach

---------------------------------------------------------------------------
(***************************************************************************)
(* The join finds the tenants of the subject's memberships, and it finds   *)
(* every membership whose transaction has ended.                           *)
(***************************************************************************)
LEMMA JoinFinds ==
    ASSUME Inv, NEW r \in Requests
    PROVE  /\ \A t \in TenantsOf(r) :
                 t \in Requests /\ [tenant |-> t, sub |-> SubOf[r]] \in members
                 /\ Visible(r, t)
           /\ \A m \in members :
                 m.sub = SubOf[r] /\ ~Open(m.tenant) => m.tenant \in TenantsOf(r)
<1> USE ProvisioningAssumption DEF Inv, TypeOK, Member, User
<1>1. ASSUME NEW t \in TenantsOf(r)
      PROVE  t \in Requests /\ [tenant |-> t, sub |-> SubOf[r]] \in members /\ Visible(r, t)
    <2>1. PICK n \in members : n.sub = SubOf[r] /\ Visible(r, n.tenant) /\ t = n.tenant
        BY <1>1 DEF TenantsOf
    <2>2. n = [tenant |-> t, sub |-> SubOf[r]]
        BY <2>1
    <2> QED BY <2>1, <2>2
<1>2. ASSUME NEW m \in members, m.sub = SubOf[r], ~Open(m.tenant)
      PROVE  m.tenant \in TenantsOf(r)
    <2>1. PICK u \in users : u.sub = m.sub /\ Visible(m.tenant, u.by)
        BY DEF Owned
    <2>2. HasUser(r)
        BY <1>2, <2>1 DEF HasUser
    <2> QED BY <1>2, <2>2 DEF TenantsOf
<1> QED BY <1>1, <1>2

LEMMA InvInit == Init => Inv
BY ProvisioningAssumption
   DEF Init, Inv, TypeOK, Exclusive, UserRows, TenantRows, MemberRows, TrailRows,
       Progress, Owned, StillNew, Answered, OneTenantEach

---------------------------------------------------------------------------
(***************************************************************************)
(* A step of r that keeps the rows of users, and after which r has either  *)
(* no rows of its own or no open transaction, hides no row from another.   *)
(***************************************************************************)
LEMMA StaysVisible ==
    ASSUME Inv, NEW r \in Requests, NEW step,
           pc' = [pc EXCEPT ![r] = step],
           \/ pc[r] \in InTransaction
           \/ pc[r] \in Idle
    PROVE  \A u \in users, w \in Requests : Visible(w, u.by) => Visible(w, u.by)'
BY DEF Inv, TypeOK, UserRows, User

(***************************************************************************)
(* Steps that write no row: the request moves on, or ends with the tenant  *)
(* of a membership it sees, or ends with none.                             *)
(***************************************************************************)
LEMMA MovesOn ==
    ASSUME Inv, NEW r \in Requests, UNCHANGED <<tables, attempt, faults>>,
           \/ pc[r] = "lookup" /\ Goto(r, "begin")
           \/ pc[r] = "begin" /\ Goto(r, "lock")
           \/ Lock(r)
           \/ pc[r] = "recheck" /\ TenantsOf(r) = {} /\ Goto(r, "user")
    PROVE  Inv'
<1> USE ProvisioningAssumption DEF Inv, TypeOK, tables, Goto, Lock
<1>1. TypeOK'
    OBVIOUS
<1>2. Exclusive'
    <2>1. CASE Lock(r)
        BY <2>1 DEF Exclusive
    <2>2. CASE ~Lock(r)
        <3>1. \A q \in Requests : pc'[q] \in Locked => pc[q] \in Locked
            BY <2>2
        <3> QED BY <3>1 DEF Exclusive
    <2> QED BY <2>1, <2>2
<1>3. UserRows' /\ TenantRows' /\ MemberRows' /\ TrailRows'
    <2>1. UserRows'
        BY DEF UserRows, User
    <2>2. TenantRows'
        BY DEF TenantRows, Tenant
    <2>3. MemberRows'
        BY DEF MemberRows, Member
    <2>4. TrailRows'
        BY DEF TrailRows
    <2> QED BY <2>1, <2>2, <2>3, <2>4
<1>0. \A u \in users, w \in Requests : Visible(w, u.by) => Visible(w, u.by)'
    BY StaysVisible
<1>4. Progress'
    <2>1. ASSUME NEW q \in Requests, pc'[q] \in {"slug", "join", "commit"}
          PROVE  q # r /\ pc'[q] = pc[q]
        BY <2>1
    <2> QED BY <1>0, <2>1 DEF Progress
<1>5. Owned'
    <2>1. ASSUME NEW m \in members
          PROVE  \E u \in users : u.sub = m.sub /\ Visible(m.tenant, u.by)'
        <3>1. PICK u \in users : u.sub = m.sub /\ Visible(m.tenant, u.by)
            BY DEF Owned
        <3>2. m.tenant \in Requests
            BY DEF Member
        <3> QED BY <1>0, <3>1, <3>2
    <2> QED BY <2>1 DEF Owned
<1>6. StillNew'
    <2>1. CASE pc[r] = "recheck" /\ TenantsOf(r) = {} /\ Goto(r, "user")
        <3>1. ASSUME NEW m \in members, m.sub = SubOf[r] PROVE FALSE
            <4>1. m.tenant \in Requests /\ pc[m.tenant] \in {"commit", "ok", "failed"}
                BY DEF MemberRows, TrailRows, Member
            <4>2. pc[m.tenant] = "commit"
                BY <2>1, <3>1, <4>1, JoinFinds
            <4>3. m.tenant = r
                BY <2>1, <3>1, <4>1, <4>2 DEF Exclusive, MemberRows
            <4> QED BY <2>1, <4>2, <4>3
        <3> QED BY <2>1, <3>1 DEF StillNew
    <2>2. CASE ~(pc[r] = "recheck" /\ TenantsOf(r) = {} /\ Goto(r, "user"))
        BY <2>2 DEF StillNew
    <2> QED BY <2>1, <2>2
<1>7. Answered'
    <2>1. ASSUME NEW q \in Requests, answer[q] # NoTenant
          PROVE  ~Open(answer[q])'
        <3>1. ~Open(answer[q]) /\ answer[q] \in Requests /\ answer[q] \in trail
            <4>1. [tenant |-> answer[q], sub |-> SubOf[q]] \in members /\ ~Open(answer[q])
                BY <2>1 DEF Answered
            <4>2. [tenant |-> answer[q], sub |-> SubOf[q]].tenant \in trail
                BY <4>1 DEF MemberRows
            <4> QED BY <2>1, <4>1, <4>2
        <3>2. answer[q] # r
            BY <3>1 DEF TrailRows
        <3> QED BY <3>1, <3>2
    <2> QED BY <2>1 DEF Answered
<1>8. OneTenantEach'
    BY DEF OneTenantEach
<1> QED BY <1>1, <1>2, <1>3, <1>4, <1>5, <1>6, <1>7, <1>8

LEMMA EndsWithTenant ==
    ASSUME Inv, NEW r \in Requests, UNCHANGED <<tables, attempt, faults>>,
           pc[r] \in {"lookup", "recheck"},
           NEW t \in TenantsOf(r), Finish(r, "ok", t)
    PROVE  Inv'
<1> USE ProvisioningAssumption DEF Inv, TypeOK, tables, Finish
<1>1. t \in Requests /\ [tenant |-> t, sub |-> SubOf[r]] \in members /\ Visible(r, t)
    BY JoinFinds
<1>2. pc[t] \in {"commit", "ok", "failed"} /\ t # r /\ ~Open(t)
    BY <1>1 DEF MemberRows, TrailRows
<1>3. TypeOK'
    BY <1>1
<1>4. Exclusive'
    BY DEF Exclusive
<1>5. UserRows' /\ TenantRows' /\ MemberRows' /\ TrailRows'
    BY DEF UserRows, TenantRows, MemberRows, TrailRows, User, Tenant, Member
<1>6. Progress' /\ StillNew' /\ OneTenantEach'
    BY DEF Progress, StillNew, OneTenantEach, UserRows, User
<1>7. Owned'
    BY DEF Owned, UserRows, MemberRows, TrailRows, User, Member
<1>8. Answered'
    <2>1. ASSUME NEW q \in Requests, q # r, answer[q] # NoTenant
          PROVE  ~Open(answer[q])' /\ [tenant |-> answer[q], sub |-> SubOf[q]] \in members'
        BY <2>1 DEF Answered
    <2>2. ~Open(t)' /\ answer'[r] = t
        BY <1>1, <1>2
    <2> QED BY <1>1, <2>1, <2>2 DEF Answered
<1> QED BY <1>3, <1>4, <1>5, <1>6, <1>7, <1>8

LEMMA TurnedAway ==
    ASSUME Inv, NEW r \in Requests, UNCHANGED <<tables, attempt, faults>>,
           pc[r] = "lookup", Finish(r, "forbidden", NoTenant)
    PROVE  Inv'
<1> USE ProvisioningAssumption DEF Inv, TypeOK, tables, Finish
<1>1. TypeOK'
    OBVIOUS
<1>2. Exclusive'
    BY DEF Exclusive
<1>3. UserRows' /\ TenantRows' /\ MemberRows' /\ TrailRows'
    <2>1. UserRows'
        BY DEF UserRows, User
    <2>2. TenantRows'
        BY DEF TenantRows, Tenant
    <2>3. MemberRows'
        BY DEF MemberRows, Member
    <2>4. TrailRows'
        BY DEF TrailRows
    <2> QED BY <2>1, <2>2, <2>3, <2>4
<1>4. Progress' /\ StillNew' /\ OneTenantEach'
    BY DEF Progress, StillNew, OneTenantEach, UserRows, User
<1>5. Owned' /\ Answered'
    BY DEF Owned, Answered, UserRows, MemberRows, TrailRows, User, Member
<1> QED BY <1>1, <1>2, <1>3, <1>4, <1>5

---------------------------------------------------------------------------
(* The statements that write. *)

LEMMA InsertUserKeeps ==
    ASSUME Inv, NEW r \in Requests, InsertUser(r)
    PROVE  Inv'
<1> USE ProvisioningAssumption DEF Inv, TypeOK, Goto, InsertUser
<1>1. TypeOK'
    <2>1. [sub |-> SubOf[r], by |-> r] \in User
        BY DEF User
    <2>2. users' \subseteq User
        BY <2>1
    <2> QED BY <2>2
<1>2. Exclusive'
    BY DEF Exclusive
<1>3. UserRows' /\ TenantRows' /\ MemberRows' /\ TrailRows'
    <2>1. UserRows'
        BY DEF UserRows, User
    <2>2. TenantRows'
        BY DEF TenantRows, Tenant
    <2>3. MemberRows'
        BY DEF MemberRows, Member
    <2>4. TrailRows'
        BY DEF TrailRows
    <2> QED BY <2>1, <2>2, <2>3, <2>4
<1>4. Progress'
    <2>1. \A u \in users, w \in Requests : Visible(w, u.by) => Visible(w, u.by)'
        BY StaysVisible
    <2>2. \E u \in users' : u.sub = SubOf[r] /\ Visible(r, u.by)'
        <3>1. CASE HasUser(r)
            BY <2>1, <3>1 DEF HasUser
        <3>2. CASE ~HasUser(r)
            <4>1. [sub |-> SubOf[r], by |-> r] \in users'
                BY <3>2
            <4> QED BY <4>1
        <3> QED BY <3>1, <3>2
    <2>3. ASSUME NEW q \in Requests, q # r PROVE pc'[q] = pc[q]
        BY <2>3
    <2>4. users \subseteq users' /\ pc'[r] = "slug"
        OBVIOUS
    <2> QED BY <2>1, <2>2, <2>3, <2>4 DEF Progress
<1>5. Owned'
    BY DEF Owned, UserRows, MemberRows, TrailRows, User, Member
<1>6. StillNew' /\ Answered' /\ OneTenantEach'
    BY DEF StillNew, Answered, OneTenantEach
<1> QED BY <1>1, <1>2, <1>3, <1>4, <1>5, <1>6

LEMMA JoinKeeps ==
    ASSUME Inv, NEW r \in Requests, Join(r)
    PROVE  Inv'
<1> USE ProvisioningAssumption DEF Inv, TypeOK, Goto, Join
<1>1. TypeOK'
    <2>1. [tenant |-> r, sub |-> SubOf[r]] \in Member
        BY DEF Member
    <2> QED BY <2>1
<1>2. Exclusive'
    BY DEF Exclusive
<1>3. UserRows' /\ TenantRows' /\ MemberRows'
    BY DEF UserRows, TenantRows, MemberRows, User, Tenant, Member
<1>4. TrailRows'
    <2>1. \E t \in tenants : t.id = r
        BY DEF Progress
    <2>2. pc'[r] = "commit" /\ \A q \in Requests : q # r => pc'[q] = pc[q]
        OBVIOUS
    <2> QED BY <2>1, <2>2 DEF TrailRows
<1>5. Progress'
    BY DEF Progress, UserRows, User
<1>6. Owned'
    BY DEF Owned, Progress, UserRows, MemberRows, TrailRows, User, Member
<1>7. StillNew'
    BY DEF StillNew, Exclusive
<1>8. Answered'
    BY DEF Answered
<1>9. OneTenantEach'
    BY DEF OneTenantEach, StillNew
<1> QED BY <1>1, <1>2, <1>3, <1>4, <1>5, <1>6, <1>7, <1>8, <1>9

(***************************************************************************)
(* The transaction ends and its rows stay, answered or not.                *)
(***************************************************************************)
LEMMA CommitKeeps ==
    ASSUME Inv, NEW r \in Requests, Commit(r) \/ CommitUnanswered(r)
    PROVE  Inv'
<1> USE ProvisioningAssumption DEF Inv, TypeOK, Finish, tables, Commit, CommitUnanswered, Fault
<1>0. r \in trail /\ [tenant |-> r, sub |-> SubOf[r]] \in members
    BY DEF Progress, TrailRows
<1>1. TypeOK'
    <2>1. faults' \in 0..MaxFaults
        OBVIOUS
    <2>2. pc' \in [Requests -> Idle \cup InTransaction \cup Ended]
        OBVIOUS
    <2>3. answer' \in [Requests -> Requests \cup {NoTenant}]
        OBVIOUS
    <2> QED BY <2>1, <2>2, <2>3
<1>2. Exclusive'
    BY DEF Exclusive
<1>3. UserRows' /\ TenantRows' /\ MemberRows' /\ TrailRows'
    <2>1. UserRows'
        <3>1. \A q \in Requests : pc'[q] = pc[q] \/ (q = r /\ pc'[q] \in {"ok", "failed"})
            OBVIOUS
        <3>2. users' = users /\ users \subseteq User
            OBVIOUS
        <3> QED BY <3>1, <3>2 DEF UserRows, User
    <2>2. TenantRows'
        BY DEF TenantRows, Tenant
    <2>3. MemberRows'
        BY DEF MemberRows, Member
    <2>4. TrailRows'
        BY DEF TrailRows
    <2> QED BY <2>1, <2>2, <2>3, <2>4
<1>4. Progress'
    <2>1. \A u \in users, w \in Requests : Visible(w, u.by) => Visible(w, u.by)'
        <3>1. PICK step : pc' = [pc EXCEPT ![r] = step]
            OBVIOUS
        <3> QED BY <3>1, StaysVisible
    <2>2. ASSUME NEW q \in Requests, pc'[q] \in {"slug", "join", "commit"}
          PROVE  pc'[q] = pc[q]
        BY <2>2
    <2> QED BY <2>1, <2>2 DEF Progress
<1>5. Owned'
    BY DEF Owned, UserRows, MemberRows, TrailRows, User, Member
<1>6. StillNew' /\ OneTenantEach'
    BY DEF StillNew, OneTenantEach
<1>7. Answered'
    <2> SUFFICES ASSUME NEW q \in Requests, answer'[q] # NoTenant
                 PROVE  /\ pc'[answer'[q]] \notin InTransaction
                        /\ [tenant |-> answer'[q], sub |-> SubOf[q]] \in members
        BY DEF Answered
    <2>1. CASE answer'[q] = answer[q]
        <3>1. /\ answer[q] \in Requests /\ pc[answer[q]] \notin InTransaction
              /\ [tenant |-> answer[q], sub |-> SubOf[q]] \in members
            BY <2>1 DEF Answered
        <3>2. pc[r] = "commit"
            OBVIOUS
        <3> QED BY <2>1, <3>1, <3>2
    <2>2. CASE answer'[q] # answer[q]
        <3>1. q = r /\ answer'[q] = r /\ pc'[r] = "ok"
            BY <2>2
        <3> QED BY <1>0, <3>1
    <2> QED BY <2>1, <2>2
<1> QED BY <1>1, <1>2, <1>3, <1>4, <1>5, <1>6, <1>7

(***************************************************************************)
(* A rollback takes the rows of its own transaction and no other row needs *)
(* them: a membership's user row is its own or a committed one.            *)
(***************************************************************************)
LEMMA UndoKeeps ==
    ASSUME Inv, NEW r \in Requests, NEW how \in {"failed", "exhausted"},
           pc[r] \notin Ended, Undo(r), Finish(r, how, NoTenant),
           attempt' = attempt, faults' \in 0..MaxFaults
    PROVE  Inv'
<1> USE ProvisioningAssumption DEF Inv, TypeOK, Finish, Undo
<1>1. TypeOK'
    OBVIOUS
<1>2. Exclusive'
    BY DEF Exclusive
<1>3. UserRows'
    BY DEF UserRows, User
<1>4. TenantRows'
    BY DEF TenantRows, Tenant
<1>5. MemberRows'
    BY DEF MemberRows, Member
<1>6. TrailRows'
    <2>1. ASSUME NEW i \in trail, i # r
          PROVE  /\ pc'[i] \in {"commit", "ok", "failed"}
                 /\ [tenant |-> i, sub |-> SubOf[i]] \in members'
                 /\ \E t \in tenants' : t.id = i
        BY <2>1 DEF TrailRows
    <2> QED BY <2>1 DEF TrailRows
<1>7. Progress'
    <2>1. ASSUME NEW q \in Requests, q # r, pc[q] \in {"slug", "join", "commit"}
          PROVE  \E u \in users' : u.sub = SubOf[q] /\ Visible(q, u.by)'
        <3>1. PICK u \in users : u.sub = SubOf[q] /\ Visible(q, u.by)
            BY <2>1 DEF Progress
        <3>2. u.by # r
            BY <2>1, <3>1 DEF UserRows
        <3> QED BY <3>1, <3>2 DEF User
    <2> QED BY <2>1 DEF Progress
<1>8. Owned'
    <2>1. ASSUME NEW m \in members, m.tenant # r
          PROVE  \E u \in users' : u.sub = m.sub /\ Visible(m.tenant, u.by)'
        <3>1. PICK u \in users : u.sub = m.sub /\ Visible(m.tenant, u.by)
            BY DEF Owned
        <3>2. u.by # r
            BY <2>1, <3>1 DEF UserRows
        <3> QED BY <3>1, <3>2 DEF User
    <2> QED BY <2>1 DEF Owned
<1>9. StillNew' /\ OneTenantEach'
    BY DEF StillNew, OneTenantEach
<1>10. Answered'
    BY DEF Answered, MemberRows, TrailRows
<1> QED BY <1>1, <1>2, <1>3, <1>4, <1>5, <1>6, <1>7, <1>8, <1>9, <1>10

(***************************************************************************)
(* Taking a slug: the request's tenant row, on its own.                    *)
(***************************************************************************)
LEMMA TrySlugKeeps ==
    ASSUME Inv, NEW r \in Requests, TrySlug(r)
    PROVE  Inv'
<1> USE ProvisioningAssumption DEF Inv, TypeOK, tables
<1> DEFINE slug == Candidate[BaseOf[r]][attempt[r]]
<1>0. pc[r] = "slug" /\ slug \in Slugs
    BY DEF TrySlug
<1>1. CASE /\ tenants' = tenants \cup {[id |-> r, slug |-> slug]}
           /\ Goto(r, "join")
           /\ UNCHANGED <<users, members, trail, attempt, faults>>
    <2> USE <1>0, <1>1 DEF Goto
    <2>1. TypeOK'
        BY DEF Tenant
    <2>2. Exclusive'
        BY DEF Exclusive
    <2>3. UserRows' /\ TenantRows' /\ MemberRows' /\ TrailRows'
        BY DEF UserRows, TenantRows, MemberRows, TrailRows, User, Tenant, Member
    <2>4. Progress'
        <3>1. \A u \in users, w \in Requests : Visible(w, u.by) => Visible(w, u.by)'
            BY StaysVisible
        <3>2. \A q \in Requests : q # r => pc'[q] = pc[q]
            OBVIOUS
        <3>3. \E t \in tenants' : t.id = r
            <4>1. [id |-> r, slug |-> slug] \in tenants'
                OBVIOUS
            <4> QED BY <4>1
        <3>4. pc'[r] = "join" /\ tenants \subseteq tenants'
            BY <1>0
        <3>5. \E u \in users : u.sub = SubOf[r] /\ Visible(r, u.by)
            BY <1>0 DEF Progress
        <3> QED BY <3>1, <3>2, <3>3, <3>4, <3>5 DEF Progress
    <2>5. Owned'
        BY DEF Owned, UserRows, MemberRows, TrailRows, User, Member
    <2>6. StillNew' /\ Answered' /\ OneTenantEach'
        BY DEF StillNew, Answered, OneTenantEach
    <2> QED BY <2>1, <2>2, <2>3, <2>4, <2>5, <2>6
<1>2. CASE /\ attempt[r] < SlugLimit
           /\ attempt' = [attempt EXCEPT ![r] = @ + 1]
           /\ UNCHANGED <<pc, tables, answer, faults>>
    <2>1. TypeOK'
        BY <1>2
    <2> QED BY <1>2, <2>1
         DEF Exclusive, UserRows, TenantRows, MemberRows, TrailRows, Progress, Owned,
             StillNew, Answered, OneTenantEach
<1>3. CASE Undo(r) /\ Finish(r, "exhausted", NoTenant) /\ UNCHANGED <<attempt, faults>>
    BY <1>0, <1>3, UndoKeeps
<1> QED BY <1>1, <1>2, <1>3 DEF TrySlug

---------------------------------------------------------------------------
LEMMA InvNext == Inv /\ [Next]_vars => Inv'
<1> SUFFICES ASSUME Inv, [Next]_vars PROVE Inv'
    OBVIOUS
<1>1. CASE UNCHANGED vars
    BY <1>1 DEF Inv, vars, TypeOK, Exclusive, UserRows, TenantRows, MemberRows, TrailRows,
                Progress, Owned, StillNew, Answered, OneTenantEach
<1>2. ASSUME NEW r \in Requests, Proceed(r) \/ Abort(r) \/ CommitUnanswered(r)
      PROVE  Inv'
    <2>1. CASE Lookup(r)
        BY <2>1, MovesOn, EndsWithTenant DEF Lookup
    <2>2. CASE Begin(r)
        BY <2>2, MovesOn DEF Begin
    <2>3. CASE Lock(r)
        <3>1. UNCHANGED <<tables, attempt, faults>>
            BY <2>3 DEF Lock
        <3> QED BY <2>3, <3>1, MovesOn
    <2>4. CASE Recheck(r)
        BY <2>4, MovesOn, EndsWithTenant DEF Recheck
    <2>5. CASE InsertUser(r)
        BY <2>5, InsertUserKeeps
    <2>6. CASE TrySlug(r)
        BY <2>6, TrySlugKeeps
    <2>7. CASE Join(r)
        BY <2>7, JoinKeeps
    <2>8. CASE Commit(r) \/ CommitUnanswered(r)
        BY <2>8, CommitKeeps
    <2>9. CASE RequireTenant(r)
        BY <2>9, EndsWithTenant, TurnedAway DEF RequireTenant
    <2>10. CASE Abort(r)
        <3>1. faults' \in 0..MaxFaults
            BY <2>10, ProvisioningAssumption DEF Abort, Fault, Inv, TypeOK
        <3> QED BY <2>10, <3>1, UndoKeeps DEF Abort
    <2> QED BY <1>2, <2>1, <2>2, <2>3, <2>4, <2>5, <2>6, <2>7, <2>8, <2>9, <2>10
         DEF Proceed
<1> QED BY <1>1, <1>2 DEF Next

(* Every reachable state satisfies the invariant. *)
THEOREM Invariance == Spec => []Inv
BY InvInit, InvNext, PTL DEF Spec

(* Type correctness. *)
THEOREM TypeCorrect == Spec => []TypeOK
<1>1. Inv => TypeOK
    BY DEF Inv
<1> QED BY <1>1, Invariance, PTL

(* A double-fire of /api/me cannot give a subject two tenants. *)
THEOREM OneTenant == Spec => []OneTenantEach
<1>1. Inv => OneTenantEach
    BY DEF Inv
<1> QED BY <1>1, Invariance, PTL

(* A request that ended and left a user's row committed: what it wrote is  *)
(* all there.                                                              *)
Backed == \A u \in users : pc[u.by] \in {"ok", "failed"} => u.by \in trail

LEMMA BackedNext == Inv /\ Backed /\ [Next]_vars => Backed'
<1> SUFFICES ASSUME Inv, Backed, [Next]_vars, NEW u \in users', pc'[u.by] \in {"ok", "failed"}
             PROVE  u.by \in trail'
    BY DEF Backed
<1> USE ProvisioningAssumption DEF Inv, TypeOK, User
<1>1. CASE UNCHANGED vars
    BY <1>1 DEF vars, tables, Backed
<1>2. ASSUME NEW r \in Requests, Proceed(r) \/ Abort(r) \/ CommitUnanswered(r)
      PROVE  u.by \in trail'
    <2>1. CASE Commit(r) \/ CommitUnanswered(r)
        BY <1>2, <2>1 DEF Commit, CommitUnanswered, Finish, tables, Progress, Backed
    <2>2. CASE Abort(r)
        BY <1>2, <2>2 DEF Abort, Undo, Finish, Backed
    <2>3. CASE InsertUser(r)
        BY <1>2, <2>3 DEF InsertUser, Goto, Backed
    <2>4. CASE TrySlug(r)
        BY <1>2, <2>4 DEF TrySlug, Undo, Goto, Finish, tables, Backed
    <2>5. CASE Join(r)
        BY <1>2, <2>5 DEF Join, Goto, Backed
    <2>6. CASE Lookup(r) \/ Begin(r) \/ Lock(r) \/ Recheck(r) \/ RequireTenant(r)
        <3>1. u \in users /\ trail' = trail /\ pc[r] \notin {"slug", "join", "commit", "ok", "failed"}
            BY <2>6 DEF Lookup, Begin, Lock, Recheck, RequireTenant, tables
        <3>2. u.by # r
            BY <3>1 DEF UserRows
        <3>3. pc'[u.by] = pc[u.by]
            BY <1>2, <2>6, <3>1, <3>2 DEF Lookup, Begin, Lock, Recheck, RequireTenant, Goto, Finish
        <3> QED BY <3>1, <3>3 DEF Backed
    <2> QED BY <1>2, <2>1, <2>2, <2>3, <2>4, <2>5, <2>6 DEF Proceed
<1> QED BY <1>1, <1>2 DEF Next

(* Workspaces are provisioned whole or not at all. *)
THEOREM Whole == Spec => []WholeWorkspace
<1>1. ASSUME Inv, Backed PROVE WholeWorkspace
    <2> USE DEF Inv, TypeOK, Member, Tenant, User
    <2>1. ASSUME NEW t \in tenants, ~Open(t.id)
          PROVE  /\ t.id \in trail
                 /\ \E u \in users : u.sub = SubOf[t.id] /\ ~Open(u.by)
                 /\ [tenant |-> t.id, sub |-> SubOf[t.id]] \in members
        <3>1. t.id \in trail /\ [tenant |-> t.id, sub |-> SubOf[t.id]] \in members
            BY <1>1, <2>1 DEF TenantRows, TrailRows
        <3>2. PICK u \in users : u.sub = SubOf[t.id] /\ Visible(t.id, u.by)
            BY <1>1, <3>1 DEF Owned
        <3> QED BY <2>1, <3>1, <3>2
    <2>2. \A i \in trail \cup {m.tenant : m \in members} : i \in {t.id : t \in tenants}
        <3>1. ASSUME NEW i \in trail PROVE i \in {t.id : t \in tenants}
            BY <1>1 DEF TrailRows
        <3>2. \A m \in members : m.tenant \in trail
            BY <1>1 DEF MemberRows
        <3> QED BY <3>1, <3>2
    <2>3. \A r \in Requests : pc[r] \in {"forbidden", "exhausted"} =>
              r \notin {t.id : t \in tenants} \cup {u.by : u \in users}
        BY <1>1 DEF TenantRows, UserRows
    <2>4. \A u \in users : ~Open(u.by) => u.by \in {t.id : t \in tenants}
        <3>1. \A u \in users : ~Open(u.by) => pc[u.by] \in {"ok", "failed"}
            BY <1>1 DEF UserRows, Open, InTransaction, Locked
        <3>2. \A u \in users : ~Open(u.by) => u.by \in trail
            BY <1>1, <3>1 DEF Backed
        <3> QED BY <2>2, <3>2
    <2> QED BY <2>1, <2>2, <2>3, <2>4 DEF WholeWorkspace
<1>2. Init => Backed
    BY DEF Init, Backed
<1> QED BY <1>1, <1>2, BackedNext, Invariance, PTL DEF Spec

(* /api/me and requireTenant name the same tenant. *)
THEOREM Agreement == Spec => []AnswersAgree
<1>1. ASSUME Inv PROVE AnswersAgree
    <2>1. ASSUME NEW q \in Requests, NEW r \in Requests, SubOf[q] = SubOf[r],
                 answer[q] # NoTenant, answer[r] # NoTenant
          PROVE  answer[q] = answer[r]
        <3>1. [tenant |-> answer[q], sub |-> SubOf[q]] = [tenant |-> answer[r], sub |-> SubOf[r]]
            BY <1>1, <2>1 DEF Inv, Answered, OneTenantEach
        <3> QED BY <3>1
    <2> QED BY <1>1, <2>1 DEF Inv, Answered, AnswersAgree
<1> QED BY <1>1, Invariance, PTL

(* A subject that /api/me has answered is not turned away afterwards. *)
THEOREM StaysKnown == Spec => KnownStaysKnown
<1>1. ASSUME Inv, [Next]_vars, NEW r \in Requests,
             pc[r] # "forbidden", pc'[r] = "forbidden",
             NEW q \in Requests, SubOf[q] = SubOf[r]
      PROVE  answer[q] = NoTenant
    <2>1. RequireTenant(r) /\ TenantsOf(r) = {}
        BY <1>1 DEF Inv, TypeOK, Next, Proceed, Lookup, Begin, Lock, Recheck, InsertUser,
                    TrySlug, Join, Commit, RequireTenant, Abort, CommitUnanswered,
                    Goto, Finish, tables, vars
    <2>2. ASSUME answer[q] # NoTenant PROVE FALSE
        <3>1. ~Open(answer[q]) /\ [tenant |-> answer[q], sub |-> SubOf[r]] \in members
            BY <1>1, <2>2 DEF Inv, Answered
        <3> QED BY <1>1, <2>1, <3>1, JoinFinds
    <2> QED BY <2>2
<1>2. Inv /\ [Next]_vars =>
        [\A r \in Requests : pc[r] # "forbidden" /\ pc'[r] = "forbidden" =>
            \A q \in Requests : SubOf[q] = SubOf[r] => answer[q] = NoTenant]_vars
    BY <1>1
<1> QED BY <1>2, Invariance, PTL DEF Spec, KnownStaysKnown

---------------------------------------------------------------------------
(***************************************************************************)
(* The candidates a request has passed over belong to committed tenants,   *)
(* and a committed tenant is never removed.                                *)
(***************************************************************************)
Taken(b, j) == \E s \in tenants : s.slug = Candidate[b][j] /\ ~Open(s.id)

Searched == \A r \in Requests : \A j \in 1..(attempt[r] - 1) : Taken(BaseOf[r], j)

LEMMA CommittedStays ==
    ASSUME Inv, [Next]_vars, NEW s \in tenants, ~Open(s.id)
    PROVE  s \in tenants' /\ ~Open(s.id)'
<1> USE ProvisioningAssumption DEF Inv, TypeOK, Tenant
<1>1. s.id \in Requests /\ pc[s.id] \in {"ok", "failed"}
    BY DEF TenantRows
<1>2. CASE UNCHANGED vars
    BY <1>2 DEF vars, tables
<1>3. ASSUME NEW r \in Requests, Proceed(r) \/ Abort(r) \/ CommitUnanswered(r)
      PROVE  s \in tenants' /\ ~Open(s.id)'
    <2>1. pc[r] \notin Ended
        BY <1>3 DEF Proceed, Lookup, Begin, Lock, Recheck, InsertUser, TrySlug, Join, Commit,
                    RequireTenant, Abort, CommitUnanswered
    <2>2. r # s.id
        BY <1>1, <2>1
    <2>3. \E step : pc' = [pc EXCEPT ![r] = step] \/ pc' = pc
        BY <1>3 DEF Proceed, Lookup, Begin, Lock, Recheck, InsertUser, TrySlug, Join, Commit,
                    RequireTenant, Abort, CommitUnanswered, Goto, Finish
    <2>4. tenants \subseteq tenants' \/ Undo(r)
        BY <1>3 DEF Proceed, Lookup, Begin, Lock, Recheck, InsertUser, TrySlug, Join, Commit,
                    RequireTenant, Abort, CommitUnanswered, tables
    <2> QED BY <1>1, <2>2, <2>3, <2>4 DEF Undo
<1> QED BY <1>2, <1>3 DEF Next

LEMMA TakenStays ==
    ASSUME Inv, [Next]_vars, NEW b, NEW j, Taken(b, j)
    PROVE  Taken(b, j)'
BY CommittedStays DEF Taken

LEMMA NoGapsNext == Inv /\ Searched /\ NoGaps /\ [Next]_vars => Searched' /\ NoGaps'
<1> SUFFICES ASSUME Inv, Searched, NoGaps, [Next]_vars PROVE Searched' /\ NoGaps'
    OBVIOUS
<1> USE ProvisioningAssumption DEF Inv, TypeOK, Tenant
<1>0. \A b, j : Taken(b, j) => Taken(b, j)'
    BY TakenStays
<1>1. CASE attempt' = attempt /\ tenants' \subseteq tenants
    <2>1. Searched'
        BY <1>0, <1>1 DEF Searched
    <2>2. NoGaps'
        <3> SUFFICES ASSUME NEW t \in tenants', NEW i \in 1..SlugLimit,
                            t.slug = Candidate[BaseOf[t.id]][i], NEW j \in 1..(i - 1)
                     PROVE  Taken(BaseOf[t.id], j)'
            BY DEF NoGaps, Taken
        <3>1. Taken(BaseOf[t.id], j)
            BY <1>1 DEF NoGaps, Taken
        <3> QED BY <1>0, <3>1
    <2> QED BY <2>1, <2>2
<1>2. ASSUME NEW r \in Requests, TrySlug(r), tenants' # tenants,
             tenants' = tenants \cup {[id |-> r, slug |-> Candidate[BaseOf[r]][attempt[r]]]},
             attempt' = attempt
      PROVE  Searched' /\ NoGaps'
    <2>1. ASSUME NEW t \in tenants', NEW i \in 1..SlugLimit,
                 t.slug = Candidate[BaseOf[t.id]][i], NEW j \in 1..(i - 1)
          PROVE  Taken(BaseOf[t.id], j)'
        <3>1. CASE t \in tenants
            <4>1. Taken(BaseOf[t.id], j)
                BY <2>1, <3>1 DEF NoGaps, Taken
            <4> QED BY <1>0, <4>1
        <3>2. CASE t = [id |-> r, slug |-> Candidate[BaseOf[r]][attempt[r]]]
            <4>1. t.id = r /\ i = attempt[r]
                BY <2>1, <3>2, CandidateAssumption
            <4> QED BY <1>0, <4>1 DEF Searched
        <3> QED BY <1>2, <3>1, <3>2
    <2>2. NoGaps'
        BY <2>1 DEF NoGaps, Taken
    <2>3. Searched'
        BY <1>0, <1>2 DEF Searched
    <2> QED BY <2>2, <2>3
<1>3. ASSUME NEW r \in Requests, TrySlug(r), attempt[r] < SlugLimit,
             Holders(Candidate[BaseOf[r]][attempt[r]]) # {},
             attempt' = [attempt EXCEPT ![r] = @ + 1], tenants' = tenants
      PROVE  Searched' /\ NoGaps'
    <2>1. Taken(BaseOf[r], attempt[r])
        BY <1>3 DEF TrySlug, Holders, Taken, TenantRows
    <2>2. ASSUME NEW q \in Requests, NEW j \in 1..(attempt'[q] - 1)
          PROVE  Taken(BaseOf[q], j)
        <3>1. CASE q = r /\ j = attempt[r]
            BY <2>1, <3>1
        <3>2. CASE ~(q = r /\ j = attempt[r])
            <4>1. j \in 1..(attempt[q] - 1)
                BY <1>3, <3>2
            <4> QED BY <4>1 DEF Searched
        <3> QED BY <3>1, <3>2
    <2>3. Searched'
        BY <1>0, <2>2 DEF Searched
    <2>4. NoGaps'
        <3> SUFFICES ASSUME NEW t \in tenants, NEW i \in 1..SlugLimit,
                            t.slug = Candidate[BaseOf[t.id]][i], NEW j \in 1..(i - 1)
                     PROVE  Taken(BaseOf[t.id], j)'
            BY <1>3 DEF NoGaps, Taken
        <3>1. Taken(BaseOf[t.id], j)
            BY DEF NoGaps, Taken
        <3> QED BY <1>0, <3>1
    <2> QED BY <2>3, <2>4
<1>4. \/ attempt' = attempt /\ tenants' \subseteq tenants
      \/ \E r \in Requests : /\ TrySlug(r) /\ attempt' = attempt /\ tenants' # tenants
                             /\ tenants' = tenants \cup
                                   {[id |-> r, slug |-> Candidate[BaseOf[r]][attempt[r]]]}
      \/ \E r \in Requests : /\ TrySlug(r) /\ attempt[r] < SlugLimit
                             /\ Holders(Candidate[BaseOf[r]][attempt[r]]) # {}
                             /\ attempt' = [attempt EXCEPT ![r] = @ + 1]
                             /\ tenants' = tenants
    <2>1. CASE UNCHANGED vars
        BY <2>1 DEF vars, tables
    <2>2. ASSUME NEW r \in Requests, Proceed(r) \/ Abort(r) \/ CommitUnanswered(r),
                 ~TrySlug(r)
          PROVE  attempt' = attempt /\ tenants' \subseteq tenants
        BY <2>2 DEF Proceed, Lookup, Begin, Lock, Recheck, InsertUser, Join, Commit,
                    RequireTenant, Abort, CommitUnanswered, Undo, tables
    <2>3. ASSUME NEW r \in Requests, TrySlug(r)
          PROVE  \/ attempt' = attempt /\ tenants' \subseteq tenants
                 \/ /\ attempt' = attempt
                    /\ tenants' = tenants \cup
                          {[id |-> r, slug |-> Candidate[BaseOf[r]][attempt[r]]]}
                 \/ /\ attempt[r] < SlugLimit
                    /\ Holders(Candidate[BaseOf[r]][attempt[r]]) # {}
                    /\ attempt' = [attempt EXCEPT ![r] = @ + 1] /\ tenants' = tenants
        <3>1. attempt[r] \in 1..SlugLimit /\ (attempt[r] # SlugLimit => attempt[r] < SlugLimit)
            OBVIOUS
        <3>2. CASE Undo(r) /\ attempt' = attempt
            BY <3>2 DEF Undo
        <3>3. CASE ~(Undo(r) /\ attempt' = attempt)
            BY <2>3, <3>1, <3>3 DEF TrySlug, tables
        <3> QED BY <3>2, <3>3
    <2> QED BY <2>1, <2>2, <2>3 DEF Next
<1> QED BY <1>1, <1>2, <1>3, <1>4

(* The numbered slugs of a base have no gaps. *)
THEOREM SlugsHaveNoGaps == Spec => []NoGaps
<1>1. Init => Searched /\ NoGaps
    BY DEF Init, Searched, NoGaps
<1> QED BY <1>1, NoGapsNext, Invariance, PTL DEF Spec

---------------------------------------------------------------------------
(***************************************************************************)
(* Waiting.  A request waits for the connections of others, for the holder *)
(* of its lock, or for the transaction that holds its key.                 *)
(***************************************************************************)
WaitsFor(r) ==
    IF pc[r] \in Idle THEN IF FreeConnection THEN {} ELSE Connected
    ELSE IF pc[r] = "lock" THEN
        {q \in Requests : pc[q] \in Locked /\ HashOf[SubOf[q]] = HashOf[SubOf[r]]}
    ELSE IF pc[r] = "user" THEN
        {u.by : u \in {v \in users : v.sub = SubOf[r] /\ ~Visible(r, v.by)}}
    ELSE IF pc[r] = "slug" THEN
        {t.id : t \in {h \in Holders(Candidate[BaseOf[r]][attempt[r]]) : ~Visible(r, h.id)}}
    ELSE {}

rank(r) ==
    IF pc[r] \in Idle THEN 3
    ELSE IF pc[r] = "lock" THEN 2
    ELSE IF pc[r] = "slug" THEN 1 ELSE 0

\* Who waits for somebody does not move, so these are all the waits there are.
LEMMA WaitersStand ==
    ASSUME NEW r \in Requests, Proceed(r)
    PROVE  WaitsFor(r) = {}
<1>1. CASE Lookup(r) \/ Begin(r) \/ RequireTenant(r)
  BY <1>1 DEF Lookup, Begin, RequireTenant, WaitsFor
<1>2. CASE Lock(r)
  BY <1>2 DEF Lock, WaitsFor
<1>3. CASE InsertUser(r)
  BY <1>3 DEF InsertUser, WaitsFor
<1>4. CASE TrySlug(r)
  <2>1. pc[r] = "slug" /\ Decided(r, Candidate[BaseOf[r]][attempt[r]])
    BY <1>4 DEF TrySlug
  <2> QED BY <2>1 DEF WaitsFor, Holders
<1>5. CASE Recheck(r) \/ Join(r) \/ Commit(r)
  BY <1>5 DEF Recheck, Join, Commit, WaitsFor
<1> QED BY <1>1, <1>2, <1>3, <1>4, <1>5 DEF Proceed

WaitsDescend == \A r \in Requests : \A q \in WaitsFor(r) : q \in Requests /\ rank(q) < rank(r)

\* The next statement of r can be run at once.
Runs(r) == pc[r] \notin Ended /\ WaitsFor(r) = {} /\ (pc[r] \in Idle => FreeConnection)

SomebodyRuns == (\E r \in Requests : pc[r] \notin Ended) => \E r \in Requests : Runs(r)

\* A pool nobody holds a connection of has one, be it of size one.
LEMMA PoolServes ==
    ASSUME NEW r \in Requests, pc[r] \notin Ended, WaitsFor(r) = {}
    PROVE  Runs(r)
<1>1. Connected = {} => FreeConnection
  BY FS_EmptySet, ProvisioningAssumption DEF FreeConnection
<1>2. CASE pc[r] \in Idle
  BY <1>1, <1>2 DEF WaitsFor, Runs
<1> QED BY <1>2 DEF Runs

LEMMA InvDescends == Inv => WaitsDescend
<1> SUFFICES ASSUME Inv, NEW r \in Requests, NEW q \in WaitsFor(r)
             PROVE  q \in Requests /\ rank(q) < rank(r)
  BY DEF WaitsDescend
<1>1. CASE pc[r] \in Idle
  BY <1>1 DEF WaitsFor, rank, Connected
<1>2. CASE pc[r] = "lock"
  BY <1>2 DEF WaitsFor, rank
<1>3. CASE pc[r] = "user"
  <2>1. PICK u \in users : u.sub = SubOf[r] /\ ~Visible(r, u.by)
    BY <1>3 DEF WaitsFor
  <2>2. u.by \in Requests /\ SubOf[u.by] = SubOf[r] /\ pc[u.by] \in Locked /\ u.by # r
    BY <2>1 DEF Inv, TypeOK, User, UserRows
  <2> QED BY <1>3, <2>2 DEF Inv, Exclusive
<1>4. CASE pc[r] = "slug"
  <2>1. PICK t \in tenants : t.id = q /\ ~Visible(r, t.id)
    BY <1>4 DEF WaitsFor, Holders
  <2>2. t.id \in Requests /\ pc[t.id] \in {"join", "commit"}
    BY <2>1 DEF Inv, TypeOK, Tenant, TenantRows
  <2> QED BY <1>4, <2>1, <2>2 DEF rank
<1>5. CASE pc[r] \notin Idle \cup {"lock", "user", "slug"}
  BY <1>5 DEF WaitsFor
<1> QED BY <1>1, <1>2, <1>3, <1>4, <1>5

\* Nobody is in a transaction, and then the pool has a connection; or the one
\* in a transaction can be followed, slug before lock, to one that runs.
LEMMA DescentEnds == Inv /\ WaitsDescend => SomebodyRuns
<1> SUFFICES ASSUME Inv, WaitsDescend, NEW r \in Requests, pc[r] \notin Ended
             PROVE  \E q \in Requests : Runs(q)
  BY DEF SomebodyRuns
<1>0. /\ \A q \in Requests : rank(q) \in 0..3
      /\ \A q \in Requests : pc[q] \in Ended => rank(q) = 0 /\ WaitsFor(q) = {}
  BY DEF rank, WaitsFor
<1>1. ASSUME NEW p \in Requests, NEW q \in WaitsFor(p) PROVE q \in Requests /\ pc[q] \notin Ended
  <2>1. CASE pc[p] \in Idle
    BY <2>1, <1>1 DEF WaitsFor, Connected
  <2>2. CASE pc[p] = "lock"
    BY <2>2, <1>1 DEF WaitsFor
  <2>3. CASE pc[p] = "user"
    BY <2>3, <1>1 DEF WaitsFor, WaitsDescend, rank
  <2>4. CASE pc[p] = "slug"
    <3>1. PICK t \in tenants : t.id = q /\ ~Visible(p, t.id)
      BY <2>4, <1>1 DEF WaitsFor, Holders
    <3> QED BY <3>1 DEF Inv, TypeOK, Tenant
  <2> QED BY <1>1, <2>1, <2>2, <2>3, <2>4 DEF WaitsFor
<1>2. ASSUME NEW p \in Requests, pc[p] \notin Ended, rank(p) = 0
      PROVE  Runs(p)
  <2>1. WaitsFor(p) = {}
    BY <1>0, <1>2 DEF WaitsDescend
  <2> QED BY <1>2, <2>1, PoolServes
<1>3. ASSUME NEW p \in Requests, pc[p] \notin Ended, rank(p) <= 1
      PROVE  \E q \in Requests : Runs(q)
  <2>1. CASE WaitsFor(p) = {}
    BY <1>3, <2>1, PoolServes
  <2>2. CASE \E q \in WaitsFor(p) : TRUE
    <3>1. PICK q \in WaitsFor(p) : TRUE
      BY <2>2
    <3>2. q \in Requests /\ pc[q] \notin Ended /\ rank(q) = 0
      BY <1>0, <1>1, <1>3 DEF WaitsDescend
    <3> QED BY <1>2, <3>2
  <2> QED BY <2>1, <2>2
<1>4. ASSUME NEW p \in Requests, pc[p] \notin Ended, rank(p) <= 2
      PROVE  \E q \in Requests : Runs(q)
  <2>1. CASE WaitsFor(p) = {}
    BY <1>4, <2>1, PoolServes
  <2>2. CASE \E q \in WaitsFor(p) : TRUE
    <3>1. PICK q \in WaitsFor(p) : TRUE
      BY <2>2
    <3>2. q \in Requests /\ pc[q] \notin Ended /\ rank(q) <= 1
      BY <1>0, <1>1, <1>4 DEF WaitsDescend
    <3> QED BY <1>3, <3>2
  <2> QED BY <2>1, <2>2
<1>5. CASE WaitsFor(r) = {}
  BY <1>5, PoolServes
<1>6. CASE \E q \in WaitsFor(r) : TRUE
  <2>1. PICK q \in WaitsFor(r) : TRUE
    BY <1>6
  <2>2. q \in Requests /\ pc[q] \notin Ended /\ rank(q) <= 2
    BY <1>0, <1>1 DEF WaitsDescend
  <2> QED BY <1>4, <2>2
<1> QED BY <1>5, <1>6

\* Lock, slug and pool are only ever waited for in this order, pool before lock
\* before slug, so no requests wait for each other in a circle.
THEOREM NoCircle == Spec => []WaitsDescend
BY Invariance, InvDescends, PTL

\* While a request has not ended some request can run its next statement,
\* whatever the size of the pool and however the keys collide.
THEOREM NeverStuck == Spec => []SomebodyRuns
BY Invariance, InvDescends, DescentEnds, PTL
=============================================================================
