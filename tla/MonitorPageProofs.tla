------------------------- MODULE MonitorPageProofs -------------------------
(***************************************************************************)
(* What the monitor page guarantees for any fields, any number of changes  *)
(* in flight and any bounds.                                               *)
(***************************************************************************)
EXTENDS MonitorPage, TLAPS

LEMMA Naturals ==
    /\ MaxStamp \in Nat /\ MaxFaults \in Nat /\ Slots \subseteq Int /\ Slots # {}
    /\ NoRow \notin Row /\ Failed \notin Row /\ NoRow # Failed /\ NoRequest \notin Request
    /\ FirstConfig \in Config
BY MonitorPageAssumption, DistinctAssumption DEF Slots, Config

LEMMA FreshFormType ==
    ASSUME NEW r \in Row
    PROVE  freshForm(r) \in Form
BY DEF freshForm, Row, Form

LEMMA FetchTypes == Asked \in Fetch /\ NotAsked \in Fetch
BY DEF Asked, NotAsked, Fetch

LEMMA DisownType ==
    ASSUME requests \in [Slots -> Request \cup {NoRequest}]
    PROVE  disown \in [Slots -> Request \cup {NoRequest}]
<1>1. ASSUME NEW r \in Request, r.kind = "save"
      PROVE  [r EXCEPT !.owned = FALSE] \in Request
    BY <1>1 DEF Request
<1> QED BY <1>1 DEF disown

LEMMA AnsweredType ==
    ASSUME requests \in [Slots -> Request \cup {NoRequest}], NEW i \in Slots,
           requests[i] # NoRequest, NEW phase \in {"ok", "failed"},
           NEW stamp \in 0..MaxStamp, answered(i, phase, stamp)
    PROVE  requests' \in [Slots -> Request \cup {NoRequest}]
<1>1. [requests[i] EXCEPT !.phase = phase, !.writes = stamp] \in Request
    BY DEF Request
<1> QED BY <1>1 DEF answered

LEMMA WrittenType ==
    ASSUME row \in Row, row.stamp < MaxStamp, NEW r \in Request, r.phase = "sent",
           r.kind # "remove"
    PROVE  written(r) \in Row /\ written(r).stamp = row.stamp + 1
<1>0. row.stamp + 1 \in 0..MaxStamp
    BY Naturals DEF Row
<1>1. CASE r.kind = "save"
    <2>1. r.writes \in Body
        BY <1>1 DEF Request
    <2>2. PICK F \in SUBSET Fields : r.writes \in [F -> Values]
        BY <2>1 DEF Body
    <2> DEFINE config == [f \in Fields |-> IF f \in DOMAIN r.writes THEN r.writes[f]
                                                               ELSE row.config[f]]
    <2>3. config \in Config
        BY <2>2 DEF Config, Row
    <2>4. written(r) = [row EXCEPT !.config = config, !.stamp = row.stamp + 1]
        BY <1>1 DEF written, Row
    <2> QED BY <1>0, <2>3, <2>4 DEF Row
<1>2. CASE r.kind = "toggle"
    BY <1>0, <1>2 DEF written, Row, Request
<1> QED BY <1>1, <1>2 DEF Request

LEMMA ElseType ==
    ASSUME row \in Row, row.stamp < MaxStamp, NEW f \in Fields, NEW v \in Values
    PROVE  [row EXCEPT !.config[f] = v, !.stamp = @ + 1] \in Row
<1>1. row.stamp + 1 \in 0..MaxStamp
    BY Naturals DEF Row
<1>2. [row.config EXCEPT ![f] = v] \in Config
    BY DEF Row, Config
<1> QED BY <1>1, <1>2 DEF Row

LEMMA ToggledType ==
    ASSUME row \in Row, row.stamp < MaxStamp
    PROVE  [row EXCEPT !.enabled = ~@, !.stamp = @ + 1] \in Row
<1>1. row.stamp + 1 \in 0..MaxStamp
    BY Naturals DEF Row
<1> QED BY <1>1 DEF Row

LEMMA SendType ==
    ASSUME requests \in [Slots -> Request \cup {NoRequest}], NEW r \in Request, send(r)
    PROVE  requests' \in [Slots -> Request \cup {NoRequest}]
BY DEF send

LEMMA SaveRequest ==
    ASSUME TypeOK
    PROVE  request("save", [f \in changed |-> form.draft[f]]) \in Request
<1>1. [f \in changed |-> form.draft[f]] \in [changed -> Values] /\ changed \subseteq Fields
    BY DEF TypeOK, Form, Config, changed
<1>2. [f \in changed |-> form.draft[f]] \in Body
    BY <1>1 DEF Body
<1> QED BY <1>2 DEF request, Request

---------------------------------------------------------------------------
(***************************************************************************)
(* The inductive invariant.  A stamp stands for one content of the row, so *)
(* of two copies the one with the larger stamp is newer and two with one   *)
(* stamp are equal; whatever is read from now on is as new as the newest   *)
(* change answered.                                                        *)
(***************************************************************************)
Older(a, b) == a.stamp <= b.stamp /\ (a.stamp = b.stamp => a = b)

CopiesAgree ==
    /\ view.status = "success" => view.row # NoRow
    /\ view.row # NoRow /\ row # NoRow => Older(view.row, row)
    /\ fetch.row \notin {NoRow, Failed} /\ row # NoRow => Older(fetch.row, row)
    /\ fetch.row \notin {NoRow, Failed} /\ view.row # NoRow => Older(view.row, fetch.row)

AnswersAreOld ==
    row # NoRow =>
        /\ acked <= row.stamp
        /\ \A i \in Slots : requests[i] # NoRequest /\ requests[i].phase = "ok"
                            => requests[i].writes <= row.stamp

ReadingsAreNew ==
    page = "monitor" =>
        /\ fetch.row \notin {NoRow, Failed} => fetch.row.stamp >= acked
        /\ fetch.phase = "idle" /\ view.status = "success" => view.row.stamp >= acked

\* The form differs from the copy under it only where its author typed.
DraftIsOwn ==
    view.status = "success" =>
        \A f \in Fields : form.draft[f] # view.row.config[f] => f \in form.touched

Inv == TypeOK /\ CopiesAgree /\ AnswersAreOld /\ ReadingsAreNew /\ DraftIsOwn

LEMMA InvInit == Init => Inv
<1> SUFFICES ASSUME Init PROVE Inv
    OBVIOUS
<1> USE DEF Init
<1>1. row \in Row
    BY Naturals DEF Row
<1>2. TypeOK
    BY <1>1, Naturals, FreshFormType, FetchTypes DEF TypeOK, View
<1>3. CopiesAgree /\ AnswersAreOld /\ ReadingsAreNew /\ DraftIsOwn
    BY <1>1, Naturals DEF CopiesAgree, AnswersAreOld, ReadingsAreNew, DraftIsOwn, Asked, Older
<1> QED BY <1>2, <1>3 DEF Inv

---------------------------------------------------------------------------
LEMMA TypeStep == TypeOK /\ [Next]_vars => TypeOK'
<1> SUFFICES ASSUME TypeOK, [Next]_vars PROVE TypeOK'
    OBVIOUS
<1> USE DEF TypeOK
<1>1. CASE poll
    BY <1>1, FetchTypes DEF poll
<1>2. CASE read
    BY <1>2 DEF read, Fetch
<1>3. CASE readFails
    BY <1>3, Naturals DEF readFails, Fetch
<1>4. CASE receive
    <2>1. fetch.row \in Row \cup {NoRow, Failed} /\ view.row \in Row \cup {NoRow}
        BY DEF Fetch, View
    <2>2. CASE fetch.row \in {NoRow, Failed}
        BY <1>4, <2>1, <2>2, FetchTypes, DisownType, FreshFormType DEF receive, View
    <2>3. CASE fetch.row \notin {NoRow, Failed}
        BY <1>4, <2>1, <2>3, FetchTypes, DisownType, FreshFormType DEF receive, View
    <2> QED BY <2>2, <2>3
<1>5. CASE openForm
    BY <1>5 DEF openForm, Form
<1>6. CASE cancelForm
    BY <1>6 DEF cancelForm, Form
<1>7. ASSUME NEW f \in Fields, NEW v \in Values, type(f, v)
      PROVE  TypeOK'
    BY <1>7 DEF type, Form, Config
<1>8. CASE save
    BY <1>8, SaveRequest, SendType DEF save
<1>9. CASE toggle
    <2>1. request("toggle", ~view.row.enabled) \in Request
        BY DEF request, Request
    <2> QED BY <1>9, <2>1, SendType DEF toggle
<1>10. CASE remove
    <2>1. request("remove", NoRow) \in Request
        BY DEF request, Request
    <2> QED BY <1>10, <2>1, SendType DEF remove
<1>11. ASSUME NEW i \in Slots, handle(i)
       PROVE  TypeOK'
    <2>1. requests[i] \in Request /\ requests[i].phase = "sent" /\ row \in Row
        BY <1>11 DEF handle
    <2>2. row' \in Row \cup {NoRow} /\ (row' # NoRow => row'.stamp \in 0..MaxStamp)
        <3>1. CASE requests[i].kind = "remove"
            BY <1>11, <3>1 DEF handle, written
        <3>2. CASE requests[i].kind # "remove"
            BY <1>11, <2>1, <3>2, WrittenType DEF handle, Row
        <3> QED BY <3>1, <3>2
    <2>3. (IF row' = NoRow THEN 0 ELSE row'.stamp) \in 0..MaxStamp /\ 0 \in 0..MaxStamp
        BY <2>2, Naturals
    <2>4. requests' \in [Slots -> Request \cup {NoRequest}]
        BY <1>11, <2>3, AnsweredType DEF handle
    <2>5. faults' \in 0..MaxFaults
        BY <1>11, Naturals DEF handle
    <2> QED BY <1>11, <2>2, <2>4, <2>5 DEF handle
<1>12. ASSUME NEW i \in Slots, refuse(i)
       PROVE  TypeOK'
    <2>1. 0 \in 0..MaxStamp
        BY Naturals
    <2>2. requests' \in [Slots -> Request \cup {NoRequest}]
        BY <1>12, <2>1, AnsweredType DEF refuse
    <2>3. faults' \in 0..MaxFaults
        BY <1>12, Naturals DEF refuse
    <2> QED BY <1>12, <2>2, <2>3 DEF refuse
<1>13. ASSUME NEW i \in Slots, answerOK(i)
       PROVE  TypeOK'
    <2>1. requests[i].writes \in 0..MaxStamp
        BY <1>13 DEF answerOK, Request
    <2> QED BY <1>13, <2>1, FetchTypes DEF answerOK, invalidated, Form
<1>14. ASSUME NEW i \in Slots, answerFailed(i)
       PROVE  TypeOK'
    BY <1>14 DEF answerFailed
<1>15. CASE check
    BY <1>15, Naturals DEF check, Row
<1>16. CASE someoneElse
    <2>1. row \in Row
        BY <1>16 DEF someoneElse
    <2>2. row' \in Row \cup {NoRow}
        <3>1. ASSUME NEW f \in Fields, NEW v \in Values, row.stamp < MaxStamp,
                     row' = [row EXCEPT !.config[f] = v, !.stamp = @ + 1]
              PROVE  row' \in Row
            BY <2>1, <3>1, ElseType
        <3>2. ASSUME row.stamp < MaxStamp, row' = [row EXCEPT !.enabled = ~@, !.stamp = @ + 1]
              PROVE  row' \in Row
            BY <2>1, <3>2, ToggledType
        <3> QED BY <1>16, <3>1, <3>2 DEF someoneElse
    <2> QED BY <1>16, <2>2 DEF someoneElse
<1>17. CASE UNCHANGED vars
    BY <1>17 DEF vars
<1> QED BY <1>1, <1>2, <1>3, <1>4, <1>5, <1>6, <1>7, <1>8, <1>9, <1>10, <1>11, <1>12,
           <1>13, <1>14, <1>15, <1>16, <1>17 DEF Next, Query, User, Answer

---------------------------------------------------------------------------
\* Every write to the row gives it a larger stamp, and a deleted row stays so.
LEMMA RowMoves ==
    ASSUME TypeOK, [Next]_vars
    PROVE  \/ UNCHANGED row
           \/ row # NoRow /\ row' = NoRow
           \/ row # NoRow /\ row' # NoRow /\ row'.stamp = row.stamp + 1
<1> USE DEF TypeOK
<1>1. CASE Query \/ readFails \/ User \/ UNCHANGED vars
    BY <1>1 DEF Query, poll, read, receive, readFails, User, openForm, cancelForm, save,
                toggle, remove, type, vars
<1>2. ASSUME NEW i \in Slots, handle(i)
      PROVE  row' # NoRow => row'.stamp = row.stamp + 1
    <2>1. CASE requests[i].kind = "remove"
        BY <1>2, <2>1 DEF handle, written
    <2>2. CASE requests[i].kind # "remove"
        BY <1>2, <2>2, WrittenType, Naturals DEF handle
    <2> QED BY <2>1, <2>2
<1>3. ASSUME NEW i \in Slots, refuse(i) \/ Answer(i)
      PROVE  UNCHANGED row
    BY <1>3 DEF refuse, Answer, answerOK, answerFailed
<1>4. CASE check
    BY <1>4, Naturals DEF check, Row
<1>5. CASE someoneElse
    <2>1. row \in Row
        BY <1>5 DEF someoneElse
    <2>2. ASSUME NEW f \in Fields, NEW v \in Values
          PROVE  /\ [row EXCEPT !.config[f] = v, !.stamp = @ + 1].stamp = row.stamp + 1
                 /\ [row EXCEPT !.enabled = ~@, !.stamp = @ + 1].stamp = row.stamp + 1
        BY <2>1 DEF Row
    <2>3. [row EXCEPT !.enabled = ~@, !.stamp = @ + 1].stamp = row.stamp + 1
        BY <2>1 DEF Row
    <2> QED BY <1>5, <2>2, <2>3 DEF someoneElse
<1>6. ASSUME NEW i \in Slots, handle(i)
      PROVE  row # NoRow
    BY <1>6 DEF handle
<1>7. check \/ someoneElse => row # NoRow
    BY DEF check, someoneElse
<1> QED BY <1>1, <1>2, <1>3, <1>4, <1>5, <1>6, <1>7 DEF Next

LEMMA OlderThanNew ==
    ASSUME NEW a \in Row, row \in Row, row' \in Row, Older(a, row),
           UNCHANGED row \/ row'.stamp = row.stamp + 1
    PROVE  Older(a, row')
BY Naturals DEF Older, Row

\* What the step of anyone but the query leaves alone.
LEMMA QueryKept ==
    ASSUME [Next]_vars, ~read, ~readFails, ~receive
    PROVE  UNCHANGED view /\ (UNCHANGED fetch \/ fetch' = Asked)
<1>1. ASSUME NEW i \in Slots, handle(i) \/ refuse(i) \/ Answer(i)
      PROVE  UNCHANGED view /\ (UNCHANGED fetch \/ fetch' = Asked)
    BY <1>1 DEF handle, refuse, Answer, answerOK, answerFailed, invalidated
<1>2. CASE poll \/ User \/ check \/ someoneElse \/ UNCHANGED vars
    BY <1>2 DEF poll, User, openForm, cancelForm, save, toggle, remove, type, check,
                someoneElse, vars
<1> QED BY <1>1, <1>2 DEF Next, Query

LEMMA CopiesStep == TypeOK /\ TypeOK' /\ CopiesAgree /\ [Next]_vars => CopiesAgree'
<1> SUFFICES ASSUME TypeOK, TypeOK', CopiesAgree, [Next]_vars
             PROVE  CopiesAgree'
    OBVIOUS
<1>1. /\ row \in Row \cup {NoRow} /\ row' \in Row \cup {NoRow}
      /\ view.row \in Row \cup {NoRow} /\ fetch.row \in Row \cup {NoRow, Failed}
      /\ view'.row \in Row \cup {NoRow} /\ fetch'.row \in Row \cup {NoRow, Failed}
    BY DEF TypeOK, View, Fetch
<1>2. ASSUME NEW a \in Row, row # NoRow => Older(a, row)
      PROVE  row' # NoRow => Older(a, row')
    BY <1>1, <1>2, RowMoves, OlderThanNew
<1>3. CASE read
    <2>1. fetch'.row = row /\ UNCHANGED <<row, view>>
        BY <1>3 DEF read
    <2>2. row # NoRow => Older(row, row)
        BY <1>1 DEF Older, Row
    <2> QED BY <1>1, <2>1, <2>2 DEF CopiesAgree
<1>4. CASE readFails
    BY <1>4 DEF readFails, CopiesAgree
<1>5. CASE receive
    <2>1. UNCHANGED row /\ fetch'.row = Failed
        BY <1>5 DEF receive, NotAsked
    <2>2. CASE fetch.row \in {NoRow, Failed}
        <3>1. view'.row = view.row /\ view'.status = "error"
            BY <1>5, <2>2 DEF receive, TypeOK, View
        <3> QED BY <2>1, <3>1 DEF CopiesAgree
    <2>3. CASE fetch.row \notin {NoRow, Failed}
        <3>1. view'.row = fetch.row /\ view'.status = "success"
            BY <1>5, <2>3 DEF receive
        <3> QED BY <2>1, <2>3, <3>1 DEF CopiesAgree
    <2> QED BY <2>2, <2>3
<1>6. CASE ~read /\ ~readFails /\ ~receive
    <2>1. UNCHANGED view /\ (UNCHANGED fetch \/ fetch'.row = Failed)
        BY <1>6, QueryKept DEF Asked
    <2>2. view.row # NoRow => (row' # NoRow => Older(view.row, row'))
        BY <1>1, <1>2 DEF CopiesAgree
    <2>3. fetch.row \notin {NoRow, Failed} => (row' # NoRow => Older(fetch.row, row'))
        BY <1>1, <1>2 DEF CopiesAgree
    <2> QED BY <2>1, <2>2, <2>3 DEF CopiesAgree
<1> QED BY <1>3, <1>4, <1>5, <1>6

\* The changes in flight whose answer is on its way, and the newest answered.
LEMMA AnswersStep == TypeOK /\ TypeOK' /\ AnswersAreOld /\ [Next]_vars => AnswersAreOld'
<1> SUFFICES ASSUME TypeOK, TypeOK', AnswersAreOld, [Next]_vars, row' # NoRow,
                    NEW j \in Slots
             PROVE  /\ acked' <= row'.stamp
                    /\ requests'[j] # NoRequest /\ requests'[j].phase = "ok"
                       => requests'[j].writes <= row'.stamp
    BY Naturals DEF AnswersAreOld
<1>1. row \in Row /\ row' \in Row /\ row.stamp <= row'.stamp
    BY RowMoves, Naturals DEF TypeOK, Row
<1>2. acked \in Int /\ row.stamp \in Int /\ row'.stamp \in Int /\ acked <= row.stamp
    BY <1>1, Naturals DEF TypeOK, Row, AnswersAreOld
<1>3. requests[j] # NoRequest /\ requests[j].phase = "ok"
          => requests[j].writes \in Int /\ requests[j].writes <= row'.stamp
    <2>1. requests[j] # NoRequest /\ requests[j].phase = "ok" => requests[j].writes \in 0..MaxStamp
        BY DEF TypeOK, Request
    <2> QED BY <1>1, <1>2, <2>1, Naturals DEF AnswersAreOld
<1>4. CASE poll \/ read \/ readFails \/ openForm \/ cancelForm \/ check \/ someoneElse
           \/ (\E f \in Fields, v \in Values : type(f, v)) \/ UNCHANGED vars
    <2>1. UNCHANGED <<acked, requests>>
        BY <1>4 DEF poll, read, readFails, openForm, cancelForm, check, someoneElse, type, vars
    <2> QED BY <1>1, <1>2, <1>3, <2>1
<1>5. CASE receive
    <2>1. UNCHANGED acked /\ (UNCHANGED requests \/ requests' = disown)
        BY <1>5 DEF receive
    <2>2. requests'[j] # NoRequest /\ requests'[j].phase = "ok"
          => requests[j] # NoRequest /\ requests[j].phase = "ok"
             /\ requests'[j].writes = requests[j].writes
        BY <2>1 DEF disown, TypeOK, Request
    <2> QED BY <1>1, <1>2, <1>3, <2>1, <2>2
<1>6. ASSUME NEW r, send(r), r.phase = "sent"
      PROVE  requests'[j] = requests[j] \/ requests'[j].phase = "sent"
    BY <1>6 DEF send, TypeOK
<1>7. CASE save \/ toggle \/ remove
    <2>1. UNCHANGED acked /\ (requests'[j] = requests[j] \/ requests'[j].phase = "sent")
        BY <1>6, <1>7 DEF save, toggle, remove, request
    <2> QED BY <1>1, <1>2, <1>3, <2>1
<1>8. ASSUME NEW i \in Slots, NEW phase, NEW stamp, answered(i, phase, stamp),
             requests[i] # NoRequest, phase = "ok" => stamp <= row'.stamp
      PROVE  requests'[j] # NoRequest /\ requests'[j].phase = "ok"
             => requests'[j].writes <= row'.stamp
    BY <1>3, <1>8 DEF answered, TypeOK, Request
<1>9. ASSUME NEW i \in Slots, handle(i) \/ refuse(i)
      PROVE  /\ acked' <= row'.stamp
             /\ requests'[j] # NoRequest /\ requests'[j].phase = "ok"
                => requests'[j].writes <= row'.stamp
    <2>1. row'.stamp <= row'.stamp /\ UNCHANGED acked
        BY <1>1, <1>2, <1>9 DEF handle, refuse
    <2>2. CASE handle(i)
        BY <1>1, <1>2, <1>8, <2>1, <2>2 DEF handle
    <2>3. CASE refuse(i)
        BY <1>1, <1>2, <1>8, <2>1, <2>3 DEF refuse
    <2> QED BY <1>9, <2>2, <2>3
<1>10. ASSUME NEW i \in Slots, Answer(i)
       PROVE  /\ acked' <= row'.stamp
              /\ requests'[j] # NoRequest /\ requests'[j].phase = "ok"
                 => requests'[j].writes <= row'.stamp
    <2>1. requests'[j] = requests[j] \/ requests'[j] = NoRequest
        BY <1>10 DEF Answer, answerOK, answerFailed, TypeOK
    <2>2. UNCHANGED row
        BY <1>10 DEF Answer, answerOK, answerFailed
    <2>3. \/ acked' = acked
          \/ /\ requests[i] # NoRequest /\ requests[i].phase = "ok"
             /\ acked' = requests[i].writes
        BY <1>10 DEF Answer, answerOK, answerFailed
    <2>4. acked' <= row'.stamp
        BY <1>1, <1>2, <2>2, <2>3 DEF AnswersAreOld
    <2> QED BY <1>3, <2>1, <2>4
<1> QED BY <1>4, <1>5, <1>7, <1>9, <1>10 DEF Next, Query, User

LEMMA ReadingsStep == Inv /\ TypeOK' /\ [Next]_vars => ReadingsAreNew'
<1> SUFFICES ASSUME Inv, TypeOK', [Next]_vars, page' = "monitor"
             PROVE  /\ fetch'.row \notin {NoRow, Failed} => fetch'.row.stamp >= acked'
                    /\ fetch'.phase = "idle" /\ view'.status = "success"
                       => view'.row.stamp >= acked'
    BY DEF ReadingsAreNew
<1> USE DEF Inv
<1>1. CASE poll
    BY <1>1 DEF poll, Asked
<1>2. CASE read
    <2>1. row # NoRow => row.stamp >= acked
        BY Naturals DEF TypeOK, Row, AnswersAreOld
    <2> QED BY <1>2, <2>1 DEF read
<1>3. CASE readFails
    BY <1>3 DEF readFails
<1>4. CASE receive
    <2>1. page = "monitor" /\ UNCHANGED acked /\ fetch'.row = Failed
        BY <1>4 DEF receive, NotAsked
    <2>2. CASE fetch.row \in {NoRow, Failed}
        <3>1. view'.status = "error"
            BY <1>4, <2>2 DEF receive, TypeOK, View
        <3> QED BY <2>1, <3>1
    <2>3. CASE fetch.row \notin {NoRow, Failed}
        <3>1. view'.row = fetch.row
            BY <1>4, <2>3 DEF receive
        <3> QED BY <2>1, <2>3, <3>1 DEF ReadingsAreNew
    <2> QED BY <2>2, <2>3
<1>5. ASSUME NEW i \in Slots, answerOK(i)
      PROVE  fetch' = Asked \/ UNCHANGED <<fetch, view, acked, page>>
    BY <1>5 DEF answerOK, invalidated
<1>6. ASSUME NEW i \in Slots, handle(i) \/ refuse(i) \/ answerFailed(i)
      PROVE  UNCHANGED <<fetch, view, acked, page>>
    BY <1>6 DEF handle, refuse, answerFailed
<1>7. CASE User \/ check \/ someoneElse \/ UNCHANGED vars
    <2>1. UNCHANGED <<fetch, view, acked, page>>
        BY <1>7 DEF User, openForm, cancelForm, save, toggle, remove, type, check,
                    someoneElse, vars
    <2> QED BY <2>1 DEF ReadingsAreNew
<1>8. fetch' = Asked \/ UNCHANGED <<fetch, view, acked, page>>
      => /\ fetch'.row \notin {NoRow, Failed} => fetch'.row.stamp >= acked'
         /\ fetch'.phase = "idle" /\ view'.status = "success" => view'.row.stamp >= acked'
    BY DEF Asked, ReadingsAreNew
<1> QED BY <1>1, <1>2, <1>3, <1>4, <1>5, <1>6, <1>7, <1>8 DEF Next, Query, Answer

LEMMA DraftStep == Inv /\ TypeOK' /\ [Next]_vars => DraftIsOwn'
<1> SUFFICES ASSUME Inv, TypeOK', [Next]_vars, view'.status = "success", NEW f \in Fields,
                    form'.draft[f] # view'.row.config[f]
             PROVE  f \in form'.touched
    BY DEF DraftIsOwn
<1> USE DEF Inv
<1>1. CASE receive
    <2>1. fetch.row \notin {NoRow, Failed}
        BY <1>1 DEF receive, TypeOK, View
    <2>2. view'.row = fetch.row
        BY <1>1, <2>1 DEF receive
    <2>3. CASE remounts(fetch.row)
        <3>1. form' = freshForm(fetch.row)
            BY <1>1, <2>1, <2>3 DEF receive
        <3> QED BY <2>2, <3>1 DEF freshForm
    <2>4. CASE ~remounts(fetch.row)
        <3>1. UNCHANGED form /\ view.status = "success" /\ fetch.row.stamp = view.row.stamp
            BY <1>1, <2>1, <2>4 DEF receive, remounts
        <3>2. view.row = fetch.row
            BY <2>1, <3>1 DEF CopiesAgree, Older
        <3> QED BY <2>2, <3>1, <3>2 DEF DraftIsOwn
    <2> QED BY <2>3, <2>4
<1>2. ASSUME NEW g \in Fields, NEW v \in Values, type(g, v)
      PROVE  f \in form'.touched
    <2>1. /\ UNCHANGED view /\ form'.touched = form.touched \cup {g}
          /\ f # g => form'.draft[f] = form.draft[f]
        BY <1>2 DEF type, TypeOK, Form, Config
    <2> QED BY <2>1 DEF DraftIsOwn
<1>3. ASSUME UNCHANGED view, form'.draft = form.draft, form'.touched = form.touched
      PROVE  f \in form'.touched
    BY <1>3 DEF DraftIsOwn
<1>4. CASE openForm \/ cancelForm
    BY <1>3, <1>4 DEF openForm, cancelForm, TypeOK, Form
<1>5. ASSUME NEW i \in Slots, answerOK(i)
      PROVE  f \in form'.touched
    <2>1. UNCHANGED view /\ form'.draft = form.draft /\ form'.touched = form.touched
        BY <1>5 DEF answerOK, TypeOK, Form
    <2> QED BY <1>3, <2>1
<1>6. ASSUME NEW i \in Slots, handle(i) \/ refuse(i) \/ answerFailed(i)
      PROVE  f \in form'.touched
    BY <1>3, <1>6 DEF handle, refuse, answerFailed
<1>7. CASE poll \/ read \/ readFails \/ save \/ toggle \/ remove \/ check \/ someoneElse
           \/ UNCHANGED vars
    BY <1>3, <1>7 DEF poll, read, readFails, save, toggle, remove, check, someoneElse, vars
<1> QED BY <1>1, <1>2, <1>4, <1>5, <1>6, <1>7 DEF Next, Query, User, Answer

LEMMA InvStep == Inv /\ [Next]_vars => Inv'
<1> SUFFICES ASSUME Inv, [Next]_vars PROVE Inv'
    OBVIOUS
<1>1. TypeOK'
    BY TypeStep DEF Inv
<1> QED BY <1>1, CopiesStep, AnswersStep, ReadingsStep, DraftStep DEF Inv

---------------------------------------------------------------------------
\* TypeOK, for all constants.
THEOREM TypeCorrect == Spec => []TypeOK
<1>1. Init => TypeOK
    BY InvInit DEF Inv
<1> QED BY <1>1, TypeStep, PTL DEF Spec

\* OwnChangesAreShown, for all constants: a reading that was on its way when a
\* change was answered never brings the old row back.
THEOREM OwnChangesShown == Spec => []OwnChangesAreShown
<1>1. Inv => OwnChangesAreShown
    BY DEF Inv, ReadingsAreNew, OwnChangesAreShown, Shown
<1> QED BY <1>1, InvInit, InvStep, PTL DEF Spec

\* A request that leaves carries what its sender put in it.
LEMMA SavesOnlyOwn ==
    ASSUME Inv, [Next]_vars, NEW i \in Slots,
           requests[i] = NoRequest, requests'[i] # NoRequest,
           requests'[i].kind = "save"
    PROVE  DOMAIN requests'[i].writes \subseteq form.touched
<1> USE DEF Inv
<1>1. CASE save
    <2>1. requests'[i] = request("save", [f \in changed |-> form.draft[f]])
        BY <1>1 DEF save, send, TypeOK
    <2>2. DOMAIN requests'[i].writes = changed
        BY <2>1 DEF request
    <2>3. changed \subseteq form.touched
        BY <1>1 DEF save, Shown, changed, DraftIsOwn
    <2> QED BY <2>2, <2>3
<1>2. CASE toggle \/ remove
    BY <1>2 DEF toggle, remove, send, request, TypeOK
<1>3. CASE receive
    BY <1>3 DEF receive, disown
<1>4. ASSUME NEW j \in Slots, handle(j) \/ refuse(j) \/ Answer(j)
      PROVE  requests'[i] = requests[i]
    BY <1>4 DEF handle, refuse, answered, Answer, answerOK, answerFailed, TypeOK
<1>5. CASE poll \/ read \/ readFails \/ openForm \/ cancelForm \/ check \/ someoneElse
           \/ (\E f \in Fields, v \in Values : type(f, v)) \/ UNCHANGED vars
    BY <1>5 DEF poll, read, readFails, openForm, cancelForm, check, someoneElse, type, vars
<1> QED BY <1>1, <1>2, <1>3, <1>4, <1>5 DEF Next, Query, User

\* UntouchedFieldsAreKept, for all constants: no sequence of refetches, remounts,
\* cancelled and reopened forms makes a save carry a field nobody typed in.
THEOREM UntouchedKept == Spec => UntouchedFieldsAreKept
<1>1. Inv /\ [Next]_vars =>
        [\A i \in Slots :
            requests'[i] # requests[i] /\ requests'[i] # NoRequest
            /\ requests'[i].kind = "save" /\ requests'[i].phase = "sent"
            /\ requests[i] = NoRequest
            => DOMAIN requests'[i].writes \subseteq form.touched]_vars
    BY SavesOnlyOwn
<1> QED BY <1>1, InvInit, InvStep, PTL DEF Spec, UntouchedFieldsAreKept
=============================================================================
