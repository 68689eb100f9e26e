--------------------------- MODULE CoreProofs ---------------------------
(***************************************************************************)
(* An inductive invariant of ReportTx and what follows from it for every   *)
(* number of users, reports, items, workers and transactions.              *)
(*                                                                         *)
(* The argument: updated_at is unique to a transaction, so a row that      *)
(* still has the version a handler loaded is the row it loaded             *)
(* (LoadedRows); a transaction that has written a report row keeps others  *)
(* from writing it until it ends (RowLocks), so what it staged is still a  *)
(* transition of the committed row when it commits (StagedRows); and since *)
(* item writes always restamp their report in the same transaction, a      *)
(* version also names the items (ViewContents).                            *)
(***************************************************************************)
EXTENDS ReportTx, TLAPS

Busy(w)   == pc[w] # "idle"
Writer(w) == Busy(w) /\ req[w].op # "get"
Wrote(w)  == pend[w].status # "none"
Held(w, i) == ipend[w][i].state # "none"

(* A worker between requests holds nothing; a busy one serves a request    *)
(* that its label fits.                                                    *)
WorkerShape(w) ==
  /\ ~Busy(w) => pend[w] = NoRow /\ ipend[w] = NoWrites /\ Rep(w) = Null
  /\ Busy(w) => /\ req[w].op \in Ops
                /\ User(w) \in Users
                /\ Rep(w) \in Reports
                /\ RoleAllows(req[w].op, User(w))
                /\ req[w].op \in {"upditem", "delitem"} => req[w].item \in Items
  /\ pc[w] = "items" => req[w].op \in {"get", "submit"}
  /\ pc[w] = "find" => req[w].op \in {"upditem", "delitem"}
  /\ pc[w] \in {"item", "sum", "total"} => req[w].op \in ItemOps
  /\ pc[w] = "cas" => req[w].op \in VersionedOps
  /\ pc[w] \in {"cascade", "row"} => req[w].op = "delete"
  /\ pc[w] = "insert" => req[w].op = "create"
  /\ pc[w] = "commit" => req[w].op # "get"
  /\ Wrote(w) => pc[w] = "commit"
  /\ (\E i \in Items : Held(w, i)) => pc[w] \in {"sum", "total", "row", "commit"}

Shape == TypeOK /\ \A w \in Workers : WorkerShape(w)

(* Timestamps: a writer's is its own, and no row, entity or client has it  *)
(* before the writer commits.                                              *)
Stamps ==
  /\ \A r \in Reports : reports[r].ver <= clock
  /\ \A w \in Workers : /\ stamp[w] <= clock
                        /\ row[w].ver <= clock
                        /\ req[w].base.ver <= clock
  /\ \A u \in Users, r \in Reports : view[u][r].ver <= clock

FreshStamp(w) ==
  /\ stamp[w] # 0
  /\ \A v \in Workers \ {w} : Writer(v) => stamp[v] # stamp[w]
  /\ \A r \in Reports : reports[r].ver # stamp[w]
  /\ \A v \in Workers : row[v].ver # stamp[w] /\ req[v].base.ver # stamp[w]
  /\ \A u \in Users, r \in Reports : view[u][r].ver # stamp[w]

FreshStamps == \A w \in Workers : Writer(w) => FreshStamp(w)

(* Rows that do not exist are blank, and clients only know existing ones.  *)
Existence ==
  /\ \A r \in Reports : /\ reports[r].status = "none" => reports[r] = NoRow
                        /\ reports[r].status # "none" => reports[r].owner \in Users
  /\ \A u \in Users, r \in Reports :
       view[u][r] # NoView => reports[r].status # "none"

(* Row locks, and the private report id of a creation. *)
RowLocks ==
  \A v, w \in Workers :
    v # w /\ Busy(v) /\ Busy(w) /\ Rep(v) = Rep(w) =>
      ~(Wrote(v) /\ Wrote(w)) /\ req[v].op # "create"

ItemLocks ==
  \A v, w \in Workers : \A i \in Items :
    Held(v, i) /\ Held(w, i) => v = w

(* What a handler knows of the report after loading it. *)
LoadedRow(w) ==
  /\ req[w].op = "create" /\ Busy(w) =>
       /\ reports[Rep(w)].status = "none"
       /\ pc[w] # "load" /\ req[w].ref # Null =>
            reports[req[w].ref].status = "rejected" /\ reports[req[w].ref].owner = User(w)
  /\ Busy(w) /\ req[w].op # "create" => reports[Rep(w)].status # "none"
  /\ Busy(w) /\ pc[w] # "load" /\ req[w].op # "create" =>
       /\ row[w].status # "none" /\ ~row[w].deleted
       /\ row[w].owner = reports[Rep(w)].owner
       /\ TenantOf[row[w].owner] = TenantOf[User(w)]
       /\ Passes(w, row[w])
       /\ row[w].ver = reports[Rep(w)].ver => row[w] = reports[Rep(w)]

LoadedRows == \A w \in Workers : LoadedRow(w)

(* A version that is still current names the items that were shown with it.*)
Names(vw, r) ==
  vw.ver = reports[r].ver => vw.seen = Contents(r) /\ ~reports[r].deleted

ViewContents ==
  /\ \A u \in Users, r \in Reports :
       view[u][r].ver # 0 => Names(view[u][r], r)
  /\ \A w \in Workers :
       Busy(w) /\ req[w].op \in VersionedOps =>
         req[w].base.ver # 0 /\ Names(req[w].base, Rep(w))

(* A submission about to write has passed Submit. *)
CheckedSubmit(w) ==
  pc[w] \in {"cas", "commit"} /\ req[w].op = "submit" =>
    CanSubmit(row[w], TRUE, HasApprover(TenantOf[User(w)]))

CheckedSubmits == \A w \in Workers : CheckedSubmit(w)

(* The items a submission counted are still there if the version is. *)
CountedItems ==
  \A w \in Workers :
    /\ pc[w] \in {"cas", "commit"} /\ req[w].op = "submit"
    /\ row[w].ver = reports[Rep(w)].ver
    => ~Empty(Rep(w))

(* What a worker about to commit has written. *)
StagedRow(w) ==
  LET old == reports[Rep(w)] IN
  pc[w] = "commit" =>
    /\ req[w].op # "delete" => Wrote(w)
    /\ req[w].op \in VersionedOps => CasMatches(w) /\ pend[w] = CasRow(w)
    /\ req[w].op \in ItemOps =>
         pend[w] = [old EXCEPT !.total = sum[w], !.ver = stamp[w]]
    /\ req[w].op = "delete" =>
         \/ ~old.deleted /\ pend[w] = [old EXCEPT !.deleted = TRUE, !.ver = stamp[w]]
         \/ old.deleted /\ ~Wrote(w)
    /\ req[w].op = "create" =>
         pend[w] = [NewReport(User(w), req[w].ref) EXCEPT
                      !.total = pend[w].total, !.ver = stamp[w]]

StagedRows == \A w \in Workers : StagedRow(w)

(* Item rows are staged for the worker's own report only.                  *)
StagedItems ==
  \A w \in Workers : \A i \in Items :
    Held(w, i) =>
      /\ ipend[w][i].rep = Rep(w)
      /\ items[i].state # "none" => items[i].rep = Rep(w)
      /\ req[w].op = "create" \/ req[w].op \in ItemOps \/ req[w].op = "delete"

EditedItems ==
  \A w \in Workers :
    pc[w] \in {"sum", "total", "commit"} /\ req[w].op = "upditem" =>
      /\ req[w].item \in Items
      /\ Held(w, req[w].item)
      /\ Shown(req[w].item, Rep(w))
      /\ items[req[w].item].ver = req[w].base.seen[req[w].item]

(* What the life of reports rests on. *)
Core ==
  /\ Shape
  /\ Stamps /\ FreshStamps /\ Existence
  /\ RowLocks /\ LoadedRows /\ CheckedSubmits /\ StagedRows

(* What the contents of reports rest on. *)
IInv ==
  /\ Core
  /\ ItemLocks /\ StagedItems
  /\ ViewContents /\ CountedItems /\ EditedItems
-----------------------------------------------------------------------------
(* The shape of the workers. *)

USE DEF db, local

(* The domain transitions and the INSERT and UPDATE statements leave full  *)
(* report rows.                                                            *)
LEMMA RowTypes ==
  ASSUME NEW r \in ReportRow, NEW u \in UserOrNull, NEW n \in Nat, NEW t \in Sums, NEW f \in ReportOrNull
  PROVE  /\ NoRow \in ReportRow
         /\ NewReport(u, f) \in ReportRow
         /\ Submitted(r, u) \in ReportRow
         /\ Approved(r, u) \in ReportRow
         /\ Rejected(r, u) \in ReportRow
         /\ Paid(r, u) \in ReportRow
         /\ [r EXCEPT !.total = t, !.ver = n] \in ReportRow
         /\ [r EXCEPT !.deleted = TRUE, !.ver = n] \in ReportRow
<1>0. NoSum \in Sums
  BY DEF NoSum, Sums
<1>1. NoRow \in ReportRow
  BY <1>0 DEF NoRow, ReportRow, UserOrNull, ReportOrNull
<1>2. NewReport(u, f) \in ReportRow
  BY <1>0 DEF NewReport, NoRow, ReportRow, UserOrNull, ReportOrNull, Statuses
<1>3. Submitted(r, u) \in ReportRow
  BY DEF Submitted, ReportRow, Statuses
<1>4. Approved(r, u) \in ReportRow
  BY DEF Approved, ReportRow, Statuses
<1>5. Rejected(r, u) \in ReportRow
  BY DEF Rejected, ReportRow, Statuses
<1>6. Paid(r, u) \in ReportRow
  BY DEF Paid, ReportRow, Statuses
<1>7. [r EXCEPT !.total = t, !.ver = n] \in ReportRow
  BY DEF ReportRow
<1>8. [r EXCEPT !.deleted = TRUE, !.ver = n] \in ReportRow
  BY DEF ReportRow
<1> QED
  BY <1>1, <1>2, <1>3, <1>4, <1>5, <1>6, <1>7, <1>8

(* The transitions of internal/domain/report.go alone.                     *)
LEMMA RowUpdates ==
  ASSUME NEW r \in ReportRow, NEW u \in UserOrNull
  PROVE  /\ Submitted(r, u) \in ReportRow
         /\ Approved(r, u) \in ReportRow
         /\ Rejected(r, u) \in ReportRow
         /\ Paid(r, u) \in ReportRow
  BY DEF Submitted, Approved, Rejected, Paid, ReportRow, Statuses

(* The statements of item_repo.go leave full item rows.                    *)
LEMMA ItemTypes ==
  ASSUME NEW it \in ItemRow, NEW a \in Nat, NEW n \in Nat, NEW r \in ReportOrNull
  PROVE  /\ NoItem \in ItemRow
         /\ NoWrites \in [Items -> ItemRow]
         /\ [state |-> "live", rep |-> r, amt |-> a, ver |-> n] \in ItemRow
         /\ [it EXCEPT !.amt = a, !.ver = n] \in ItemRow
         /\ [it EXCEPT !.state = "deleted", !.ver = n] \in ItemRow
  BY DEF ItemRow, NoItem, NoWrites, ReportOrNull

(* What ListByReportID returns has the type of a set of item versions.     *)
LEMMA ContentsType ==
  ASSUME TypeOK, NEW r
  PROVE  Contents(r) \in Sums
  BY DEF TypeOK, Contents, Sums, ItemRow

(* What the subquery of UpdateReportTotalAmount sees has the type of a total.*)
LEMMA AmountsType ==
  ASSUME TypeOK, NEW r, NEW w \in Workers
  PROVE  AmountsOf(w, r) \in Sums
  BY DEF TypeOK, AmountsOf, Sums, ItemRow, ItemAs

(* Nothing of worker v changes.                                            *)
Untouched(v) ==
  /\ pc'[v] = pc[v] /\ req'[v] = req[v] /\ stamp'[v] = stamp[v]
  /\ row'[v] = row[v] /\ sum'[v] = sum[v]
  /\ pend'[v] = pend[v] /\ ipend'[v] = ipend[v]

(* A request arrives at w, its next statement runs, or it fails.           *)
AnyStep(w) == Arrive(w) \/ Step(w) \/ Fail(w)

(* A request touches no other request's private state: handlers share nothing*)
(* but the database.                                                       *)
LEMMA Frame ==
  ASSUME TypeOK, NEW w \in Workers, AnyStep(w), NEW v \in Workers, v # w
  PROVE  Untouched(v)
<1> USE DEF TypeOK, Untouched, Goto
<1>1. ASSUME NEW q, Open(w, q) PROVE Untouched(v)
  BY <1>1 DEF Open
<1>2. ASSUME Reset(w) PROVE Untouched(v)
  BY <1>2 DEF Reset
<1>3. CASE Arrive(w)
  BY <1>1, <1>3 DEF Arrive, BeginVersioned, BeginAddItem, BeginUpdateItem,
     BeginDeleteItem, BeginDelete, BeginCreate, BeginGet
<1>4. CASE Load(w) \/ CheckSubmit(w) \/ Cas(w) \/ FindItem(w)
  BY <1>4 DEF Load, CheckSubmit, Cas, FindItem
<1>5. CASE InsertItem(w) \/ UpdateItem(w) \/ DeleteItem(w)
  BY <1>5 DEF InsertItem, UpdateItem, DeleteItem, Stage
<1>6. CASE SumItems(w) \/ WriteTotal(w) \/ Cascade(w) \/ DeleteRow(w) \/ InsertReport(w)
  BY <1>6 DEF SumItems, WriteTotal, Cascade, DeleteRow, InsertReport
<1>7. CASE Respond(w) \/ Commit(w) \/ Refuse(w) \/ Fail(w)
  BY <1>2, <1>7 DEF Respond, Commit, Refuse, Fail
<1> QED
  BY <1>3, <1>4, <1>5, <1>6, <1>7 DEF AnyStep, Step

(* When TenantContext ends a transaction its worker holds nothing any more.*)
LEMMA ResetShape ==
  ASSUME Shape, NEW w \in Workers, Reset(w)
  PROVE  /\ pc' \in [Workers -> Labels]
         /\ req' \in [Workers -> Request]
         /\ stamp' \in [Workers -> Nat]
         /\ row' \in [Workers -> ReportRow]
         /\ sum' \in [Workers -> Sums]
         /\ pend' \in [Workers -> ReportRow]
         /\ ipend' \in [Workers -> [Items -> ItemRow]]
         /\ pc'[w] = "idle" /\ req'[w] = NoReq /\ stamp'[w] = 0 /\ row'[w] = NoRow
         /\ pend'[w] = NoRow /\ ipend'[w] = NoWrites
         /\ WorkerShape(w)'
<1>1. NoReq \in Request /\ NoRow \in ReportRow /\ NoSum \in Sums
      /\ NoWrites \in [Items -> ItemRow]
  BY DEF NoReq, Request, NoRow, ReportRow, NoSum, Sums, NoWrites, NoItem, ItemRow,
         UserOrNull, ReportOrNull, ItemOrNull, NoView, View
<1>2. /\ pc' \in [Workers -> Labels] /\ req' \in [Workers -> Request]
      /\ stamp' \in [Workers -> Nat] /\ row' \in [Workers -> ReportRow]
      /\ sum' \in [Workers -> Sums] /\ pend' \in [Workers -> ReportRow]
      /\ ipend' \in [Workers -> [Items -> ItemRow]]
      /\ pc'[w] = "idle" /\ req'[w] = NoReq /\ stamp'[w] = 0 /\ row'[w] = NoRow
      /\ pend'[w] = NoRow /\ ipend'[w] = NoWrites
  BY <1>1 DEF Shape, TypeOK, Reset, Goto, Labels
<1>3. WorkerShape(w)'
  BY <1>2 DEF WorkerShape, Busy, Wrote, Held, Rep, NoReq, NoRow, NoWrites, NoItem
<1> QED
  BY <1>2, <1>3

(* Every request the router lets through gives its worker a legal shape.   *)
LEMMA OpenShape ==
  ASSUME Shape, NEW w \in Workers, NEW q \in Request, Open(w, q),
         q.op \in Ops, q.op # "get", q.user \in Users, q.rep \in Reports,
         q.op \in {"upditem", "delitem"} => q.item \in Items
  PROVE  Shape'
<1> USE DEF Shape
<1>1. TypeOK'
  BY DEF Open, Goto, TypeOK, Labels
<1>2. ASSUME NEW v \in Workers PROVE WorkerShape(v)'
  <2>1. CASE v = w
    BY <2>1 DEF Open, Goto, TypeOK, WorkerShape, Busy, Wrote, Held, Rep, User, NoRow, NoWrites, NoItem
  <2>2. CASE v # w
    BY <2>2 DEF Open, Goto, TypeOK, WorkerShape, Busy, Wrote, Held, Rep, User
  <2> QED BY <2>1, <2>2
<1> QED
  BY <1>1, <1>2

(* A step of one request keeps the shape of the others.                    *)
LEMMA ShapeOthers ==
  ASSUME Shape, NEW w \in Workers, AnyStep(w), NEW v \in Workers, v # w
  PROVE  WorkerShape(v)'
BY Frame DEF Shape, Untouched, WorkerShape, Busy, Wrote, Held, Rep, User

(* What a request that opens a transaction is: its author and its ids      *)
(* exist, and what it says about versions its author has been shown.       *)
Offered(q) ==
  /\ q \in Request /\ q.op \in Ops /\ q.op # "get"
  /\ q.user \in Users /\ q.rep \in Reports
  /\ q.op \in {"upditem", "delitem"} => q.item \in Items
  /\ q.op \in VersionedOps => view[q.user][q.rep].ver # 0
  /\ q.op \in {"upditem", "delitem"} =>
       q.item \in Items /\ view[q.user][q.rep].seen[q.item] # 0
  /\ q.base = IF q.op \in VersionedOps \cup {"upditem"} THEN view[q.user][q.rep] ELSE NoView
  /\ q.op \in {"additem", "delete"} => reports[q.rep].status # "none"
  /\ q.op = "create" => /\ FreshReport(q.rep)
                        /\ q.ref # Null => q.ref \in Reports /\ reports[q.ref].status # "none"

(* Every request but a GET is offered by a client and opens a transaction. *)
LEMMA Opened ==
  ASSUME TypeOK, NEW w \in Workers, Arrive(w)
  PROVE  \/ BeginGet(w)
         \/ \E q : Open(w, q) /\ Offered(q)
<1> USE DEF Request, Ask, NoReq, UserOrNull, ReportOrNull, ItemOrNull, NoView, View,
            NoSum, Sums, Ops, ItemOps
<1>1. CASE BeginVersioned(w)
  <2> PICK u \in Users, r \in Reports, op \in VersionedOps :
        /\ view[u][r].ver # 0
        /\ Open(w, [Ask(op, u, r) EXCEPT !.base = view[u][r]])
    BY <1>1 DEF BeginVersioned
  <2> DEFINE q == [Ask(op, u, r) EXCEPT !.base = view[u][r]]
  <2>1. view[u][r] \in View
    BY DEF TypeOK
  <2>2. q \in Request
    BY <2>1, DomainAssumption
  <2>3. q.op = op /\ q.user = u /\ q.rep = r /\ q.base = view[u][r]
    OBVIOUS
  <2>4. op \in Ops /\ op \notin {"get", "upditem", "delitem", "additem", "delete", "create"}
    BY DEF VersionedOps
  <2>5. Offered(q)
    BY <2>2, <2>3, <2>4 DEF Offered
  <2> QED BY <2>5
<1>2. CASE BeginAddItem(w)
  <2> PICK u \in Users, r \in Reports, a \in Amounts :
        /\ reports[r].status # "none"
        /\ Open(w, [Ask("additem", u, r) EXCEPT !.amt = a])
    BY <1>2 DEF BeginAddItem
  <2> DEFINE q == [Ask("additem", u, r) EXCEPT !.amt = a]
  <2>1. q \in Request
    BY DomainAssumption
  <2>2. q.op = "additem" /\ q.user = u /\ q.rep = r /\ q.base = NoView
    OBVIOUS
  <2>3. Offered(q)
    BY <2>1, <2>2 DEF Offered, VersionedOps
  <2> QED BY <2>3
<1>3. CASE BeginUpdateItem(w)
  <2> PICK u \in Users, r \in Reports, i \in Items, a \in Amounts :
        /\ view[u][r].seen[i] # 0
        /\ Open(w, [Ask("upditem", u, r) EXCEPT !.item = i, !.amt = a, !.base = view[u][r]])
    BY <1>3 DEF BeginUpdateItem
  <2> DEFINE q == [Ask("upditem", u, r) EXCEPT !.item = i, !.amt = a, !.base = view[u][r]]
  <2>1. view[u][r] \in View
    BY DEF TypeOK
  <2>2. q \in Request
    BY <2>1, DomainAssumption
  <2>3. q.op = "upditem" /\ q.user = u /\ q.rep = r /\ q.item = i /\ q.base = view[u][r]
    OBVIOUS
  <2>4. Offered(q)
    BY <2>2, <2>3 DEF Offered, VersionedOps
  <2> QED BY <2>4
<1>4. CASE BeginDeleteItem(w)
  <2> PICK u \in Users, r \in Reports, i \in Items :
        /\ view[u][r].seen[i] # 0
        /\ Open(w, [Ask("delitem", u, r) EXCEPT !.item = i])
    BY <1>4 DEF BeginDeleteItem
  <2> DEFINE q == [Ask("delitem", u, r) EXCEPT !.item = i]
  <2>1. q \in Request
    BY DomainAssumption
  <2>2. q.op = "delitem" /\ q.user = u /\ q.rep = r /\ q.item = i /\ q.base = NoView
    OBVIOUS
  <2>3. Offered(q)
    BY <2>1, <2>2 DEF Offered, VersionedOps
  <2> QED BY <2>3
<1>5. CASE BeginDelete(w)
  <2> PICK u \in Users, r \in Reports :
        reports[r].status # "none" /\ Open(w, Ask("delete", u, r))
    BY <1>5 DEF BeginDelete
  <2> DEFINE q == Ask("delete", u, r)
  <2>1. q \in Request
    BY DomainAssumption
  <2>2. q.op = "delete" /\ q.user = u /\ q.rep = r /\ q.base = NoView
    OBVIOUS
  <2>3. Offered(q)
    BY <2>1, <2>2 DEF Offered, VersionedOps
  <2> QED BY <2>3
<1>6. CASE BeginCreate(w)
  <2> PICK u \in Users, r \in Reports, f \in ReportOrNull :
        /\ FreshReport(r)
        /\ f # Null => reports[f].status # "none"
        /\ Open(w, [Ask("create", u, r) EXCEPT !.ref = f])
    BY <1>6 DEF BeginCreate
  <2> DEFINE q == [Ask("create", u, r) EXCEPT !.ref = f]
  <2>1. q \in Request
    BY DomainAssumption
  <2>2. q.op = "create" /\ q.user = u /\ q.rep = r /\ q.ref = f /\ q.base = NoView
    OBVIOUS
  <2>3. Offered(q)
    BY <2>1, <2>2 DEF Offered, VersionedOps
  <2> QED BY <2>3
<1> QED
  BY <1>1, <1>2, <1>3, <1>4, <1>5, <1>6 DEF Arrive

(* Every statement of every handler keeps the types of the tables and the  *)
(* shape of the workers: what a request has loaded, staged and locked fits *)
(* the statement it executes next.                                         *)
LEMMA ShapeStep ==
  ASSUME Shape, NEW w \in Workers, AnyStep(w)
  PROVE  Shape'
<1> USE DEF Shape
<1>0. TypeOK /\ WorkerShape(w)
  OBVIOUS
<1>s. SUFFICES TypeOK' /\ WorkerShape(w)'
  BY ShapeOthers
<1> DEFINE SameDb == UNCHANGED <<db, clock, view>>
<1>1. CASE Arrive(w)
  <2>1. ASSUME NEW q, Open(w, q), Offered(q) PROVE Shape'
    BY <2>1, OpenShape DEF Offered
  <2>2. CASE BeginGet(w)
    <3> PICK u \in Users, r \in Reports : req' = [req EXCEPT ![w] = Ask("get", u, r)]
      BY <2>2 DEF BeginGet
    <3>1. Ask("get", u, r) \in Request /\ Ask("get", u, r).op = "get"
          /\ Ask("get", u, r).user = u /\ Ask("get", u, r).rep = r
      BY DomainAssumption DEF Request, Ask, NoReq, UserOrNull, ReportOrNull, ItemOrNull,
         NoView, View, NoSum, Sums, Ops
    <3>2. TypeOK'
      BY <2>2, <3>1 DEF BeginGet, Goto, TypeOK, Labels
    <3>3. WorkerShape(w)'
      BY <2>2, <3>1 DEF BeginGet, Goto, TypeOK, WorkerShape, Busy, Wrote, Held, Rep, User,
         NoRow, NoWrites, NoItem, Ops, RoleAllows
    <3> QED BY <3>2, <3>3
  <2> QED BY <1>1, <2>1, <2>2, Opened
<1>2. CASE Load(w)
  <2>1. TypeOK'
    <3>1. IF Loads(w) = Null THEN NoRow \in ReportRow ELSE reports[Loads(w)] \in ReportRow
      <4>1. CASE Loads(w) = Null
        <5>1. Null \in UserOrNull /\ Null \in ReportOrNull
          BY DEF UserOrNull, ReportOrNull
        <5> QED BY <4>1, <5>1, RowTypes DEF ReportRow, NoRow, NoSum, Sums
      <4>2. CASE Loads(w) # Null
        BY <1>2, <4>2 DEF Load, LoadOK, Found, TypeOK
      <4> QED BY <4>1, <4>2
    <3>2. AfterLoad(req[w].op) \in Labels
      BY DEF AfterLoad, Labels
    <3> QED BY <1>2, <3>1, <3>2 DEF Load, Goto, TypeOK
  <2>2. WorkerShape(w)'
    BY <1>2 DEF Load, Goto, TypeOK, WorkerShape, Busy, Wrote, Held, Rep, User, AfterLoad,
       Ops, ItemOps, VersionedOps
  <2> QED BY <2>1, <2>2
<1>3. CASE Respond(w)
  <2>1. Contents(Rep(w)) \in Sums
    BY ContentsType
  <2>2. [ver |-> row[w].ver, seen |-> Contents(Rep(w))] \in View
    BY <2>1 DEF View, TypeOK, ReportRow
  <2>3. view' \in [Users -> [Reports -> View]]
    BY <1>3, <2>2 DEF Respond, TypeOK
  <2> QED BY <1>3, <2>3, ResetShape DEF Respond, TypeOK
<1>4. CASE CheckSubmit(w) \/ FindItem(w)
  <2>1. TypeOK'
    BY <1>4 DEF CheckSubmit, FindItem, Goto, TypeOK, Labels
  <2>2. CASE CheckSubmit(w)
    <3>1. WorkerShape(w)'
      BY <2>2 DEF CheckSubmit, Goto, TypeOK, WorkerShape, Busy, Wrote, Held, Rep, User, VersionedOps
    <3> QED BY <2>1, <3>1
  <2>3. CASE FindItem(w)
    <3>1. WorkerShape(w)'
      BY <2>3 DEF FindItem, Goto, TypeOK, WorkerShape, Busy, Wrote, Held, Rep, User, ItemOps
    <3> QED BY <2>1, <3>1
  <2> QED BY <1>4, <2>2, <2>3
<1>5. CASE Cas(w)
  <2>1. Rep(w) \in Reports /\ User(w) \in UserOrNull /\ row[w] \in ReportRow
    BY <1>5 DEF Cas, WorkerShape, Busy, TypeOK, UserOrNull
  <2>2. Entity(w) \in ReportRow
    <3>1. /\ Submitted(row[w], User(w)) \in ReportRow /\ Approved(row[w], User(w)) \in ReportRow
          /\ Rejected(row[w], User(w)) \in ReportRow /\ Paid(row[w], User(w)) \in ReportRow
      BY <2>1, RowUpdates
    <3>2. Entity(w) \in {Submitted(row[w], User(w)), Approved(row[w], User(w)),
                         Rejected(row[w], User(w)), Paid(row[w], User(w)), row[w]}
      BY DEF Entity
    <3> QED BY <2>1, <3>1, <3>2
  <2>3. CasRow(w) \in ReportRow
    BY <2>1, <2>2 DEF CasRow, TypeOK, ReportRow
  <2> QED BY <1>5, <2>3 DEF Cas, Goto, TypeOK, Labels, WorkerShape, Busy, Wrote, Held, Rep, User, VersionedOps
<1>a. stamp[w] \in Nat /\ sum[w] \in Sums /\ req[w] \in Request /\ row[w] \in ReportRow
  BY DEF TypeOK
<1>b. req[w].amt \in Nat /\ User(w) \in UserOrNull /\ Rep(w) \in ReportOrNull /\ req[w].ref \in ReportOrNull
  <2>1. Amounts \cup {0} \subseteq Nat
    BY DomainAssumption
  <2>2. req[w].amt \in Amounts \cup {0} /\ User(w) \in UserOrNull /\ Rep(w) \in ReportOrNull
        /\ req[w].ref \in ReportOrNull
    BY <1>a DEF Request, User, Rep
  <2> QED BY <2>1, <2>2
<1>c. ASSUME Busy(w) PROVE Rep(w) \in Reports /\ reports[Rep(w)] \in ReportRow
  BY <1>c DEF WorkerShape, TypeOK
<1>d. \A i \in Items : items[i] \in ItemRow
  BY DEF TypeOK
<1>6. CASE InsertItem(w) \/ UpdateItem(w) \/ DeleteItem(w)
  <2>1. ASSUME NEW i \in Items, NEW it \in ItemRow, Stage(w, i, it), req[w].op \in ItemOps, pc[w] = "item"
        PROVE  TypeOK' /\ WorkerShape(w)'
    <3>1. [NoWrites EXCEPT ![i] = it] \in [Items -> ItemRow]
      BY DEF NoWrites, NoItem, ItemRow, ReportOrNull
    <3>2. TypeOK'
      BY <2>1, <3>1 DEF Stage, Goto, TypeOK, Labels
    <3>3. WorkerShape(w)'
      BY <2>1 DEF Stage, Goto, TypeOK, WorkerShape, Busy, Wrote, Held, Rep, User
    <3> QED BY <3>2, <3>3
  <2>2. CASE InsertItem(w)
    <3>1. PICK i \in Items : Stage(w, i, [state |-> "live", rep |-> Rep(w), amt |-> req[w].amt, ver |-> stamp[w]])
      BY <2>2 DEF InsertItem
    <3>2. [state |-> "live", rep |-> Rep(w), amt |-> req[w].amt, ver |-> stamp[w]] \in ItemRow
      BY <1>a, <1>b DEF ItemRow
    <3> QED BY <2>2, <3>1, <3>2, <2>1 DEF InsertItem, ItemOps
  <2>3. CASE UpdateItem(w)
    <3> DEFINE i == req[w].item
    <3>1. i \in Items /\ items[i] \in ItemRow
      BY <2>3, <1>d DEF UpdateItem, WorkerShape, Busy
    <3>2. [items[i] EXCEPT !.amt = req[w].amt, !.ver = stamp[w]] \in ItemRow
      BY <3>1, <1>a, <1>b, ItemTypes
    <3>3. Stage(w, i, [items[i] EXCEPT !.amt = req[w].amt, !.ver = stamp[w]])
          /\ req[w].op \in ItemOps /\ pc[w] = "item"
      BY <2>3 DEF UpdateItem, ItemOps
    <3> QED BY <3>1, <3>2, <3>3, <2>1
  <2>4. CASE DeleteItem(w)
    <3> DEFINE i == req[w].item
    <3>1. i \in Items /\ items[i] \in ItemRow
      BY <2>4, <1>d DEF DeleteItem, WorkerShape, Busy
    <3>2. [items[i] EXCEPT !.state = "deleted", !.ver = stamp[w]] \in ItemRow
      BY <3>1, <1>a, <1>b, ItemTypes
    <3>3. req[w].op \in ItemOps /\ pc[w] = "item"
      BY <2>4 DEF DeleteItem, ItemOps
    <3>4. CASE Stage(w, i, [items[i] EXCEPT !.state = "deleted", !.ver = stamp[w]])
      BY <3>1, <3>2, <3>3, <3>4, <2>1
    <3>5. CASE Goto(w, "sum") /\ UNCHANGED <<db, clock, view, local>>
      BY <3>3, <3>5 DEF Goto, TypeOK, Labels, WorkerShape, Busy, Wrote, Held, Rep, User
    <3> QED BY <2>4, <3>4, <3>5 DEF DeleteItem
  <2> QED BY <1>6, <2>2, <2>3, <2>4
<1>7. CASE SumItems(w)
  BY <1>7, AmountsType DEF SumItems, Goto, TypeOK, Labels, WorkerShape, Busy, Wrote, Held, Rep, User
<1>8. CASE WriteTotal(w)
  <2>1. [reports[Rep(w)] EXCEPT !.total = sum[w], !.ver = stamp[w]] \in ReportRow
    BY <1>8, <1>a, <1>b, <1>c, RowTypes DEF WriteTotal, Busy
  <2> QED BY <1>8, <2>1 DEF WriteTotal, Goto, TypeOK, Labels, WorkerShape, Busy, Wrote, Held, Rep, User, ItemOps
<1>9. CASE Cascade(w)
  <2>1. \A i \in Items : [items[i] EXCEPT !.state = "deleted", !.ver = stamp[w]] \in ItemRow
    BY <1>d, <1>a, <1>b, ItemTypes
  <2>2. NoItem \in ItemRow
    BY DEF NoItem, ItemRow, ReportOrNull
  <2>3. [i \in Items |-> IF Shown(i, Rep(w))
                        THEN [items[i] EXCEPT !.state = "deleted", !.ver = stamp[w]]
                        ELSE NoItem] \in [Items -> ItemRow]
    BY <2>1, <2>2
  <2>4. ipend' \in [Workers -> [Items -> ItemRow]]
    BY <1>9, <2>3 DEF Cascade, TypeOK
  <2> QED BY <1>9, <2>4 DEF Cascade, Goto, TypeOK, Labels, WorkerShape, Busy, Wrote, Held, Rep, User
<1>10. CASE DeleteRow(w)
  <2>1. [reports[Rep(w)] EXCEPT !.deleted = TRUE, !.ver = stamp[w]] \in ReportRow
    BY <1>10, <1>a, <1>b, <1>c, RowTypes DEF DeleteRow, Busy
  <2> QED BY <1>10, <2>1 DEF DeleteRow, Goto, TypeOK, Labels, WorkerShape, Busy, Wrote, Held, Rep, User
<1>11. CASE InsertReport(w)
  <2> PICK g \in Copies(req[w].ref, {i \in Items : FreshItem(i)}) :
       LET new == [i \in Items |-> CopyOf(w, g, i)] IN
       /\ ipend' = [ipend EXCEPT ![w] = new]
       /\ pend' = [pend EXCEPT ![w] =
            [NewReport(User(w), req[w].ref) EXCEPT
               !.total = [i \in Items |-> new[i].amt], !.ver = stamp[w]]]
    BY <1>11 DEF InsertReport
  <2>1. ASSUME NEW i \in Items PROVE CopyOf(w, g, i) \in ItemRow
    <3>1. CASE \E j \in DOMAIN g : g[j] = i
      <4>1. CopiedFrom(g, i) \in Items
        BY <3>1 DEF CopiedFrom, Copies
      <4>2. items[CopiedFrom(g, i)].amt \in Nat /\ stamp[w] \in Nat /\ Rep(w) \in ReportOrNull
        BY <4>1 DEF TypeOK, ItemRow, Rep, Request
      <4> QED BY <3>1, <4>2 DEF CopyOf, ItemRow
    <3>2. CASE ~\E j \in DOMAIN g : g[j] = i
      BY <3>2 DEF CopyOf, NoItem, ItemRow, ReportOrNull
    <3> QED BY <3>1, <3>2
  <2>2. [i \in Items |-> CopyOf(w, g, i).amt] \in Sums
    BY <2>1 DEF Sums, ItemRow
  <2>3. NewReport(User(w), req[w].ref) \in ReportRow
    <3>1. User(w) \in UserOrNull /\ req[w].ref \in ReportOrNull /\ NoSum \in Sums
      BY DEF User, TypeOK, Request, NoSum, Sums
    <3> QED BY <3>1 DEF NewReport, NoRow, ReportRow, UserOrNull, ReportOrNull, Statuses
  <2>4. pend' \in [Workers -> ReportRow] /\ ipend' \in [Workers -> [Items -> ItemRow]]
    BY <2>1, <2>2, <2>3 DEF TypeOK, ReportRow
  <2>5. TypeOK'
    BY <1>11, <2>4 DEF InsertReport, Goto, TypeOK, Labels
  <2> QED BY <1>11, <2>5 DEF InsertReport, Goto, TypeOK, Labels, WorkerShape, Busy, Wrote, Held, Rep, User
<1>12. CASE Commit(w)
  <2>1. reports' \in [Reports -> ReportRow]
    BY <1>12 DEF Commit, TypeOK
  <2>2. items' \in [Items -> ItemRow]
    BY <1>12 DEF Commit, TypeOK, ItemAs
  <2> QED BY <1>12, <2>1, <2>2, ResetShape DEF Commit, TypeOK
<1>13. CASE Refuse(w) \/ Fail(w)
  BY <1>13, ResetShape DEF Refuse, Fail, TypeOK, db
<1> QED
  BY <1>1, <1>2, <1>3, <1>4, <1>5, <1>6, <1>7, <1>8, <1>9, <1>10, <1>11, <1>12, <1>13
  DEF AnyStep, Step

(* Nothing happens.                                                        *)
LEMMA ShapeStutter ==
  ASSUME Shape, UNCHANGED vars
  PROVE  Shape'
  BY DEF Shape, TypeOK, WorkerShape, Busy, Wrote, Held, Rep, User, vars

(* The seeded database and the idle server have the shape.                 *)
LEMMA ShapeInit ==
  ASSUME Init
  PROVE  Shape
<1>0. /\ NoReq \in Request /\ NoRow \in ReportRow /\ NoSum \in Sums
      /\ NoWrites \in [Items -> ItemRow] /\ NoItem \in ItemRow /\ NoView \in View
  BY DEF NoReq, Request, NoRow, ReportRow, NoSum, Sums, NoWrites, NoItem, ItemRow,
         UserOrNull, ReportOrNull, ItemOrNull, NoView, View
<1>1. ASSUME NEW r \in Reports PROVE reports[r] \in ReportRow
  <2>1. CASE SeedOwner[r] = Null
    BY <1>0, <2>1 DEF Init
  <2>2. CASE SeedOwner[r] # Null
    <3>1. SeedOwner[r] \in UserOrNull /\ Null \in ReportOrNull
      BY TxAssumption DEF ReportOrNull
    <3>2. NewReport(SeedOwner[r], Null) \in ReportRow
      BY <3>1, <1>0 DEF NewReport, NoRow, ReportRow, Statuses, UserOrNull
    <3>3. [i \in Items |-> IF SeedReport[i] = r THEN 1 ELSE 0] \in Sums
      BY DEF Sums
    <3>4. [NewReport(SeedOwner[r], Null) EXCEPT
             !.total = [i \in Items |-> IF SeedReport[i] = r THEN 1 ELSE 0],
             !.ver = 1] \in ReportRow
      BY <3>2, <3>3 DEF ReportRow
    <3> QED BY <2>2, <3>4 DEF Init
  <2> QED BY <2>1, <2>2
<1>2. ASSUME NEW i \in Items PROVE items[i] \in ItemRow
  BY <1>0, TxAssumption DEF Init, ItemRow
<1>3. TypeOK
  BY <1>0, <1>1, <1>2 DEF Init, TypeOK, Labels
<1>4. \A w \in Workers : WorkerShape(w)
  BY DEF Init, WorkerShape, Busy, Wrote, Held, Rep, User, NoReq, NoRow, NoWrites, NoItem
<1> QED BY <1>3, <1>4 DEF Shape

(* In every reachable state the tables are well typed and every handler holds*)
(* exactly the uncommitted rows that its position in the code says: an idle*)
(* connection none, a handler before its write no report row.              *)
THEOREM ShapeInvariant == Spec => []Shape
<1>1. Init => Shape
  BY ShapeInit
<1>2. Shape /\ [Next]_vars => Shape'
  BY ShapeStep, ShapeStutter DEF Next, AnyStep
<1> QED BY <1>1, <1>2, PTL DEF Spec

(* The type invariant of ReportTx, for any number of users, reports, items,*)
(* requests and transactions.                                              *)
THEOREM TypeCorrectness == Spec => []TypeOK
<1>1. Shape => TypeOK
  BY DEF Shape
<1> QED BY <1>1, ShapeInvariant, PTL

-----------------------------------------------------------------------------
(* Core is an inductive invariant of ReportTx. The first part says what    *)
(* each kind of step changes, the second what a COMMIT publishes, the      *)
(* third has one lemma per conjunct of Core.                               *)

-----------------------------------------------------------------------------
(* What the steps of a worker change.                                      *)

(* The statements between the load and the COMMIT that write no report row.*)
Inner(w) ==
  \/ CheckSubmit(w) \/ FindItem(w) \/ InsertItem(w) \/ UpdateItem(w)
  \/ DeleteItem(w) \/ SumItems(w) \/ Cascade(w)

(* The statement that writes the report row, the last before COMMIT.       *)
Writes(w) == Cas(w) \/ WriteTotal(w) \/ DeleteRow(w) \/ InsertReport(w)

(* The answers that change no table.                                       *)
Drops(w) == Refuse(w) \/ Fail(w)

(* Between its load and its COMMIT a handler changes nothing that others   *)
(* can see and keeps its request, its entity and its timestamp.            *)
LEMMA Middle ==
  ASSUME Shape, NEW w \in Workers, Inner(w) \/ Writes(w)
  PROVE  /\ UNCHANGED <<reports, items, clock, view, req, stamp, row>>
         /\ pc[w] \notin {"idle", "load", "commit"} /\ pc'[w] \notin {"idle", "load"}
         /\ Inner(w) => pend' = pend /\ (pc'[w] = "cas" => CheckSubmit(w)) /\ pc'[w] # "commit"
         /\ Writes(w) => pc'[w] = "commit"
<1>1. pc \in [Workers -> Labels]
  BY DEF Shape, TypeOK
<1>2. CASE Inner(w)
  <2>1. UNCHANGED <<reports, items, clock, view, req, stamp, row, pend>>
    BY <1>2 DEF Inner, CheckSubmit, FindItem, InsertItem, UpdateItem, DeleteItem, SumItems,
       Cascade, Stage
  <2>2. /\ pc[w] \in {"items", "find", "item", "sum", "cascade"}
        /\ pc'[w] \in {"cas", "item", "sum", "total", "row"}
        /\ pc'[w] = "cas" => CheckSubmit(w)
    BY <1>1, <1>2 DEF Inner, CheckSubmit, FindItem, InsertItem, UpdateItem, DeleteItem,
       SumItems, Cascade, Stage, Goto
  <2>3. ~Writes(w)
    <3>1. ASSUME Writes(w) PROVE pc'[w] = "commit"
      BY <1>1, <3>1 DEF Writes, Cas, WriteTotal, DeleteRow, InsertReport, Goto
    <3> QED BY <2>2, <3>1
  <2> QED BY <2>1, <2>2, <2>3
<1>3. CASE Writes(w)
  <2>1. UNCHANGED <<reports, items, clock, view, req, stamp, row>>
    BY <1>3 DEF Writes, Cas, WriteTotal, DeleteRow, InsertReport
  <2>2. pc[w] \in {"cas", "total", "row", "insert"} /\ pc'[w] = "commit"
    BY <1>1, <1>3 DEF Writes, Cas, WriteTotal, DeleteRow, InsertReport, Goto
  <2>3. ~Inner(w)
    <3>1. ASSUME Inner(w) PROVE pc'[w] # "commit"
      BY <1>1, <3>1 DEF Inner, CheckSubmit, FindItem, InsertItem, UpdateItem, DeleteItem,
         SumItems, Cascade, Stage, Goto
    <3> QED BY <2>2, <3>1
  <2> QED BY <2>1, <2>2, <2>3
<1> QED BY <1>2, <1>3

(* The steps of a worker, by what they change.                             *)
LEMMA StepKinds ==
  ASSUME TypeOK, NEW w \in Workers, AnyStep(w)
  PROVE  \/ BeginGet(w) \/ (\E q : Open(w, q) /\ Offered(q))
         \/ Load(w) \/ Inner(w) \/ Writes(w)
         \/ Respond(w) \/ Commit(w) \/ Drops(w)
BY Opened DEF AnyStep, Step, Inner, Writes, Drops

(* A request for a report names one that exists, except to create it.      *)
LEMMA OfferedExists ==
  ASSUME Existence, NEW q, Offered(q), q.op # "create"
  PROVE  reports[q.rep].status # "none"
<1>1. CASE q.op \in VersionedOps
  BY <1>1 DEF Offered, Existence, NoView
<1>2. CASE q.op \in {"upditem", "delitem"}
  <2>1. view[q.user][q.rep] # NoView
    BY <1>2 DEF Offered, NoView, NoSum
  <2> QED BY <2>1 DEF Offered, Existence
<1>3. CASE q.op \in {"additem", "delete"}
  BY <1>3 DEF Offered
<1> QED BY <1>1, <1>2, <1>3 DEF Offered, Ops, ItemOps

-----------------------------------------------------------------------------
(* What a COMMIT publishes.                                                *)

(* A version-checked request commits a row made from the row it loaded,    *)
(* which is still the committed one and still passes every check.          *)
LEMMA CheckedRow ==
  ASSUME Core, NEW w \in Workers, pc[w] = "commit", req[w].op \in VersionedOps
  PROVE  /\ row[w] = reports[Rep(w)]
         /\ ~reports[Rep(w)].deleted /\ reports[Rep(w)].status # "none"
         /\ TenantOf[reports[Rep(w)].owner] = TenantOf[User(w)]
         /\ Passes(w, reports[Rep(w)])
         /\ req[w].op = "submit" =>
              CanSubmit(reports[Rep(w)], TRUE, HasApprover(TenantOf[User(w)]))
         /\ pend[w] = [Entity(w) EXCEPT !.ver = stamp[w]]
<1>1. Busy(w) /\ pc[w] # "load" /\ req[w].op # "create" /\ Rep(w) \in Reports
      /\ User(w) \in UserOrNull /\ row[w] \in ReportRow
  BY DEF Core, Shape, WorkerShape, Busy, VersionedOps, TypeOK, UserOrNull
<1>2. CasMatches(w) /\ pend[w] = CasRow(w)
  BY DEF Core, StagedRows, StagedRow
<1>3. row[w] = reports[Rep(w)] /\ row[w].status # "none" /\ ~row[w].deleted
      /\ TenantOf[row[w].owner] = TenantOf[User(w)] /\ Passes(w, row[w])
  BY <1>1, <1>2 DEF Core, LoadedRows, LoadedRow, CasMatches
<1>4. CasRow(w) = [Entity(w) EXCEPT !.ver = stamp[w]]
  <2>1. Entity(w) \in {Submitted(row[w], User(w)), Approved(row[w], User(w)),
                       Rejected(row[w], User(w)), Paid(row[w], User(w)), row[w]}
    BY DEF Entity
  <2>2. ASSUME NEW e \in ReportRow, e.owner = row[w].owner, e.ref = row[w].ref,
               e.deleted = row[w].deleted, e.total = row[w].total
        PROVE  [row[w] EXCEPT
                 !.status = e.status, !.submittedBy = e.submittedBy,
                 !.approvedBy = e.approvedBy, !.rejectedBy = e.rejectedBy,
                 !.paidBy = e.paidBy, !.ver = stamp[w]] = [e EXCEPT !.ver = stamp[w]]
    BY <1>1, <2>2 DEF ReportRow
  <2>3. Entity(w) \in ReportRow
    BY <1>1, <2>1, RowUpdates
  <2>4. /\ Entity(w).owner = row[w].owner /\ Entity(w).ref = row[w].ref
        /\ Entity(w).deleted = row[w].deleted /\ Entity(w).total = row[w].total
    BY <1>1, <2>1 DEF Submitted, Approved, Rejected, Paid, ReportRow
  <2> QED BY <1>3, <2>2, <2>3, <2>4 DEF CasRow
<1> QED BY <1>1, <1>2, <1>3, <1>4 DEF Core, CheckedSubmits, CheckedSubmit

(* Whatever commits keeps the owner, moves only rows that are not deleted, *)
(* leaves a rejected report rejected, and stamps the row.                  *)
LEMMA Staged ==
  ASSUME Core, NEW w \in Workers, pc[w] = "commit", Wrote(w)
  PROVE  LET old == reports[Rep(w)] IN
         /\ pend[w].ver = stamp[w]
         /\ pend[w].owner \in Users
         /\ old.deleted => pend[w].deleted
         /\ old.status # "none" => pend[w].owner = old.owner
         /\ old.status = "rejected" => pend[w].status = "rejected"
<1> DEFINE old == reports[Rep(w)]
<1>1. /\ Busy(w) /\ Rep(w) \in Reports /\ User(w) \in Users /\ req[w].op \in Ops
      /\ old \in ReportRow /\ pend[w] \in ReportRow /\ stamp[w] \in Nat /\ sum[w] \in Sums
      /\ req[w].op # "get" /\ row[w] \in ReportRow
  BY DEF Core, Shape, WorkerShape, Busy, TypeOK
<1>2. old.status # "none" => old.owner \in Users
  BY <1>1 DEF Core, Existence
<1>3. CASE req[w].op \in VersionedOps
  <2>1. /\ row[w] = old /\ ~old.deleted /\ old.status # "none" /\ Passes(w, old)
        /\ req[w].op = "submit" => IsDraft(old)
        /\ pend[w] = [Entity(w) EXCEPT !.ver = stamp[w]]
    BY <1>3, CheckedRow DEF CanSubmit
  <2>2. old.status # "rejected"
    BY <1>3, <2>1 DEF Passes, VersionedOps, CanEdit, IsDraft, CanApprove, CanReject, CanPay
  <2>3. Entity(w) \in {Submitted(old, User(w)), Approved(old, User(w)),
                       Rejected(old, User(w)), Paid(old, User(w)), old}
    BY <2>1 DEF Entity
  <2>4. Entity(w) \in ReportRow /\ Entity(w).owner = old.owner
    BY <1>1, <2>3 DEF Submitted, Approved, Rejected, Paid, ReportRow, Statuses, UserOrNull
  <2> QED BY <1>1, <1>2, <2>1, <2>2, <2>4 DEF ReportRow
<1>4. CASE req[w].op \in ItemOps
  <2>1. pend[w] = [old EXCEPT !.total = sum[w], !.ver = stamp[w]] /\ old.status # "none"
    BY <1>1, <1>4 DEF Core, StagedRows, StagedRow, LoadedRows, LoadedRow, ItemOps
  <2> QED BY <1>1, <1>2, <2>1 DEF ReportRow
<1>5. CASE req[w].op = "delete"
  <2>1. pend[w] = [old EXCEPT !.deleted = TRUE, !.ver = stamp[w]] /\ old.status # "none"
    BY <1>1, <1>5 DEF Core, StagedRows, StagedRow, LoadedRows, LoadedRow
  <2> QED BY <1>1, <1>2, <2>1 DEF ReportRow
<1>6. CASE req[w].op = "create"
  <2>1. pend[w] = [NewReport(User(w), req[w].ref) EXCEPT !.total = pend[w].total, !.ver = stamp[w]]
        /\ old.status = "none"
    BY <1>1, <1>6 DEF Core, StagedRows, StagedRow, LoadedRows, LoadedRow
  <2>2. old = NoRow
    BY <2>1, <1>1 DEF Core, Existence
  <2> QED BY <1>1, <2>1, <2>2 DEF NewReport, NoRow
<1> QED BY <1>1, <1>3, <1>4, <1>5, <1>6 DEF Ops, ItemOps

(* A COMMIT replaces the row of its own report, if it wrote one.           *)
LEMMA Published ==
  ASSUME Core, NEW w \in Workers, Commit(w)
  PROVE  /\ UNCHANGED <<clock, view>> /\ Reset(w) /\ pc[w] = "commit"
         /\ Rep(w) \in Reports /\ reports \in [Reports -> ReportRow]
         /\ ~Wrote(w) => reports' = reports
         /\ Wrote(w) => reports' = [reports EXCEPT ![Rep(w)] = pend[w]]
  BY DEF Core, Shape, WorkerShape, Busy, TypeOK, Commit, Wrote

-----------------------------------------------------------------------------
(* Core is inductive: one lemma per conjunct.                              *)

(* A GET arrives: it has no timestamp and its report exists.               *)
LEMMA GetEffect ==
  ASSUME Shape, NEW w \in Workers, BeginGet(w)
  PROVE  /\ UNCHANGED <<reports, items, clock, view, stamp, row, pend>>
         /\ pc[w] = "idle" /\ pc'[w] = "load"
         /\ req'[w].op = "get" /\ req'[w].base.ver = 0
         /\ Rep(w)' \in Reports /\ reports[Rep(w)'].status # "none"
<1> PICK u \in Users, r \in Reports : reports[r].status # "none" /\ req' = [req EXCEPT ![w] = Ask("get", u, r)]
  BY DEF BeginGet
<1>1. req'[w].op = "get" /\ req'[w].base.ver = 0 /\ Rep(w)' = r
  BY DEF Shape, TypeOK, Ask, NoReq, NoView, Rep
<1> QED BY <1>1 DEF BeginGet, Goto, Shape, TypeOK

(* Any other request arrives: its timestamp is the next one.               *)
LEMMA OpenEffect ==
  ASSUME Shape, NEW w \in Workers, NEW q, Open(w, q), Offered(q)
  PROVE  /\ UNCHANGED <<reports, items, view, row, pend>>
         /\ clock' = clock + 1 /\ stamp'[w] = clock + 1
         /\ pc[w] = "idle" /\ pc'[w] = "load"
         /\ req'[w] = q /\ q.op # "get" /\ q.rep \in Reports /\ Rep(w)' = q.rep
         /\ q.base.ver = 0 \/ \E u \in Users, r \in Reports : q.base.ver = view[u][r].ver
<1>1. q.base.ver = 0 \/ \E u \in Users, r \in Reports : q.base.ver = view[u][r].ver
  BY DEF Offered, NoView
<1> QED BY <1>1 DEF Open, Goto, Shape, TypeOK, Offered, Rep

(* A handler loads its entity.                                             *)
LEMMA LoadEffect ==
  ASSUME Shape, NEW w \in Workers, Load(w)
  PROVE  /\ UNCHANGED <<reports, items, clock, view, req, stamp, pend>>
         /\ pc[w] = "load" /\ pc'[w] \notin {"idle", "load", "commit"}
         /\ pc'[w] = "cas" => req[w].op # "submit"
         /\ LoadOK(w)
         /\ row'[w] = IF Loads(w) = Null THEN NoRow ELSE reports[Loads(w)]
         /\ row'[w].ver = 0 \/ \E r \in Reports : row'[w].ver = reports[r].ver
<1>1. AfterLoad(req[w].op) \in Labels \ {"idle", "load", "commit"}
      /\ (AfterLoad(req[w].op) = "cas" => req[w].op # "submit")
  BY DEF AfterLoad, Labels
<1>2. row'[w] = IF Loads(w) = Null THEN NoRow ELSE reports[Loads(w)]
  BY DEF Load, Shape, TypeOK
<1>3. row'[w].ver = 0 \/ \E r \in Reports : row'[w].ver = reports[r].ver
  BY <1>2 DEF Load, LoadOK, Found, NoRow
<1> QED BY <1>1, <1>2, <1>3 DEF Load, Goto, Shape, TypeOK

(* A transaction ends.                                                     *)
LEMMA EndEffect ==
  ASSUME Shape, NEW w \in Workers, Respond(w) \/ Commit(w) \/ Drops(w)
  PROVE  /\ clock' = clock /\ pc[w] # "idle" /\ pc'[w] = "idle"
         /\ row'[w].ver = 0 /\ req'[w].base.ver = 0 /\ pend'[w] = NoRow
         /\ ~Commit(w) => UNCHANGED <<reports, items>>
         /\ ~Respond(w) => view' = view
<1>1. Reset(w) /\ clock' = clock /\ (~Commit(w) => UNCHANGED <<reports, items>>)
      /\ (~Respond(w) => view' = view) /\ pc[w] # "idle"
  BY DEF Respond, Commit, Drops, Refuse, Fail, Refuses
<1>2. pc'[w] = "idle" /\ req'[w] = NoReq /\ row'[w] = NoRow /\ pend'[w] = NoRow
  BY <1>1, ResetShape
<1>3. NoReq.base.ver = 0 /\ NoRow.ver = 0
  BY DEF NoReq, NoRow, NoView
<1> QED BY <1>1, <1>2, <1>3

(* A client receives a version that the handler loaded.                    *)
LEMMA RespondEffect ==
  ASSUME Shape, NEW w \in Workers, Respond(w), NEW u \in Users, NEW r \in Reports
  PROVE  \/ view'[u][r] = view[u][r]
         \/ r = Rep(w) /\ view'[u][r].ver = row[w].ver
  BY DEF Respond, Shape, TypeOK

(* now() moves on, and nothing is stamped later than it.                   *)
LEMMA StampsStep ==
  ASSUME Core, NEW w \in Workers, AnyStep(w)
  PROVE  Stamps'
<1>0. /\ Shape /\ Stamps /\ clock \in Nat
      /\ \A v \in Workers : stamp[v] \in Nat /\ row[v].ver \in Nat /\ req[v].base.ver \in Nat
      /\ \A r \in Reports : reports[r].ver \in Nat
      /\ \A u \in Users, r \in Reports : view[u][r].ver \in Nat
  BY DEF Core, Shape, TypeOK, ReportRow, Request, View
<1>o. \A v \in Workers \ {w} : stamp'[v] = stamp[v] /\ row'[v] = row[v] /\ req'[v] = req[v]
  BY <1>0, Frame DEF Untouched, Shape
<1>1. CASE BeginGet(w)
  BY <1>0, <1>o, <1>1, GetEffect DEF Stamps
<1>2. ASSUME NEW q, Open(w, q), Offered(q) PROVE Stamps'
  BY <1>0, <1>o, <1>2, OpenEffect DEF Stamps
<1>3. CASE Load(w)
  BY <1>0, <1>o, <1>3, LoadEffect DEF Stamps
<1>4. CASE Inner(w) \/ Writes(w)
  BY <1>0, <1>4, Middle DEF Stamps
<1>e. ASSUME Respond(w) \/ Commit(w) \/ Drops(w)
      PROVE  /\ clock' = clock /\ row'[w].ver = 0 /\ req'[w].base.ver = 0 /\ stamp'[w] = 0
             /\ ~Commit(w) => reports' = reports
             /\ ~Respond(w) => view' = view
  BY <1>0, <1>e, EndEffect, ResetShape DEF Respond, Commit, Drops, Refuse, Fail
<1>5. CASE Respond(w)
  <2>1. \A u \in Users, r \in Reports : view'[u][r].ver <= clock
    BY <1>0, <1>5, RespondEffect DEF Stamps
  <2>2. ~Commit(w)
    BY <1>5 DEF Respond, Commit
  <2> QED BY <1>0, <1>o, <1>e, <1>5, <2>1, <2>2 DEF Stamps
<1>6. CASE Commit(w)
  <2>1. \A r \in Reports : reports'[r].ver <= clock
    BY <1>0, <1>6, Published, Staged DEF Stamps
  <2>2. ~Respond(w)
    BY <1>6 DEF Respond, Commit
  <2> QED BY <1>0, <1>o, <1>e, <1>6, <2>1, <2>2 DEF Stamps
<1>7. CASE Drops(w)
  <2>1. reports' = reports /\ view' = view
    BY <1>7 DEF Drops, Refuse, Fail
  <2> QED BY <1>0, <1>o, <1>e, <1>7, <2>1 DEF Stamps
<1> QED BY <1>0, <1>1, <1>2, <1>3, <1>4, <1>5, <1>6, <1>7, StepKinds DEF Shape

(* A transaction's timestamp stays its own until it commits.               *)
LEMMA FreshStampsStep ==
  ASSUME Core, NEW w \in Workers, AnyStep(w)
  PROVE  FreshStamps'
<1>0. /\ Shape /\ Stamps /\ FreshStamps /\ clock \in Nat
      /\ \A v \in Workers : stamp[v] \in Nat /\ row[v].ver \in Nat /\ req[v].base.ver \in Nat
      /\ \A r \in Reports : reports[r].ver \in Nat
      /\ \A u \in Users, r \in Reports : view[u][r].ver \in Nat
  BY DEF Core, Shape, TypeOK, ReportRow, Request, View
<1>o. \A v \in Workers \ {w} : stamp'[v] = stamp[v] /\ row'[v] = row[v] /\ req'[v] = req[v]
                               /\ (Writer(v)' <=> Writer(v))
  BY <1>0, Frame DEF Untouched, Shape, Writer, Busy
<1>1. CASE BeginGet(w)
  <2>1. ~Writer(w)'
    BY <1>0, <1>1, GetEffect DEF Writer
  <2> QED BY <1>0, <1>o, <1>1, <2>1, GetEffect DEF FreshStamps, FreshStamp
<1>2. ASSUME NEW q, Open(w, q), Offered(q) PROVE FreshStamps'
  <2>1. FreshStamp(w)'
    BY <1>0, <1>o, <1>2, OpenEffect DEF FreshStamp, Stamps
  <2>2. ASSUME NEW v \in Workers \ {w}, Writer(v) PROVE FreshStamp(v)'
    <3>1. FreshStamp(v)
      BY <1>0, <2>2 DEF FreshStamps
    <3>2. stamp[v] # clock + 1
      BY <1>0 DEF Stamps
    <3> QED BY <1>0, <1>o, <1>2, <3>1, <3>2, OpenEffect DEF FreshStamp
  <2> QED BY <1>o, <2>1, <2>2 DEF FreshStamps
<1>3. CASE Load(w)
  <2>1. Writer(w)' => Writer(w)
    BY <1>0, <1>3, LoadEffect DEF Writer, Busy
  <2> QED BY <1>0, <1>o, <1>3, <2>1, LoadEffect DEF FreshStamps, FreshStamp
<1>4. CASE Inner(w) \/ Writes(w)
  <2>1. Writer(w)' => Writer(w)
    BY <1>0, <1>4, Middle DEF Writer, Busy
  <2> QED BY <1>0, <1>o, <1>4, <2>1, Middle DEF FreshStamps, FreshStamp
<1>e. ASSUME Respond(w) \/ Commit(w) \/ Drops(w)
      PROVE  /\ ~Writer(w)' /\ row'[w].ver = 0 /\ req'[w].base.ver = 0
             /\ ~Commit(w) => reports' = reports
             /\ ~Respond(w) => view' = view
  BY <1>0, <1>e, EndEffect DEF Writer, Busy
<1>5. CASE Respond(w)
  <2>1. \A u \in Users, r \in Reports : view'[u][r].ver = view[u][r].ver \/ view'[u][r].ver = row[w].ver
    BY <1>0, <1>5, RespondEffect
  <2>2. ~Commit(w)
    BY <1>5 DEF Respond, Commit
  <2> QED BY <1>0, <1>o, <1>e, <1>5, <2>1, <2>2 DEF FreshStamps, FreshStamp
<1>6. CASE Commit(w)
  <2>1. /\ \A r \in Reports : reports'[r].ver = reports[r].ver \/ reports'[r].ver = stamp[w]
        /\ Writer(w) /\ view' = view
    BY <1>0, <1>6, Published, Staged DEF Writer, Busy, Shape, WorkerShape
  <2> QED BY <1>0, <1>o, <1>e, <1>6, <2>1 DEF FreshStamps, FreshStamp
<1>7. CASE Drops(w)
  <2>1. reports' = reports /\ view' = view
    BY <1>7 DEF Drops, Refuse, Fail
  <2> QED BY <1>0, <1>o, <1>e, <1>7, <2>1 DEF FreshStamps, FreshStamp
<1> QED BY <1>0, <1>1, <1>2, <1>3, <1>4, <1>5, <1>6, <1>7, StepKinds DEF Shape

(* Rows appear only when a creation commits, complete with their owner, and*)
(* never disappear from under a client that has seen them.                 *)
LEMMA ExistenceStep ==
  ASSUME Core, NEW w \in Workers, AnyStep(w)
  PROVE  Existence'
<1>0. Shape /\ Existence
  BY DEF Core
<1>1. CASE BeginGet(w)
  BY <1>0, <1>1, GetEffect DEF Existence
<1>2. ASSUME NEW q, Open(w, q), Offered(q) PROVE Existence'
  BY <1>0, <1>2, OpenEffect DEF Existence
<1>3. CASE Load(w)
  BY <1>0, <1>3, LoadEffect DEF Existence
<1>4. CASE Inner(w) \/ Writes(w)
  BY <1>0, <1>4, Middle DEF Existence
<1>5. CASE Respond(w)
  <2>1. reports' = reports
    BY <1>5 DEF Respond
  <2>2. reports[Rep(w)].status # "none"
    BY <1>5 DEF Core, LoadedRows, LoadedRow, Respond, Busy
  <2>3. \A u \in Users, r \in Reports : view'[u][r] = view[u][r] \/ r = Rep(w)
    BY <1>0, <1>5, RespondEffect
  <2> QED BY <1>0, <2>1, <2>2, <2>3 DEF Existence
<1>6. CASE Commit(w)
  <2>1. view' = view
    BY <1>6 DEF Commit
  <2>2. CASE Wrote(w)
    <3>1. \A r \in Reports :
            \/ reports'[r] = reports[r]
            \/ r = Rep(w) /\ reports'[r].status # "none" /\ reports'[r].owner \in Users
      BY <1>6, <2>2, Published, Staged DEF Wrote
    <3> QED BY <1>0, <2>1, <3>1 DEF Existence
  <2>3. CASE ~Wrote(w)
    BY <1>0, <1>6, <2>1, <2>3, Published DEF Existence
  <2> QED BY <2>2, <2>3
<1>7. CASE Drops(w)
  BY <1>0, <1>7 DEF Drops, Refuse, Fail, Existence
<1> QED BY <1>0, <1>1, <1>2, <1>3, <1>4, <1>5, <1>6, <1>7, StepKinds DEF Shape

(* At most one open transaction has written a report, and nobody else uses *)
(* the id of a report that is being created.                               *)
LEMMA RowLocksStep ==
  ASSUME Core, NEW w \in Workers, AnyStep(w)
  PROVE  RowLocks'
<1>0. Shape /\ RowLocks /\ Existence
  BY DEF Core
<1>o. \A v \in Workers \ {w} : req'[v] = req[v] /\ pend'[v] = pend[v] /\ pc'[v] = pc[v]
  BY <1>0, Frame DEF Untouched, Shape
<1>a. \A v \in Workers : Busy(v) /\ req[v].op = "create" => reports[Rep(v)].status = "none"
  BY DEF Core, LoadedRows, LoadedRow
<1>1. CASE BeginGet(w)
  <2>1. ~Wrote(w)'
    BY <1>0, <1>1, GetEffect DEF Wrote, Shape, WorkerShape, Busy
  <2>2. req'[w].op = "get" /\ reports[Rep(w)'].status # "none"
    BY <1>0, <1>1, GetEffect
  <2> QED BY <1>0, <1>o, <1>a, <1>1, <2>1, <2>2 DEF RowLocks, Busy, Wrote, Rep
<1>2. ASSUME NEW q, Open(w, q), Offered(q) PROVE RowLocks'
  <2>1. req'[w] = q /\ pc[w] = "idle" /\ pend'[w] = pend[w]
    BY <1>0, <1>2, OpenEffect
  <2>2. ~Wrote(w)'
    BY <1>0, <2>1 DEF Wrote, Shape, WorkerShape, Busy, NoRow
  <2>3. q.op # "create" => reports[q.rep].status # "none"
    BY <1>0, <1>2, OfferedExists
  <2>4. q.op = "create" => \A v \in Workers : Rep(v) # q.rep
    BY <1>2 DEF Offered, FreshReport
  <2> QED BY <1>0, <1>o, <1>a, <2>1, <2>2, <2>3, <2>4 DEF RowLocks, Busy, Wrote, Rep
<1>3. CASE Load(w) \/ Inner(w)
  <2>1. req' = req /\ pend' = pend /\ pc[w] # "idle"
    BY <1>0, <1>3, LoadEffect, Middle
  <2> QED BY <1>0, <1>o, <2>1 DEF RowLocks, Busy, Wrote, Rep
<1>4. CASE Writes(w)
  <2>1. req' = req /\ pc[w] # "idle"
    BY <1>0, <1>4, Middle
  <2>2. CASE pend' = pend
    BY <1>0, <1>o, <2>1, <2>2 DEF RowLocks, Busy, Wrote, Rep
  <2>3. CASE pend' # pend
    <3>1. RowFree(w, Rep(w)) \/ req[w].op = "create"
      BY <1>0, <1>4, <2>3 DEF Writes, Cas, WriteTotal, DeleteRow, InsertReport, Shape, WorkerShape
    <3>2. \A v \in Workers \ {w} : Busy(v) /\ Rep(v) = Rep(w) => ~Wrote(v)
      BY <1>0, <2>1, <3>1 DEF RowLocks, RowFree, Wrote, Busy
    <3> QED BY <1>0, <1>o, <2>1, <3>2 DEF RowLocks, Busy, Wrote, Rep
  <2> QED BY <2>2, <2>3
<1>5. CASE Respond(w) \/ Commit(w) \/ Drops(w)
  <2>1. ~Busy(w)'
    BY <1>0, <1>5, EndEffect DEF Busy
  <2> QED BY <1>0, <1>o, <2>1 DEF RowLocks, Busy, Wrote, Rep
<1> QED BY <1>0, <1>1, <1>2, <1>3, <1>4, <1>5, StepKinds DEF Shape

(* What a handler has loaded is the committed row for as long as the row   *)
(* keeps its version; a report being created stays unknown, and the        *)
(* rejected report it refers to stays rejected.                            *)
LEMMA LoadedRowsStep ==
  ASSUME Core, NEW w \in Workers, AnyStep(w)
  PROVE  LoadedRows'
<1>0. Shape /\ RowLocks /\ Existence /\ LoadedRows /\ FreshStamps
  BY DEF Core
<1>o. \A v \in Workers \ {w} : req'[v] = req[v] /\ row'[v] = row[v] /\ pc'[v] = pc[v]
  BY <1>0, Frame DEF Untouched, Shape
(* Other handlers, as long as no report row changes. *)
<1>s. ASSUME reports' = reports, NEW v \in Workers \ {w} PROVE LoadedRow(v)'
  <2>1. LoadedRow(v)
    BY <1>0 DEF LoadedRows
  <2> QED BY <1>o, <1>s, <2>1 DEF LoadedRow, Busy, Rep, User, Passes, Fresh
<1>1. CASE BeginGet(w)
  <2>1. LoadedRow(w)'
    BY <1>0, <1>1, GetEffect DEF LoadedRow, Busy, Rep
  <2> QED BY <1>0, <1>s, <1>1, <2>1, GetEffect DEF LoadedRows
<1>2. ASSUME NEW q, Open(w, q), Offered(q) PROVE LoadedRows'
  <2>1. q.op # "create" => reports[q.rep].status # "none"
    BY <1>0, <1>2, OfferedExists
  <2>2. q.op = "create" => reports[q.rep].status = "none"
    BY <1>2 DEF Offered, FreshReport
  <2>3. LoadedRow(w)'
    BY <1>0, <1>2, <2>1, <2>2, OpenEffect DEF LoadedRow, Busy, Rep
  <2> QED BY <1>0, <1>s, <1>2, <2>3, OpenEffect DEF LoadedRows
<1>3. CASE Load(w)
  <2>1. /\ UNCHANGED <<reports, req>> /\ pc[w] = "load" /\ LoadOK(w)
        /\ row'[w] = IF Loads(w) = Null THEN NoRow ELSE reports[Loads(w)]
    BY <1>0, <1>3, LoadEffect
  <2>2. LoadedRow(w) /\ Busy(w) /\ Rep(w) \in Reports
    BY <1>0, <2>1 DEF LoadedRows, Busy, Shape, WorkerShape
  <2>3. ASSUME req[w].op = "create" PROVE LoadedRow(w)'
    <3>1. req[w].ref # Null => CanRefer(reports[req[w].ref], User(w))
      BY <2>1, <2>3 DEF LoadOK, Loads, Passes
    <3> QED BY <2>1, <2>2, <2>3, <3>1 DEF LoadedRow, CanRefer, Busy, Rep, User
  <2>4. ASSUME req[w].op # "create" PROVE LoadedRow(w)'
    <3>1. Loads(w) = Rep(w) /\ Rep(w) # Null
      BY <2>2, <2>4, DomainAssumption DEF Loads
    <3>2. Found(User(w), Rep(w)) /\ Passes(w, reports[Rep(w)]) /\ row'[w] = reports[Rep(w)]
      BY <2>1, <3>1 DEF LoadOK
    <3>3. Passes(w, row[w])'
      <4>1. row'[w] = reports[Rep(w)] /\ req'[w] = req[w]
        BY <2>1, <3>2
      <4> QED BY <3>2, <4>1 DEF Passes, Fresh, User
    <3> QED BY <2>1, <2>2, <2>4, <3>2, <3>3 DEF LoadedRow, Found, Rep, User
  <2>5. LoadedRow(w)'
    BY <2>3, <2>4
  <2> QED BY <1>0, <1>s, <2>1, <2>5 DEF LoadedRows
<1>4. CASE Inner(w) \/ Writes(w)
  <2>1. /\ UNCHANGED <<reports, req, row>>
        /\ pc[w] \notin {"idle", "load"} /\ pc'[w] \notin {"idle", "load"}
    BY <1>0, <1>4, Middle
  <2>2. LoadedRow(w)
    BY <1>0 DEF LoadedRows
  <2>3. LoadedRow(w)'
    BY <2>1, <2>2 DEF LoadedRow, Busy, Rep, User, Passes, Fresh
  <2> QED BY <1>s, <2>1, <2>3 DEF LoadedRows
<1>e. ASSUME Respond(w) \/ Commit(w) \/ Drops(w) PROVE LoadedRow(w)'
  <2>1. ~Busy(w)'
    BY <1>0, <1>e, EndEffect DEF Busy
  <2> QED BY <2>1 DEF LoadedRow, Busy
<1>5. CASE Respond(w) \/ Drops(w)
  <2>1. reports' = reports
    BY <1>5 DEF Respond, Drops, Refuse, Fail
  <2> QED BY <1>s, <1>e, <1>5, <2>1 DEF LoadedRows
<1>6. CASE Commit(w)
  <2>1. CASE ~Wrote(w)
    BY <1>s, <1>e, <1>6, <2>1, Published DEF LoadedRows
  <2>2. CASE Wrote(w)
    <3> DEFINE old == reports[Rep(w)]
    <3>1. /\ Rep(w) \in Reports /\ Busy(w) /\ Writer(w)
          /\ reports' = [reports EXCEPT ![Rep(w)] = pend[w]] /\ reports \in [Reports -> ReportRow]
          /\ pend[w].ver = stamp[w] /\ pend[w].status # "none"
          /\ old.status # "none" => pend[w].owner = old.owner
          /\ old.status = "rejected" => pend[w].status = "rejected"
      BY <1>0, <1>6, <2>2, Published, Staged DEF Busy, Writer, Wrote, Shape, WorkerShape
    <3>2. \A r \in Reports :
            /\ reports[r].status = "rejected" => reports'[r].status = "rejected"
                                                 /\ reports'[r].owner = reports[r].owner
            /\ reports[r].status # "none" => reports'[r].status # "none"
                                             /\ reports'[r].owner = reports[r].owner
            /\ r # Rep(w) => reports'[r] = reports[r]
            /\ reports'[r] = reports[r] \/ reports'[r].ver = stamp[w]
      BY <3>1
    <3>3. ASSUME NEW v \in Workers \ {w} PROVE LoadedRow(v)'
      <4>1. LoadedRow(v) /\ (Busy(v) => Rep(v) \in Reports /\ User(v) \in Users)
            /\ req[v].ref \in ReportOrNull /\ row[v].ver # stamp[w]
        BY <1>0, <3>1 DEF LoadedRows, Shape, WorkerShape, TypeOK, Request, FreshStamps, FreshStamp
      <4>2. Busy(v) /\ req[v].op = "create" => Rep(v) # Rep(w)
        BY <1>0, <3>1 DEF RowLocks
      <4>3. Passes(v, row[v])' <=> Passes(v, row[v])
        BY <1>o DEF Passes, Fresh, User
      <4> QED BY <1>o, <3>2, <4>1, <4>2, <4>3 DEF LoadedRow, Busy, Rep, User, ReportOrNull
    <3> QED BY <1>e, <1>6, <3>3 DEF LoadedRows
  <2> QED BY <2>1, <2>2
<1> QED BY <1>0, <1>1, <1>2, <1>3, <1>4, <1>5, <1>6, StepKinds DEF Shape

(* A submission reaches its UPDATE only through Submit's checks.           *)
LEMMA CheckedSubmitsStep ==
  ASSUME Core, NEW w \in Workers, AnyStep(w)
  PROVE  CheckedSubmits'
<1>0. Shape /\ CheckedSubmits
  BY DEF Core
<1>o. ASSUME NEW v \in Workers \ {w} PROVE CheckedSubmit(v)'
  <2>1. CheckedSubmit(v) /\ req'[v] = req[v] /\ row'[v] = row[v] /\ pc'[v] = pc[v]
    BY <1>0, Frame DEF Untouched, Shape, CheckedSubmits
  <2> QED BY <2>1 DEF CheckedSubmit, User
<1>1. ASSUME pc'[w] \notin {"cas", "commit"} PROVE CheckedSubmit(w)'
  BY <1>1 DEF CheckedSubmit
<1>n. ASSUME req'[w].op # "submit" PROVE CheckedSubmit(w)'
  BY <1>n DEF CheckedSubmit
<1>2. ASSUME BeginGet(w) \/ (\E q : Open(w, q) /\ Offered(q)) PROVE CheckedSubmit(w)'
  <2>1. pc'[w] = "load"
    BY <1>0, <1>2, GetEffect, OpenEffect
  <2> QED BY <1>1, <2>1
<1>3. ASSUME Load(w) PROVE CheckedSubmit(w)'
  <2>1. pc'[w] # "commit" /\ (pc'[w] = "cas" => req'[w].op # "submit")
    BY <1>0, <1>3, LoadEffect
  <2> QED BY <1>1, <1>n, <2>1
<1>4. ASSUME CheckSubmit(w) PROVE CheckedSubmit(w)'
  BY <1>4 DEF CheckSubmit, SubmitOK, CheckedSubmit, CanSubmit, User
<1>5. ASSUME Inner(w), ~CheckSubmit(w) PROVE CheckedSubmit(w)'
  <2>1. pc'[w] # "commit" /\ pc'[w] # "cas"
    BY <1>0, <1>5, Middle
  <2> QED BY <1>1, <2>1
<1>6. ASSUME Cas(w) PROVE CheckedSubmit(w)'
  <2>1. CheckedSubmit(w) /\ pc[w] = "cas" /\ req' = req /\ row' = row
    BY <1>0, <1>6 DEF Cas, CheckedSubmits
  <2> QED BY <2>1 DEF CheckedSubmit, User
<1>7. ASSUME WriteTotal(w) \/ DeleteRow(w) \/ InsertReport(w) PROVE CheckedSubmit(w)'
  <2>1. req'[w].op # "submit"
    BY <1>0, <1>7 DEF WriteTotal, DeleteRow, InsertReport, Shape, WorkerShape, ItemOps
  <2> QED BY <1>n, <2>1
<1>8. ASSUME Respond(w) \/ Commit(w) \/ Drops(w) PROVE CheckedSubmit(w)'
  <2>1. pc'[w] = "idle"
    BY <1>0, <1>8, EndEffect
  <2> QED BY <1>1, <2>1
<1>9. CheckedSubmit(w)'
  BY <1>0, <1>2, <1>3, <1>4, <1>5, <1>6, <1>7, <1>8, StepKinds DEF Shape, Writes
<1> QED BY <1>o, <1>9 DEF CheckedSubmits

(* As long as neither the row nor the handler moves, what it staged fits.  *)
LEMMA StagedKept ==
  ASSUME NEW v \in Workers, StagedRow(v), reports'[Rep(v)] = reports[Rep(v)],
         pc'[v] = pc[v], req'[v] = req[v], stamp'[v] = stamp[v], row'[v] = row[v],
         sum'[v] = sum[v], pend'[v] = pend[v]
  PROVE  StagedRow(v)'
<1>1. Rep(v)' = Rep(v) /\ User(v)' = User(v) /\ (Wrote(v)' <=> Wrote(v))
  BY DEF Rep, User, Wrote
<1>2. Entity(v)' = Entity(v)
  BY DEF Entity, User
<1>3. CasRow(v)' = CasRow(v) /\ (CasMatches(v)' <=> CasMatches(v))
  BY <1>1, <1>2 DEF CasRow, CasMatches
<1> QED BY <1>1, <1>3 DEF StagedRow

(* What a handler has written stays a change of the committed row: whoever *)
(* else commits that row would have written it too.                        *)
LEMMA StagedRowsStep ==
  ASSUME Core, NEW w \in Workers, AnyStep(w)
  PROVE  StagedRows'
<1>0. Shape /\ RowLocks /\ LoadedRows /\ StagedRows
  BY DEF Core
<1>o. \A v \in Workers \ {w} : Untouched(v)
  BY <1>0, Frame DEF Shape
<1>s. ASSUME NEW v \in Workers \ {w}, pc[v] = "commit" => reports'[Rep(v)] = reports[Rep(v)]
      PROVE  StagedRow(v)'
  <2>1. StagedRow(v) /\ Untouched(v)
    BY <1>0, <1>o DEF StagedRows
  <2>2. CASE pc[v] # "commit"
    BY <2>1, <2>2 DEF StagedRow, Untouched
  <2>3. CASE pc[v] = "commit"
    BY <1>s, <2>1, <2>3, StagedKept DEF Untouched
  <2> QED BY <2>2, <2>3
<1>1. ASSUME pc'[w] # "commit" PROVE StagedRow(w)'
  BY <1>1 DEF StagedRow
<1>2. CASE BeginGet(w) \/ (\E q : Open(w, q) /\ Offered(q)) \/ Load(w) \/ Inner(w)
           \/ Respond(w) \/ Drops(w)
  <2>1. reports' = reports /\ pc'[w] # "commit"
    BY <1>0, <1>2, GetEffect, OpenEffect, LoadEffect, Middle, EndEffect
       DEF Respond, Drops, Refuse, Fail
  <2> QED BY <1>s, <1>1, <2>1 DEF StagedRows
<1>3. CASE Writes(w)
  <2>1. UNCHANGED <<reports, req, stamp, row>>
    BY <1>0, <1>3, Middle
  <2>2. /\ Busy(w) /\ Rep(w) \in Reports /\ pend \in [Workers -> ReportRow]
        /\ reports[Rep(w)] \in ReportRow
        /\ req[w].op # "create" => reports[Rep(w)].status # "none"
        /\ req[w].op # "create" => row[w].status # "none"
    BY <1>0, <1>3 DEF Writes, Cas, WriteTotal, DeleteRow, InsertReport, Shape, WorkerShape,
       Busy, TypeOK, LoadedRows, LoadedRow
  <2>3. ASSUME Cas(w) PROVE StagedRow(w)'
    <3>1. /\ req[w].op \in VersionedOps /\ CasMatches(w) /\ pend'[w] = CasRow(w)
      BY <1>0, <2>2, <2>3 DEF Cas, Shape, WorkerShape
    <3>2. CasRow(w).status = Entity(w).status
      BY <2>2 DEF CasRow, ReportRow
    <3>3. Entity(w).status # "none"
      <4>1. Entity(w) \in {Submitted(row[w], User(w)), Approved(row[w], User(w)),
                           Rejected(row[w], User(w)), Paid(row[w], User(w)), row[w]}
        BY DEF Entity
      <4>2. row[w] \in ReportRow
        BY <1>0 DEF Shape, TypeOK
      <4>3. row[w].status # "none"
        BY <2>2, <3>1 DEF VersionedOps
      <4> QED BY <4>1, <4>2, <4>3 DEF Submitted, Approved, Rejected, Paid, ReportRow
    <3>4. CasMatches(w)' /\ CasRow(w)' = CasRow(w)
      BY <2>1, <3>1 DEF CasMatches, CasRow, Entity, Rep, User
    <3>5. req'[w] = req[w] /\ req[w].op \notin ItemOps \cup {"delete", "create"}
      BY <2>1, <3>1 DEF VersionedOps, ItemOps
    <3> QED BY <3>1, <3>2, <3>3, <3>4, <3>5 DEF StagedRow, Wrote
  <2>4. ASSUME WriteTotal(w) PROVE StagedRow(w)'
    <3>1. /\ req[w].op \in ItemOps /\ sum'[w] = sum[w]
          /\ pend'[w] = [reports[Rep(w)] EXCEPT !.total = sum[w], !.ver = stamp[w]]
      BY <1>0, <2>2, <2>4 DEF WriteTotal, Shape, WorkerShape
    <3>2. pend'[w].status # "none"
      BY <2>2, <3>1 DEF ReportRow, ItemOps
    <3>3. req'[w] = req[w] /\ req[w].op \notin VersionedOps \cup {"delete", "create"}
      BY <2>1, <3>1 DEF VersionedOps, ItemOps
    <3> QED BY <2>1, <3>1, <3>2, <3>3 DEF StagedRow, Wrote, Rep
  <2>5. ASSUME DeleteRow(w) PROVE StagedRow(w)'
    <3>1. req[w].op = "delete" /\ req'[w] = req[w]
          /\ req[w].op \notin VersionedOps \cup ItemOps \cup {"create"}
      BY <1>0, <2>1, <2>5 DEF DeleteRow, Shape, WorkerShape, VersionedOps, ItemOps
    <3>2. CASE ~reports[Rep(w)].deleted
      BY <2>1, <2>2, <2>5, <3>1, <3>2 DEF DeleteRow, StagedRow, Rep
    <3>3. CASE reports[Rep(w)].deleted
      <4>1. pend' = pend /\ ~Wrote(w)
        BY <1>0, <2>5, <3>3 DEF DeleteRow, Shape, WorkerShape
      <4> QED BY <2>1, <3>1, <3>3, <4>1 DEF StagedRow, Rep, Wrote
    <3> QED BY <3>2, <3>3
  <2>6. ASSUME InsertReport(w) PROVE StagedRow(w)'
    <3>1. req[w].op = "create" /\ req'[w] = req[w]
          /\ req[w].op \notin VersionedOps \cup ItemOps \cup {"delete"}
      BY <1>0, <2>1, <2>6 DEF InsertReport, Shape, WorkerShape, VersionedOps, ItemOps
    <3>2. \E t : pend'[w] = [NewReport(User(w), req[w].ref) EXCEPT !.total = t, !.ver = stamp[w]]
      BY <2>2, <2>6 DEF InsertReport
    <3>3. pend'[w] = [NewReport(User(w), req[w].ref) EXCEPT !.total = pend'[w].total, !.ver = stamp[w]]
          /\ pend'[w].status # "none"
      BY <3>2 DEF NewReport, NoRow
    <3> QED BY <2>1, <3>1, <3>3 DEF StagedRow, Wrote, User
  <2> QED BY <1>s, <1>3, <2>1, <2>3, <2>4, <2>5, <2>6 DEF StagedRows, Writes
<1>4. CASE Commit(w)
  <2>1. StagedRow(w)'
    BY <1>0, <1>1, <1>4, EndEffect
  <2>2. CASE ~Wrote(w)
    BY <1>s, <1>4, <2>1, <2>2, Published DEF StagedRows
  <2>3. ASSUME Wrote(w), NEW v \in Workers \ {w} PROVE StagedRow(v)'
    <3>1. /\ reports' = [reports EXCEPT ![Rep(w)] = pend[w]] /\ Rep(w) \in Reports
          /\ reports \in [Reports -> ReportRow] /\ Busy(w)
          /\ reports[Rep(w)].deleted => pend[w].deleted
      BY <1>4, <2>3, Published, Staged DEF Busy
    <3>2. CASE pc[v] = "commit" /\ Rep(v) = Rep(w)
      <4>1. ~Wrote(v)
        BY <1>0, <2>3, <3>1, <3>2 DEF RowLocks, Busy
      <4>2. req[v].op = "delete" /\ reports[Rep(v)].deleted
        <5>1. req[v].op = "delete"
          BY <1>0, <3>2, <4>1 DEF StagedRows, StagedRow
        <5>2. Busy(v) /\ reports[Rep(v)].status # "none" /\ reports[Rep(v)] \in ReportRow
          BY <1>0, <3>1, <3>2, <5>1 DEF LoadedRows, LoadedRow, Busy
        <5>3. pend[v] # [reports[Rep(v)] EXCEPT !.deleted = TRUE, !.ver = stamp[v]]
          BY <4>1, <5>2 DEF Wrote, ReportRow
        <5> QED BY <1>0, <3>2, <5>1, <5>3 DEF StagedRows, StagedRow
      <4>3. reports'[Rep(v)].deleted
        BY <3>1, <3>2, <4>2
      <4>4. req'[v] = req[v] /\ pend'[v] = pend[v] /\ pc'[v] = pc[v]
        BY <1>o DEF Untouched
      <4> QED BY <4>1, <4>2, <4>3, <4>4 DEF StagedRow, Wrote, Rep, VersionedOps, ItemOps
    <3>3. CASE pc[v] # "commit" \/ Rep(v) # Rep(w)
      BY <1>s, <3>1, <3>3
    <3> QED BY <3>2, <3>3
  <2> QED BY <2>1, <2>2, <2>3 DEF StagedRows
<1> QED BY <1>0, <1>2, <1>3, <1>4, StepKinds DEF Shape

(* The seeded database with idle workers.                                  *)
LEMMA CoreInit ==
  ASSUME Init
  PROVE  Core
<1>1. Shape
  BY ShapeInit
<1>2. \A w \in Workers : pc[w] = "idle" /\ stamp[w] = 0 /\ row[w] = NoRow /\ req[w] = NoReq
  BY DEF Init
<1>3. \A u \in Users, r \in Reports : view[u][r] = NoView
  BY DEF Init
<1>4. NoRow.ver = 0 /\ NoReq.base.ver = 0 /\ NoView.ver = 0 /\ NoRow.status = "none"
  BY DEF NoRow, NoReq, NoView
<1>5. ASSUME NEW r \in Reports
      PROVE  \/ reports[r] = NoRow
             \/ /\ reports[r].ver = 1 /\ reports[r].status = "draft"
                /\ reports[r].owner = SeedOwner[r] /\ SeedOwner[r] \in Users
  BY TxAssumption DEF Init, NewReport, NoRow, UserOrNull
<1>6. Stamps
  <2>1. clock = 1
    BY DEF Init
  <2>2. /\ \A r \in Reports : reports[r].ver \in {0, 1}
        /\ \A u \in Users, r \in Reports : view[u][r].ver = 0
        /\ \A w \in Workers : stamp[w] = 0 /\ row[w].ver = 0 /\ req[w].base.ver = 0
    BY <1>2, <1>3, <1>4, <1>5
  <2> QED BY <2>1, <2>2 DEF Stamps
<1>7. Existence
  BY <1>3, <1>4, <1>5 DEF Existence
<1>8. FreshStamps /\ RowLocks
  BY <1>2 DEF FreshStamps, Writer, RowLocks, Busy
<1>9. LoadedRows
  BY <1>2 DEF LoadedRows, LoadedRow, Busy
<1>10. CheckedSubmits /\ StagedRows
  BY <1>2 DEF CheckedSubmits, CheckedSubmit, StagedRows, StagedRow
<1> QED BY <1>1, <1>6, <1>7, <1>8, <1>9, <1>10 DEF Core

(* In every reachable state timestamps are unique to their transactions,   *)
(* rows are written by one transaction at a time, and what a handler has   *)
(* loaded or written is valid for as long as the version it checks.        *)
THEOREM CoreInvariant == Spec => []Core
<1>1. Core /\ UNCHANGED vars => Core'
  <2> SUFFICES ASSUME Core, UNCHANGED vars PROVE Core'
    OBVIOUS
  <2>1. Shape'
    BY ShapeStutter DEF Core
  <2>2. Stamps' /\ FreshStamps' /\ Existence' /\ RowLocks'
    BY DEF Core, vars, Stamps, FreshStamps, FreshStamp, Existence, RowLocks, Busy, Writer, Wrote, Rep
  <2>3. LoadedRows'
    BY DEF Core, vars, LoadedRows, LoadedRow, Busy, Rep, User, Passes, Fresh
  <2>4. CheckedSubmits'
    BY DEF Core, vars, CheckedSubmits, CheckedSubmit, User
  <2>5. StagedRows'
    BY StagedKept DEF Core, vars, StagedRows
  <2> QED BY <2>1, <2>2, <2>3, <2>4, <2>5 DEF Core
<1>2. ASSUME Core, NEW w \in Workers, AnyStep(w) PROVE Core'
  BY <1>2, ShapeStep, StampsStep, FreshStampsStep, ExistenceStep, RowLocksStep, LoadedRowsStep,
     CheckedSubmitsStep, StagedRowsStep DEF Core
<1>3. Core /\ [Next]_vars => Core'
  BY <1>1, <1>2 DEF Next, AnyStep
<1> QED BY <1>3, CoreInit, PTL DEF Spec
=============================================================================
