------------------------------ MODULE ReportTx ------------------------------
(***************************************************************************)
(* The report and item endpoints of the backend, one worker per request.   *)
(* The middleware TenantContext runs every request in one PostgreSQL       *)
(* transaction at READ COMMITTED: each SQL statement is a step of its own  *)
(* and sees what was committed when it started, plus the transaction's own *)
(* writes. No statement takes FOR UPDATE; only UPDATE and INSERT lock rows,*)
(* until the transaction ends. A worker keeps what its handler read and    *)
(* wrote in private variables; Commit publishes it, Fail and Refuse drop it*)
(***************************************************************************)
EXTENDS ExpenseDomain

CONSTANTS
  Workers,     \* requests the server may be serving at the same time
  MaxTx,       \* bound: transactions that write, over a whole behaviour
  Mix,         \* the kinds of request clients send
  SeedOwner,   \* owner of the draft a report id starts as, or Null
  SeedReport   \* report an item id starts in, or Null

ASSUME TxAssumption ==
  /\ MaxTx \in Nat \ {0}
  /\ SeedOwner \in [Reports -> UserOrNull]
  /\ SeedReport \in [Items -> ReportOrNull]
  /\ \A i \in Items :
       SeedReport[i] # Null => SeedOwner[SeedReport[i]] # Null

VARIABLES
  reports,  \* committed rows of expense_reports
  items,    \* committed rows of expense_items
  clock,    \* timestamps handed out by now()
  view,     \* view[u][r]: report r as user u's client last received it
  pc,       \* the statement worker w executes next
  req,      \* the request w serves
  stamp,    \* now() in w's transaction
  row,      \* the report entity w loaded
  sum,      \* the item amounts the total UPDATE of w found
  pend,     \* the report row w wrote and has not committed (NoRow if none)
  ipend     \* the item rows w wrote and has not committed

db     == <<reports, items>>
local  == <<req, stamp, row, sum, pend, ipend>>
vars   == <<reports, items, clock, view, pc, local>>

VersionedOps == {"update", "submit", "approve", "reject", "pay"}
ItemOps      == {"additem", "upditem", "delitem"}
Ops          == VersionedOps \cup ItemOps \cup {"get", "create", "delete"}
Labels       == {"idle", "load", "items", "find", "item", "sum", "total",
                 "cas", "cascade", "row", "insert", "commit"}

(* What a client holds: the version of the report and, as their versions,  *)
(* the items it was shown (0: not shown).                                  *)
View    == [ver : Nat, seen : Sums]
NoView  == [ver |-> 0, seen |-> NoSum]

Request  == [op : Ops \cup {"none"}, user : UserOrNull, rep : ReportOrNull,
             ref : ReportOrNull, item : ItemOrNull, amt : Amounts \cup {0},
             base : View]
NoReq    == [op |-> "none", user |-> Null, rep |-> Null,
             ref |-> Null, item |-> Null, amt |-> 0, base |-> NoView]

TypeOK ==
  /\ reports \in [Reports -> ReportRow]
  /\ items \in [Items -> ItemRow]
  /\ clock \in Nat
  /\ view \in [Users -> [Reports -> View]]
  /\ pc \in [Workers -> Labels]
  /\ req \in [Workers -> Request]
  /\ stamp \in [Workers -> Nat]
  /\ row \in [Workers -> ReportRow]
  /\ sum \in [Workers -> Sums]
  /\ pend \in [Workers -> ReportRow]
  /\ ipend \in [Workers -> [Items -> ItemRow]]
-----------------------------------------------------------------------------
(* Reading the tables. *)

Shown(i, r) == items[i].state = "live" /\ items[i].rep = r
Contents(r) == [i \in Items |-> IF Shown(i, r) THEN items[i].ver ELSE 0]
Empty(r)    == \A i \in Items : ~Shown(i, r)

Rep(w)  == req[w].rep
User(w) == req[w].user

(* WHERE tenant_id = $1 AND report_id = $2 AND deleted_at IS NULL *)
Found(u, r) ==
  /\ r \in Reports
  /\ reports[r].status # "none"
  /\ ~reports[r].deleted
  /\ TenantOf[reports[r].owner] = TenantOf[u]

(* Row locks: a row is locked by whoever wrote it and has not ended. *)
RowFree(w, r)  == \A v \in Workers \ {w} : pend[v].status # "none" => Rep(v) # r
ItemFree(w, i) == \A v \in Workers \ {w} : ipend[v][i].state = "none"

(* Ids that gen_random_uuid can still draw. Reusing an id never happens;   *)
(* the finite set of ids is a bound of the model.                          *)
FreshItem(i)   == items[i].state = "none" /\ \A v \in Workers : ipend[v][i].state = "none"
FreshReport(r) == reports[r].status = "none" /\ \A v \in Workers : Rep(v) # r

(* Item amounts as the transaction of w sees them: committed rows under    *)
(* its own uncommitted ones.                                               *)
ItemAs(w, i) == IF ipend[w][i].state = "none" THEN items[i] ELSE ipend[w][i]
CommittedAmountsOf(w, r) ==   \* faulty form of AmountsOf: a separate connection
  [i \in Items |-> IF Shown(i, r) THEN items[i].amt ELSE 0]

AmountsOf(w, r) ==
  [i \in Items |-> IF ItemAs(w, i).state = "live" /\ ItemAs(w, i).rep = r
                   THEN ItemAs(w, i).amt ELSE 0]
-----------------------------------------------------------------------------
Init ==
  /\ reports = [r \in Reports |->
       IF SeedOwner[r] = Null THEN NoRow
       ELSE [NewReport(SeedOwner[r], Null) EXCEPT
               !.total = [i \in Items |-> IF SeedReport[i] = r THEN 1 ELSE 0],
               !.ver = 1]]
  /\ items = [i \in Items |->
       IF SeedReport[i] = Null THEN NoItem
       ELSE [state |-> "live", rep |-> SeedReport[i], amt |-> 1, ver |-> 1]]
  /\ clock = 1
  /\ view = [u \in Users |-> [r \in Reports |-> NoView]]
  /\ pc = [w \in Workers |-> "idle"]
  /\ req = [w \in Workers |-> NoReq]
  /\ stamp = [w \in Workers |-> 0]
  /\ row = [w \in Workers |-> NoRow]
  /\ sum = [w \in Workers |-> NoSum]
  /\ pend = [w \in Workers |-> NoRow]
  /\ ipend = [w \in Workers |-> NoWrites]

Goto(w, label) == pc' = [pc EXCEPT ![w] = label]

(* The transaction ends and the connection goes back to the pool. *)
Reset(w) ==
  /\ Goto(w, "idle")
  /\ req' = [req EXCEPT ![w] = NoReq]
  /\ stamp' = [stamp EXCEPT ![w] = 0]
  /\ row' = [row EXCEPT ![w] = NoRow]
  /\ sum' = [sum EXCEPT ![w] = NoSum]
  /\ pend' = [pend EXCEPT ![w] = NoRow]
  /\ ipend' = [ipend EXCEPT ![w] = NoWrites]
-----------------------------------------------------------------------------
(* A request arrives and TenantContext sends BEGIN. RequireRole has let it *)
(* through. Version-checked requests send back the updated_at of the       *)
(* screen they were made from, item edits that of the item on it; the      *)
(* others only need an id.                                                 *)
Ask(op, u, r) == [NoReq EXCEPT !.op = op, !.user = u, !.rep = r]

Open(w, q) ==
  /\ pc[w] = "idle"
  /\ clock < MaxTx
  /\ q.op \in Mix
  /\ RoleAllows(q.op, q.user)
  /\ req' = [req EXCEPT ![w] = q]
  /\ clock' = clock + 1
  /\ stamp' = [stamp EXCEPT ![w] = clock + 1]
  /\ Goto(w, "load")
  /\ UNCHANGED <<db, view, row, sum, pend, ipend>>

BeginVersioned(w) ==
  \E u \in Users, r \in Reports, op \in VersionedOps :
    /\ view[u][r].ver # 0
    /\ Open(w, [Ask(op, u, r) EXCEPT !.base = view[u][r]])

BeginAddItem(w) ==
  \E u \in Users, r \in Reports, a \in Amounts :
    /\ reports[r].status # "none"
    /\ Open(w, [Ask("additem", u, r) EXCEPT !.amt = a])

BeginUpdateItem(w) ==
  \E u \in Users, r \in Reports, i \in Items, a \in Amounts :
    /\ view[u][r].seen[i] # 0
    /\ Open(w, [Ask("upditem", u, r) EXCEPT !.item = i, !.amt = a, !.base = view[u][r]])

BeginDeleteItem(w) ==
  \E u \in Users, r \in Reports, i \in Items :
    /\ view[u][r].seen[i] # 0
    /\ Open(w, [Ask("delitem", u, r) EXCEPT !.item = i])

BeginDelete(w) ==
  \E u \in Users, r \in Reports :
    /\ reports[r].status # "none"
    /\ Open(w, Ask("delete", u, r))

BeginCreate(w) ==
  \E u \in Users, r \in Reports, f \in ReportOrNull :
    /\ FreshReport(r)
    /\ f # Null => reports[f].status # "none"
    /\ Open(w, [Ask("create", u, r) EXCEPT !.ref = f])

(* A GET needs no timestamp of its own. *)
BeginGet(w) ==
  /\ pc[w] = "idle"
  /\ \E u \in Users, r \in Reports :
       /\ reports[r].status # "none"
       /\ req' = [req EXCEPT ![w] = Ask("get", u, r)]
  /\ Goto(w, "load")
  /\ UNCHANGED <<db, clock, view, stamp, row, sum, pend, ipend>>
-----------------------------------------------------------------------------
(* reportRepo.GetByID and the checks every handler makes on the entity     *)
(* right after it, before any other statement.                             *)
Loads(w) == IF req[w].op = "create" THEN req[w].ref ELSE Rep(w)

StaleAccepted(w, r) == TRUE   \* faulty form of Fresh

Fresh(w, r) == r.ver = req[w].base.ver   \* report.UpdatedAt.Equal(updatedAt)

Passes(w, r) ==
  LET u == User(w) IN
  CASE req[w].op = "get"     -> CanViewReport(u, r)
    [] req[w].op = "create"  -> CanRefer(r, u)
    [] req[w].op = "update"  -> CanModifyReport(u, r) /\ CanEdit(r) /\ Fresh(w, r)
    [] req[w].op = "delete"  -> CanModifyReport(u, r) /\ CanDelete(r)
    [] req[w].op = "submit"  -> CanModifyReport(u, r) /\ Fresh(w, r)
    [] req[w].op = "approve" -> Fresh(w, r) /\ CanApprove(r, u)
    [] req[w].op = "reject"  -> Fresh(w, r) /\ CanReject(r, u)
    [] req[w].op = "pay"     -> Fresh(w, r) /\ CanPay(r, u)
    [] req[w].op = "additem" -> CanModifyReport(u, r) /\ CanEdit(r) /\ req[w].amt > 0
    [] OTHER                 -> CanModifyReport(u, r) /\ CanEdit(r)

(* No report is loaded for a new report that refers to none. *)
LoadOK(w) ==
  \/ Loads(w) = Null
  \/ Found(User(w), Loads(w)) /\ Passes(w, reports[Loads(w)])

AfterLoad(op) ==
  CASE op \in {"get", "submit"}       -> "items"
    [] op = "create"                  -> "insert"
    [] op = "delete"                  -> "cascade"
    [] op = "additem"                 -> "item"
    [] op \in {"upditem", "delitem"}  -> "find"
    [] OTHER                          -> "cas"

Load(w) ==
  /\ pc[w] = "load"
  /\ LoadOK(w)
  /\ row' = [row EXCEPT ![w] = IF Loads(w) = Null THEN NoRow ELSE reports[Loads(w)]]
  /\ Goto(w, AfterLoad(req[w].op))
  /\ UNCHANGED <<db, clock, view, req, stamp, sum, pend, ipend>>

(* buildDetail reads the items in a later statement than the row; the      *)
(* client gets both as one report. The transaction wrote nothing.          *)
Respond(w) ==
  /\ pc[w] = "items" /\ req[w].op = "get"
  /\ view' = [view EXCEPT ![User(w)][Rep(w)] =
                [ver |-> row[w].ver, seen |-> Contents(Rep(w))]]
  /\ Reset(w)
  /\ UNCHANGED <<db, clock>>

(* SubmitReport: HasApprover and ListByReportID, then the domain check. *)
SubmitOK(w) ==
  CanSubmit(row[w], ~Empty(Rep(w)), HasApprover(TenantOf[User(w)]))

CheckSubmit(w) ==
  /\ pc[w] = "items" /\ req[w].op = "submit"
  /\ SubmitOK(w)
  /\ Goto(w, "cas")
  /\ UNCHANGED <<db, clock, view, local>>
-----------------------------------------------------------------------------
(* The entity after its domain transition. *)
Entity(w) ==
  CASE req[w].op = "submit"  -> Submitted(row[w], User(w))
    [] req[w].op = "approve" -> Approved(row[w], User(w))
    [] req[w].op = "reject"  -> Rejected(row[w], User(w))
    [] req[w].op = "pay"     -> Paid(row[w], User(w))
    [] OTHER                 -> row[w]

(* WHERE report_id = $2 AND deleted_at IS NULL AND updated_at = $14. A     *)
(* row that does not match is skipped at once; one that matches and is     *)
(* locked is waited for and looked at again.                               *)
CasWithoutVersion(w) ==   \* faulty form of CasMatches
  ~reports[Rep(w)].deleted

CasMatches(w) ==
  /\ reports[Rep(w)].ver = row[w].ver
  /\ ~reports[Rep(w)].deleted

(* UpdateReport sets data columns and updated_at, UpdateReportStatus the   *)
(* status and every *_by column from the entity; total_amount and the      *)
(* others keep what the row has.                                           *)
CasRow(w) ==
  [reports[Rep(w)] EXCEPT
     !.status = Entity(w).status, !.submittedBy = Entity(w).submittedBy,
     !.approvedBy = Entity(w).approvedBy, !.rejectedBy = Entity(w).rejectedBy,
     !.paidBy = Entity(w).paidBy, !.ver = stamp[w]]

Cas(w) ==
  /\ pc[w] = "cas"
  /\ CasMatches(w)
  /\ RowFree(w, Rep(w))
  /\ pend' = [pend EXCEPT ![w] = CasRow(w)]
  /\ Goto(w, "commit")
  /\ UNCHANGED <<db, clock, view, req, stamp, row, sum, ipend>>
-----------------------------------------------------------------------------
(* itemRepo.GetByID, for UpdateItem and DeleteItem, and ValidateAmount. *)
FindOK(w) ==
  /\ Shown(req[w].item, Rep(w))
  /\ req[w].op = "upditem" => req[w].amt > 0

FindItem(w) ==
  /\ pc[w] = "find"
  /\ FindOK(w)
  /\ Goto(w, "item")
  /\ UNCHANGED <<db, clock, view, local>>

Stage(w, i, it) ==
  /\ ipend' = [ipend EXCEPT ![w] = [NoWrites EXCEPT ![i] = it]]
  /\ Goto(w, "sum")
  /\ UNCHANGED <<db, clock, view, req, stamp, row, sum, pend>>

(* CreateItem: INSERT. *)
InsertItem(w) ==
  /\ pc[w] = "item" /\ req[w].op = "additem"
  /\ \E i \in Items :
       /\ FreshItem(i)
       /\ Stage(w, i, [state |-> "live", rep |-> Rep(w),
                       amt |-> req[w].amt, ver |-> stamp[w]])

(* UpdateItem: WHERE deleted_at IS NULL AND updated_at = $8. *)
ItemWithoutVersion(w) ==   \* faulty form of ItemMatches
  Shown(req[w].item, Rep(w))

ItemMatches(w) ==
  /\ Shown(req[w].item, Rep(w))
  /\ items[req[w].item].ver = req[w].base.seen[req[w].item]

UpdateItem(w) ==
  /\ pc[w] = "item" /\ req[w].op = "upditem"
  /\ ItemMatches(w)
  /\ ItemFree(w, req[w].item)
  /\ Stage(w, req[w].item, [items[req[w].item] EXCEPT !.amt = req[w].amt, !.ver = stamp[w]])

(* DeleteItem: WHERE deleted_at IS NULL, and no error if nothing matches.  *)
(* The attachments of the item, which no statement here reads, are not     *)
(* part of this module.                                                    *)
DeleteItem(w) ==
  /\ pc[w] = "item" /\ req[w].op = "delitem"
  /\ \/ /\ Shown(req[w].item, Rep(w))
        /\ ItemFree(w, req[w].item)
        /\ Stage(w, req[w].item, [items[req[w].item] EXCEPT !.state = "deleted", !.ver = stamp[w]])
     \/ /\ ~Shown(req[w].item, Rep(w))
        /\ Goto(w, "sum")
        /\ UNCHANGED <<db, clock, view, local>>

(* UpdateReportTotalAmount: the subquery reads the items under the         *)
(* snapshot of the statement; the row is then locked, which may wait. The  *)
(* WHERE clause is looked at again after the wait, the subquery is not     *)
(* given a newer snapshot.                                                 *)
SumItems(w) ==
  /\ pc[w] = "sum"
  /\ sum' = [sum EXCEPT ![w] = AmountsOf(w, Rep(w))]
  /\ Goto(w, "total")
  /\ UNCHANGED <<db, clock, view, req, stamp, row, pend, ipend>>

WriteTotal(w) ==
  /\ pc[w] = "total"
  /\ RowFree(w, Rep(w))
  /\ pend' = [pend EXCEPT ![w] =
                [reports[Rep(w)] EXCEPT !.total = sum[w], !.ver = stamp[w]]]
  /\ Goto(w, "commit")
  /\ UNCHANGED <<db, clock, view, req, stamp, row, sum, ipend>>
-----------------------------------------------------------------------------
(* DeleteReport: the live items first, then the report row; neither        *)
(* statement looks at the status. (Attachments as above.)                  *)
NoCascade(w) ==   \* faulty form of Cascade
  /\ pc[w] = "cascade"
  /\ Goto(w, "row")
  /\ UNCHANGED <<db, clock, view, local>>

Cascade(w) ==
  /\ pc[w] = "cascade"
  /\ \A i \in Items : Shown(i, Rep(w)) => ItemFree(w, i)
  /\ ipend' = [ipend EXCEPT ![w] =
       [i \in Items |-> IF Shown(i, Rep(w))
                        THEN [items[i] EXCEPT !.state = "deleted", !.ver = stamp[w]]
                        ELSE NoItem]]
  /\ Goto(w, "row")
  /\ UNCHANGED <<db, clock, view, req, stamp, row, sum, pend>>

DeleteRow(w) ==
  /\ pc[w] = "row"
  /\ \/ /\ ~reports[Rep(w)].deleted
        /\ RowFree(w, Rep(w))
        /\ pend' = [pend EXCEPT ![w] = [reports[Rep(w)] EXCEPT !.deleted = TRUE, !.ver = stamp[w]]]
     \/ /\ reports[Rep(w)].deleted
        /\ UNCHANGED pend
  /\ Goto(w, "commit")
  /\ UNCHANGED <<db, clock, view, req, stamp, row, sum, ipend>>

(* CreateReport: INSERT, then, for a resubmission, one INSERT and one      *)
(* total UPDATE per live item of the rejected report, read in a statement  *)
(* of its own. Nobody else sees the new rows before the commit.            *)
Copies(f, ids) ==   \* one-to-one maps from the items of f to new ids
  {g \in [{i \in Items : f # Null /\ Shown(i, f)} -> ids] :
     \A i, j \in DOMAIN g : g[i] = g[j] => i = j}

CopiedFrom(g, i) == CHOOSE j \in DOMAIN g : g[j] = i

CopyOf(w, g, i) ==
  IF \E j \in DOMAIN g : g[j] = i
  THEN [state |-> "live", rep |-> Rep(w),
        amt |-> items[CopiedFrom(g, i)].amt, ver |-> stamp[w]]
  ELSE NoItem

InsertReport(w) ==
  /\ pc[w] = "insert"
  /\ \E g \in Copies(req[w].ref, {i \in Items : FreshItem(i)}) :
       LET new == [i \in Items |-> CopyOf(w, g, i)] IN
       /\ ipend' = [ipend EXCEPT ![w] = new]
       /\ pend' = [pend EXCEPT ![w] =
            [NewReport(User(w), req[w].ref) EXCEPT
               !.total = [i \in Items |-> new[i].amt], !.ver = stamp[w]]]
  /\ Goto(w, "commit")
  /\ UNCHANGED <<db, clock, view, req, stamp, row, sum>>
-----------------------------------------------------------------------------
(* A 2xx handler: COMMIT publishes every row the transaction wrote. *)
Commit(w) ==
  /\ pc[w] = "commit"
  /\ reports' = IF pend[w].status = "none" THEN reports
                ELSE [reports EXCEPT ![Rep(w)] = pend[w]]
  /\ items' = [i \in Items |-> ItemAs(w, i)]
  /\ Reset(w)
  /\ UNCHANGED <<clock, view>>

(* A 4xx handler: some check failed, or a version-checked UPDATE returned  *)
(* no row (ErrConflict). TenantContext rolls back. Running out of item ids *)
(* is the bound of the model, not of the code.                             *)
RetriesForever(w) ==   \* faulty form of Refuses: no answer to a conflict
  \/ pc[w] = "load" /\ ~LoadOK(w)
  \/ pc[w] = "items" /\ req[w].op = "submit" /\ ~SubmitOK(w)
  \/ pc[w] = "find" /\ ~FindOK(w)
  \/ pc[w] = "item" /\ req[w].op = "additem" /\ ~\E i \in Items : FreshItem(i)
  \/ pc[w] = "insert" /\ Copies(req[w].ref, {i \in Items : FreshItem(i)}) = {}

Refuses(w) ==
  \/ pc[w] = "load" /\ ~LoadOK(w)
  \/ pc[w] = "items" /\ req[w].op = "submit" /\ ~SubmitOK(w)
  \/ pc[w] = "cas" /\ ~CasMatches(w)
  \/ pc[w] = "find" /\ ~FindOK(w)
  \/ pc[w] = "item" /\ req[w].op = "upditem" /\ ~ItemMatches(w)
  \/ pc[w] = "item" /\ req[w].op = "additem" /\ ~\E i \in Items : FreshItem(i)
  \/ pc[w] = "insert" /\ Copies(req[w].ref, {i \in Items : FreshItem(i)}) = {}

Refuse(w) ==
  /\ Refuses(w)
  /\ Reset(w)
  /\ UNCHANGED <<db, clock, view>>

(* A crash, a lost connection, a statement or COMMIT that fails, a panic:  *)
(* at any statement PostgreSQL drops what the transaction wrote.           *)
Fail(w) ==
  /\ pc[w] # "idle"
  /\ Reset(w)
  /\ UNCHANGED <<db, clock, view>>
-----------------------------------------------------------------------------
Arrive(w) ==
  \/ BeginVersioned(w) \/ BeginAddItem(w) \/ BeginUpdateItem(w)
  \/ BeginDeleteItem(w) \/ BeginDelete(w) \/ BeginCreate(w) \/ BeginGet(w)

Step(w) ==
  \/ Load(w) \/ Respond(w) \/ CheckSubmit(w) \/ Cas(w)
  \/ FindItem(w) \/ InsertItem(w) \/ UpdateItem(w) \/ DeleteItem(w)
  \/ SumItems(w) \/ WriteTotal(w) \/ Cascade(w) \/ DeleteRow(w)
  \/ InsertReport(w) \/ Commit(w) \/ Refuse(w)

Next == \E w \in Workers : Arrive(w) \/ Step(w) \/ Fail(w)

Spec == Init /\ [][Next]_vars

(* A handler goroutine keeps running, and PostgreSQL grants a row lock to  *)
(* the transactions that wait for it in the order they came, so a worker   *)
(* whose next statement is possible again and again executes it. Nothing   *)
(* makes a client send a request or a transaction fail.                    *)
FairSpec == Spec /\ \A w \in Workers : SF_vars(Step(w))
-----------------------------------------------------------------------------
(* Properties.                                                             *)

LC == INSTANCE Workflow WITH life <- [r \in Reports |-> LifeOf(reports[r])]

(* Statement by statement, under any interleaving, the committed workflow  *)
(* columns move as in Workflow: of two decisions racing on one report one  *)
(* takes effect and the other gets ErrConflict (UpdateReportStatus).       *)
LifeCycle == LC!LifeSpec

(* Submitted by the owner, decided by another user who is an approver of   *)
(* the tenant, paid by another one who is an accountant (RBC-012, RBC-016).*)
SegregationOfDuties == LC!SegregationOfDuties

(* Never both approved and rejected; the status agrees with the *_by       *)
(* columns (workflow_service.go:112).                                      *)
DecidedOnce == LC!DecidedOnce

(* A resubmission refers to a rejected report of the same owner, although  *)
(* nothing locks that report while the copy is made.                       *)
ResubmissionOfRejected == LC!ResubmissionOfRejected

(* What a row says about who did what is never rewritten, and a deleted    *)
(* report never moves again, whichever requests race (the WHERE clauses of *)
(* UpdateReportStatus and SoftDeleteReport).                               *)
HistoryIsFinal == LC!HistoryIsFinal

(* When a version-checked request commits (an approval, a rejection, a     *)
(* payment, a submission, an edit of the header) the report contains       *)
(* exactly the items, in the versions, that its author was shown, although *)
(* GetReport reads row and items in two statements and item edits do not   *)
(* lock the report until they rewrite its total.                           *)
DecisionOnSeenContent ==
  \A w \in Workers :
    pc[w] = "commit" /\ req[w].op \in VersionedOps =>
      Contents(Rep(w)) = req[w].base.seen

(* No report without items becomes submitted (ErrEmptyReportSubmission,    *)
(* RPT-014), although the items are counted before the report row is       *)
(* locked and another transaction may be deleting the last one.            *)
SubmitNonEmpty ==
  \A w \in Workers :
    pc[w] = "commit" /\ req[w].op = "submit" => ~Empty(Rep(w))

(* An item edit replaces the version its author was shown: between the     *)
(* UPDATE of the item and the COMMIT, while the total is recomputed,       *)
(* nobody else changes or deletes that item.                               *)
ItemEditOverSeen ==
  \A w \in Workers :
    pc[w] \in {"sum", "total", "commit"} /\ req[w].op = "upditem" =>
      /\ Shown(req[w].item, Rep(w))
      /\ items[req[w].item].ver = req[w].base.seen[req[w].item]

(* Every request the server took is answered: the row locks of reports and  *)
(* items that its statements wait for are released.  The locks of the       *)
(* attachments are not here and the cascade of a deletion is one step, so   *)
(* the requests that can block each other in a circle are in Attachments.   *)
RequestEnds == \A w \in Workers : pc[w] # "idle" ~> pc[w] = "idle"

(* RPT-011 and RPT-013 (errors.go:31 and :39) together: a report that left *)
(* the draft keeps its items and is not deleted.                           *)
SubmittedIsFrozen ==
  [][\A r \in Reports :
       reports[r].status \notin {"none", "draft"} /\ ~reports[r].deleted
         => Contents(r)' = Contents(r) /\ ~reports'[r].deleted]_vars

(* RPT-006: total_amount is computed from the items of the report.         *)
TotalIsSum ==
  \A r \in Reports :
    reports[r].status # "none" /\ ~reports[r].deleted =>
      reports[r].total = [i \in Items |-> IF Shown(i, r) THEN items[i].amt ELSE 0]

(* Deleting a report deletes its items with it (report_repo.go:176).       *)
DeletedReportIsEmpty ==
  \A r \in Reports : reports[r].deleted => Empty(r)
=============================================================================
