------------------------------ MODULE Workflow ------------------------------
(***************************************************************************)
(* What the backend promises about the life of an expense report: every    *)
(* transition happens at once, on the row as it is at that moment, by a    *)
(* user who is entitled to it. ReportTx, where handlers read, decide and   *)
(* write in separate SQL statements, implements this specification.        *)
(*                                                                         *)
(* Delete has no condition on the status: that is what the code provides   *)
(* (SoftDeleteReport does not look at it), and weaker than its domain rule *)
(* says; the run after_submit of ReportTx shows the difference.            *)
(***************************************************************************)
EXTENDS ExpenseDomain

VARIABLE life   \* the workflow columns of every report row

LifeRow == [status : Statuses \cup {"none"}, owner : UserOrNull,
            ref : ReportOrNull, submittedBy : UserOrNull,
            approvedBy : UserOrNull, rejectedBy : UserOrNull,
            paidBy : UserOrNull, deleted : BOOLEAN]

LifeTypeOK == life \in [Reports -> LifeRow]

Present(r) == life[r].status # "none" /\ ~life[r].deleted
SameTenant(r, u) == TenantOf[life[r].owner] = TenantOf[u]

(* A database holding nothing or drafts. *)
LifeInit ==
  /\ LifeTypeOK
  /\ \A r \in Reports : \/ life[r] = LifeOf(NoRow)
                        \/ \E u \in Users : life[r] = LifeOf(NewReport(u, Null))
-----------------------------------------------------------------------------
Create(r, u, ref) ==
  /\ life[r].status = "none"
  /\ \/ ref = Null
     \/ ref \in Reports /\ life[ref].status = "rejected" /\ life[ref].owner = u
  /\ life' = [life EXCEPT ![r] = LifeOf(NewReport(u, ref))]

Submit(r, u) ==
  /\ Present(r)
  /\ CanModifyReport(u, life[r])
  /\ CanSubmit(life[r], TRUE, HasApprover(TenantOf[u]))
  /\ life' = [life EXCEPT ![r] = Submitted(life[r], u)]

Approve(r, u) ==
  /\ Present(r) /\ SameTenant(r, u) /\ RoleAllows("approve", u)
  /\ CanApprove(life[r], u)
  /\ life' = [life EXCEPT ![r] = Approved(life[r], u)]

Reject(r, u) ==
  /\ Present(r) /\ SameTenant(r, u) /\ RoleAllows("reject", u)
  /\ CanReject(life[r], u)
  /\ life' = [life EXCEPT ![r] = Rejected(life[r], u)]

Pay(r, u) ==
  /\ Present(r) /\ SameTenant(r, u) /\ RoleAllows("pay", u)
  /\ CanPay(life[r], u)
  /\ life' = [life EXCEPT ![r] = Paid(life[r], u)]

Delete(r, u) ==
  /\ Present(r)
  /\ CanModifyReport(u, life[r])
  /\ life' = [life EXCEPT ![r].deleted = TRUE]

LifeNext ==
  \E r \in Reports, u \in Users :
    \/ \E ref \in ReportOrNull : Create(r, u, ref)
    \/ Submit(r, u)
    \/ Approve(r, u)
    \/ Reject(r, u)
    \/ Pay(r, u)
    \/ Delete(r, u)

LifeSpec == LifeInit /\ [][LifeNext]_life
-----------------------------------------------------------------------------
DecidedBy(r) == {life[r].approvedBy, life[r].rejectedBy} \ {Null}

(* The people on a report: it is submitted by its owner, decided by an     *)
(* approver of the same tenant who is not the owner, and paid, after an    *)
(* approval, by an accountant of the same tenant who is not the owner      *)
(* (authorizer.go RBC-012 and RBC-016, cmd/server/main.go role groups).    *)
SegregationOfDuties ==
  \A r \in Reports :
    /\ life[r].status \notin {"none", "draft"} => life[r].submittedBy = life[r].owner
    /\ \A u \in DecidedBy(r) :
         u # life[r].owner /\ SameTenant(r, u) /\ RoleOf[u] = "approver"
    /\ life[r].paidBy # Null =>
         /\ life[r].approvedBy # Null
         /\ life[r].paidBy # life[r].owner
         /\ SameTenant(r, life[r].paidBy)
         /\ RoleOf[life[r].paidBy] = "accounting"

(* A report is decided at most once and its status says which way:         *)
(* ListProcessedReports relies on approved_by and rejected_by never both   *)
(* being set (workflow_service.go:112).                                    *)
DecidedOnce ==
  \A r \in Reports :
    /\ life[r].approvedBy # Null <=> life[r].status \in {"approved", "paid"}
    /\ life[r].rejectedBy # Null <=> life[r].status = "rejected"
    /\ life[r].paidBy # Null <=> life[r].status = "paid"

(* A resubmission refers to a report of the same owner that is, and stays, *)
(* rejected (CreateReport, report_service.go:49-61).                       *)
ResubmissionOfRejected ==
  \A r \in Reports :
    life[r].ref # Null =>
      /\ life[life[r].ref].status = "rejected"
      /\ life[life[r].ref].owner = life[r].owner

(* Who did what is never rewritten, and a deleted report never moves again *)
(* (the WHERE clauses of UpdateReportStatus and SoftDeleteReport).         *)
HistoryIsFinal ==
  [][\A r \in Reports :
       /\ life[r].deleted => life'[r] = life[r]
       /\ life[r].submittedBy # Null => life'[r].submittedBy = life[r].submittedBy
       /\ life[r].approvedBy # Null => life'[r].approvedBy = life[r].approvedBy
       /\ life[r].rejectedBy # Null => life'[r].rejectedBy = life[r].rejectedBy
       /\ life[r].paidBy # Null => life'[r].paidBy = life[r].paidBy]_life
=============================================================================
