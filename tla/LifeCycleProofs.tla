--------------------------- MODULE LifeCycleProofs ---------------------------
(***************************************************************************)
(* ReportTx implements Workflow: every COMMIT is a transition of the life  *)
(* cycle or changes none of its columns. What is proved of Workflow then   *)
(* holds of the committed tables. Then the contents: decisions and edits   *)
(* are made on what was shown; and totals, deletions and submitted reports *)
(* are right as long as the writers of one report do not overlap.          *)
(***************************************************************************)
EXTENDS CoreProofs

USE DEF db, local

-----------------------------------------------------------------------------
(* Refinement.                                                             *)

(* The workflow columns that are committed: "life" of Workflow. *)
Committed == [r \in Reports |-> LifeOf(reports[r])]

(* Workflow is built from the same operators of ExpenseDomain.             *)
LEMMA SameDomain ==
  /\ LC!LifeRow = [status : Statuses \cup {"none"}, owner : UserOrNull,
                   ref : ReportOrNull, submittedBy : UserOrNull,
                   approvedBy : UserOrNull, rejectedBy : UserOrNull,
                   paidBy : UserOrNull, deleted : BOOLEAN]
  /\ LC!ReportOrNull = ReportOrNull
  /\ \A x : LC!LifeOf(x) = LifeOf(x)
  /\ LC!NoRow = NoRow
  /\ \A u, f : LC!NewReport(u, f) = NewReport(u, f)
  /\ \A x, u : /\ LC!Submitted(x, u) = Submitted(x, u)
               /\ LC!Approved(x, u) = Approved(x, u)
               /\ LC!Rejected(x, u) = Rejected(x, u)
               /\ LC!Paid(x, u) = Paid(x, u)
<1>1. LC!Statuses = Statuses /\ LC!UserOrNull = UserOrNull /\ LC!ReportOrNull = ReportOrNull
      /\ LC!NoSum = NoSum
  BY DEF LC!Statuses, Statuses, LC!UserOrNull, UserOrNull, LC!ReportOrNull, ReportOrNull,
     LC!NoSum, NoSum
<1>2. LC!NoRow = NoRow
  BY <1>1 DEF LC!NoRow, NoRow
<1>3. \A u, f : LC!NewReport(u, f) = NewReport(u, f)
  BY <1>2 DEF LC!NewReport, NewReport
<1>4. \A x : LC!LifeOf(x) = LifeOf(x)
  BY DEF LC!LifeOf, LifeOf
<1>5. \A x, u : /\ LC!Submitted(x, u) = Submitted(x, u)
                /\ LC!Approved(x, u) = Approved(x, u)
                /\ LC!Rejected(x, u) = Rejected(x, u)
                /\ LC!Paid(x, u) = Paid(x, u)
  BY DEF LC!Submitted, Submitted, LC!Approved, Approved, LC!Rejected, Rejected, LC!Paid, Paid
<1> QED BY <1>1, <1>2, <1>3, <1>4, <1>5 DEF LC!LifeRow

(* A workflow row with the workflow columns of a full row is its LifeOf.   *)
LEMMA LifeOfFields ==
  ASSUME NEW x \in ReportRow, NEW s \in LC!LifeRow,
         s.status = x.status, s.owner = x.owner, s.ref = x.ref,
         s.submittedBy = x.submittedBy, s.approvedBy = x.approvedBy,
         s.rejectedBy = x.rejectedBy, s.paidBy = x.paidBy, s.deleted = x.deleted
  PROVE  LifeOf(x) = s
  BY SameDomain DEF LifeOf, ReportRow

(* The transitions of report.go act on the workflow columns alone.         *)
LEMMA LifeOfTransitions ==
  ASSUME NEW r \in ReportRow, NEW u \in UserOrNull, NEW n \in Nat, NEW t \in Sums
  PROVE  /\ LifeOf([Submitted(r, u) EXCEPT !.ver = n]) = Submitted(LifeOf(r), u)
         /\ LifeOf([Approved(r, u) EXCEPT !.ver = n]) = Approved(LifeOf(r), u)
         /\ LifeOf([Rejected(r, u) EXCEPT !.ver = n]) = Rejected(LifeOf(r), u)
         /\ LifeOf([Paid(r, u) EXCEPT !.ver = n]) = Paid(LifeOf(r), u)
         /\ LifeOf([r EXCEPT !.ver = n]) = LifeOf(r)
         /\ LifeOf([r EXCEPT !.total = t, !.ver = n]) = LifeOf(r)
         /\ LifeOf([r EXCEPT !.deleted = TRUE, !.ver = n]) = [LifeOf(r) EXCEPT !.deleted = TRUE]
<1> DEFINE l == LifeOf(r)
<1>1. /\ l \in LC!LifeRow /\ l.status = r.status /\ l.owner = r.owner /\ l.ref = r.ref
      /\ l.submittedBy = r.submittedBy /\ l.approvedBy = r.approvedBy
      /\ l.rejectedBy = r.rejectedBy /\ l.paidBy = r.paidBy /\ l.deleted = r.deleted
  BY SameDomain DEF LifeOf, ReportRow
<1> HIDE DEF l
<1>2. LifeOf([Submitted(r, u) EXCEPT !.ver = n]) = Submitted(LifeOf(r), u)
  <2> DEFINE x == [Submitted(r, u) EXCEPT !.ver = n]
             s == Submitted(l, u)
  <2>1. /\ x \in ReportRow /\ x.status = "submitted" /\ x.submittedBy = u
        /\ x.owner = r.owner /\ x.ref = r.ref /\ x.approvedBy = r.approvedBy
        /\ x.rejectedBy = r.rejectedBy /\ x.paidBy = r.paidBy /\ x.deleted = r.deleted
    BY DEF Submitted, ReportRow, Statuses
  <2>2. /\ s \in LC!LifeRow /\ s.status = "submitted" /\ s.submittedBy = u
        /\ s.owner = l.owner /\ s.ref = l.ref /\ s.approvedBy = l.approvedBy
        /\ s.rejectedBy = l.rejectedBy /\ s.paidBy = l.paidBy /\ s.deleted = l.deleted
    BY <1>1, SameDomain DEF Submitted, Statuses
  <2> HIDE DEF x, s
  <2>3. LifeOf(x) = s
    BY <1>1, <2>1, <2>2, LifeOfFields
  <2> QED BY <2>3 DEF x, s, l
<1>3. LifeOf([Approved(r, u) EXCEPT !.ver = n]) = Approved(LifeOf(r), u)
  <2> DEFINE x == [Approved(r, u) EXCEPT !.ver = n]
             s == Approved(l, u)
  <2>1. /\ x \in ReportRow /\ x.status = "approved" /\ x.approvedBy = u
        /\ x.owner = r.owner /\ x.ref = r.ref /\ x.submittedBy = r.submittedBy
        /\ x.rejectedBy = r.rejectedBy /\ x.paidBy = r.paidBy /\ x.deleted = r.deleted
    BY DEF Approved, ReportRow, Statuses
  <2>2. /\ s \in LC!LifeRow /\ s.status = "approved" /\ s.approvedBy = u
        /\ s.owner = l.owner /\ s.ref = l.ref /\ s.submittedBy = l.submittedBy
        /\ s.rejectedBy = l.rejectedBy /\ s.paidBy = l.paidBy /\ s.deleted = l.deleted
    BY <1>1, SameDomain DEF Approved, Statuses
  <2> HIDE DEF x, s
  <2>3. LifeOf(x) = s
    BY <1>1, <2>1, <2>2, LifeOfFields
  <2> QED BY <2>3 DEF x, s, l
<1>4. LifeOf([Rejected(r, u) EXCEPT !.ver = n]) = Rejected(LifeOf(r), u)
  <2> DEFINE x == [Rejected(r, u) EXCEPT !.ver = n]
             s == Rejected(l, u)
  <2>1. /\ x \in ReportRow /\ x.status = "rejected" /\ x.rejectedBy = u
        /\ x.owner = r.owner /\ x.ref = r.ref /\ x.submittedBy = r.submittedBy
        /\ x.approvedBy = r.approvedBy /\ x.paidBy = r.paidBy /\ x.deleted = r.deleted
    BY DEF Rejected, ReportRow, Statuses
  <2>2. /\ s \in LC!LifeRow /\ s.status = "rejected" /\ s.rejectedBy = u
        /\ s.owner = l.owner /\ s.ref = l.ref /\ s.submittedBy = l.submittedBy
        /\ s.approvedBy = l.approvedBy /\ s.paidBy = l.paidBy /\ s.deleted = l.deleted
    BY <1>1, SameDomain DEF Rejected, Statuses
  <2> HIDE DEF x, s
  <2>3. LifeOf(x) = s
    BY <1>1, <2>1, <2>2, LifeOfFields
  <2> QED BY <2>3 DEF x, s, l
<1>5. LifeOf([Paid(r, u) EXCEPT !.ver = n]) = Paid(LifeOf(r), u)
  <2> DEFINE x == [Paid(r, u) EXCEPT !.ver = n]
             s == Paid(l, u)
  <2>1. /\ x \in ReportRow /\ x.status = "paid" /\ x.paidBy = u
        /\ x.owner = r.owner /\ x.ref = r.ref /\ x.submittedBy = r.submittedBy
        /\ x.approvedBy = r.approvedBy /\ x.rejectedBy = r.rejectedBy /\ x.deleted = r.deleted
    BY DEF Paid, ReportRow, Statuses
  <2>2. /\ s \in LC!LifeRow /\ s.status = "paid" /\ s.paidBy = u
        /\ s.owner = l.owner /\ s.ref = l.ref /\ s.submittedBy = l.submittedBy
        /\ s.approvedBy = l.approvedBy /\ s.rejectedBy = l.rejectedBy /\ s.deleted = l.deleted
    BY <1>1, SameDomain DEF Paid, Statuses
  <2> HIDE DEF x, s
  <2>3. LifeOf(x) = s
    BY <1>1, <2>1, <2>2, LifeOfFields
  <2> QED BY <2>3 DEF x, s, l
<1>6. LifeOf([r EXCEPT !.ver = n]) = LifeOf(r) /\ LifeOf([r EXCEPT !.total = t, !.ver = n]) = LifeOf(r)
  BY DEF LifeOf, ReportRow
<1>7. LifeOf([r EXCEPT !.deleted = TRUE, !.ver = n]) = [LifeOf(r) EXCEPT !.deleted = TRUE]
  <2> DEFINE x == [r EXCEPT !.deleted = TRUE, !.ver = n]
             s == [l EXCEPT !.deleted = TRUE]
  <2>1. /\ x \in ReportRow /\ x.status = r.status /\ x.deleted = TRUE /\ x.owner = r.owner
        /\ x.ref = r.ref /\ x.submittedBy = r.submittedBy /\ x.approvedBy = r.approvedBy
        /\ x.rejectedBy = r.rejectedBy /\ x.paidBy = r.paidBy
    BY DEF ReportRow
  <2>2. /\ s \in LC!LifeRow /\ s.status = l.status /\ s.deleted = TRUE /\ s.owner = l.owner
        /\ s.ref = l.ref /\ s.submittedBy = l.submittedBy /\ s.approvedBy = l.approvedBy
        /\ s.rejectedBy = l.rejectedBy /\ s.paidBy = l.paidBy
    BY <1>1, SameDomain
  <2> HIDE DEF x, s
  <2>3. LifeOf(x) = s
    BY <1>1, <2>1, <2>2, LifeOfFields
  <2> QED BY <2>3 DEF x, s, l
<1> QED BY <1>2, <1>3, <1>4, <1>5, <1>6, <1>7 DEF l

(* A COMMIT is one transition of the life cycle, or none: an edit of the   *)
(* header or of the items leaves the workflow columns alone.               *)
LEMMA CommitRefines ==
  ASSUME Core, NEW w \in Workers, Commit(w), Wrote(w)
  PROVE  LC!LifeNext \/ Committed' = Committed
<1> DEFINE r == Rep(w)
           u == User(w)
           old == reports[Rep(w)]
<1>1. /\ r \in Reports /\ u \in Users /\ old \in ReportRow /\ reports \in [Reports -> ReportRow]
      /\ reports' = [reports EXCEPT ![r] = pend[w]] /\ pc[w] = "commit" /\ Busy(w)
      /\ req[w].op \in Ops \ {"get"} /\ RoleAllows(req[w].op, u) /\ req[w].ref \in ReportOrNull
      /\ u \in UserOrNull /\ stamp[w] \in Nat /\ sum[w] \in Sums
  BY Published DEF Core, Shape, WorkerShape, Busy, TypeOK, Request, UserOrNull
<1>2. Committed' = [Committed EXCEPT ![r] = LifeOf(pend[w])]
  BY <1>1 DEF Committed
<1>3. Committed[r] = LifeOf(old)
  BY <1>1 DEF Committed
<1>4. /\ LifeOf(old).status = old.status /\ LifeOf(old).owner = old.owner
      /\ LifeOf(old).deleted = old.deleted
  BY DEF LifeOf
<1> DEFINE n == stamp[w]
<1>v. ASSUME req[w].op \in VersionedOps
      PROVE  /\ ~old.deleted /\ old.status # "none" /\ Passes(w, old)
             /\ TenantOf[old.owner] = TenantOf[u]
             /\ req[w].op = "submit" => CanSubmit(old, TRUE, HasApprover(TenantOf[u]))
             /\ pend[w] = [Entity(w) EXCEPT !.ver = n] /\ row[w] = old
  BY <1>1, <1>v, CheckedRow
<1>t. /\ LifeOf([Submitted(old, u) EXCEPT !.ver = n]) = Submitted(LifeOf(old), u)
      /\ LifeOf([Approved(old, u) EXCEPT !.ver = n]) = Approved(LifeOf(old), u)
      /\ LifeOf([Rejected(old, u) EXCEPT !.ver = n]) = Rejected(LifeOf(old), u)
      /\ LifeOf([Paid(old, u) EXCEPT !.ver = n]) = Paid(LifeOf(old), u)
      /\ LifeOf([old EXCEPT !.ver = n]) = LifeOf(old)
      /\ LifeOf([old EXCEPT !.total = sum[w], !.ver = n]) = LifeOf(old)
      /\ LifeOf([old EXCEPT !.deleted = TRUE, !.ver = n]) = [LifeOf(old) EXCEPT !.deleted = TRUE]
  <2>1. old \in ReportRow /\ u \in UserOrNull /\ n \in Nat /\ sum[w] \in Sums
    BY <1>1
  <2> QED BY <2>1, LifeOfTransitions, Zenon
<1>5. CASE req[w].op = "submit"
  <2>1. LifeOf(pend[w]) = Submitted(LifeOf(old), u)
    <3>1. Entity(w) = Submitted(old, u)
      BY <1>v, <1>5 DEF Entity, VersionedOps
    <3> QED BY <1>v, <1>5, <1>t, <3>1 DEF VersionedOps
  <2>2. LC!Submit(r, u)
    BY <1>2, <1>3, <1>4, <1>v, <1>5, <2>1, SameDomain
       DEF Committed, LC!Submit, LC!Present, VersionedOps, Passes, CanModifyReport, CanSubmit,
           IsDraft, HasApprover, LC!CanModifyReport, LC!CanSubmit, LC!IsDraft, LC!HasApprover
  <2> QED BY <1>1, <2>2 DEF LC!LifeNext
<1>6. CASE req[w].op = "approve"
  <2>1. LifeOf(pend[w]) = Approved(LifeOf(old), u)
    <3>1. Entity(w) = Approved(old, u)
      BY <1>v, <1>6 DEF Entity, VersionedOps
    <3> QED BY <1>v, <1>6, <1>t, <3>1 DEF VersionedOps
  <2>2. LC!Approve(r, u)
    BY <1>1, <1>2, <1>3, <1>4, <1>v, <1>6, <2>1, SameDomain
       DEF Committed, LC!Approve, LC!Present, LC!SameTenant, VersionedOps, Passes, CanApprove,
           LC!CanApprove, RoleAllows, LC!RoleAllows
  <2> QED BY <1>1, <2>2 DEF LC!LifeNext
<1>7. CASE req[w].op = "reject"
  <2>1. LifeOf(pend[w]) = Rejected(LifeOf(old), u)
    <3>1. Entity(w) = Rejected(old, u)
      BY <1>v, <1>7 DEF Entity, VersionedOps
    <3> QED BY <1>v, <1>7, <1>t, <3>1 DEF VersionedOps
  <2>2. LC!Reject(r, u)
    BY <1>1, <1>2, <1>3, <1>4, <1>v, <1>7, <2>1, SameDomain
       DEF Committed, LC!Reject, LC!Present, LC!SameTenant, VersionedOps, Passes, CanReject,
           LC!CanReject, RoleAllows, LC!RoleAllows
  <2> QED BY <1>1, <2>2 DEF LC!LifeNext
<1>8. CASE req[w].op = "pay"
  <2>1. LifeOf(pend[w]) = Paid(LifeOf(old), u)
    <3>1. Entity(w) = Paid(old, u)
      BY <1>v, <1>8 DEF Entity, VersionedOps
    <3> QED BY <1>v, <1>8, <1>t, <3>1 DEF VersionedOps
  <2>2. LC!Pay(r, u)
    BY <1>1, <1>2, <1>3, <1>4, <1>v, <1>8, <2>1, SameDomain
       DEF Committed, LC!Pay, LC!Present, LC!SameTenant, VersionedOps, Passes, CanPay,
           LC!CanPay, RoleAllows, LC!RoleAllows
  <2> QED BY <1>1, <2>2 DEF LC!LifeNext
<1>s. ASSUME LifeOf(pend[w]) = LifeOf(old) PROVE Committed' = Committed
  BY <1>1, <1>2, <1>3, <1>s DEF Committed
<1>9. CASE req[w].op = "update"
  <2>1. LifeOf(pend[w]) = LifeOf(old)
    <3>1. Entity(w) = old
      BY <1>v, <1>9 DEF Entity, VersionedOps
    <3> QED BY <1>v, <1>9, <1>t, <3>1 DEF VersionedOps
  <2> QED BY <1>s, <2>1
<1>10. CASE req[w].op \in ItemOps
  <2>1. pend[w] = [old EXCEPT !.total = sum[w], !.ver = n]
    BY <1>1, <1>10 DEF Core, StagedRows, StagedRow
  <2>2. LifeOf(pend[w]) = LifeOf(old)
    BY <1>t, <2>1
  <2> QED BY <1>s, <2>2
<1>11. CASE req[w].op = "delete"
  <2>1. /\ pend[w] = [old EXCEPT !.deleted = TRUE, !.ver = n] /\ ~old.deleted
        /\ old.status # "none" /\ u = old.owner
    BY <1>1, <1>11 DEF Core, StagedRows, StagedRow, LoadedRows, LoadedRow, Passes, CanModifyReport
  <2>2. LifeOf(pend[w]) = [LifeOf(old) EXCEPT !.deleted = TRUE]
    BY <1>t, <2>1
  <2>3. LC!Delete(r, u)
    BY <1>1, <1>2, <1>3, <1>4, <2>1, <2>2, SameDomain
       DEF Committed, LC!Delete, LC!Present, CanModifyReport, LC!CanModifyReport
  <2> QED BY <1>1, <2>3 DEF LC!LifeNext
<1>12. CASE req[w].op = "create"
  <2>1. /\ pend[w] = [NewReport(u, req[w].ref) EXCEPT !.total = pend[w].total, !.ver = n]
        /\ old.status = "none"
        /\ req[w].ref # Null => /\ reports[req[w].ref].status = "rejected"
                                /\ reports[req[w].ref].owner = u
    BY <1>1, <1>12 DEF Core, StagedRows, StagedRow, LoadedRows, LoadedRow
  <2>2. LifeOf(pend[w]) = LifeOf(NewReport(u, req[w].ref))
    BY <2>1 DEF LifeOf, NewReport, NoRow
  <2>3. LC!Create(r, u, req[w].ref)
    <3>1. req[w].ref # Null =>
            /\ req[w].ref \in Reports
            /\ Committed[req[w].ref].status = "rejected" /\ Committed[req[w].ref].owner = u
      BY <1>1, <2>1 DEF Committed, LifeOf, ReportOrNull
    <3> QED BY <1>1, <1>2, <1>3, <1>4, <2>1, <2>2, <3>1, SameDomain DEF Committed, LC!Create
  <2> QED BY <1>1, <2>3, SameDomain DEF LC!LifeNext
<1> QED
  BY <1>1, <1>5, <1>6, <1>7, <1>8, <1>9, <1>10, <1>11, <1>12 DEF Ops, VersionedOps

(* Every step of every handler, COMMIT or not, is allowed by Workflow.     *)
LEMMA StepRefines ==
  ASSUME Core, NEW w \in Workers, AnyStep(w)
  PROVE  LC!LifeNext \/ Committed' = Committed
<1>0. Shape
  BY DEF Core
<1>1. ASSUME reports' = reports PROVE Committed' = Committed
  BY <1>1 DEF Committed
<1>2. CASE Commit(w)
  BY <1>1, <1>2, CommitRefines, Published
<1>3. CASE ~Commit(w)
  <2>1. reports' = reports
    BY <1>0, <1>3, StepKinds, GetEffect, OpenEffect, LoadEffect, Middle, EndEffect DEF Shape
  <2> QED BY <1>1, <2>1
<1> QED BY <1>2, <1>3

(* The seeded tables are an initial state of the life cycle.               *)
LEMMA RefinedInit == Init => LC!LifeInit
<1> SUFFICES ASSUME Init PROVE LC!LifeInit
  OBVIOUS
<1>1. Core
  BY CoreInit
<1>2. ASSUME NEW r \in Reports
      PROVE  /\ LifeOf(reports[r]) \in LC!LifeRow
             /\ \/ LifeOf(reports[r]) = LifeOf(NoRow)
                \/ \E u \in Users : LifeOf(reports[r]) = LifeOf(NewReport(u, Null))
  <2>1. reports[r] \in ReportRow
    BY <1>1 DEF Core, Shape, TypeOK
  <2>2. LifeOf(reports[r]) \in LC!LifeRow
    BY <2>1, SameDomain DEF LifeOf, ReportRow
  <2>3. CASE SeedOwner[r] = Null
    BY <2>2, <2>3 DEF Init
  <2>4. CASE SeedOwner[r] # Null
    <3>1. SeedOwner[r] \in Users
      BY <2>4, TxAssumption DEF UserOrNull
    <3>2. LifeOf(reports[r]) = LifeOf(NewReport(SeedOwner[r], Null))
      BY <2>4 DEF Init, LifeOf, NewReport, NoRow
    <3> QED BY <2>2, <3>1, <3>2
  <2> QED BY <2>3, <2>4
<1> QED BY <1>2, SameDomain DEF LC!LifeInit, LC!LifeTypeOK

(* Every step, a stuttering one included, is a step of the life cycle.     *)
LEMMA RefinedNext == Core /\ [Next]_vars => [LC!LifeNext]_Committed
<1>1. UNCHANGED vars => Committed' = Committed
  BY DEF vars, Committed
<1> QED BY <1>1, StepRefines DEF Next, AnyStep

(* Statement by statement, under any interleaving of requests, crashes and *)
(* refusals, the committed workflow columns move as in Workflow, where     *)
(* each transition is a single step.                                       *)
THEOREM Refinement == Spec => LifeCycle
  BY RefinedInit, RefinedNext, CoreInvariant, PTL DEF Spec, LifeCycle, LC!LifeSpec, Committed

-----------------------------------------------------------------------------
(* What is proved of Workflow, for the committed tables.                   *)

LCP == INSTANCE WorkflowProofs WITH life <- Committed

(* Workflow and the module of its proofs speak of the same specification.  *)
LEMMA SameWorkflow ==
  /\ LC!LifeInit => LCP!LifeInit
  /\ [LC!LifeNext]_Committed => [LCP!LifeNext]_Committed
<1>1. ASSUME NEW r, NEW u, NEW f, LC!Create(r, u, f) PROVE LCP!Create(r, u, f)
  BY <1>1 DEF LC!Create, LCP!Create, LC!ReportOrNull, LCP!ReportOrNull, LC!LifeOf, LCP!LifeOf,
     LC!NewReport, LCP!NewReport, LC!NoRow, LCP!NoRow, LC!NoSum, LCP!NoSum, Committed
<1>2. ASSUME NEW r, NEW u, LC!Submit(r, u) PROVE LCP!Submit(r, u)
  BY <1>2 DEF LC!Submit, LCP!Submit, LC!Present, LCP!Present, LC!CanModifyReport,
     LCP!CanModifyReport, LC!CanSubmit, LCP!CanSubmit, LC!IsDraft, LCP!IsDraft,
     LC!HasApprover, LCP!HasApprover, LC!Submitted, LCP!Submitted, Committed
<1>3. ASSUME NEW r, NEW u, LC!Approve(r, u) PROVE LCP!Approve(r, u)
  BY <1>3 DEF LC!Approve, LCP!Approve, LC!Present, LCP!Present, LC!SameTenant, LCP!SameTenant,
     LC!RoleAllows, LCP!RoleAllows, LC!CanApprove, LCP!CanApprove, LC!Approved,
     LCP!Approved, Committed
<1>4. ASSUME NEW r, NEW u, LC!Reject(r, u) PROVE LCP!Reject(r, u)
  BY <1>4 DEF LC!Reject, LCP!Reject, LC!Present, LCP!Present, LC!SameTenant, LCP!SameTenant,
     LC!RoleAllows, LCP!RoleAllows, LC!CanReject, LCP!CanReject, LC!Rejected, LCP!Rejected,
     Committed
<1>5. ASSUME NEW r, NEW u, LC!Pay(r, u) PROVE LCP!Pay(r, u)
  BY <1>5 DEF LC!Pay, LCP!Pay, LC!Present, LCP!Present, LC!SameTenant, LCP!SameTenant,
     LC!RoleAllows, LCP!RoleAllows, LC!CanPay, LCP!CanPay, LC!Paid, LCP!Paid, Committed
<1>6. ASSUME NEW r, NEW u, LC!Delete(r, u) PROVE LCP!Delete(r, u)
  BY <1>6 DEF LC!Delete, LCP!Delete, LC!Present, LCP!Present, LC!CanModifyReport,
     LCP!CanModifyReport, Committed
<1>7. LC!LifeNext => LCP!LifeNext
  <2>1. LC!ReportOrNull = LCP!ReportOrNull
    BY DEF LC!ReportOrNull, LCP!ReportOrNull
  <2> QED BY <1>1, <1>2, <1>3, <1>4, <1>5, <1>6, <2>1 DEF LC!LifeNext, LCP!LifeNext
<1>8. LC!LifeInit => LCP!LifeInit
  <2>1. /\ LC!LifeRow = LCP!LifeRow /\ LC!LifeOf(LC!NoRow) = LCP!LifeOf(LCP!NoRow)
        /\ \A u : LC!LifeOf(LC!NewReport(u, Null)) = LCP!LifeOf(LCP!NewReport(u, Null))
    BY DEF LC!LifeRow, LCP!LifeRow, LC!LifeOf, LCP!LifeOf, LC!NoRow, LCP!NoRow, LC!NewReport,
       LCP!NewReport, LC!NoSum, LCP!NoSum, LC!Statuses, LCP!Statuses, LC!UserOrNull,
       LCP!UserOrNull, LC!ReportOrNull, LCP!ReportOrNull
  <2> QED BY <2>1 DEF LC!LifeInit, LCP!LifeInit, LC!LifeTypeOK, LCP!LifeTypeOK, Committed
<1> QED BY <1>7, <1>8

(* The committed tables satisfy the abstract life cycle.                   *)
LEMMA AbstractLife == Spec => LCP!LifeSpec
<1>1. Init => LCP!LifeInit
  BY SameWorkflow, RefinedInit
<1>2. Core /\ [Next]_vars => [LCP!LifeNext]_Committed
  BY SameWorkflow, RefinedNext
<1> QED BY <1>1, <1>2, CoreInvariant, PTL DEF Spec, LCP!LifeSpec

(* The tables never show a report that was submitted by someone else than  *)
(* its owner, decided by its owner, by a user of another tenant or without *)
(* the approver's role, or paid before an approval, by its owner or without*)
(* the accountant's role (RBC-012, RBC-016), however requests interleave.  *)
THEOREM SegregationHolds == Spec => []SegregationOfDuties
<1>1. LCP!LifeSpec =>
        [](LCP!SegregationOfDuties /\ LCP!DecidedOnce /\ LCP!ResubmissionOfRejected)
  BY LCP!LifeSafety, DomainAssumption DEF LCP!Roles, Roles
<1>2. LCP!SegregationOfDuties => SegregationOfDuties
  BY DEF SegregationOfDuties, LC!SegregationOfDuties, LCP!SegregationOfDuties, LC!DecidedBy,
     LCP!DecidedBy, LC!SameTenant, LCP!SameTenant, Committed
<1> QED BY <1>1, <1>2, AbstractLife, PTL

(* Of racing decisions on a report one takes effect: approved_by and       *)
(* rejected_by are never both set, and agree with the status               *)
(* (workflow_service.go:112).                                              *)
THEOREM DecidedOnceHolds == Spec => []DecidedOnce
<1>1. LCP!LifeSpec =>
        [](LCP!SegregationOfDuties /\ LCP!DecidedOnce /\ LCP!ResubmissionOfRejected)
  BY LCP!LifeSafety, DomainAssumption DEF LCP!Roles, Roles
<1>2. LCP!DecidedOnce => DecidedOnce
  BY DEF DecidedOnce, LC!DecidedOnce, LCP!DecidedOnce, Committed
<1> QED BY <1>1, <1>2, AbstractLife, PTL

(* A resubmission refers to a report that is and stays rejected, although  *)
(* nothing locks it while its items are copied (report_service.go:49-61).  *)
THEOREM ResubmissionHolds == Spec => []ResubmissionOfRejected
<1>1. LCP!LifeSpec =>
        [](LCP!SegregationOfDuties /\ LCP!DecidedOnce /\ LCP!ResubmissionOfRejected)
  BY LCP!LifeSafety, DomainAssumption DEF LCP!Roles, Roles
<1>2. LCP!ResubmissionOfRejected => ResubmissionOfRejected
  BY DEF ResubmissionOfRejected, LC!ResubmissionOfRejected, LCP!ResubmissionOfRejected, Committed
<1> QED BY <1>1, <1>2, AbstractLife, PTL

(* Who submitted, decided and paid a report is never rewritten, and a      *)
(* deleted report never moves again (the WHERE clauses of                  *)
(* UpdateReportStatus and SoftDeleteReport).                               *)
THEOREM HistoryHolds == Spec => HistoryIsFinal
<1>1. LCP!LifeSpec => LCP!HistoryIsFinal
  BY LCP!LifeHistoryIsFinal, DomainAssumption DEF LCP!Roles, Roles
<1> QED BY <1>1, AbstractLife, PTL DEF HistoryIsFinal, LC!HistoryIsFinal, LCP!HistoryIsFinal, Committed

-----------------------------------------------------------------------------
(* The items of a report and the version they are read under: the second   *)
(* half of the inductive invariant of ReportTx, and the properties that    *)
(* relate a decision or an edit to what its author was shown.              *)

(* A newly staged item row was free, belongs to the report of the request  *)
(* that staged it, and replaces none of another report.                    *)
LEMMA HeldStep ==
  ASSUME Shape, NEW w \in Workers, AnyStep(w), NEW i \in Items, Held(w, i)'
  PROVE  /\ items' = items /\ req'[w] = req[w] /\ Busy(w)
         /\ \/ Held(w, i) /\ ipend'[w][i] = ipend[w][i]
            \/ /\ ItemFree(w, i)
               /\ ipend'[w][i].rep = Rep(w)
               /\ items[i].state # "none" => items[i].rep = Rep(w)
               /\ req[w].op \in ItemOps \cup {"delete", "create"}
<1>0. /\ ipend \in [Workers -> [Items -> ItemRow]] /\ pc \in [Workers -> Labels]
      /\ req \in [Workers -> Request] /\ ipend[w] \in [Items -> ItemRow]
      /\ NoItem.state = "none" /\ WorkerShape(w)
  BY DEF Shape, TypeOK, NoItem
<1>1. CASE BeginGet(w)
  BY <1>0, <1>1 DEF BeginGet, Held, WorkerShape, Busy, NoWrites
<1>2. ASSUME NEW q, Open(w, q) PROVE FALSE
  BY <1>0, <1>2 DEF Open, Held, WorkerShape, Busy, NoWrites
<1>3. CASE Load(w) \/ CheckSubmit(w) \/ FindItem(w) \/ SumItems(w)
  BY <1>0, <1>3 DEF Load, CheckSubmit, FindItem, SumItems, Held, Busy
<1>4. CASE Cas(w) \/ WriteTotal(w) \/ DeleteRow(w)
  BY <1>0, <1>4 DEF Cas, WriteTotal, DeleteRow, Held, Busy
<1>5. CASE Respond(w) \/ Commit(w) \/ Drops(w)
  <2>1. Reset(w)
    BY <1>5 DEF Respond, Commit, Drops, Refuse, Fail
  <2> QED BY <1>0, <2>1, ResetShape DEF Held, NoWrites
<1>s. ASSUME NEW j \in Items, NEW it, Stage(w, j, it)
      PROVE  /\ items' = items /\ req' = req
             /\ ipend'[w][i] = IF i = j THEN it ELSE NoItem
  BY <1>0, <1>s DEF Stage, NoWrites
<1>6. CASE InsertItem(w)
  <2> PICK j \in Items : /\ FreshItem(j)
                         /\ Stage(w, j, [state |-> "live", rep |-> Rep(w),
                                         amt |-> req[w].amt, ver |-> stamp[w]])
    BY <1>6 DEF InsertItem
  <2>1. i = j /\ items' = items /\ req' = req /\ ipend'[w][i].rep = Rep(w)
    BY <1>0, <1>s DEF Held
  <2> QED BY <1>6, <2>1 DEF InsertItem, FreshItem, ItemFree, ItemOps, Busy
<1>7. CASE UpdateItem(w)
  <2> DEFINE j == req[w].item
             it == [items[j] EXCEPT !.amt = req[w].amt, !.ver = stamp[w]]
  <2>1. j \in Items /\ items[j] \in ItemRow /\ Stage(w, j, it) /\ ItemFree(w, j) /\ Shown(j, Rep(w))
    BY <1>0, <1>7 DEF UpdateItem, ItemMatches, WorkerShape, Busy, Shape, TypeOK
  <2>2. it.rep = items[j].rep
    BY <2>1 DEF ItemRow
  <2> HIDE DEF it
  <2>3. i = j /\ items' = items /\ req' = req /\ ipend'[w][i] = it
    BY <1>0, <1>s, <2>1 DEF Held
  <2> QED BY <1>7, <2>1, <2>2, <2>3 DEF UpdateItem, Shown, ItemOps, Busy
<1>8. CASE DeleteItem(w)
  <2> DEFINE j == req[w].item
             it == [items[j] EXCEPT !.state = "deleted", !.ver = stamp[w]]
  <2>1. CASE ~Shown(j, Rep(w))
    BY <1>0, <1>8, <2>1 DEF DeleteItem, Held, Busy
  <2>2. CASE Shown(j, Rep(w))
    <3>1. j \in Items /\ items[j] \in ItemRow /\ Stage(w, j, it) /\ ItemFree(w, j)
      BY <1>0, <1>8, <2>2 DEF DeleteItem, WorkerShape, Busy, Shape, TypeOK
    <3>2. it.rep = items[j].rep
      BY <3>1 DEF ItemRow
    <3> HIDE DEF it
    <3>3. i = j /\ items' = items /\ req' = req /\ ipend'[w][i] = it
      BY <1>0, <1>s, <3>1 DEF Held
    <3> QED BY <1>8, <2>2, <3>1, <3>2, <3>3 DEF DeleteItem, Shown, ItemOps, Busy
  <2> QED BY <2>1, <2>2
<1>9. CASE Cascade(w)
  <2>1. Shown(i, Rep(w)) /\ ipend'[w][i] = [items[i] EXCEPT !.state = "deleted", !.ver = stamp[w]]
    BY <1>0, <1>9 DEF Cascade, Held
  <2>2. ItemFree(w, i) /\ items' = items /\ req' = req /\ Busy(w) /\ req[w].op = "delete"
    BY <1>0, <1>9, <2>1 DEF Cascade, WorkerShape, Busy
  <2>3. items[i] \in ItemRow
    BY DEF Shape, TypeOK
  <2>4. ipend'[w][i].rep = items[i].rep
    BY <2>1, <2>3 DEF ItemRow
  <2> QED BY <2>1, <2>2, <2>4 DEF Shown
<1>10. CASE InsertReport(w)
  <2> PICK g \in Copies(req[w].ref, {j \in Items : FreshItem(j)}) :
        ipend' = [ipend EXCEPT ![w] = [j \in Items |-> CopyOf(w, g, j)]]
    BY <1>10 DEF InsertReport
  <2>1. ipend'[w][i] = CopyOf(w, g, i)
    BY <1>0
  <2>2. \E j \in DOMAIN g : g[j] = i
    BY <1>0, <2>1 DEF Held, CopyOf
  <2>3. FreshItem(i) /\ ipend'[w][i].rep = Rep(w)
    BY <2>1, <2>2 DEF Copies, CopyOf
  <2>4. items' = items /\ req' = req /\ Busy(w) /\ req[w].op = "create"
    BY <1>0, <1>10 DEF InsertReport, WorkerShape, Busy
  <2> QED BY <2>3, <2>4 DEF FreshItem, ItemFree
<1> QED
  BY <1>1, <1>2, <1>3, <1>4, <1>5, <1>6, <1>7, <1>8, <1>9, <1>10, StepKinds
     DEF Shape, Inner, Writes

(* A COMMIT publishes the staged items and no others.                      *)
LEMMA ItemsCommit ==
  ASSUME Shape, NEW w \in Workers, Commit(w), NEW i \in Items
  PROVE  items'[i] = IF Held(w, i) THEN ipend[w][i] ELSE items[i]
  BY DEF Commit, ItemAs, Held

(* Only a COMMIT changes items.                                            *)
LEMMA ItemsKept ==
  ASSUME Shape, NEW w \in Workers, AnyStep(w), ~Commit(w)
  PROVE  items' = items
  BY StepKinds, GetEffect, OpenEffect, LoadEffect, Middle, EndEffect DEF Shape

(* A COMMIT leaves the item rows of other reports alone.                   *)
LEMMA ItemsFrame ==
  ASSUME Shape, StagedItems, NEW w \in Workers, Commit(w), NEW r \in Reports, r # Rep(w),
         NEW i \in Items
  PROVE  (Shown(i, r)' <=> Shown(i, r)) /\ (Shown(i, r) => items'[i] = items[i])
<1>1. CASE Held(w, i)
  <2>1. items'[i].rep # r /\ ~(items[i].state = "live" /\ items[i].rep = r)
    BY <1>1, ItemsCommit DEF StagedItems
  <2> QED BY <2>1 DEF Shown
<1>2. CASE ~Held(w, i)
  BY <1>2, ItemsCommit DEF Shown
<1> QED BY <1>1, <1>2

(* A COMMIT leaves the contents of other reports alone.                    *)
LEMMA ContentsFrame ==
  ASSUME Shape, StagedItems, NEW w \in Workers, Commit(w), NEW r \in Reports, r # Rep(w)
  PROVE  Contents(r)' = Contents(r) /\ (Empty(r)' <=> Empty(r))
<1>1. Contents(r)' = Contents(r)
  BY ItemsFrame DEF Contents
<1>2. Empty(r)' <=> Empty(r)
  BY ItemsFrame DEF Empty
<1> QED BY <1>1, <1>2

(* One open transaction at a time has written an item.                     *)
LEMMA ItemLocksStep ==
  ASSUME Shape, ItemLocks, NEW w \in Workers, AnyStep(w)
  PROVE  ItemLocks'
<1> SUFFICES ASSUME NEW u \in Workers, NEW v \in Workers, NEW i \in Items, Held(u, i)', Held(v, i)'
             PROVE  u = v
  BY DEF ItemLocks
<1>1. \A x \in Workers \ {w} : Held(x, i)' <=> Held(x, i)
  BY Frame DEF Shape, Untouched, Held
<1>2. ASSUME NEW x \in Workers \ {w}, Held(x, i), Held(w, i)' PROVE FALSE
  <2>1. Held(w, i) \/ ItemFree(w, i)
    BY <1>2, HeldStep
  <2> QED BY <1>2, <2>1 DEF ItemLocks, ItemFree, Held
<1>3. CASE u = w \/ v = w
  BY <1>1, <1>2, <1>3
<1>4. CASE u # w /\ v # w
  BY <1>1, <1>4 DEF ItemLocks
<1> QED BY <1>3, <1>4

(* Items are staged for the report of the request, and stay where they are *)
(* until the transaction that staged them ends.                            *)
LEMMA StagedItemsStep ==
  ASSUME Shape, ItemLocks, StagedItems, NEW w \in Workers, AnyStep(w)
  PROVE  StagedItems'
<1> SUFFICES ASSUME NEW v \in Workers, NEW i \in Items, Held(v, i)'
             PROVE  /\ ipend'[v][i].rep = Rep(v)'
                    /\ items'[i].state # "none" => items'[i].rep = Rep(v)'
                    /\ req'[v].op = "create" \/ req'[v].op \in ItemOps \/ req'[v].op = "delete"
  BY DEF StagedItems
<1>1. CASE v = w
  BY <1>1, HeldStep DEF StagedItems, Rep
<1>2. CASE v # w
  <2>1. Held(v, i) /\ ipend'[v] = ipend[v] /\ req'[v] = req[v]
    BY <1>2, Frame DEF Shape, Untouched, Held
  <2>2. items'[i] = items[i]
    <3>1. CASE Commit(w)
      BY <1>2, <2>1, <3>1, ItemsCommit DEF ItemLocks
    <3> QED BY <3>1, ItemsKept
  <2> QED BY <2>1, <2>2 DEF StagedItems, Rep
<1> QED BY <1>1, <1>2

(* Only the deletion of a report that is already deleted commits without   *)
(* writing a report row.                                                   *)
LEMMA Unwritten ==
  ASSUME Core, NEW w \in Workers, pc[w] = "commit", ~Wrote(w)
  PROVE  reports[Rep(w)].deleted
<1>1. req[w].op = "delete" /\ StagedRow(w)
  BY DEF Core, StagedRows, StagedRow
<1>2. Busy(w) /\ reports[Rep(w)].status # "none" /\ reports[Rep(w)] \in ReportRow
  BY <1>1 DEF Core, Shape, WorkerShape, TypeOK, LoadedRows, LoadedRow, Busy
<1>3. pend[w] # [reports[Rep(w)] EXCEPT !.deleted = TRUE, !.ver = stamp[w]]
  BY <1>2 DEF Wrote, ReportRow
<1> QED BY <1>1, <1>3 DEF StagedRow

(* A version that a COMMIT leaves current still names the same items.      *)
LEMMA NamesKept ==
  ASSUME Core, StagedItems, NEW w \in Workers, Commit(w), NEW r \in Reports,
         NEW n, NEW c, n # stamp[w],
         n = reports[r].ver => c = Contents(r) /\ ~reports[r].deleted
  PROVE  n = reports'[r].ver => c = Contents(r)' /\ ~reports'[r].deleted
<1>0. Shape /\ pc[w] = "commit"
  BY DEF Core, Commit
<1>1. CASE r # Rep(w)
  BY <1>0, <1>1, ContentsFrame, Published
<1>2. CASE r = Rep(w) /\ Wrote(w)
  <2>1. reports'[r].ver = stamp[w]
    BY <1>0, <1>2, Published, Staged
  <2> QED BY <2>1
<1>3. CASE r = Rep(w) /\ ~Wrote(w)
  <2>1. reports' = reports /\ reports[r].deleted
    BY <1>0, <1>3, Published, Unwritten
  <2> QED BY <2>1
<1> QED BY <1>1, <1>2, <1>3

(* As long as a report keeps the version a client was shown, it keeps the  *)
(* items the client was shown with it.                                     *)
LEMMA ViewContentsStep ==
  ASSUME Core, StagedItems, ViewContents, NEW w \in Workers, AnyStep(w)
  PROVE  ViewContents'
<1>0. Shape /\ LoadedRows /\ FreshStamps
  BY DEF Core
<1>o. \A v \in Workers \ {w} : req'[v] = req[v] /\ (Busy(v)' <=> Busy(v))
  BY <1>0, Frame DEF Shape, Untouched, Busy
(* As long as neither tables nor views change, only a new request counts. *)
<1>s. ASSUME UNCHANGED <<reports, items, view>>,
             Busy(w)' /\ req'[w].op \in VersionedOps =>
               \/ Busy(w) /\ req'[w] = req[w]
               \/ \E u \in Users : req'[w].base = view[u][Rep(w)'] /\ Rep(w)' \in Reports
                                   /\ view[u][Rep(w)'].ver # 0
      PROVE  ViewContents'
  <2>1. \A r : Contents(r)' = Contents(r)
    BY <1>s DEF Contents, Shown
  <2>2. ASSUME NEW u \in Users, NEW r \in Reports, view'[u][r].ver # 0 PROVE Names(view[u][r], r)'
    BY <1>s, <2>1, <2>2 DEF ViewContents, Names
  <2>3. ASSUME NEW v \in Workers, Busy(v)', req'[v].op \in VersionedOps
        PROVE  req'[v].base.ver # 0 /\ Names(req[v].base, Rep(v))'
    BY <1>o, <1>s, <2>1, <2>3 DEF ViewContents, Names, Rep
  <2> QED BY <2>2, <2>3 DEF ViewContents
<1>1. CASE BeginGet(w)
  BY <1>0, <1>s, <1>1, GetEffect DEF VersionedOps
<1>2. ASSUME NEW q, Open(w, q), Offered(q) PROVE ViewContents'
  BY <1>0, <1>s, <1>2, OpenEffect DEF Offered
<1>3. CASE Load(w) \/ Inner(w) \/ Writes(w)
  <2>1. UNCHANGED <<reports, items, view, req>> /\ Busy(w)
    BY <1>0, <1>3, LoadEffect, Middle DEF Busy
  <2> QED BY <1>s, <2>1
<1>4. CASE Drops(w)
  <2>1. UNCHANGED <<reports, items, view>> /\ ~Busy(w)'
    BY <1>0, <1>4, EndEffect DEF Drops, Refuse, Fail, Busy
  <2> QED BY <1>s, <2>1
<1>5. CASE Respond(w)
  <2>1. UNCHANGED <<reports, items>> /\ ~Busy(w)' /\ pc[w] = "items" /\ req[w].op = "get"
    BY <1>0, <1>5, EndEffect DEF Respond, Busy
  <2>2. \A r : Contents(r)' = Contents(r)
    BY <2>1 DEF Contents, Shown
  <2>3. row[w].ver = reports[Rep(w)].ver => ~reports[Rep(w)].deleted
    BY <1>0, <2>1 DEF LoadedRows, LoadedRow, Busy
  <2>4. ASSUME NEW u \in Users, NEW r \in Reports, view'[u][r].ver # 0 PROVE Names(view[u][r], r)'
    <3>1. \/ view'[u][r] = view[u][r]
          \/ r = Rep(w) /\ view'[u][r] = [ver |-> row[w].ver, seen |-> Contents(Rep(w))]
      BY <1>0, <1>5 DEF Respond, Shape, TypeOK
    <3> QED BY <2>1, <2>2, <2>3, <2>4, <3>1 DEF ViewContents, Names
  <2>5. ASSUME NEW v \in Workers, Busy(v)', req'[v].op \in VersionedOps
        PROVE  req'[v].base.ver # 0 /\ Names(req[v].base, Rep(v))'
    <3>1. v # w
      BY <2>1, <2>5
    <3> QED BY <1>o, <2>1, <2>2, <2>5, <3>1 DEF ViewContents, Names, Rep
  <2> QED BY <2>4, <2>5 DEF ViewContents
<1>6. CASE Commit(w)
  <2>1. view' = view /\ ~Busy(w)' /\ FreshStamp(w)
    BY <1>0, <1>6, EndEffect DEF Commit, Busy, FreshStamps, Writer, Shape, WorkerShape
  <2>2. ASSUME NEW u \in Users, NEW r \in Reports, view'[u][r].ver # 0 PROVE Names(view[u][r], r)'
    <3>1. view[u][r].ver # stamp[w] /\ Names(view[u][r], r)
      BY <2>1, <2>2 DEF FreshStamp, ViewContents
    <3> QED BY <1>6, <2>1, <3>1, NamesKept DEF Names
  <2>3. ASSUME NEW v \in Workers, Busy(v)', req'[v].op \in VersionedOps
        PROVE  req'[v].base.ver # 0 /\ Names(req[v].base, Rep(v))'
    <3>1. v # w /\ req'[v] = req[v] /\ Busy(v) /\ Rep(v) \in Reports
      BY <1>0, <1>o, <2>1, <2>3 DEF Shape, WorkerShape
    <3>2. req[v].base.ver # 0 /\ req[v].base.ver # stamp[w] /\ Names(req[v].base, Rep(v))
      BY <2>1, <2>3, <3>1 DEF FreshStamp, ViewContents
    <3> QED BY <1>6, <3>1, <3>2, NamesKept DEF Names, Rep
  <2> QED BY <2>2, <2>3 DEF ViewContents
<1> QED BY <1>0, <1>1, <1>2, <1>3, <1>4, <1>5, <1>6, StepKinds DEF Shape

(* As long as the report keeps the version a submission loaded, it keeps   *)
(* the items the submission counted.                                       *)
LEMMA CountedItemsStep ==
  ASSUME Core, StagedItems, CountedItems, NEW w \in Workers, AnyStep(w)
  PROVE  CountedItems'
<1> SUFFICES ASSUME NEW v \in Workers, pc'[v] \in {"cas", "commit"}, req'[v].op = "submit",
                    row'[v].ver = reports'[Rep(v)'].ver
             PROVE  ~Empty(Rep(v))'
  BY DEF CountedItems
<1>0. Shape /\ FreshStamps
  BY DEF Core
<1>1. ASSUME pc[v] \in {"cas", "commit"}, UNCHANGED <<reports, items>>, req'[v] = req[v], row'[v] = row[v]
      PROVE  ~Empty(Rep(v))'
  BY <1>1 DEF CountedItems, Empty, Shown, Rep
<1>2. CASE v = w
  <2>1. CASE BeginGet(w) \/ (\E q : Open(w, q) /\ Offered(q)) \/ Load(w)
             \/ Respond(w) \/ Commit(w) \/ Drops(w)
    <3>1. pc'[w] \in {"cas", "commit"} => req'[w].op # "submit"
      BY <1>0, <2>1, GetEffect, OpenEffect, LoadEffect, EndEffect
    <3> QED BY <1>2, <3>1
  <2>2. CASE CheckSubmit(w)
    BY <1>2, <2>2 DEF CheckSubmit, SubmitOK, CanSubmit, Empty, Shown, Rep
  <2>3. CASE Inner(w) /\ ~CheckSubmit(w)
    BY <1>0, <1>2, <2>3, Middle
  <2>4. CASE Cas(w)
    BY <1>1, <1>2, <2>4 DEF Cas
  <2>5. CASE WriteTotal(w) \/ DeleteRow(w) \/ InsertReport(w)
    BY <1>0, <1>2, <2>5 DEF WriteTotal, DeleteRow, InsertReport, Shape, WorkerShape, ItemOps
  <2> QED BY <1>0, <2>1, <2>2, <2>3, <2>4, <2>5, StepKinds DEF Shape, Writes
<1>3. CASE v # w
  <2>0. Untouched(v) /\ Rep(v)' = Rep(v) /\ Busy(v) /\ Rep(v) \in Reports
    BY <1>0, <1>3, Frame DEF Shape, WorkerShape, Untouched, Busy, Rep
  <2>1. CASE ~Commit(w)
    <3>1. UNCHANGED <<reports, items>>
      BY <1>0, <2>1, StepKinds, GetEffect, OpenEffect, LoadEffect, Middle, EndEffect DEF Shape
    <3> QED BY <1>1, <2>0, <3>1 DEF Untouched
  <2>2. CASE Commit(w) /\ Rep(v) # Rep(w)
    <3>1. reports'[Rep(v)] = reports[Rep(v)] /\ (Empty(Rep(v))' <=> Empty(Rep(v)))
      BY <1>0, <2>0, <2>2, Published, ContentsFrame
    <3> QED BY <2>0, <3>1 DEF CountedItems, Untouched
  <2>3. CASE Commit(w) /\ Rep(v) = Rep(w)
    <3>1. row[v].ver # stamp[w] /\ row[v].ver = reports'[Rep(w)].ver /\ pc[w] = "commit"
      BY <1>0, <2>0, <2>3 DEF FreshStamps, FreshStamp, Writer, Busy, Commit, Shape, WorkerShape, Untouched
    <3>2. CASE Wrote(w)
      BY <2>0, <2>3, <3>1, <3>2, Published, Staged
    <3>3. CASE ~Wrote(w)
      <4>1. reports' = reports /\ reports[Rep(v)].deleted
        BY <2>3, <3>1, <3>3, Published, Unwritten
      <4>2. ~row[v].deleted /\ row[v] = reports[Rep(v)]
        BY <2>0, <3>1, <4>1, <2>3 DEF Core, LoadedRows, LoadedRow, Untouched
      <4> QED BY <4>1, <4>2
    <3> QED BY <3>2, <3>3
  <2> QED BY <2>1, <2>2, <2>3
<1> QED BY <1>2, <1>3

(* The item an edit has written is locked until the edit commits.          *)
LEMMA EditedItemsStep ==
  ASSUME Shape, ItemLocks, EditedItems, NEW w \in Workers, AnyStep(w)
  PROVE  EditedItems'
<1> SUFFICES ASSUME NEW v \in Workers, pc'[v] \in {"sum", "total", "commit"}, req'[v].op = "upditem"
             PROVE  /\ req'[v].item \in Items
                    /\ Held(v, req[v].item)'
                    /\ Shown(req[v].item, Rep(v))'
                    /\ items'[req'[v].item].ver = req'[v].base.seen[req'[v].item]
  BY DEF EditedItems
<1>1. ASSUME pc[v] \in {"sum", "total", "commit"}, req'[v] = req[v], ipend'[v] = ipend[v],
             items'[req[v].item] = items[req[v].item]
      PROVE  /\ req'[v].item \in Items
             /\ Held(v, req[v].item)'
             /\ Shown(req[v].item, Rep(v))'
             /\ items'[req'[v].item].ver = req'[v].base.seen[req'[v].item]
  BY <1>1 DEF EditedItems, Held, Shown, Rep
<1>2. CASE v = w
  <2>1. CASE BeginGet(w) \/ (\E q : Open(w, q) /\ Offered(q)) \/ Respond(w) \/ Commit(w) \/ Drops(w)
    BY <1>2, <2>1, GetEffect, OpenEffect, EndEffect
  <2>2. CASE Load(w)
    <3>1. pc'[w] = AfterLoad(req[w].op)
      BY <2>2 DEF Load, Goto, Shape, TypeOK
    <3> QED BY <1>2, <3>1 DEF AfterLoad
  <2>3. CASE UpdateItem(w)
    <3> DEFINE j == req[w].item
    <3>1. /\ j \in Items /\ Shown(j, Rep(w)) /\ items[j].ver = req[w].base.seen[j]
          /\ UNCHANGED <<items, req>>
          /\ Stage(w, j, [items[j] EXCEPT !.amt = req[w].amt, !.ver = stamp[w]])
      BY <2>3 DEF UpdateItem, ItemMatches, Stage, Shape, WorkerShape, Busy
    <3>2. ipend'[w][j] = [items[j] EXCEPT !.amt = req[w].amt, !.ver = stamp[w]]
          /\ items[j] \in ItemRow /\ items[j].state = "live"
      BY <3>1 DEF Stage, Shape, TypeOK, NoWrites, Shown
    <3>3. Held(w, req[w].item)'
      BY <3>1, <3>2 DEF Held, ItemRow
    <3>4. Shown(req[w].item, Rep(w))'
      BY <3>1 DEF Shown, Rep
    <3> QED BY <1>2, <3>1, <3>3, <3>4
  <2>4. CASE SumItems(w) \/ WriteTotal(w)
    BY <1>1, <1>2, <2>4 DEF SumItems, WriteTotal
  <2>5. CASE CheckSubmit(w) \/ FindItem(w)
    <3>1. pc'[w] \in {"cas", "item"}
      BY <2>5 DEF CheckSubmit, FindItem, Goto, Shape, TypeOK
    <3> QED BY <1>2, <3>1
  <2>6. CASE InsertItem(w) \/ DeleteItem(w) \/ Cascade(w) \/ Cas(w) \/ DeleteRow(w) \/ InsertReport(w)
    <3>1. req' = req /\ req[w].op # "upditem"
      BY <2>6 DEF InsertItem, DeleteItem, Cascade, Cas, DeleteRow, InsertReport, Stage,
         Shape, WorkerShape, VersionedOps
    <3> QED BY <1>2, <3>1
  <2> QED BY <2>1, <2>2, <2>3, <2>4, <2>5, <2>6, StepKinds DEF Shape, Inner, Writes
<1>3. CASE v # w
  <2>1. Untouched(v)
    BY <1>3, Frame DEF Shape
  <2>2. req[v].item \in Items /\ Held(v, req[v].item)
    BY <2>1 DEF EditedItems, Untouched
  <2>3. items'[req[v].item] = items[req[v].item]
    <3>1. CASE Commit(w)
      BY <1>3, <2>2, <3>1, ItemsCommit DEF ItemLocks
    <3> QED BY <3>1, ItemsKept
  <2> QED BY <1>1, <2>1, <2>3 DEF Untouched
<1> QED BY <1>2, <1>3

-----------------------------------------------------------------------------
(* In every reachable state the versions of reports name their contents,   *)
(* as far as clients and handlers know them.                               *)
THEOREM IInvariant == Spec => []IInv
<1>1. ASSUME Init PROVE IInv
  <2>1. /\ \A w \in Workers : pc[w] = "idle" /\ ipend[w] = NoWrites
        /\ \A w \in Workers, i \in Items : ~Held(w, i)
        /\ \A u \in Users, r \in Reports : view[u][r].ver = 0
    BY <1>1 DEF Init, Held, NoWrites, NoItem, NoView
  <2>2. ItemLocks /\ StagedItems
    BY <2>1 DEF ItemLocks, StagedItems
  <2>3. ViewContents /\ CountedItems /\ EditedItems
    BY <2>1 DEF ViewContents, CountedItems, EditedItems, Busy
  <2> QED BY <1>1, <2>2, <2>3, CoreInit DEF IInv
<1>2. ASSUME IInv, Core', UNCHANGED vars PROVE IInv'
  <2>1. ItemLocks' /\ StagedItems'
    BY <1>2 DEF IInv, vars, ItemLocks, StagedItems, Held, Rep
  <2>2. \A r : Contents(r)' = Contents(r) /\ (Empty(r)' <=> Empty(r))
    BY <1>2 DEF vars, Contents, Empty, Shown
  <2>3. ViewContents' /\ CountedItems'
    BY <1>2, <2>2 DEF IInv, vars, ViewContents, CountedItems, Names, Busy, Rep
  <2>4. EditedItems'
    BY <1>2 DEF IInv, vars, EditedItems, Held, Shown, Rep
  <2> QED BY <1>2, <2>1, <2>3, <2>4 DEF IInv
<1>3. ASSUME IInv, Core', NEW w \in Workers, AnyStep(w) PROVE IInv'
  BY <1>3, ItemLocksStep, StagedItemsStep, ViewContentsStep, CountedItemsStep, EditedItemsStep
     DEF IInv, Core
<1>4. IInv /\ Core' /\ [Next]_vars => IInv'
  BY <1>2, <1>3 DEF Next, AnyStep
<1> QED BY <1>1, <1>4, CoreInvariant, PTL DEF Spec

(* A version-checked request that commits decides on exactly the items, in *)
(* the versions, that its author was shown: the row it loaded is still the *)
(* committed one, the author's version is that row's, and versions name    *)
(* contents.                                                               *)
THEOREM DecisionHolds == Spec => []DecisionOnSeenContent
<1>1. ASSUME IInv PROVE DecisionOnSeenContent
  <2> SUFFICES ASSUME NEW w \in Workers, pc[w] = "commit", req[w].op \in VersionedOps
               PROVE  Contents(Rep(w)) = req[w].base.seen
    BY DEF DecisionOnSeenContent
  <2>1. row[w] = reports[Rep(w)] /\ Passes(w, reports[Rep(w)]) /\ Busy(w)
    BY <1>1, CheckedRow DEF IInv, Busy
  <2>2. Fresh(w, reports[Rep(w)])
    BY <2>1 DEF Passes, VersionedOps
  <2> QED BY <1>1, <2>1, <2>2 DEF IInv, ViewContents, Names, Fresh
<1> QED BY <1>1, IInvariant, PTL

(* No report is submitted without items: the count of the items and the    *)
(* version check bracket every change another transaction could make.      *)
THEOREM SubmitNonEmptyHolds == Spec => []SubmitNonEmpty
<1>1. ASSUME IInv PROVE SubmitNonEmpty
  <2> SUFFICES ASSUME NEW w \in Workers, pc[w] = "commit", req[w].op = "submit"
               PROVE  ~Empty(Rep(w))
    BY DEF SubmitNonEmpty
  <2>1. row[w] = reports[Rep(w)]
    BY <1>1, CheckedRow DEF IInv, VersionedOps
  <2> QED BY <1>1, <2>1 DEF IInv, CountedItems
<1> QED BY <1>1, IInvariant, PTL

(* An item edit replaces the version its author was shown, whatever other  *)
(* transactions do until it commits.                                       *)
THEOREM ItemEditHolds == Spec => []ItemEditOverSeen
<1>1. IInv => ItemEditOverSeen
  BY DEF IInv, EditedItems, ItemEditOverSeen
<1> QED BY <1>1, IInvariant, PTL
-----------------------------------------------------------------------------
(* Totals and deletions, when the writing requests for one report do not   *)
(* overlap from the SELECT of the report on. Nothing in the code ensures   *)
(* that (the runs after_submit and lost_total show what happens without    *)
(* it); FOR UPDATE in that SELECT would. Requests for different reports,   *)
(* and GETs, still interleave statement by statement.                      *)

(* The request has read its report in order to change it. *)
Editing(w) == Writer(w) /\ pc[w] # "load"

OneWriterPerReport ==
  \A v, w \in Workers : Editing(v) /\ Editing(w) /\ Rep(v) = Rep(w) => v = w

(* The committed amounts of a report: what TotalIsSum compares with.       *)
LiveAmounts(r) == [i \in Items |-> IF Shown(i, r) THEN items[i].amt ELSE 0]

(* A report that does not exist, or is deleted, has no items. *)
Vacant ==
  \A r \in Reports : reports[r].status = "none" \/ reports[r].deleted => Empty(r)

(* What a writer loaded is the committed row until it ends. *)
LoadedIsCurrent(w) ==
  Editing(w) /\ req[w].op # "create" => row[w] = reports[Rep(w)]

(* The sum of an item edit stays the sum. *)
SumIsCurrent(w) ==
  pc[w] \in {"total", "commit"} /\ req[w].op \in ItemOps =>
    sum[w] = AmountsOf(w, Rep(w))

(* A deletion has covered every item. *)
CascadeCovers(w) ==
  pc[w] \in {"row", "commit"} /\ req[w].op = "delete" =>
    \A i \in Items : /\ Held(w, i) => ipend[w][i].state # "live"
                     /\ Shown(i, Rep(w)) => Held(w, i)

(* The total of a new report is that of the items copied into it. *)
CopyCounted(w) ==
  pc[w] = "commit" /\ req[w].op = "create" =>
    \A i \in Items : /\ Held(w, i) => ipend[w][i].state = "live"
                     /\ pend[w].total[i] = IF Held(w, i) THEN ipend[w][i].amt ELSE 0

SerialWorker(w) ==
  LoadedIsCurrent(w) /\ SumIsCurrent(w) /\ CascadeCovers(w) /\ CopyCounted(w)

SInv ==
  /\ TotalIsSum /\ Vacant
  /\ \A w \in Workers : SerialWorker(w)

(* A COMMIT leaves the amounts of other reports alone, committed or as     *)
(* another transaction finds them.                                         *)
LEMMA AmountsFrame ==
  ASSUME Shape, StagedItems, NEW w \in Workers, Commit(w), NEW r \in Reports, r # Rep(w)
  PROVE  /\ LiveAmounts(r)' = LiveAmounts(r)
         /\ \A v \in Workers : ipend'[v] = ipend[v] => AmountsOf(v, r)' = AmountsOf(v, r)
<1>1. LiveAmounts(r)' = LiveAmounts(r)
  BY ItemsFrame DEF LiveAmounts
<1>2. ASSUME NEW v \in Workers, ipend'[v] = ipend[v]
      PROVE  AmountsOf(v, r)' = AmountsOf(v, r)
  <2>1. ASSUME NEW i \in Items
        PROVE  (IF ItemAs(v, i).state = "live" /\ ItemAs(v, i).rep = r THEN ItemAs(v, i).amt ELSE 0)'
                 = IF ItemAs(v, i).state = "live" /\ ItemAs(v, i).rep = r THEN ItemAs(v, i).amt ELSE 0
    BY <1>2, ItemsFrame DEF ItemAs, Shown
  <2> QED BY <2>1 DEF AmountsOf
<1> QED BY <1>1, <1>2

(* A request keeps what it knows of its report while others run: they      *)
(* commit to other reports.                                                *)
LEMMA SerialOthers ==
  ASSUME Shape, StagedItems, OneWriterPerReport, NEW w \in Workers, AnyStep(w),
         NEW v \in Workers, v # w, SerialWorker(v)
  PROVE  SerialWorker(v)'
<1>1. Untouched(v) /\ WorkerShape(v) /\ reports \in [Reports -> ReportRow]
  BY Frame DEF Shape, TypeOK
<1>2. Rep(v)' = Rep(v) /\ (Editing(v)' <=> Editing(v)) /\ (\A i : Held(v, i)' <=> Held(v, i))
  BY <1>1 DEF Untouched, Rep, Editing, Writer, Busy, Held
<1>3. ASSUME reports'[Rep(v)] = reports[Rep(v)], AmountsOf(v, Rep(v))' = AmountsOf(v, Rep(v)),
             \A i \in Items : Shown(i, Rep(v))' <=> Shown(i, Rep(v))
      PROVE  SerialWorker(v)'
  BY <1>1, <1>2, <1>3 DEF SerialWorker, LoadedIsCurrent, SumIsCurrent, CascadeCovers,
     CopyCounted, Untouched
<1>4. CASE ~Commit(w)
  <2>1. UNCHANGED <<reports, items>>
    BY <1>4, StepKinds, GetEffect, OpenEffect, LoadEffect, Middle, EndEffect DEF Shape
  <2> QED BY <1>1, <1>2, <1>3, <2>1 DEF Untouched, AmountsOf, ItemAs, Shown
<1>5. CASE Commit(w) /\ Editing(v)
  <2>1. Editing(w) /\ Rep(w) \in Reports /\ Rep(v) \in Reports
    BY <1>1, <1>5 DEF Commit, Editing, Writer, Busy, Shape, WorkerShape
  <2>2. Rep(v) # Rep(w)
    BY <1>5, <2>1 DEF OneWriterPerReport
  <2>3. reports'[Rep(v)] = reports[Rep(v)]
    BY <1>1, <1>5, <2>1, <2>2 DEF Commit
  <2>4. AmountsOf(v, Rep(v))' = AmountsOf(v, Rep(v))
    BY <1>1, <1>2, <1>5, <2>1, <2>2, AmountsFrame DEF Untouched, AmountsOf
  <2>5. \A i \in Items : Shown(i, Rep(v))' <=> Shown(i, Rep(v))
    BY <1>2, <1>5, <2>1, <2>2, ItemsFrame DEF Shown
  <2> QED BY <1>3, <2>3, <2>4, <2>5
<1>6. CASE ~Editing(v)
  BY <1>1, <1>2, <1>6 DEF SerialWorker, LoadedIsCurrent, SumIsCurrent, CascadeCovers,
     CopyCounted, Untouched, Editing, Writer, Busy, WorkerShape, ItemOps
<1> QED BY <1>4, <1>5, <1>6

(* The request itself keeps its knowledge up to date, statement by         *)
(* statement.                                                              *)
LEMMA SerialOwn ==
  ASSUME Core, NEW w \in Workers, AnyStep(w), SerialWorker(w)
  PROVE  SerialWorker(w)'
<1>0. /\ Shape /\ LoadedRow(w) /\ WorkerShape(w) /\ pc \in [Workers -> Labels]
      /\ sum \in [Workers -> Sums] /\ ipend \in [Workers -> [Items -> ItemRow]]
      /\ pend \in [Workers -> ReportRow]
  BY DEF Core, Shape, TypeOK, LoadedRows
<1>1. ASSUME pc'[w] \in {"idle", "load"} PROVE SerialWorker(w)'
  BY <1>1 DEF SerialWorker, LoadedIsCurrent, SumIsCurrent, CascadeCovers, CopyCounted, Editing, Writer, Busy
<1>2. CASE BeginGet(w) \/ (\E q : Open(w, q) /\ Offered(q)) \/ Respond(w) \/ Commit(w) \/ Drops(w)
  BY <1>0, <1>1, <1>2, GetEffect, OpenEffect, EndEffect
<1>3. CASE Load(w)
  <2>1. /\ UNCHANGED <<reports, req>> /\ pc'[w] = AfterLoad(req[w].op)
        /\ row'[w] = IF Loads(w) = Null THEN NoRow ELSE reports[Loads(w)]
    BY <1>0, <1>3, LoadEffect DEF Load, Goto
  <2>2. AfterLoad(req[w].op) \notin {"total", "row", "commit"}
    BY DEF AfterLoad
  <2>3. req[w].op # "create" => Loads(w) = Rep(w) /\ Rep(w) # Null
    <3>1. Rep(w) \in Reports
      BY <1>0, <1>3 DEF Load, WorkerShape, Busy
    <3> QED BY <3>1, DomainAssumption DEF Loads
  <2> QED BY <2>1, <2>2, <2>3 DEF SerialWorker, LoadedIsCurrent, SumIsCurrent, CascadeCovers,
             CopyCounted, Editing, Writer, Busy, Rep
<1>4. ASSUME Inner(w) \/ Writes(w) PROVE LoadedIsCurrent(w)' /\ UNCHANGED <<reports, items, req, row>>
  BY <1>0, <1>4, Middle DEF SerialWorker, LoadedIsCurrent, Editing, Writer, Busy, Rep
<1>5. CASE CheckSubmit(w) \/ FindItem(w) \/ InsertItem(w) \/ UpdateItem(w) \/ DeleteItem(w)
  <2>1. pc'[w] \in {"cas", "item", "sum"}
    BY <1>0, <1>5 DEF CheckSubmit, FindItem, InsertItem, UpdateItem, DeleteItem, Stage, Goto
  <2> QED BY <1>4, <1>5, <2>1 DEF Inner, SerialWorker, SumIsCurrent, CascadeCovers, CopyCounted
<1>6. CASE SumItems(w)
  <2>1. pc'[w] = "total" /\ sum'[w] = AmountsOf(w, Rep(w)) /\ UNCHANGED <<items, req, ipend>>
    BY <1>0, <1>6 DEF SumItems, Goto
  <2> QED BY <1>4, <1>6, <2>1 DEF Inner, SerialWorker, SumIsCurrent, CascadeCovers, CopyCounted,
             AmountsOf, ItemAs, Rep
<1>7. CASE Cascade(w)
  <2>1. pc'[w] = "row" /\ UNCHANGED <<items, req>>
    BY <1>0, <1>7 DEF Cascade, Goto
  <2>2. ASSUME NEW i \in Items
        PROVE  /\ Held(w, i)' => ipend'[w][i].state # "live"
               /\ Shown(i, Rep(w)) => Held(w, i)'
    <3>1. items[i] \in ItemRow
      BY <1>0 DEF Shape, TypeOK
    <3>2. ipend'[w][i] = IF Shown(i, Rep(w))
                         THEN [items[i] EXCEPT !.state = "deleted", !.ver = stamp[w]]
                         ELSE NoItem
      BY <1>0, <1>7 DEF Cascade
    <3> QED BY <3>1, <3>2 DEF Held, ItemRow, NoItem
  <2>3. CascadeCovers(w)'
    BY <2>1, <2>2 DEF CascadeCovers, Held, Shown, Rep
  <2> QED BY <1>4, <1>7, <2>1, <2>3 DEF Inner, SerialWorker, SumIsCurrent, CopyCounted
<1>8. CASE Cas(w) \/ WriteTotal(w) \/ DeleteRow(w)
  <2>1. /\ pc'[w] = "commit" /\ UNCHANGED <<items, req, sum, ipend>> /\ req[w].op # "create"
        /\ req[w].op \in ItemOps => pc[w] = "total"
        /\ req[w].op = "delete" => pc[w] = "row"
    BY <1>0, <1>8 DEF Cas, WriteTotal, DeleteRow, Goto, WorkerShape, VersionedOps, ItemOps
  <2> QED BY <1>4, <1>8, <2>1 DEF Writes, SerialWorker, SumIsCurrent, CascadeCovers, CopyCounted,
             AmountsOf, ItemAs, Rep, Held, Shown
<1>9. CASE InsertReport(w)
  <2>1. pc'[w] = "commit" /\ UNCHANGED <<req>> /\ req[w].op = "create"
    BY <1>0, <1>9 DEF InsertReport, Goto, WorkerShape
  <2> PICK g \in Copies(req[w].ref, {i \in Items : FreshItem(i)}) :
        LET new == [i \in Items |-> CopyOf(w, g, i)] IN
        /\ ipend' = [ipend EXCEPT ![w] = new]
        /\ pend' = [pend EXCEPT ![w] =
             [NewReport(User(w), req[w].ref) EXCEPT
                !.total = [i \in Items |-> new[i].amt], !.ver = stamp[w]]]
    BY <1>9 DEF InsertReport
  <2>2. ASSUME NEW i \in Items
        PROVE  /\ ipend'[w][i] = CopyOf(w, g, i)
               /\ pend'[w].total[i] = CopyOf(w, g, i).amt
    BY <1>0 DEF NewReport, NoRow
  <2>3. ASSUME NEW i \in Items
        PROVE  CopyOf(w, g, i) = NoItem \/ CopyOf(w, g, i).state = "live"
    BY DEF CopyOf
  <2>4. NoItem.state = "none" /\ NoItem.amt = 0
    BY DEF NoItem
  <2>5. CopyCounted(w)'
    BY <2>2, <2>3, <2>4 DEF CopyCounted, Held
  <2> QED BY <1>4, <1>9, <2>1, <2>5 DEF Writes, SerialWorker, SumIsCurrent, CascadeCovers, ItemOps
<1> QED BY <1>0, <1>2, <1>3, <1>5, <1>6, <1>7, <1>8, <1>9, StepKinds DEF Shape, Inner, Writes

(* What the report of a COMMIT is afterwards: its total is the sum of its  *)
(* items, or it is deleted and has none.                                   *)
LEMMA SerialCommit ==
  ASSUME IInv, SInv, NEW w \in Workers, Commit(w), NEW r \in Reports, r = Rep(w)
  PROVE  /\ reports' = [reports EXCEPT ![r] = pend[w]] /\ pend[w].status # "none"
         /\ pend[w].deleted => req[w].op = "delete" /\ Empty(r)'
         /\ ~pend[w].deleted => pend[w].total = LiveAmounts(r)'
         /\ req[w].op \in VersionedOps => items' = items
         /\ req[w].op \in ItemOps \cup {"delete"} => reports[r].status = "draft"
         /\ req[w].op = "create" => reports[r].status = "none"
<1> DEFINE old == reports[r]
<1>1. /\ Core /\ Shape /\ StagedItems /\ LoadedRow(w) /\ StagedRow(w) /\ SerialWorker(w)
      /\ TotalIsSum /\ Vacant
  BY DEF IInv, SInv, Core, LoadedRows, StagedRows
<1>2. /\ pc[w] = "commit" /\ Busy(w) /\ Editing(w) /\ req[w].op \in Ops \ {"get"}
      /\ old \in ReportRow /\ pend[w] \in ReportRow /\ sum[w] \in Sums /\ stamp[w] \in Nat
      /\ row[w] \in ReportRow /\ User(w) \in UserOrNull
  BY <1>1 DEF Commit, Busy, Editing, Writer, Shape, WorkerShape, TypeOK, UserOrNull
<1>3. req[w].op # "create" => /\ row[w] = old /\ ~old.deleted /\ old.status # "none"
                              /\ Passes(w, old)
  BY <1>1, <1>2 DEF SerialWorker, LoadedIsCurrent, LoadedRow
<1>4. Wrote(w)
  BY <1>1, <1>2, <1>3, Unwritten DEF StagedRow
<1>5. reports' = [reports EXCEPT ![r] = pend[w]] /\ pend[w].status # "none"
  BY <1>1, <1>4, Published DEF Wrote
<1>6. ASSUME NEW i \in Items
      PROVE  /\ items'[i] = IF Held(w, i) THEN ipend[w][i] ELSE items[i]
             /\ items'[i] = ItemAs(w, i)
  BY <1>1, ItemsCommit DEF Commit
<1>7. LiveAmounts(r)' = AmountsOf(w, r)
  BY <1>6 DEF LiveAmounts, AmountsOf, Shown
<1>8. CASE req[w].op \in VersionedOps
  <2>1. \A i \in Items : items'[i] = items[i]
    BY <1>1, <1>6, <1>8 DEF StagedItems, VersionedOps, ItemOps
  <2>2. items' = items
    BY <1>1, <2>1 DEF Shape, TypeOK, Commit
  <2>3. pend[w] = [Entity(w) EXCEPT !.ver = stamp[w]] /\ row[w] = old
    BY <1>1, <1>2, <1>8, CheckedRow
  <2>4. /\ Entity(w) \in ReportRow /\ Entity(w).deleted = old.deleted
        /\ Entity(w).total = old.total
    <3>1. Entity(w) \in {Submitted(old, User(w)), Approved(old, User(w)),
                         Rejected(old, User(w)), Paid(old, User(w)), old}
      BY <2>3 DEF Entity
    <3> QED BY <1>2, <3>1 DEF Submitted, Approved, Rejected, Paid, ReportRow, Statuses
  <2>5. pend[w].deleted = old.deleted /\ pend[w].total = old.total
    BY <1>2, <2>3, <2>4 DEF ReportRow
  <2>6. old.total = LiveAmounts(r)
    BY <1>1, <1>3, <1>8 DEF TotalIsSum, LiveAmounts, VersionedOps
  <2>7. LiveAmounts(r)' = LiveAmounts(r)
    BY <2>2 DEF LiveAmounts, Shown
  <2> QED BY <1>3, <1>5, <1>8, <2>2, <2>5, <2>6, <2>7 DEF VersionedOps, ItemOps
<1>9. CASE req[w].op \in ItemOps
  <2>1. pend[w] = [old EXCEPT !.total = sum[w], !.ver = stamp[w]]
    BY <1>1, <1>2, <1>9 DEF StagedRow
  <2>2. pend[w].total = sum[w] /\ ~pend[w].deleted
    BY <1>2, <1>3, <1>9, <2>1 DEF ReportRow, ItemOps
  <2>3. sum[w] = AmountsOf(w, r)
    BY <1>1, <1>2, <1>9 DEF SerialWorker, SumIsCurrent
  <2>4. old.status = "draft"
    BY <1>3, <1>9 DEF Passes, ItemOps, CanEdit, IsDraft
  <2> QED BY <1>5, <1>7, <1>9, <2>2, <2>3, <2>4 DEF ItemOps, VersionedOps
<1>10. CASE req[w].op = "delete"
  <2>1. Empty(r)'
    <3>1. ASSUME NEW i \in Items PROVE ~Shown(i, r)'
      BY <1>1, <1>2, <1>6, <1>10 DEF SerialWorker, CascadeCovers, Shown
    <3> QED BY <3>1 DEF Empty
  <2>2. pend[w] = [old EXCEPT !.deleted = TRUE, !.ver = stamp[w]]
    BY <1>1, <1>2, <1>3, <1>10 DEF StagedRow
  <2>3. pend[w].deleted = TRUE
    BY <1>2, <2>2 DEF ReportRow
  <2>4. old.status = "draft"
    BY <1>3, <1>10 DEF Passes, CanDelete, IsDraft
  <2> QED BY <1>5, <1>10, <2>1, <2>3, <2>4 DEF ItemOps, VersionedOps
<1>11. CASE req[w].op = "create"
  <2>1. /\ pend[w] = [NewReport(User(w), req[w].ref) EXCEPT
                        !.total = pend[w].total, !.ver = stamp[w]]
        /\ old.status = "none"
    BY <1>1, <1>2, <1>11 DEF StagedRow, LoadedRow
  <2>2. ~pend[w].deleted
    BY <2>1 DEF NewReport, NoRow
  <2>3. ASSUME NEW i \in Items PROVE pend[w].total[i] = AmountsOf(w, r)[i]
    <3>1. ~Shown(i, r)
      BY <1>1, <2>1 DEF Vacant, Empty
    <3>2. Held(w, i) => ipend[w][i].rep = r
      BY <1>1 DEF StagedItems
    <3> QED BY <1>1, <1>2, <1>11, <3>1, <3>2
            DEF SerialWorker, CopyCounted, AmountsOf, ItemAs, Held, Shown
  <2>4. pend[w].total = AmountsOf(w, r)
    BY <1>1, <1>2, <2>3, AmountsType DEF Shape, ReportRow, Sums, AmountsOf
  <2> QED BY <1>5, <1>7, <1>11, <2>1, <2>2, <2>4 DEF ItemOps, VersionedOps
<1> QED BY <1>2, <1>8, <1>9, <1>10, <1>11 DEF Ops

(* Every total is the sum of its items and every vacant row has none, step *)
(* by step.                                                                *)
LEMMA SerialTables ==
  ASSUME IInv, SInv, NEW w \in Workers, AnyStep(w)
  PROVE  TotalIsSum' /\ Vacant'
<1>0. Shape /\ StagedItems /\ TotalIsSum /\ Vacant
  BY DEF IInv, SInv, Core
<1>1. CASE ~Commit(w)
  <2>1. UNCHANGED <<reports, items>>
    BY <1>0, <1>1, StepKinds, GetEffect, OpenEffect, LoadEffect, Middle, EndEffect DEF Shape
  <2> QED BY <1>0, <2>1 DEF TotalIsSum, Vacant, Empty, Shown
<1>2. CASE Commit(w)
  <2> SUFFICES ASSUME NEW r \in Reports
               PROVE  /\ reports'[r].status # "none" /\ ~reports'[r].deleted =>
                           reports'[r].total = LiveAmounts(r)'
                      /\ reports'[r].status = "none" \/ reports'[r].deleted => Empty(r)'
    BY DEF TotalIsSum, Vacant, LiveAmounts
  <2>1. Rep(w) \in Reports /\ reports \in [Reports -> ReportRow]
    BY <1>2, Published DEF IInv
  <2>2. CASE r = Rep(w)
    BY <1>2, <2>1, <2>2, SerialCommit
  <2>3. CASE r # Rep(w)
    <3>1. reports'[r] = reports[r]
      BY <1>2, <2>1, <2>3 DEF Commit
    <3>2. LiveAmounts(r)' = LiveAmounts(r) /\ (Empty(r)' <=> Empty(r))
      BY <1>0, <1>2, <2>3, AmountsFrame, ContentsFrame
    <3> QED BY <1>0, <3>1, <3>2 DEF TotalIsSum, Vacant, LiveAmounts
  <2> QED BY <2>2, <2>3
<1> QED BY <1>1, <1>2

(* The seeded drafts have their totals, and items only in reports that     *)
(* exist.                                                                  *)
LEMMA SerialInit == Init => SInv
<1> SUFFICES ASSUME Init PROVE SInv
  OBVIOUS
<1>1. ASSUME NEW w \in Workers PROVE SerialWorker(w)
  BY <1>1 DEF Init, SerialWorker, LoadedIsCurrent, SumIsCurrent, CascadeCovers, CopyCounted,
     Editing, Writer, Busy
<1>2. ASSUME NEW r \in Reports
      PROVE  /\ ~reports[r].deleted
             /\ reports[r].status = "none" <=> SeedOwner[r] = Null
             /\ SeedOwner[r] # Null =>
                  reports[r].total = [i \in Items |-> IF SeedReport[i] = r THEN 1 ELSE 0]
  BY <1>2 DEF Init, NewReport, NoRow
<1>3. ASSUME NEW r \in Reports, NEW i \in Items
      PROVE  (Shown(i, r) <=> SeedReport[i] = r) /\ (Shown(i, r) => items[i].amt = 1)
  <2>1. r # Null
    BY DomainAssumption
  <2> QED BY <2>1 DEF Init, Shown, NoItem
<1>4. TotalIsSum
  BY <1>2, <1>3 DEF TotalIsSum
<1>5. Vacant
  <2> SUFFICES ASSUME NEW r \in Reports, NEW i \in Items, Shown(i, r)
               PROVE  reports[r].status # "none" /\ ~reports[r].deleted
    BY DEF Vacant, Empty
  <2>1. SeedReport[i] = r /\ r # Null
    BY <1>3, DomainAssumption
  <2>2. SeedOwner[r] # Null
    BY <2>1, TxAssumption
  <2> QED BY <1>2, <2>2
<1> QED BY <1>1, <1>4, <1>5 DEF SInv

(* As long as the writing requests for one report do not overlap, totals   *)
(* are sums, and what a request has read is what it commits over.          *)
LEMMA SerialInvariant == Spec /\ []OneWriterPerReport => []SInv
<1>1. ASSUME IInv, SInv, UNCHANGED vars PROVE SInv'
  <2>1. TotalIsSum' /\ Vacant'
    BY <1>1 DEF SInv, vars, TotalIsSum, Vacant, Empty, Shown
  <2>2. ASSUME NEW w \in Workers PROVE SerialWorker(w)'
    BY <1>1, <2>2 DEF SInv, vars, SerialWorker, LoadedIsCurrent, SumIsCurrent, CascadeCovers,
       CopyCounted, AmountsOf, ItemAs, Shown, Held, Rep, Editing, Writer, Busy
  <2> QED BY <2>1, <2>2 DEF SInv
<1>2. ASSUME IInv, SInv, OneWriterPerReport, NEW w \in Workers, AnyStep(w) PROVE SInv'
  <2>1. ASSUME NEW v \in Workers PROVE SerialWorker(v)'
    BY <1>2, SerialOwn, SerialOthers DEF IInv, SInv, Core
  <2> QED BY <1>2, <2>1, SerialTables DEF SInv
<1>3. IInv /\ SInv /\ OneWriterPerReport /\ [Next]_vars => SInv'
  BY <1>1, <1>2 DEF Next, AnyStep
<1> QED BY <1>3, SerialInit, IInvariant, PTL DEF Spec

(* RPT-006 without overlapping writers: after every COMMIT total_amount is *)
(* the sum of the live items (item_repo.go:26), with any number of requests*)
(* on other reports interleaved.                                           *)
THEOREM TotalIsSumHolds == Spec /\ []OneWriterPerReport => []TotalIsSum
<1>1. SInv => TotalIsSum
  BY DEF SInv
<1> QED BY <1>1, SerialInvariant, PTL

(* Without overlapping writers the cascade of a deletion leaves no live    *)
(* item behind (report_repo.go:176).                                       *)
THEOREM DeletedIsEmptyHolds == Spec /\ []OneWriterPerReport => []DeletedReportIsEmpty
<1>1. SInv => DeletedReportIsEmpty
  BY DEF SInv, Vacant, DeletedReportIsEmpty
<1> QED BY <1>1, SerialInvariant, PTL

(* RPT-011 and RPT-013 without overlapping writers: a report that left the *)
(* draft keeps its items and is not deleted, whatever requests follow.     *)
THEOREM FrozenHolds == Spec /\ []OneWriterPerReport => SubmittedIsFrozen
<1> DEFINE Frozen(r) ==
             reports[r].status \notin {"none", "draft"} /\ ~reports[r].deleted
               => Contents(r)' = Contents(r) /\ ~reports'[r].deleted
<1>1. ASSUME IInv, SInv, NEW w \in Workers, AnyStep(w), NEW r \in Reports PROVE Frozen(r)
  <2>0. Shape /\ StagedItems
    BY <1>1 DEF IInv, Core
  <2>1. CASE ~Commit(w)
    <3>1. UNCHANGED <<reports, items>>
      BY <1>1, <2>0, <2>1, StepKinds, GetEffect, OpenEffect, LoadEffect, Middle, EndEffect DEF Shape
    <3> QED BY <3>1 DEF Contents, Shown
  <2>2. CASE Commit(w) /\ r # Rep(w)
    <3>1. reports'[r] = reports[r]
      BY <2>2 , <1>1, Published DEF IInv
    <3> QED BY <1>1, <2>0, <2>2, <3>1, ContentsFrame
  <2>3. CASE Commit(w) /\ r = Rep(w)
    <3>1. req[w].op \in Ops \ {"get"} /\ reports \in [Reports -> ReportRow]
      BY <2>0, <2>3 DEF Commit, Shape, WorkerShape, Busy, TypeOK
    <3>2. CASE req[w].op \in VersionedOps
      <4>1. items' = items /\ reports'[r] = pend[w] /\ ~pend[w].deleted
        BY <1>1, <2>3, <3>1, <3>2, SerialCommit DEF VersionedOps
      <4> QED BY <4>1 DEF Contents, Shown
    <3>3. CASE req[w].op \notin VersionedOps
      BY <1>1, <2>3, <3>1, <3>3, SerialCommit DEF Ops
    <3> QED BY <3>2, <3>3
  <2> QED BY <2>1, <2>2, <2>3
<1>2. ASSUME UNCHANGED vars, NEW r \in Reports PROVE Frozen(r)
  BY <1>2 DEF vars, Contents, Shown
<1>3. IInv /\ SInv /\ [Next]_vars => [\A r \in Reports : Frozen(r)]_vars
  BY <1>1, <1>2 DEF Next, AnyStep
<1> QED BY <1>3, SerialInvariant, IInvariant, PTL DEF Spec, SubmittedIsFrozen
=============================================================================
