---------------------------- MODULE WorkflowProofs ----------------------------
(***************************************************************************)
(* What the abstract life cycle guarantees, for any users, tenants, roles  *)
(* and reports. ReportTx inherits these results through its refinement     *)
(* (LifeCycleProofs).                                                      *)
(***************************************************************************)
EXTENDS Workflow, TLAPS

(* A row that does not exist is blank, one that does has an owner, and     *)
(* nobody has submitted a draft.                                           *)
LifeShape ==
  \A r \in Reports :
    /\ life[r].status = "none" => life[r] = LifeOf(NoRow)
    /\ life[r].status # "none" => life[r].owner \in Users
    /\ life[r].status = "draft" => life[r].submittedBy = Null

LifeInv ==
  /\ LifeTypeOK /\ LifeShape
  /\ SegregationOfDuties /\ DecidedOnce /\ ResubmissionOfRejected

(* A database of drafts satisfies the invariant.                           *)
LEMMA LifeInvInit == LifeInit => LifeInv
<1> SUFFICES ASSUME LifeInit PROVE LifeInv
  OBVIOUS
<1>1. \A r \in Reports :
        /\ life[r].status \in {"none", "draft"}
        /\ life[r].status = "none" => life[r] = LifeOf(NoRow)
        /\ life[r].status = "draft" => life[r].owner \in Users
        /\ life[r].submittedBy = Null /\ life[r].approvedBy = Null
        /\ life[r].rejectedBy = Null /\ life[r].paidBy = Null /\ life[r].ref = Null
  <2> TAKE r \in Reports
  <2>1. CASE life[r] = LifeOf(NoRow)
    BY <2>1 DEF LifeOf, NoRow
  <2>2. ASSUME NEW u \in Users, life[r] = LifeOf(NewReport(u, Null))
        PROVE  /\ life[r].status = "draft" /\ life[r].owner = u
               /\ life[r].submittedBy = Null /\ life[r].approvedBy = Null
               /\ life[r].rejectedBy = Null /\ life[r].paidBy = Null /\ life[r].ref = Null
    BY <2>2 DEF LifeOf, NoRow, NewReport
  <2> QED BY <2>1, <2>2 DEF LifeInit, LifeOf, NoRow
<1> QED
  BY <1>1 DEF LifeInit, LifeInv, LifeShape, SegregationOfDuties, DecidedBy, DecidedOnce,
     ResubmissionOfRejected

(* The transitions of a row, written out field by field.                   *)
LEMMA LifeStep ==
  ASSUME LifeInv, LifeNext
  PROVE  LifeInv'
<1> PICK r \in Reports, u \in Users :
      \/ \E ref \in ReportOrNull : Create(r, u, ref)
      \/ Submit(r, u) \/ Approve(r, u) \/ Reject(r, u) \/ Pay(r, u) \/ Delete(r, u)
  BY DEF LifeNext
<1> DEFINE old == life[r]
<1>0. /\ old \in LifeRow /\ u # Null /\ u \in UserOrNull
      /\ old.status # "none" => old.owner \in Users
  BY DomainAssumption DEF LifeInv, LifeTypeOK, LifeShape, UserOrNull
<1> DEFINE Sound(new) ==
      /\ new.status # "none" /\ new.owner \in Users
      /\ new.status = "draft" => new.submittedBy = Null
      /\ new.ref # Null => /\ new.ref \in Reports
                           /\ life[new.ref].status = "rejected"
                           /\ life[new.ref].owner = new.owner
      /\ new.status # "draft" => new.submittedBy = new.owner
      /\ \A v \in {new.approvedBy, new.rejectedBy} \ {Null} :
           v # new.owner /\ TenantOf[new.owner] = TenantOf[v] /\ RoleOf[v] = "approver"
      /\ new.paidBy # Null => /\ new.approvedBy # Null /\ new.paidBy # new.owner
                              /\ TenantOf[new.owner] = TenantOf[new.paidBy]
                              /\ RoleOf[new.paidBy] = "accounting"
      /\ new.approvedBy # Null <=> new.status \in {"approved", "paid"}
      /\ new.rejectedBy # Null <=> new.status = "rejected"
      /\ new.paidBy # Null <=> new.status = "paid"
(* A changed row that is consistent with itself and keeps what other rows  *)
(* refer to keeps the whole invariant.                                     *)
<1>1. ASSUME NEW new \in LifeRow, life' = [life EXCEPT ![r] = new], Sound(new),
             old.status = "rejected" => new.status = "rejected" /\ new.owner = old.owner
      PROVE  LifeInv'
  <2>0. life \in [Reports -> LifeRow] /\ life'[r] = new
        /\ \A s \in Reports : s # r => life'[s] = life[s]
    BY <1>1 DEF LifeInv, LifeTypeOK
  <2>1. LifeTypeOK' /\ LifeShape'
    BY <1>1, <2>0 DEF LifeInv, LifeTypeOK, LifeShape
  <2>2. SegregationOfDuties'
    BY <1>1, <2>0 DEF LifeInv, SegregationOfDuties, DecidedBy, SameTenant
  <2>3. DecidedOnce'
    BY <1>1, <2>0 DEF LifeInv, DecidedOnce
  <2>4. ResubmissionOfRejected'
    <3> SUFFICES ASSUME NEW s \in Reports, life'[s].ref # Null
                 PROVE  life'[life'[s].ref].status = "rejected"
                        /\ life'[life'[s].ref].owner = life'[s].owner
      BY DEF ResubmissionOfRejected
    <3>1. CASE s = r
      BY <1>1, <2>0, <3>1
    <3>2. CASE s # r
      <4>1. life[s].ref \in Reports /\ life[life[s].ref].status = "rejected"
            /\ life[life[s].ref].owner = life[s].owner
        BY <2>0, <3>2 DEF LifeInv, ResubmissionOfRejected, LifeRow, ReportOrNull
      <4> QED BY <4>1, <2>0, <1>1, <3>2
    <3> QED BY <3>1, <3>2
  <2> QED BY <2>1, <2>2, <2>3, <2>4 DEF LifeInv
<1>2. old.status # "none" => Sound(old)
  BY <1>0 DEF LifeInv, LifeShape, SegregationOfDuties, DecidedBy, SameTenant, DecidedOnce,
     ResubmissionOfRejected, LifeRow, ReportOrNull
<1>3. CASE \E ref \in ReportOrNull : Create(r, u, ref)
  <2> PICK ref \in ReportOrNull : Create(r, u, ref)
    BY <1>3
  <2> DEFINE new == LifeOf(NewReport(u, ref))
  <2>1. new = [status |-> "draft", owner |-> u, ref |-> ref, submittedBy |-> Null,
               approvedBy |-> Null, rejectedBy |-> Null, paidBy |-> Null, deleted |-> FALSE]
    BY DEF LifeOf, NewReport, NoRow
  <2> HIDE DEF new
  <2>2. new \in LifeRow
    BY <2>1, <1>0 DEF LifeRow, Statuses, UserOrNull
  <2>3. life' = [life EXCEPT ![r] = new] /\ old.status = "none"
        /\ (ref # Null => ref \in Reports /\ life[ref].status = "rejected" /\ life[ref].owner = u)
    BY DEF Create, new
  <2>4. Sound(new)
    BY <1>0, <2>1, <2>3
  <2> QED BY <1>1, <2>2, <2>3, <2>4
<1>4. CASE Submit(r, u)
  <2> DEFINE new == Submitted(old, u)
  <2>1. /\ new \in LifeRow /\ new.status = "submitted" /\ new.submittedBy = u
        /\ new.owner = old.owner /\ new.ref = old.ref /\ new.approvedBy = old.approvedBy
        /\ new.rejectedBy = old.rejectedBy /\ new.paidBy = old.paidBy
    BY <1>0 DEF Submitted, LifeRow, Statuses
  <2>2. life' = [life EXCEPT ![r] = new] /\ old.status = "draft" /\ u = old.owner
    BY <1>4 DEF Submit, CanSubmit, IsDraft, CanModifyReport
  <2> HIDE DEF new
  <2>3. Sound(new)
    BY <1>0, <1>2, <2>1, <2>2
  <2> QED BY <1>1, <2>1, <2>2, <2>3
<1>5. CASE Approve(r, u)
  <2> DEFINE new == Approved(old, u)
  <2>1. /\ new \in LifeRow /\ new.status = "approved" /\ new.approvedBy = u
        /\ new.owner = old.owner /\ new.ref = old.ref /\ new.submittedBy = old.submittedBy
        /\ new.rejectedBy = old.rejectedBy /\ new.paidBy = old.paidBy
    BY <1>0 DEF Approved, LifeRow, Statuses
  <2>2. /\ life' = [life EXCEPT ![r] = new] /\ old.status = "submitted" /\ u # old.owner
        /\ TenantOf[old.owner] = TenantOf[u] /\ RoleOf[u] = "approver"
    BY <1>5 DEF Approve, CanApprove, SameTenant, RoleAllows
  <2> HIDE DEF new
  <2>3. Sound(new)
    BY <1>0, <1>2, <2>1, <2>2
  <2> QED BY <1>1, <2>1, <2>2, <2>3
<1>6. CASE Reject(r, u)
  <2> DEFINE new == Rejected(old, u)
  <2>1. /\ new \in LifeRow /\ new.status = "rejected" /\ new.rejectedBy = u
        /\ new.owner = old.owner /\ new.ref = old.ref /\ new.submittedBy = old.submittedBy
        /\ new.approvedBy = old.approvedBy /\ new.paidBy = old.paidBy
    BY <1>0 DEF Rejected, LifeRow, Statuses
  <2>2. /\ life' = [life EXCEPT ![r] = new] /\ old.status = "submitted" /\ u # old.owner
        /\ TenantOf[old.owner] = TenantOf[u] /\ RoleOf[u] = "approver"
    BY <1>6 DEF Reject, CanReject, SameTenant, RoleAllows
  <2> HIDE DEF new
  <2>3. Sound(new)
    BY <1>0, <1>2, <2>1, <2>2
  <2> QED BY <1>1, <2>1, <2>2, <2>3
<1>7. CASE Pay(r, u)
  <2> DEFINE new == Paid(old, u)
  <2>1. /\ new \in LifeRow /\ new.status = "paid" /\ new.paidBy = u
        /\ new.owner = old.owner /\ new.ref = old.ref /\ new.submittedBy = old.submittedBy
        /\ new.approvedBy = old.approvedBy /\ new.rejectedBy = old.rejectedBy
    BY <1>0 DEF Paid, LifeRow, Statuses
  <2>2. /\ life' = [life EXCEPT ![r] = new] /\ old.status = "approved" /\ u # old.owner
        /\ TenantOf[old.owner] = TenantOf[u] /\ RoleOf[u] = "accounting"
    BY <1>7 DEF Pay, CanPay, SameTenant, RoleAllows
  <2> HIDE DEF new
  <2>3. Sound(new)
    BY <1>0, <1>2, <2>1, <2>2
  <2> QED BY <1>1, <2>1, <2>2, <2>3
<1>8. CASE Delete(r, u)
  <2> DEFINE new == [old EXCEPT !.deleted = TRUE]
  <2>1. /\ new \in LifeRow /\ new.status = old.status /\ new.paidBy = old.paidBy
        /\ new.owner = old.owner /\ new.ref = old.ref /\ new.submittedBy = old.submittedBy
        /\ new.approvedBy = old.approvedBy /\ new.rejectedBy = old.rejectedBy
    BY <1>0 DEF LifeRow
  <2>2. life' = [life EXCEPT ![r] = new] /\ old.status # "none"
    BY <1>8 DEF Delete, Present
  <2> HIDE DEF new
  <2>3. Sound(new)
    BY <1>0, <1>2, <2>1, <2>2
  <2> QED BY <1>1, <2>1, <2>2, <2>3
<1> QED BY <1>3, <1>4, <1>5, <1>6, <1>7, <1>8

(* The invariant holds in every state of the abstract life cycle.          *)
THEOREM LifeInvariant == LifeSpec => []LifeInv
<1>1. LifeInv /\ UNCHANGED life => LifeInv'
  BY DEF LifeInv, LifeTypeOK, LifeShape, SegregationOfDuties, DecidedBy, SameTenant,
     DecidedOnce, ResubmissionOfRejected
<1>2. LifeInv /\ [LifeNext]_life => LifeInv'
  BY <1>1, LifeStep
<1> QED BY <1>2, LifeInvInit, PTL DEF LifeSpec

(* Separation of duties, at most one decision, and resubmission of rejected*)
(* reports only (authorizer.go, report.go, report_service.go:49-61).       *)
THEOREM LifeSafety ==
  LifeSpec => [](SegregationOfDuties /\ DecidedOnce /\ ResubmissionOfRejected)
<1>1. LifeInv => SegregationOfDuties /\ DecidedOnce /\ ResubmissionOfRejected
  BY DEF LifeInv
<1> QED BY <1>1, LifeInvariant, PTL

(* No transition rewrites who submitted, decided or paid a report, and a   *)
(* deleted report makes none.                                              *)
LEMMA LifeHistory ==
  ASSUME LifeInv, LifeNext, NEW s \in Reports
  PROVE  /\ life[s].deleted => life'[s] = life[s]
         /\ life[s].submittedBy # Null => life'[s].submittedBy = life[s].submittedBy
         /\ life[s].approvedBy # Null => life'[s].approvedBy = life[s].approvedBy
         /\ life[s].rejectedBy # Null => life'[s].rejectedBy = life[s].rejectedBy
         /\ life[s].paidBy # Null => life'[s].paidBy = life[s].paidBy
<1> PICK r \in Reports, u \in Users :
      \/ \E ref \in ReportOrNull : Create(r, u, ref)
      \/ Submit(r, u) \/ Approve(r, u) \/ Reject(r, u) \/ Pay(r, u) \/ Delete(r, u)
  BY DEF LifeNext
<1>1. /\ life \in [Reports -> LifeRow] /\ life[r] \in LifeRow
      /\ life[r].status = "none" => life[r] = LifeOf(NoRow)
      /\ life[r].status = "draft" => life[r].submittedBy = Null
      /\ life[r].approvedBy # Null <=> life[r].status \in {"approved", "paid"}
      /\ life[r].rejectedBy # Null <=> life[r].status = "rejected"
      /\ life[r].paidBy # Null <=> life[r].status = "paid"
  BY DEF LifeInv, LifeTypeOK, LifeShape, DecidedOnce
<1>2. CASE s # r
  BY <1>1, <1>2 DEF Create, Submit, Approve, Reject, Pay, Delete
<1>3. CASE s = r /\ \E ref \in ReportOrNull : Create(r, u, ref)
  BY <1>1, <1>3 DEF Create, LifeOf, NoRow
<1>4. CASE s = r /\ Submit(r, u)
  BY <1>1, <1>4 DEF Submit, Present, CanSubmit, IsDraft, Submitted, LifeRow
<1>5. CASE s = r /\ Approve(r, u)
  BY <1>1, <1>5 DEF Approve, Present, CanApprove, Approved, LifeRow
<1>6. CASE s = r /\ Reject(r, u)
  BY <1>1, <1>6 DEF Reject, Present, CanReject, Rejected, LifeRow
<1>7. CASE s = r /\ Pay(r, u)
  BY <1>1, <1>7 DEF Pay, Present, CanPay, Paid, LifeRow
<1>8. CASE s = r /\ Delete(r, u)
  BY <1>1, <1>8 DEF Delete, Present, LifeRow
<1> QED BY <1>2, <1>3, <1>4, <1>5, <1>6, <1>7, <1>8

(* Who did what is never rewritten, and a deleted report never moves again.*)
THEOREM LifeHistoryIsFinal == LifeSpec => HistoryIsFinal
<1>1. LifeInv /\ [LifeNext]_life =>
        [\A r \in Reports :
           /\ life[r].deleted => life'[r] = life[r]
           /\ life[r].submittedBy # Null => life'[r].submittedBy = life[r].submittedBy
           /\ life[r].approvedBy # Null => life'[r].approvedBy = life[r].approvedBy
           /\ life[r].rejectedBy # Null => life'[r].rejectedBy = life[r].rejectedBy
           /\ life[r].paidBy # Null => life'[r].paidBy = life[r].paidBy]_life
  BY LifeHistory
<1> QED BY <1>1, LifeInvariant, PTL DEF LifeSpec, HistoryIsFinal
=============================================================================
