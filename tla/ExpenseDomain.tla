--------------------------- MODULE ExpenseDomain ---------------------------
(***************************************************************************)
(* The state-independent part of the expense system: the report entity,    *)
(* the transitions of internal/domain/report.go, the ownership checks of   *)
(* internal/service/authorizer.go and the role groups of the router.       *)
(* The transactional module (ReportTx) and the abstract life cycle         *)
(* (Workflow) are both built from these operators.                         *)
(***************************************************************************)
EXTENDS Naturals

CONSTANTS
  Users,       \* every user; a user has one membership
  Tenants,     \* the tenants
  TenantOf,    \* the tenant of a user's membership
  RoleOf,      \* the role of a user's membership
  Reports,     \* report ids
  Items,       \* expense item ids
  Amounts,     \* amounts a client may send
  Null         \* SQL NULL, and "not given" in a request

(* internal/domain/enum.go *)
Roles    == {"member", "approver", "admin", "accounting"}
Statuses == {"draft", "submitted", "approved", "rejected", "paid"}

ASSUME DomainAssumption ==
  /\ TenantOf \in [Users -> Tenants]
  /\ RoleOf \in [Users -> Roles]
  /\ Amounts \subseteq Nat
  /\ Null \notin Users \cup Reports \cup Items

-----------------------------------------------------------------------------
(* Rows. A status or state of "none" says that the row does not exist.     *)
(* "ver" is updated_at: now() is fixed when a transaction begins, so it    *)
(* names the transaction that wrote the row last. "total" is kept as the   *)
(* amounts it was summed over, so that it can be compared with the items   *)
(* without adding up numbers; title, period, comment and reason are the    *)
(* data that a version stands for.                                         *)

UserOrNull   == Users \cup {Null}
ReportOrNull == Reports \cup {Null}
ItemOrNull   == Items \cup {Null}
Sums         == [Items -> Nat]
NoSum        == [i \in Items |-> 0]

ReportRow == [status : Statuses \cup {"none"}, owner : UserOrNull,
              ref : ReportOrNull, submittedBy : UserOrNull,
              approvedBy : UserOrNull, rejectedBy : UserOrNull,
              paidBy : UserOrNull, deleted : BOOLEAN,
              total : Sums, ver : Nat]

NoRow == [status |-> "none", owner |-> Null, ref |-> Null,
          submittedBy |-> Null, approvedBy |-> Null,
          rejectedBy |-> Null, paidBy |-> Null, deleted |-> FALSE,
          total |-> NoSum, ver |-> 0]

ItemRow == [state : {"none", "live", "deleted"}, rep : ReportOrNull,
            amt : Nat, ver : Nat]

NoItem   == [state |-> "none", rep |-> Null, amt |-> 0, ver |-> 0]
NoWrites == [i \in Items |-> NoItem]

(* The workflow columns of a full row. *)
LifeOf(row) ==
  [status |-> row.status, owner |-> row.owner, ref |-> row.ref,
   submittedBy |-> row.submittedBy, approvedBy |-> row.approvedBy,
   rejectedBy |-> row.rejectedBy, paidBy |-> row.paidBy,
   deleted |-> row.deleted]

(* An INSERT leaves every column but these to its default. *)
NewReport(u, ref) ==
  [NoRow EXCEPT !.status = "draft", !.owner = u, !.ref = ref]

-----------------------------------------------------------------------------
(* Faulty forms of definitions below, used to show that the properties     *)
(* notice them: a transition allowed from any status, an ownership check   *)
(* left out, a status the enum does not have.                              *)
AnyStatus(r)           == TRUE
AnyoneApproves(r, u)   == r.status = "submitted"
AnyReference(r, u)     == r.owner = u
UnknownStatus(r, u)    == [r EXCEPT !.status = "pending", !.submittedBy = u]
RejectsApproved(r, u)  == r.status \in {"submitted", "approved"} /\ u # r.owner
-----------------------------------------------------------------------------
(* Guards: the domain methods return an error when these are false. *)

IsDraft(r)   == r.status = "draft"
CanEdit(r)   == IsDraft(r)
CanDelete(r) == IsDraft(r)

HasApprover(t) == \E u \in Users : TenantOf[u] = t /\ RoleOf[u] = "approver"

CanSubmit(r, hasItems, hasApprover) == IsDraft(r) /\ hasItems /\ hasApprover
CanApprove(r, u) == r.status = "submitted" /\ u # r.owner
CanReject(r, u)  == r.status = "submitted" /\ u # r.owner
CanPay(r, u)     == r.status = "approved" /\ u # r.owner

(* CreateReport's conditions on the report a resubmission refers to. *)
CanRefer(r, u) == r.owner = u /\ r.status = "rejected"

(* authorizer.go *)
CanModifyReport(u, r) == u = r.owner
CanViewReport(u, r) ==
  \/ u = r.owner
  \/ RoleOf[u] \in {"admin", "accounting"}
  \/ RoleOf[u] = "approver" /\ (r.status = "submitted"
                                \/ u \in {r.approvedBy, r.rejectedBy})

(* What a successful transition leaves in the entity. *)
Submitted(r, u) == [r EXCEPT !.status = "submitted", !.submittedBy = u]
Approved(r, u)  == [r EXCEPT !.status = "approved", !.approvedBy = u]
Rejected(r, u)  == [r EXCEPT !.status = "rejected", !.rejectedBy = u]
Paid(r, u)      == [r EXCEPT !.status = "paid", !.paidBy = u]

(* RequireRole: the role groups of cmd/server/main.go. *)
RoleAllows(op, u) ==
  CASE op \in {"approve", "reject"} -> RoleOf[u] = "approver"
    [] op = "pay"                   -> RoleOf[u] = "accounting"
    [] OTHER                        -> TRUE
=============================================================================
