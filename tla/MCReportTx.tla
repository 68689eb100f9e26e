----------------------------- MODULE MCReportTx -----------------------------
(* Small instances of ReportTx for TLC. *)
EXTENDS ReportTx, TLC

CONSTANTS own, apr, apr2, acc, out, t1, t2, r1, r2, i1, i2, i3, w1, w2, w3

(* An owner who is an approver himself, two other approvers of whom one    *)
(* belongs to another tenant, and an accountant.                           *)
MCTenantOf == [u \in Users |-> IF u = out THEN t2 ELSE t1]
MCRoleOf == [u \in Users |-> IF u = acc THEN "accounting" ELSE "approver"]

(* r1 starts as a draft of own with item i1; other ids are unused. *)
MCSeedOwner == [r \in Reports |-> IF r = r1 THEN own ELSE Null]
MCSeedReport == [i \in Items |-> IF i = i1 THEN r1 ELSE Null]
(* r1 starts with items i1 and i2. *)
MCSeedReport2 == [i \in Items |-> IF i \in {i1, i2} THEN r1 ELSE Null]

(* What clients send in the different runs. *)
DecisionOps == VersionedOps \cup {"get"}
EditOps     == ItemOps \cup {"get", "submit", "approve"}
CopyOps     == {"get", "submit", "reject", "create", "delete"}
DeleteOps   == ItemOps \cup {"get", "submit", "delete", "approve"}

Symm == Permutations(Workers)
=============================================================================
