---------------------------- MODULE MCAttachments ----------------------------
(* A small instance of Attachments for TLC. *)
EXTENDS Attachments, TLC

CONSTANTS own, apr, t1, r1, i1, i2, a1, a2, w1, w2

MCTenantOf == [u \in Users |-> t1]
MCRoleOf == [u \in Users |-> IF u = apr THEN "approver" ELSE "member"]

(* i1 has one attachment at the start; the other ids are unused. *)
MCSeedItem == [a \in Atts |-> IF a = a1 THEN i1 ELSE Null]

MCPos ==
  [x \in Rows |-> CASE x = i1 -> 1 [] x = i2 -> 2 [] x = a1 -> 3 [] x = a2 -> 4 [] x = r1 -> 5]
=============================================================================
