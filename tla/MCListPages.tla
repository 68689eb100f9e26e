---------------------------- MODULE MCListPages ----------------------------
(* A small instance of ListPages for TLC.  What it does on the page of all  *)
(* reports it does on the user's own, and the list waiting for the          *)
(* accounting is like the one waiting for an approver.  The changes are two *)
(* that one of the lists is invalidated by, and one that none of them is.   *)
EXTENDS ListPages

MCNames == {"", "a"}
MCVisited == {"all", "pending", "processed"}
MCChanges == {"approve", "pay", "update"}
=============================================================================
