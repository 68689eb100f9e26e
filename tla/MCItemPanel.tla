---------------------------- MODULE MCItemPanel ----------------------------
(* A small instance of ItemPanel for TLC. *)
EXTENDS ItemPanel

CONSTANTS i1, s1, s2
=============================================================================
