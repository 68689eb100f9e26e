----------------------------- MODULE MCSessions -----------------------------
(* Small instances of Sessions for TLC. *)
EXTENDS Sessions, TLC

CONSTANTS c1, c2, h1, h2, h3

Symm == Permutations(Calls) \cup Permutations(Handlers)
=============================================================================
