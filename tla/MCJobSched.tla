----------------------------- MODULE MCJobSched -----------------------------
(* JobSched for TLC: the addresses of nodes and structures are alike.      *)
EXTENDS JobSched

Addresses == Permutations(Ids) \cup Permutations(Args)
=============================================================================
