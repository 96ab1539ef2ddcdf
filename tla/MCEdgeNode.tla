----------------------------- MODULE MCEdgeNode -----------------------------
(* One circuit and three nodes of the next PoP. *)
EXTENDS EdgeNode, TLC

CONSTANTS a1, n1, n2, n3, w1, c1, k1, k2, k3

\* No definition tells one node, or one check, from another.
Symmetry == Permutations({n1, n2, n3}) \cup Permutations(Checks)
=============================================================================
