----------------------------- MODULE MCWatcher ------------------------------
(* Two circuits, three nodes of the next PoP, up to three daemons. *)
EXTENDS Watcher

CONSTANTS a1, a2, n1, n2, n3, w1, w2, c1
=============================================================================
