----------------------------- MODULE MCFailover -----------------------------
(* Circuits over two and three PoPs. *)
EXTENDS Failover

CONSTANTS a1, a2, b1, b2, b3, c1, c2, k1, k2, k3

\* One entry node, then two PoPs with a standby node each.
ThreePoPs == << <<a1>>, <<b1, b2>>, <<c1, c2>> >>

\* Two entry nodes that share a store, then one PoP with a standby node.
TwoPoPs == << <<a1, a2>>, <<b1, b2>> >>

\* One entry node, then one PoP with two standby nodes.
OneEntry == << <<a1>>, <<b1, b2, b3>> >>
=============================================================================
