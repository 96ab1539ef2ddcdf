-------------------------- MODULE MCEstablishment --------------------------
(* Two clients over three PoPs: the first PoP of c2 is the second of c1. *)
EXTENDS Establishment, TLC

CONSTANTS p1, p2, p3, c1, c2, n1, n2, n3, m2, s1, s2

MCPath == (c1 :> <<p1, p2, p3>>) @@ (c2 :> <<p2, p3>>)

\* p2 has two edge nodes.
MCPopIps == (p1 :> <<n1>>) @@ (p2 :> <<n2, m2>>) @@ (p3 :> <<n3>>)

MCServer == (c1 :> s1) @@ (c2 :> s2)

MCServiceId == (c1 :> 7) @@ (c2 :> 8)
=============================================================================
