---------------------------- MODULE MCForwarding ----------------------------
(* Two PoPs, one of them with two edge nodes, and one server. *)
EXTENDS Forwarding, TLC

CONSTANTS p1, p2, n1, n2, m2, s1, k1, k2

MCPopIps == (p1 :> <<n1>>) @@ (p2 :> <<n2, m2>>)

\* Service ids are authenticators, too.
MCServiceId == (s1 :> 1)

\* A payload without a number, and one that starts like a packet.
MCPayloads == {<<Text>>, <<1, 0>>}
=============================================================================
