---------------------------- MODULE MCTaasClient ----------------------------
(* A client of two ISPs that together complete two failovers. *)
EXTENDS TaasClient, Messages
=============================================================================
