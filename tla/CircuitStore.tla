---------------------------- MODULE CircuitStore ----------------------------
(***************************************************************************)
(* What the ZooKeepers of the PoPs promise together to everything that     *)
(* reads them (watcherd, failoverd, forwarderd): a circuit appears whole   *)
(* and once, only after the circuit it leads to, and from then on nothing  *)
(* but its next_ip changes, always to one of its next_ips.                 *)
(***************************************************************************)
EXTENDS Sequences, Functions

CONSTANTS
    PoPs,      \* the points of presence
    Auth,      \* the authenticators a circuitd can issue
    PopIps,    \* PopIps[p]: the edge nodes of PoP p, in configuration order
    Circuit,   \* the circuits that can be stored, as records
    NoCircuit  \* the value of an authenticator that names no circuit

VARIABLE
    circuits   \* circuits[p][a]: the circuit of authenticator a at PoP p

TypeOK == circuits \in [PoPs -> [Auth -> Circuit \cup {NoCircuit}]]

Stored(p, a) == a \in Auth /\ circuits[p][a] # NoCircuit

\* Variant of Leads: circuits are created in any order.
LeadsAnywhere(r, q) == r.next_ips = PopIps[q] => r.next_auth \in Auth

\* If circuit r leads to PoP q, its next authenticator names a circuit there.
Leads(r, q) == r.next_ips = PopIps[q] => Stored(q, r.next_auth)

Init == circuits = [p \in PoPs |-> [a \in Auth |-> NoCircuit]]

Create(p, a, r) ==
    /\ ~Stored(p, a)
    /\ r.next_ip = Head(r.next_ips)
    /\ \A q \in PoPs : Leads(r, q)
    /\ circuits' = [circuits EXCEPT ![p][a] = r]

\* Variant of Redirect: next_ips is set instead of next_ip.
RedirectList(p, a, ip) ==
    /\ Stored(p, a)
    /\ circuits' = [circuits EXCEPT ![p][a].next_ips = <<ip>>]

Redirect(p, a, ip) ==
    /\ Stored(p, a)
    /\ circuits' = [circuits EXCEPT ![p][a].next_ip = ip]

Next == \E p \in PoPs, a \in Auth :
            \/ \E r \in Circuit : Create(p, a, r)
            \/ /\ Stored(p, a)
               /\ \E ip \in Range(circuits[p][a].next_ips) : Redirect(p, a, ip)

Spec == Init /\ [][Next]_circuits
=============================================================================
