----------------------------- MODULE Forwarding -----------------------------
(***************************************************************************)
(* The data plane overlay: clients/send.py sends a packet with a token,    *)
(* daemons/forwarderd.py on every edge node looks the token up in its PoP  *)
(* and sends the packet on with the next one, clients/udp_echo_server.py   *)
(* receives it.                                                            *)
(*                                                                         *)
(* The stores are CircuitStore, which Establishment is proved to implement *)
(* and failoverd redirects.  Packets are datagrams; a duplicate is another *)
(* packet, a node that is down loses what is sent to it.                   *)
(***************************************************************************)
EXTENDS Integers, Sequences, Functions

CONSTANTS
    PoPs,       \* points of presence
    PopIps,     \* PopIps[p]: the edge nodes of PoP p
    MaxAuth,    \* authenticators are drawn from 0..MaxAuth
    Servers,    \* the addresses of end hosts
    ServiceId,  \* ServiceId[s]: the service of end host s
    Payloads,   \* what clients send: the parts that colons separate, or nothing
    Packets     \* the packets that clients send

Auth == 0..MaxAuth

\* A part of a payload that is no number, or nothing at all: it names no circuit.
Text == -1

Parts == Nat \cup {Text}

ASSUME ForwardingAssumption ==
    /\ MaxAuth \in Nat
    /\ \A p, q \in PoPs : p # q => Range(PopIps[p]) \cap Range(PopIps[q]) = {}
    /\ \A p \in PoPs : Range(PopIps[p]) \cap Servers = {}
    /\ ServiceId \in [Servers -> Nat]
    /\ Payloads \subseteq Seq(Parts)

\* What circuitc asks for: the next PoP and an authenticator there, or a server.
Circuit ==
    UNION ({[next_ip : Range(PopIps[p]), next_ips : {PopIps[p]}, next_auth : Auth] : p \in PoPs}
           \cup {[next_ip : {s}, next_ips : {<<s>>}, next_auth : {ServiceId[s]}] : s \in Servers})

NoCircuit == [next_ip |-> "none", next_ips |-> << >>, next_auth |-> 0]

VARIABLES
    circuits,  \* the stores: circuits[p][a]
    packet     \* packet[k]: where packet k is and what it carries: the token before
               \* the first colon and the data after it; history: the circuit it used
               \* last, and those it used since its payload was last read as a token

vars == <<circuits, packet>>

Store == INSTANCE CircuitStore

NewPacket == [pc |-> "new", at |-> "none", token |-> Text, data |-> << >>,
              next |-> "none", last |-> << >>, used |-> {}]

PopOf(ip) == CHOOSE p \in PoPs : ip \in Range(PopIps[p])

AtNode(k) == \E p \in PoPs : packet[k].at \in Range(PopIps[p])

Init ==
    /\ Store!Init
    /\ packet = [k \in Packets |-> NewPacket]

-----------------------------------------------------------------------------

\* circuitd creates and failoverd redirects circuits.
StoreStep == Store!Next /\ UNCHANGED packet

\* send.py: a client sends to a node of the first PoP of an established circuit.
Send(k) ==
    /\ packet[k].pc = "new"
    /\ \E p \in PoPs : \E a \in Auth, ip \in Range(PopIps[p]), m \in Payloads :
          /\ Store!Stored(p, a)
          /\ packet' = [packet EXCEPT ![k].pc = "sent", ![k].at = ip,
                                      ![k].token = a, ![k].data = m]
    /\ UNCHANGED circuits

Lose(k) ==
    /\ packet[k].pc = "sent"
    /\ packet' = [packet EXCEPT ![k].pc = "lost"]
    /\ UNCHANGED circuits

\* zookeeper.get of next_ip; a token that names no circuit raises and ends the
\* handler.
GetNextIp(k) ==
    /\ packet[k].pc = "sent" /\ AtNode(k)
    /\ LET p == PopOf(packet[k].at)
           a == packet[k].token
       IN packet' = [packet EXCEPT ![k] =
             IF Store!Stored(p, a)
               THEN [@ EXCEPT !.pc = "looked", !.next = circuits[p][a].next_ip,
                              !.last = <<p, a>>,
                              !.used = packet[k].used \cup {<<p, a>>}]
               ELSE [@ EXCEPT !.pc = "rejected"]]
    /\ UNCHANGED circuits

\* Variant of Forward: the token is not replaced.
ForwardWithOldToken(k) ==
    /\ packet[k].pc = "looked"
    /\ packet' = [packet EXCEPT ![k].pc = "sent", ![k].at = packet[k].next]
    /\ UNCHANGED circuits

\* The bare payload is sent: the next forwarder takes what is before its first colon
\* for the token.
Stripped(d) ==
    [d EXCEPT !.token = IF d.data = << >> THEN Text ELSE Head(d.data),
              !.data = IF d.data = << >> THEN << >> ELSE Tail(d.data),
              !.used = {}]

\* zookeeper.get of next_auth; the packet goes on with it as its token, or as its bare
\* payload if it is '0'.
Forward(k) ==
    /\ packet[k].pc = "looked"
    /\ LET next == circuits[PopOf(packet[k].at)][packet[k].token].next_auth
           d == [packet[k] EXCEPT !.pc = "sent", !.at = packet[k].next]
       IN packet' = [packet EXCEPT ![k] =
             IF next = 0 THEN Stripped(d) ELSE [d EXCEPT !.token = next]]
    /\ UNCHANGED circuits

\* The echo server takes what comes.
Deliver(k) ==
    /\ packet[k].pc = "sent" /\ packet[k].at \in Servers
    /\ packet' = [packet EXCEPT ![k].pc = "delivered"]
    /\ UNCHANGED circuits

PacketStep(k) == GetNextIp(k) \/ Forward(k) \/ Deliver(k)

Next == StoreStep \/ \E k \in Packets : Send(k) \/ Lose(k) \/ PacketStep(k)

Spec == Init /\ [][Next]_vars

\* A handler thread that has a packet runs, and what is not lost arrives.
FairSpec == Spec /\ \A k \in Packets : WF_vars(PacketStep(k))

-----------------------------------------------------------------------------
(* Properties. *)

\* Every variable has its type.
TypeOK ==
    /\ Store!TypeOK
    /\ \A k \in Packets :
          /\ packet[k].pc \in {"new", "sent", "looked", "lost", "rejected", "delivered"}
          /\ packet[k].token \in Parts /\ packet[k].data \in Seq(Parts)
          /\ packet[k].used \subseteq PoPs \X Auth
          /\ packet[k].last \in (PoPs \X Auth) \cup {<< >>}

\* The circuit that packet k used last.
LastCircuit(k) == circuits[packet[k].last[1]][packet[k].last[2]]

\* A packet goes from circuit to circuit as they were established, and arrives
\* at the server of the last one, however often next hops are redirected while
\* it travels and while forwarderd is between its two reads.
FollowsCircuits ==
    \A k \in Packets :
        packet[k].last # << >> /\ packet[k].pc \in {"sent", "delivered"} =>
            /\ packet[k].at \in Range(LastCircuit(k).next_ips)
            /\ LastCircuit(k).next_auth \in {0, packet[k].token}

\* No packet uses a circuit twice, or only after its payload has lost a part in
\* between: there is no hop count, and circuits that lead in a cycle would keep a
\* packet for ever.  A path may well cross a PoP twice.
NoLoops ==
    \A k \in Packets : packet[k].pc = "sent" /\ AtNode(k) =>
        <<PopOf(packet[k].at), packet[k].token>> \notin packet[k].used

\* A forwarder finds a circuit for every token but after a circuit whose next
\* authenticator is 0, which circuitd can draw and forwarderd takes for none: what it
\* then reads from the payload names a circuit only by chance.
RejectedOnlyAfterZero ==
    \A k \in Packets : packet[k].pc = "rejected" =>
        packet[k].last # << >> /\ LastCircuit(k).next_auth = 0

\* Every packet that is sent comes to an end.
PacketsEnd ==
    \A k \in Packets :
        packet[k].pc = "sent" ~> packet[k].pc \in {"lost", "rejected", "delivered"}
=============================================================================
