-------------------------- MODULE ForwardingProofs --------------------------
(***************************************************************************)
(* Theorems about the data plane overlay, for every set of PoPs, servers   *)
(* and packets, every range of authenticators and every order of circuits. *)
(***************************************************************************)
EXTENDS Forwarding, TLAPS

-----------------------------------------------------------------------------
(* The invariant. *)

\* Every stored circuit leads to a server, or to a circuit of another PoP.
StoreInv ==
    /\ circuits \in [PoPs -> [Auth -> Circuit \cup {NoCircuit}]]
    /\ \A p, q \in PoPs, a \in Auth :
          Store!Stored(p, a) => Store!Leads(circuits[p][a], q)

Places == {"none"} \cup Servers \cup (UNION {Range(PopIps[p]) : p \in PoPs})

\* How the circuits of all PoPs are named.
Names == PoPs \X Auth

NameOrNone == Names \cup {<< >>}

PacketType ==
    [pc : {"new", "sent", "looked", "lost", "rejected", "delivered"},
     at : Places, token : Parts, data : Seq(Parts), next : Places,
     last : NameOrNone, used : SUBSET Names]

\* The circuits that a packet used are stored, the last one, too.
UsedInv ==
    \A k \in Packets :
        /\ packet[k].last = << >> => packet[k].used = {}
        /\ packet[k].last # << >> =>
              /\ packet[k].last \in Names
              /\ Store!Stored(packet[k].last[1], packet[k].last[2])
        /\ \A c \in packet[k].used : c \in Names /\ Store!Stored(c[1], c[2])

\* On its first hop a packet has the token of a circuit of that PoP.
FirstInv ==
    \A k \in Packets :
        packet[k].last = << >> =>
            /\ packet[k].pc \in {"new", "sent", "lost"}
            /\ packet[k].pc = "sent" =>
                  \E p \in PoPs : /\ packet[k].at \in Range(PopIps[p])
                                  /\ Store!Stored(p, packet[k].token)

\* Between its two reads a forwarder has a next hop of the circuit; afterwards the
\* packet is at one, with the token of the next circuit, or with a part of its payload
\* and nothing used since.
LastInv ==
    \A k \in Packets :
        packet[k].last # << >> =>
            /\ packet[k].pc # "new"
            /\ packet[k].pc = "looked" =>
                  /\ packet[k].last = <<PopOf(packet[k].at), packet[k].token>>
                  /\ packet[k].next \in Range(LastCircuit(k).next_ips)
            /\ packet[k].pc \in {"sent", "delivered"} =>
                  /\ packet[k].at \in Range(LastCircuit(k).next_ips)
                  /\ LastCircuit(k).next_auth # 0 =>
                        packet[k].token = LastCircuit(k).next_auth
            /\ packet[k].pc = "sent" /\ LastCircuit(k).next_auth = 0 =>
                  packet[k].used = {}
            /\ packet[k].pc = "rejected" => LastCircuit(k).next_auth = 0

PacketInv == packet \in [Packets -> PacketType] /\ UsedInv /\ FirstInv /\ LastInv

\* The circuits can be ranked in the order of their creation, so that each leads to
\* one of a lower rank.  No circuit that a packet has used, since its payload was last
\* read as a token, is below the last one.
Ranked(rank) ==
    /\ rank \in [Names -> Nat]
    /\ \A p, q \in PoPs, a \in Auth :
          Store!Stored(p, a) /\ circuits[p][a].next_ips = PopIps[q] =>
              rank[<<q, circuits[p][a].next_auth>>] < rank[<<p, a>>]
    /\ \A k \in Packets : \A c \in packet[k].used : rank[packet[k].last] <= rank[c]

RankInv == \E rank : Ranked(rank)

Inv == StoreInv /\ PacketInv

-----------------------------------------------------------------------------
(* The stores. *)

\* What is known of a circuit that is stored.
LEMMA CircuitShape ==
    ASSUME NEW r \in Circuit
    PROVE  /\ r.next_ip \in Range(r.next_ips)
           /\ r # NoCircuit
           /\ \A ip \in Range(r.next_ips) : [r EXCEPT !.next_ip = ip] \in Circuit
           /\ r.next_auth \in Nat
           /\ \/ \E p \in PoPs : r.next_ips = PopIps[p]
              \/ \E s \in Servers : Range(r.next_ips) = {s}
<1>1. CASE \E p \in PoPs : r \in [next_ip : Range(PopIps[p]), next_ips : {PopIps[p]},
                                  next_auth : Auth]
  <2>1. PICK p \in PoPs : r \in [next_ip : Range(PopIps[p]), next_ips : {PopIps[p]},
                                  next_auth : Auth]
    BY <1>1
  <2>2. \A ip \in Range(PopIps[p]) : [r EXCEPT !.next_ip = ip] \in
             [next_ip : Range(PopIps[p]), next_ips : {PopIps[p]}, next_auth : Auth]
    BY <2>1
  <2>3. \A ip \in Range(PopIps[p]) : [r EXCEPT !.next_ip = ip] \in Circuit
    BY <2>2 DEF Circuit
  <2>4. r # NoCircuit
    <3>1. Range(<< >>) = {}
      BY DEF Range
    <3> QED  BY <2>1, <3>1 DEF NoCircuit
  <2>5. r.next_auth \in Nat
    BY <2>1, ForwardingAssumption DEF Auth
  <2> QED  BY <2>1, <2>3, <2>4, <2>5
<1>2. CASE \E s \in Servers : r \in [next_ip : {s}, next_ips : {<<s>>},
                                     next_auth : {ServiceId[s]}]
  <2>1. PICK s \in Servers : r \in [next_ip : {s}, next_ips : {<<s>>},
                                     next_auth : {ServiceId[s]}]
    BY <1>2
  <2>2. Range(<<s>>) = {s}
    BY DEF Range
  <2>3. [r EXCEPT !.next_ip = s] \in Circuit
    <3>1. [r EXCEPT !.next_ip = s] = r
      BY <2>1
    <3> QED  BY <3>1
  <2>4. r # NoCircuit
    BY <2>1 DEF NoCircuit
  <2>5. ServiceId[s] \in Nat
    BY ForwardingAssumption
  <2> QED  BY <2>1, <2>2, <2>3, <2>4, <2>5
<1> QED  BY <1>1, <1>2 DEF Circuit

\* A circuit leads to a place where packets can be.
LEMMA CircuitPlace ==
    ASSUME NEW r \in Circuit
    PROVE  r.next_ip \in Places
<1> USE DEF Places
<1>1. CASE \E p \in PoPs : r.next_ips = PopIps[p]
  BY <1>1, CircuitShape
<1>2. CASE \E s \in Servers : Range(r.next_ips) = {s}
  BY <1>2, CircuitShape
<1> QED  BY <1>1, <1>2, CircuitShape

\* Nothing that is stored is changed but next_ip.
Kept ==
    \A p \in PoPs, a \in Auth : Store!Stored(p, a) =>
        /\ Store!Stored(p, a)'
        /\ (circuits[p][a].next_ips)' = circuits[p][a].next_ips
        /\ (circuits[p][a].next_auth)' = circuits[p][a].next_auth

\* circuitd adds a circuit after the one that it leads to.
LEMMA CreateKeeps ==
    ASSUME StoreInv, NEW p \in PoPs, NEW a \in Auth, NEW r \in Circuit,
           Store!Create(p, a, r)
    PROVE  StoreInv' /\ Kept
<1> USE DEF StoreInv, Store!Stored, Store!Leads
<1>1. r # NoCircuit
  BY CircuitShape
<1>2. circuits' \in [PoPs -> [Auth -> Circuit \cup {NoCircuit}]]
  BY DEF Store!Create
<1>3. \A q \in PoPs, b \in Auth :
         circuits'[q][b] = IF q = p /\ b = a THEN r ELSE circuits[q][b]
  BY DEF Store!Create
<1>4. Kept
  BY <1>1, <1>3 DEF Kept, Store!Create
<1>5. ASSUME NEW q \in PoPs, NEW t \in PoPs, NEW b \in Auth, circuits'[q][b] # NoCircuit,
             circuits'[q][b].next_ips = PopIps[t]
      PROVE  circuits'[q][b].next_auth \in Auth
             /\ circuits'[t][circuits'[q][b].next_auth] # NoCircuit
  <2>1. Store!Leads(circuits'[q][b], t)
    BY <1>3, <1>5 DEF Store!Create
  <2> QED  BY <1>1, <1>3, <1>5, <2>1
<1> QED  BY <1>2, <1>4, <1>5

\* failoverd keeps next_ip among the next_ips.
LEMMA RedirectKeeps ==
    ASSUME StoreInv, NEW p \in PoPs, NEW a \in Auth, Store!Stored(p, a),
           NEW ip \in Range(circuits[p][a].next_ips), Store!Redirect(p, a, ip)
    PROVE  StoreInv' /\ Kept
<1> USE DEF StoreInv, Store!Stored, Store!Leads
<1> DEFINE r == [circuits[p][a] EXCEPT !.next_ip = ip]
<1>1. circuits[p][a] \in Circuit
  OBVIOUS
<1>2. r \in Circuit /\ r # NoCircuit
  BY <1>1, CircuitShape
<1>3. r.next_ips = circuits[p][a].next_ips /\ r.next_auth = circuits[p][a].next_auth
  BY <1>1 DEF Circuit
<1>4. circuits' = [circuits EXCEPT ![p] = [@ EXCEPT ![a] = r]]
  BY DEF Store!Redirect
<1> HIDE DEF r
<1>5. circuits' \in [PoPs -> [Auth -> Circuit \cup {NoCircuit}]]
  BY <1>2, <1>4
<1>6. \A q \in PoPs, b \in Auth :
         circuits'[q][b] = IF q = p /\ b = a THEN r ELSE circuits[q][b]
  BY <1>4
<1>7. Kept
  BY <1>2, <1>3, <1>6 DEF Kept
<1> QED  BY <1>2, <1>3, <1>5, <1>6, <1>7

LEMMA StoreKeeps ==
    ASSUME StoreInv, [Store!Next]_circuits
    PROVE  StoreInv' /\ Kept
<1>1. CASE UNCHANGED circuits
  BY <1>1 DEF StoreInv, Kept, Store!Stored, Store!Leads
<1>2. CASE Store!Next
  BY <1>2, CreateKeeps, RedirectKeeps DEF Store!Next, Store!Range, Range
<1> QED  BY <1>1, <1>2

-----------------------------------------------------------------------------
(* The packets. *)

\* A node is in one PoP.
LEMMA OnePop ==
    ASSUME NEW p \in PoPs, NEW ip \in Range(PopIps[p])
    PROVE  PopOf(ip) = p
  BY ForwardingAssumption DEF PopOf

\* A stored circuit has the type of circuits.
LEMMA StoredIsCircuit ==
    ASSUME StoreInv, NEW p \in PoPs, NEW a, Store!Stored(p, a)
    PROVE  a \in Auth /\ circuits[p][a] \in Circuit
  BY DEF StoreInv, Store!Stored

\* A circuit is named by a PoP and an authenticator.
LEMMA NameParts ==
    ASSUME NEW c \in Names
    PROVE  c[1] \in PoPs /\ c[2] \in Auth /\ c = <<c[1], c[2]>>
  BY DEF Names

\* A packet with a circuit behind it is not affected by what happens to the stores.
LEMMA StoreStepPacket ==
    ASSUME StoreInv, PacketInv, StoreStep
    PROVE  PacketInv'
<1>1. Kept /\ UNCHANGED packet
  BY StoreKeeps DEF StoreStep
<1>2. \A k \in Packets : packet[k] \in PacketType
  BY DEF PacketInv
<1>3. UsedInv'
  BY <1>1, NameParts DEF PacketInv, UsedInv, Kept
<1>4. FirstInv'
  BY <1>1, <1>2 DEF PacketInv, FirstInv, Kept, Store!Stored
<1>5. LastInv'
  <2>1. ASSUME NEW k \in Packets, packet[k].last # << >>
        PROVE  (LastCircuit(k).next_ips)' = LastCircuit(k).next_ips
               /\ (LastCircuit(k).next_auth)' = LastCircuit(k).next_auth
    <3>1. /\ packet[k].last[1] \in PoPs /\ packet[k].last[2] \in Auth
          /\ Store!Stored(packet[k].last[1], packet[k].last[2])
      BY <2>1, NameParts DEF PacketInv, UsedInv
    <3> QED  BY <1>1, <3>1 DEF Kept, LastCircuit
  <2> QED  BY <1>1, <2>1 DEF PacketInv, LastInv
<1> QED  BY <1>1, <1>3, <1>4, <1>5 DEF PacketInv

\* A client takes an established circuit.
LEMMA SendPacket ==
    ASSUME StoreInv, PacketInv, NEW k \in Packets, Send(k)
    PROVE  PacketInv'
<1>0. PICK p \in PoPs : \E a \in Auth, ip \in Range(PopIps[p]), m \in Payloads :
         /\ Store!Stored(p, a)
         /\ packet' = [packet EXCEPT ![k].pc = "sent", ![k].at = ip,
                                     ![k].token = a, ![k].data = m]
  BY DEF Send
<1>1. PICK a \in Auth, ip \in Range(PopIps[p]), m \in Payloads :
         /\ Store!Stored(p, a)
         /\ packet' = [packet EXCEPT ![k].pc = "sent", ![k].at = ip,
                                     ![k].token = a, ![k].data = m]
  BY <1>0
<1>2. packet \in [Packets -> PacketType] /\ UNCHANGED circuits /\ packet[k].pc = "new"
  BY DEF PacketInv, Send
<1>3. packet' \in [Packets -> PacketType]
  <2> DEFINE r == [packet[k] EXCEPT !.pc = "sent", !.at = ip, !.token = a, !.data = m]
  <2>1. ip \in Places /\ a \in Parts /\ m \in Seq(Parts)
    BY ForwardingAssumption DEF Places, Parts, Auth
  <2>2. r \in PacketType
    BY <1>2, <2>1 DEF PacketType
  <2>3. packet' = [packet EXCEPT ![k] = r]
    BY <1>1
  <2> HIDE DEF r
  <2> QED  BY <1>2, <2>2, <2>3
<1>4. /\ packet'[k].pc = "sent" /\ packet'[k].at = ip /\ packet'[k].token = a
      /\ packet'[k].last = packet[k].last /\ packet'[k].used = packet[k].used
      /\ \A j \in Packets \ {k} : packet'[j] = packet[j]
  BY <1>1, <1>2 DEF PacketType
<1>5. packet[k].last = << >>
  BY <1>2 DEF PacketInv, LastInv
<1>6. UsedInv'
  BY <1>2, <1>4 DEF PacketInv, UsedInv, Store!Stored
<1>7. FirstInv'
  BY <1>1, <1>2, <1>4 DEF PacketInv, FirstInv, Store!Stored
<1>8. LastInv'
  BY <1>2, <1>4, <1>5 DEF PacketInv, LastInv, LastCircuit
<1> QED  BY <1>3, <1>6, <1>7, <1>8 DEF PacketInv

\* A packet that is lost or delivered goes nowhere any more.
LEMMA EndPacket ==
    ASSUME StoreInv, PacketInv, NEW k \in Packets, Lose(k) \/ Deliver(k)
    PROVE  PacketInv'
<1>1. packet \in [Packets -> PacketType] /\ UNCHANGED circuits /\ packet[k].pc = "sent"
  BY DEF PacketInv, Lose, Deliver
<1>2. PICK x \in {"lost", "delivered"} :
         /\ packet' = [packet EXCEPT ![k].pc = x]
         /\ x = "delivered" => packet[k].at \in Servers
  BY DEF Lose, Deliver
<1>3. /\ packet' \in [Packets -> PacketType]
      /\ packet'[k].pc = x
      /\ packet'[k].at = packet[k].at /\ packet'[k].token = packet[k].token
      /\ packet'[k].last = packet[k].last /\ packet'[k].used = packet[k].used
      /\ \A j \in Packets \ {k} : packet'[j] = packet[j]
  BY <1>1, <1>2 DEF PacketType
<1>4. packet[k].last = << >> => packet[k].at \notin Servers
  BY <1>1, ForwardingAssumption DEF PacketInv, FirstInv
<1>5. UsedInv'
  BY <1>1, <1>3 DEF PacketInv, UsedInv, Store!Stored
<1>6. FirstInv'
  BY <1>1, <1>2, <1>3, <1>4 DEF PacketInv, FirstInv, Store!Stored
<1>7. \A j \in Packets : LastCircuit(j)' = LastCircuit(j)
  BY <1>1, <1>3 DEF LastCircuit
<1>8. LastInv'
  BY <1>1, <1>2, <1>3, <1>7 DEF PacketInv, LastInv
<1> QED  BY <1>3, <1>5, <1>6, <1>8 DEF PacketInv

\* At a node the token names a circuit of its PoP, if the last one led to a circuit.
LEMMA TokenStored ==
    ASSUME StoreInv, PacketInv, NEW k \in Packets, packet[k].pc = "sent", AtNode(k)
    PROVE  \/ Store!Stored(PopOf(packet[k].at), packet[k].token)
           \/ packet[k].last # << >> /\ LastCircuit(k).next_auth = 0
<1>1. PICK p \in PoPs : packet[k].at \in Range(PopIps[p])
  BY DEF AtNode
<1>2. PopOf(packet[k].at) = p
  BY <1>1, OnePop
<1>3. CASE packet[k].last = << >>
  BY <1>3, OnePop DEF PacketInv, FirstInv
<1>4. CASE packet[k].last # << >> /\ LastCircuit(k).next_auth # 0
  <2> DEFINE q == packet[k].last[1]
             b == packet[k].last[2]
  <2>1. q \in PoPs /\ b \in Auth /\ Store!Stored(q, b)
    BY <1>4, NameParts DEF PacketInv, UsedInv
  <2>2. circuits[q][b] \in Circuit
    BY <2>1, StoredIsCircuit
  <2>3. /\ packet[k].at \in Range(circuits[q][b].next_ips)
        /\ packet[k].token = circuits[q][b].next_auth
    BY <1>4 DEF PacketInv, LastInv, LastCircuit
  <2>4. circuits[q][b].next_ips = PopIps[p]
    <3>1. CASE \E t \in PoPs : circuits[q][b].next_ips = PopIps[t]
      BY <1>1, <1>2, <2>3, <3>1, OnePop
    <3>2. CASE \E t \in Servers : Range(circuits[q][b].next_ips) = {t}
      BY <1>1, <2>3, <3>2, ForwardingAssumption
    <3> QED  BY <2>2, <3>1, <3>2, CircuitShape
  <2>5. Store!Leads(circuits[q][b], p)
    BY <2>1 DEF StoreInv
  <2> QED  BY <1>2, <2>3, <2>4, <2>5 DEF Store!Leads
<1> QED  BY <1>3, <1>4

\* A forwarder reads the next hop of the circuit that the token names.
LEMMA GetNextIpPacket ==
    ASSUME StoreInv, PacketInv, NEW k \in Packets, GetNextIp(k)
    PROVE  PacketInv'
<1> DEFINE p == PopOf(packet[k].at)
           a == packet[k].token
<1>1. packet \in [Packets -> PacketType] /\ UNCHANGED circuits /\ packet[k].pc = "sent"
  BY DEF PacketInv, GetNextIp
<1>2. p \in PoPs
  BY OnePop DEF GetNextIp, AtNode
<1>3. CASE Store!Stored(p, a)
  <2>1. a \in Auth /\ circuits[p][a] \in Circuit
    BY <1>2, <1>3, StoredIsCircuit
  <2>2. circuits[p][a].next_ip \in Range(circuits[p][a].next_ips)
    BY <2>1, CircuitShape
  <2>3. circuits[p][a].next_ip \in Places
    BY <2>1, CircuitPlace
  <2> DEFINE r == [packet[k] EXCEPT !.pc = "looked", !.next = circuits[p][a].next_ip,
                       !.last = <<p, a>>, !.used = packet[k].used \cup {<<p, a>>}]
  <2>4. packet' = [packet EXCEPT ![k] = r]
    <3>1. packet' = [packet EXCEPT ![k] =
             IF Store!Stored(p, a)
               THEN [packet[k] EXCEPT !.pc = "looked", !.next = circuits[p][a].next_ip,
                            !.last = <<p, a>>, !.used = packet[k].used \cup {<<p, a>>}]
               ELSE [packet[k] EXCEPT !.pc = "rejected"]]
      BY DEF GetNextIp
    <3>2. (IF Store!Stored(p, a) THEN r ELSE [packet[k] EXCEPT !.pc = "rejected"]) = r
      BY <1>3
    <3> QED  BY <3>1, <3>2
  <2>5. <<p, a>> # << >> /\ <<p, a>>[1] = p /\ <<p, a>>[2] = a /\ <<p, a>> \in Names
    BY <1>2, <2>1 DEF Names
  <2>6. packet[k] \in PacketType
    BY <1>1
  <2>7. r \in PacketType
    BY <2>3, <2>5, <2>6 DEF PacketType, NameOrNone
  <2>8. /\ r.pc = "looked" /\ r.next = circuits[p][a].next_ip
        /\ r.at = packet[k].at /\ r.token = packet[k].token
        /\ r.last = <<p, a>> /\ r.used = packet[k].used \cup {<<p, a>>}
    BY <2>6 DEF PacketType
  <2> HIDE DEF r, p, a
  <2>9. /\ packet' \in [Packets -> PacketType] /\ packet'[k] = r
        /\ \A j \in Packets \ {k} : packet'[j] = packet[j]
    BY <1>1, <2>4, <2>7
  <2>10. UsedInv'
    BY <1>1, <1>3, <2>5, <2>8, <2>9 DEF PacketInv, UsedInv, Store!Stored
  <2>11. FirstInv'
    BY <1>1, <2>5, <2>8, <2>9 DEF PacketInv, FirstInv, Store!Stored
  <2>12. LastInv'
    <3>1. ASSUME NEW j \in Packets \ {k}
          PROVE  LastCircuit(j)' = LastCircuit(j)
      BY <1>1, <2>9 DEF LastCircuit
    <3>2. LastCircuit(k)' = circuits[p][a]
      BY <1>1, <2>5, <2>8, <2>9 DEF LastCircuit
    <3>3. <<p, a>> = <<PopOf(r.at), r.token>>
      BY <2>8 DEF p, a
    <3> QED  BY <2>2, <2>5, <2>8, <2>9, <3>1, <3>2, <3>3 DEF PacketInv, LastInv
  <2> QED  BY <2>9, <2>10, <2>11, <2>12 DEF PacketInv
<1>4. CASE ~Store!Stored(p, a)
  <2>1. packet' = [packet EXCEPT ![k] = [@ EXCEPT !.pc = "rejected"]]
    BY <1>4 DEF GetNextIp
  <2>2. packet[k].last # << >> /\ LastCircuit(k).next_auth = 0
    BY <1>1, <1>4, TokenStored DEF GetNextIp
  <2>3. /\ packet'[k].pc = "rejected" /\ packet'[k].last = packet[k].last
        /\ packet'[k].used = packet[k].used
        /\ \A j \in Packets \ {k} : packet'[j] = packet[j]
    BY <1>1, <2>1 DEF PacketType
  <2>4. packet' \in [Packets -> PacketType]
    BY <1>1, <2>1 DEF PacketType
  <2>5. UsedInv'
    BY <1>1, <2>3 DEF PacketInv, UsedInv, Store!Stored
  <2>6. FirstInv'
    BY <1>1, <2>2, <2>3 DEF PacketInv, FirstInv, Store!Stored
  <2>7. \A j \in Packets : LastCircuit(j)' = LastCircuit(j)
    BY <1>1, <2>3 DEF LastCircuit
  <2>8. LastInv'
    BY <2>2, <2>3, <2>7 DEF PacketInv, LastInv
  <2> QED  BY <2>4, <2>5, <2>6, <2>8 DEF PacketInv
<1> QED  BY <1>3, <1>4

\* A payload is made of parts, and so is what is left of it.
LEMMA StrippedType ==
    ASSUME NEW d \in PacketType
    PROVE  /\ Stripped(d) \in PacketType
           /\ Stripped(d).pc = d.pc /\ Stripped(d).at = d.at
           /\ Stripped(d).last = d.last /\ Stripped(d).used = {}
<1>1. Text \in Parts /\ << >> \in Seq(Parts) /\ {} \in SUBSET Names
  BY DEF Parts
<1>2. d.data \in Seq(Parts)
  BY DEF PacketType
<1>3. d.data # << >> => Head(d.data) \in Parts /\ Tail(d.data) \in Seq(Parts)
  BY <1>2
<1> DEFINE token == IF d.data = << >> THEN Text ELSE Head(d.data)
           data == IF d.data = << >> THEN << >> ELSE Tail(d.data)
<1>4. token \in Parts /\ data \in Seq(Parts)
  BY <1>1, <1>3
<1>5. Stripped(d) = [d EXCEPT !.token = token, !.data = data, !.used = {}]
  BY DEF Stripped
<1> HIDE DEF token, data
<1> QED  BY <1>1, <1>4, <1>5 DEF PacketType

\* And sends the packet there with the next token.
LEMMA ForwardPacket ==
    ASSUME StoreInv, PacketInv, NEW k \in Packets, Forward(k)
    PROVE  PacketInv'
<1>1. packet \in [Packets -> PacketType] /\ UNCHANGED circuits /\ packet[k].pc = "looked"
  BY DEF PacketInv, Forward
<1>2. packet[k].last # << >>
  BY <1>1 DEF PacketInv, FirstInv
<1> DEFINE p == packet[k].last[1]
           a == packet[k].last[2]
<1>3. /\ p = PopOf(packet[k].at) /\ a = packet[k].token
      /\ packet[k].next \in Range(LastCircuit(k).next_ips)
  BY <1>1, <1>2 DEF PacketInv, LastInv
<1>4. p \in PoPs /\ a \in Auth /\ circuits[p][a] \in Circuit
  BY <1>2, NameParts, StoredIsCircuit DEF PacketInv, UsedInv
<1> DEFINE next == LastCircuit(k).next_auth
           d == [packet[k] EXCEPT !.pc = "sent", !.at = packet[k].next]
           r == IF next = 0 THEN Stripped(d) ELSE [d EXCEPT !.token = next]
<1>5. packet[k] \in PacketType /\ packet' = [packet EXCEPT ![k] = r]
  BY <1>1, <1>3 DEF Forward, LastCircuit
<1>6. next \in Parts
  BY <1>4, CircuitShape DEF LastCircuit, Parts
<1>7. /\ d \in PacketType
      /\ d.pc = "sent" /\ d.at = packet[k].next
      /\ d.last = packet[k].last /\ d.used = packet[k].used
  BY <1>5 DEF PacketType
<1> HIDE DEF d
<1>8. /\ r \in PacketType
      /\ r.pc = "sent" /\ r.at = packet[k].next /\ r.last = packet[k].last
      /\ next # 0 => r.token = next /\ r.used = packet[k].used
      /\ next = 0 => r.used = {}
  <2>1. CASE next = 0
    BY <1>7, <2>1, StrippedType
  <2>2. CASE next # 0
    <3>1. r = [d EXCEPT !.token = next]
      BY <2>2
    <3> HIDE DEF next, r
    <3> QED  BY <1>6, <1>7, <2>2, <3>1 DEF PacketType
  <2> QED  BY <2>1, <2>2
<1> HIDE DEF r, p, a
<1>9. /\ packet' \in [Packets -> PacketType] /\ packet'[k] = r
      /\ \A j \in Packets \ {k} : packet'[j] = packet[j]
  BY <1>1, <1>5, <1>8
<1>10. UsedInv'
  BY <1>1, <1>8, <1>9 DEF PacketInv, UsedInv, Store!Stored
<1>11. FirstInv'
  BY <1>1, <1>2, <1>8, <1>9 DEF PacketInv, FirstInv, Store!Stored
<1>12. LastInv'
  <2>1. ASSUME NEW j \in Packets \ {k}
        PROVE  LastCircuit(j)' = LastCircuit(j)
    BY <1>1, <1>9 DEF LastCircuit
  <2>2. LastCircuit(k)' = LastCircuit(k)
    BY <1>1, <1>8, <1>9 DEF LastCircuit
  <2> QED  BY <1>3, <1>8, <1>9, <2>1, <2>2 DEF PacketInv, LastInv
<1> QED  BY <1>9, <1>10, <1>11, <1>12 DEF PacketInv

\* Every step keeps what is known of the stores and of the packets.
LEMMA NextInv == Inv /\ [Next]_vars => Inv'
<1> SUFFICES ASSUME Inv, [Next]_vars
             PROVE  Inv'
  OBVIOUS
<1> USE DEF Inv
<1>1. CASE StoreStep
  BY <1>1, StoreKeeps, StoreStepPacket DEF StoreStep
<1>2. CASE \E k \in Packets : Send(k) \/ Lose(k) \/ PacketStep(k)
  <2>1. PacketInv'
    BY <1>2, SendPacket, EndPacket, GetNextIpPacket, ForwardPacket DEF PacketStep
  <2>2. UNCHANGED circuits
    BY <1>2 DEF Send, Lose, PacketStep, GetNextIp, Forward, Deliver
  <2> QED  BY <2>1, <2>2, StoreKeeps
<1>3. CASE UNCHANGED vars
  <2>1. UNCHANGED <<circuits, packet>>
    BY <1>3 DEF vars
  <2>2. PacketInv'
    BY <2>1 DEF PacketInv, UsedInv, FirstInv, LastInv, LastCircuit, Store!Stored
  <2> QED  BY <2>1, <2>2, StoreKeeps
<1> QED  BY <1>1, <1>2, <1>3 DEF Next

\* Nothing is stored and nothing is sent.
LEMMA InitInv == Init => Inv /\ RankInv
<1> SUFFICES ASSUME Init
             PROVE  Inv /\ RankInv
  OBVIOUS
<1>1. circuits \in [PoPs -> [Auth -> Circuit \cup {NoCircuit}]]
      /\ \A p \in PoPs, a \in Auth : circuits[p][a] = NoCircuit
  BY DEF Init, Store!Init
<1>2. packet = [k \in Packets |-> NewPacket]
  BY DEF Init
<1>3. NewPacket \in PacketType
  <2>1. /\ "none" \in Places /\ << >> \in NameOrNone
        /\ Text \in Parts /\ << >> \in Seq(Parts)
    BY DEF Places, Parts, NameOrNone
  <2> QED  BY <2>1 DEF NewPacket, PacketType
<1>4. NewPacket.pc = "new" /\ NewPacket.last = << >> /\ NewPacket.used = {}
  BY DEF NewPacket
<1>5. StoreInv
  BY <1>1 DEF StoreInv, Store!Stored
<1>6. PacketInv
  BY <1>2, <1>3, <1>4 DEF PacketInv, UsedInv, FirstInv, LastInv
<1>7. Ranked([c \in Names |-> 0])
  BY <1>1, <1>2, <1>4 DEF Ranked, Store!Stored
<1> QED  BY <1>5, <1>6, <1>7 DEF Inv, RankInv

-----------------------------------------------------------------------------
(* The order of circuits. *)

\* No two PoPs have the same list of nodes, but empty ones.
LEMMA ListOfOnePop ==
    ASSUME NEW r \in Circuit, NEW p \in PoPs, NEW q \in PoPs,
           r.next_ips = PopIps[p], r.next_ips = PopIps[q]
    PROVE  p = q
<1>1. r.next_ip \in Range(PopIps[p]) /\ r.next_ip \in Range(PopIps[q])
  BY CircuitShape
<1> QED  BY <1>1, ForwardingAssumption

\* A new circuit gets a rank above that of the circuit that it leads to.  No circuit
\* leads to it and no packet has used it, for it was not stored.
LEMMA CreateRank ==
    ASSUME Inv, RankInv, NEW p \in PoPs, NEW a \in Auth, NEW r \in Circuit,
           Store!Create(p, a, r), UNCHANGED packet
    PROVE  RankInv'
<1> USE DEF Inv
<1>1. PICK rank : Ranked(rank)
  BY DEF RankInv
<1>2. rank \in [Names -> Nat]
  BY <1>1 DEF Ranked
<1>3. r # NoCircuit /\ circuits[p][a] = NoCircuit
  BY CircuitShape DEF Store!Create, Store!Stored
<1>4. \A q \in PoPs, b \in Auth :
         circuits'[q][b] = IF q = p /\ b = a THEN r ELSE circuits[q][b]
  BY DEF Store!Create, StoreInv
<1>5. PICK n \in Nat : \A q \in PoPs : r.next_ips = PopIps[q] =>
                          r.next_auth \in Auth /\ rank[<<q, r.next_auth>>] < n
  <2>1. CASE \E q \in PoPs : r.next_ips = PopIps[q]
    <3>1. PICK q \in PoPs : r.next_ips = PopIps[q]
      BY <2>1
    <3>2. Store!Leads(r, q)
      BY DEF Store!Create
    <3>3. r.next_auth \in Auth
      BY <3>1, <3>2 DEF Store!Leads, Store!Stored
    <3>4. rank[<<q, r.next_auth>>] \in Nat
      BY <1>2, <3>3 DEF Names
    <3>5. rank[<<q, r.next_auth>>] + 1 \in Nat
          /\ rank[<<q, r.next_auth>>] < rank[<<q, r.next_auth>>] + 1
      BY <3>4
    <3>6. \A t \in PoPs : r.next_ips = PopIps[t] => t = q
      BY <3>1, ListOfOnePop
    <3> QED  BY <3>3, <3>5, <3>6
  <2>2. CASE ~\E q \in PoPs : r.next_ips = PopIps[q]
    BY <2>2
  <2> QED  BY <2>1, <2>2
<1> DEFINE new == [rank EXCEPT ![<<p, a>>] = n]
<1>6. /\ new \in [Names -> Nat]
      /\ new[<<p, a>>] = n
      /\ \A c \in Names : c # <<p, a>> => new[c] = rank[c]
  BY <1>2, <1>5 DEF Names
<1> HIDE DEF new
<1>7. ASSUME NEW q \in PoPs, NEW t \in PoPs, NEW b \in Auth,
             circuits'[q][b] # NoCircuit, circuits'[q][b].next_ips = PopIps[t]
      PROVE  new[<<t, circuits'[q][b].next_auth>>] < new[<<q, b>>]
  <2>1. CASE q = p /\ b = a
    <3>1. circuits'[q][b] = r
      BY <1>4, <2>1
    <3>2. Store!Leads(r, t)
      BY DEF Store!Create
    <3>3. r.next_auth \in Auth /\ circuits[t][r.next_auth] # NoCircuit
      BY <1>7, <3>1, <3>2 DEF Store!Leads, Store!Stored
    <3>4. <<t, r.next_auth>> \in Names /\ <<t, r.next_auth>> # <<p, a>>
      BY <1>3, <3>3 DEF Names
    <3> QED  BY <1>5, <1>6, <1>7, <2>1, <3>1, <3>4
  <2>2. CASE ~(q = p /\ b = a)
    <3> DEFINE c == circuits[q][b]
    <3>1. circuits'[q][b] = c
      BY <1>4, <2>2
    <3>2. Store!Stored(q, b) /\ Store!Leads(c, t)
      BY <1>7, <3>1 DEF StoreInv, Store!Stored
    <3>3. c.next_auth \in Auth /\ circuits[t][c.next_auth] # NoCircuit
      BY <1>7, <3>1, <3>2 DEF Store!Leads, Store!Stored
    <3>4. /\ <<t, c.next_auth>> \in Names /\ <<t, c.next_auth>> # <<p, a>>
          /\ <<q, b>> \in Names /\ <<q, b>> # <<p, a>>
      BY <1>3, <2>2, <3>3 DEF Names
    <3>5. rank[<<t, c.next_auth>>] < rank[<<q, b>>]
      BY <1>1, <1>7, <3>1, <3>2 DEF Ranked
    <3> QED  BY <1>6, <3>1, <3>4, <3>5
  <2> QED  BY <2>1, <2>2
<1>8. ASSUME NEW k \in Packets, NEW c \in packet[k].used
      PROVE  new[packet[k].last] <= new[c]
  <2>1. packet[k].used \subseteq Names
    BY DEF PacketInv, PacketType
  <2>2. packet[k].last \in Names /\ Store!Stored(packet[k].last[1], packet[k].last[2])
    BY DEF PacketInv, UsedInv
  <2>3. packet[k].last # <<p, a>>
    BY <1>3, <2>2 DEF Store!Stored
  <2>4. rank[packet[k].last] <= rank[c]
    BY <1>1 DEF Ranked
  <2>5. c # <<p, a>>
    BY <1>3, <2>1 DEF PacketInv, UsedInv, Store!Stored
  <2> QED  BY <1>6, <2>1, <2>2, <2>3, <2>4, <2>5
<1>9. Ranked(new)'
  BY <1>6, <1>7, <1>8 DEF Ranked, Store!Stored
<1> QED  BY <1>9 DEF RankInv

\* A redirection changes no list and no next authenticator.
LEMMA RedirectRank ==
    ASSUME Inv, RankInv, NEW p \in PoPs, NEW a \in Auth, Store!Stored(p, a),
           NEW ip \in Range(circuits[p][a].next_ips), Store!Redirect(p, a, ip),
           UNCHANGED packet
    PROVE  RankInv'
<1>1. PICK rank : Ranked(rank)
  BY DEF RankInv
<1>2. \A q \in PoPs, b \in Auth :
         /\ Store!Stored(q, b)' => Store!Stored(q, b)
         /\ Store!Stored(q, b) => circuits'[q][b].next_ips = circuits[q][b].next_ips
                                  /\ circuits'[q][b].next_auth = circuits[q][b].next_auth
  <2>1. Kept
    BY RedirectKeeps DEF Inv
  <2>2. \A q \in PoPs, b \in Auth : ~(q = p /\ b = a) => circuits'[q][b] = circuits[q][b]
    BY DEF Inv, StoreInv, Store!Redirect
  <2> QED  BY <2>1, <2>2 DEF Kept, Store!Stored
<1>3. Ranked(rank)'
  BY <1>1, <1>2 DEF Ranked
<1> QED  BY <1>3 DEF RankInv

\* The circuit to which the last one led is below it.
LEMMA LedDown ==
    ASSUME Inv, NEW rank, Ranked(rank), NEW k \in Packets, packet[k].pc = "sent",
           AtNode(k), packet[k].used # {}
    PROVE  rank[<<PopOf(packet[k].at), packet[k].token>>] < rank[packet[k].last]
<1> DEFINE q == packet[k].last[1]
           b == packet[k].last[2]
<1>1. PICK p \in PoPs : packet[k].at \in Range(PopIps[p])
  BY DEF AtNode
<1>2. PopOf(packet[k].at) = p
  BY <1>1, OnePop
<1>3. /\ packet[k].last # << >> /\ packet[k].last = <<q, b>>
      /\ q \in PoPs /\ b \in Auth /\ Store!Stored(q, b)
  BY NameParts DEF Inv, PacketInv, UsedInv
<1>4. circuits[q][b] \in Circuit
  BY <1>3, StoredIsCircuit DEF Inv
<1>5. /\ packet[k].at \in Range(circuits[q][b].next_ips)
      /\ packet[k].token = circuits[q][b].next_auth
  BY <1>3 DEF Inv, PacketInv, LastInv, LastCircuit
<1>6. circuits[q][b].next_ips = PopIps[p]
  <2>1. CASE \E t \in PoPs : circuits[q][b].next_ips = PopIps[t]
    BY <1>1, <1>2, <1>5, <2>1, OnePop
  <2>2. CASE \E t \in Servers : Range(circuits[q][b].next_ips) = {t}
    BY <1>1, <1>5, <2>2, ForwardingAssumption
  <2> QED  BY <1>4, <2>1, <2>2, CircuitShape
<1>7. rank[<<p, circuits[q][b].next_auth>>] < rank[<<q, b>>]
  BY <1>3, <1>6 DEF Ranked
<1> HIDE DEF q, b
<1> QED  BY <1>2, <1>3, <1>5, <1>7

\* A packet goes down.
LEMMA GetNextIpRank ==
    ASSUME Inv, RankInv, NEW k \in Packets, GetNextIp(k)
    PROVE  RankInv'
<1> DEFINE p == PopOf(packet[k].at)
           a == packet[k].token
<1>1. PICK rank : Ranked(rank)
  BY DEF RankInv
<1>2. /\ packet[k] \in PacketType /\ UNCHANGED circuits
      /\ \A j \in Packets \ {k} : packet'[j] = packet[j]
      /\ packet[k].pc = "sent" /\ AtNode(k)
  BY DEF Inv, PacketInv, GetNextIp
<1>3. CASE Store!Stored(p, a)
  <2>1. p \in PoPs /\ a \in Auth /\ <<p, a>> \in Names
    BY <1>2, <1>3, OnePop DEF AtNode, Store!Stored, Names
  <2>2. packet'[k].last = <<p, a>> /\ packet'[k].used = packet[k].used \cup {<<p, a>>}
    BY <1>3 DEF Inv, PacketInv, PacketType, GetNextIp
  <2>3. ASSUME NEW c \in packet[k].used
        PROVE  rank[<<p, a>>] <= rank[c]
    <3>1. packet[k].last # << >> /\ packet[k].last \in Names /\ c \in Names
      BY DEF Inv, PacketInv, UsedInv
    <3>2. rank[<<p, a>>] < rank[packet[k].last]
      BY <1>1, <1>2, LedDown
    <3>3. rank[packet[k].last] <= rank[c]
      BY <1>1 DEF Ranked
    <3>4. rank[<<p, a>>] \in Nat /\ rank[packet[k].last] \in Nat /\ rank[c] \in Nat
      BY <1>1, <2>1, <3>1 DEF Ranked
    <3> HIDE DEF p, a
    <3> QED  BY <3>2, <3>3, <3>4
  <2>4. rank[<<p, a>>] \in Nat
    BY <1>1, <2>1 DEF Ranked
  <2> HIDE DEF p, a
  <2>5. \A c \in packet'[k].used : rank[packet'[k].last] <= rank[c]
    BY <2>2, <2>3, <2>4
  <2>6. Ranked(rank)'
    BY <1>1, <1>2, <2>5 DEF Ranked, Store!Stored
  <2> QED  BY <2>6 DEF RankInv
<1>4. CASE ~Store!Stored(p, a)
  <2>1. packet'[k].last = packet[k].last /\ packet'[k].used = packet[k].used
    BY <1>4 DEF Inv, PacketInv, PacketType, GetNextIp
  <2>2. Ranked(rank)'
    BY <1>1, <1>2, <2>1 DEF Ranked, Store!Stored
  <2> QED  BY <2>2 DEF RankInv
<1> QED  BY <1>3, <1>4

\* No other step of a packet looks at a circuit.
LEMMA OtherRank ==
    ASSUME Inv, RankInv, NEW k \in Packets, Send(k) \/ Lose(k) \/ Forward(k) \/ Deliver(k)
    PROVE  RankInv'
<1>1. PICK rank : Ranked(rank)
  BY DEF RankInv
<1>2. packet \in [Packets -> PacketType] /\ UNCHANGED circuits
  BY DEF Inv, PacketInv, Send, Lose, Forward, Deliver
<1>3. /\ \A j \in Packets \ {k} : packet'[j] = packet[j]
      /\ packet'[k].last = packet[k].last /\ packet'[k].used \subseteq packet[k].used
  <2>1. CASE Send(k)
    <3>1. \E x, y, z : packet' = [packet EXCEPT ![k].pc = "sent", ![k].at = x,
                                                ![k].token = y, ![k].data = z]
      BY <2>1, Zenon DEF Send
    <3> QED  BY <1>2, <3>1 DEF PacketType
  <2>2. CASE Forward(k)
    BY <1>2, <2>2 DEF PacketType, Forward, Stripped
  <2>3. CASE Lose(k)
    BY <1>2, <2>3 DEF PacketType, Lose
  <2>4. CASE Deliver(k)
    BY <1>2, <2>4 DEF PacketType, Deliver
  <2> QED  BY <2>1, <2>2, <2>3, <2>4
<1>4. \A j \in Packets : packet'[j].last = packet[j].last
                        /\ packet'[j].used \subseteq packet[j].used
  BY <1>3
<1>5. Ranked(rank)'
  BY <1>1, <1>2, <1>4 DEF Ranked, Store!Stored
<1> QED  BY <1>5 DEF RankInv

\* Every step keeps the circuits ranked.
LEMMA NextRank == Inv /\ RankInv /\ [Next]_vars => RankInv'
<1> SUFFICES ASSUME Inv, RankInv, [Next]_vars
             PROVE  RankInv'
  OBVIOUS
<1>1. CASE StoreStep
  BY <1>1, CreateRank, RedirectRank DEF StoreStep, Store!Next, Store!Range, Range
<1>2. CASE \E k \in Packets : Send(k) \/ Lose(k) \/ PacketStep(k)
  BY <1>2, GetNextIpRank, OtherRank DEF PacketStep
<1>3. CASE UNCHANGED vars
  BY <1>3 DEF vars, RankInv, Ranked, Store!Stored
<1> QED  BY <1>1, <1>2, <1>3 DEF Next

-----------------------------------------------------------------------------
(* The theorems. *)

\* The stores and the packets stay within the invariant, and the circuits can be
\* ranked.
THEOREM Invariant == Spec => [](Inv /\ RankInv)
  BY InitInv, NextInv, NextRank, PTL DEF Spec

\* Type correctness of the stores and of the packets.
THEOREM TypeCorrect == Spec => []TypeOK
<1>1. Inv => TypeOK
  <2> SUFFICES ASSUME Inv
               PROVE  TypeOK
    OBVIOUS
  <2>1. Store!TypeOK
    BY DEF Inv, StoreInv, Store!TypeOK
  <2>2. ASSUME NEW k \in Packets
        PROVE  /\ packet[k].pc \in {"new", "sent", "looked", "lost", "rejected", "delivered"}
               /\ packet[k].token \in Parts /\ packet[k].data \in Seq(Parts)
               /\ packet[k].used \subseteq PoPs \X Auth
               /\ packet[k].last \in (PoPs \X Auth) \cup {<< >>}
    BY DEF Inv, PacketInv, PacketType, Names, NameOrNone
  <2> QED  BY <2>1, <2>2 DEF TypeOK
<1> QED  BY <1>1, Invariant, PTL

\* A packet goes from circuit to circuit as they were established, however often
\* next hops are redirected while it travels.
THEOREM PacketsFollowCircuits == Spec => []FollowsCircuits
<1>1. Inv => FollowsCircuits
  BY DEF Inv, PacketInv, LastInv, FollowsCircuits
<1> QED  BY <1>1, Invariant, PTL

\* forwarderd finds a circuit for every token but after a next authenticator 0.
THEOREM TokensAreFound == Spec => []RejectedOnlyAfterZero
<1>1. Inv => RejectedOnlyAfterZero
  BY DEF Inv, PacketInv, FirstInv, LastInv, RejectedOnlyAfterZero
<1> QED  BY <1>1, Invariant, PTL

\* A circuit leads to older ones only, so no packet uses one twice, unless its payload
\* has lost a part in between.
THEOREM NoPacketLoops == Spec => []NoLoops
<1>1. Inv /\ RankInv => NoLoops
  <2> SUFFICES ASSUME Inv, RankInv, NEW k \in Packets, packet[k].pc = "sent", AtNode(k),
                      <<PopOf(packet[k].at), packet[k].token>> \in packet[k].used
               PROVE  FALSE
    BY DEF NoLoops
  <2> DEFINE c == <<PopOf(packet[k].at), packet[k].token>>
  <2>1. PICK rank : Ranked(rank)
    BY DEF RankInv
  <2>2. c \in Names /\ packet[k].used # {} /\ packet[k].last \in Names
    BY DEF Inv, PacketInv, UsedInv
  <2>3. rank[c] < rank[packet[k].last]
    BY <2>1, <2>2, LedDown
  <2>4. rank[packet[k].last] <= rank[c]
    BY <2>1 DEF Ranked
  <2>5. rank[c] \in Nat /\ rank[packet[k].last] \in Nat
    BY <2>1, <2>2 DEF Ranked
  <2> HIDE DEF c
  <2> QED  BY <2>3, <2>4, <2>5
<1> QED  BY <1>1, Invariant, PTL

=============================================================================
