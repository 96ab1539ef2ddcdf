------------------------ MODULE EstablishmentProofs ------------------------
(***************************************************************************)
(* Theorems about circuit establishment, for every set of PoPs and         *)
(* clients, every choice of paths and every range of authenticators.       *)
(***************************************************************************)
EXTENDS Establishment, TLAPS

\* ZooKeeper holds whole circuits and nothing else.
ZkOK == zk \in [PoPs -> [Auth -> Circuit \cup {NoCircuit}]]

\* The variables of the client and of the handler have their types.
LocalsOK ==
    /\ cpc \in [Clients -> {"next", "wait", "registered", "failed"}]
    /\ hop \in [Clients -> Nat]
    /\ \A c \in Clients : hop[c] \in 0..Len(Path[c])
    /\ nextIps \in [Clients -> IpLists \cup {<< >>}]
    /\ nextAuth \in [Clients -> NextAuths]
    /\ rule \in [Clients -> [ip : Ips, auth : NextAuths] \cup {NoRule}]
    /\ hpc \in [Clients -> {"none", "recv", "commit", "reply", "sent", "closed"}]
    /\ auth \in [Clients -> Auth]
    /\ fresh \in [Clients -> BOOLEAN]
    /\ rolledBack \in SUBSET Clients
    /\ issued \in [Clients -> UNION {[1..Len(Path[c]) -> Auth \cup {NoAuth}] :
                                         c \in Clients}]
    /\ \A c \in Clients : issued[c] \in [1..Len(Path[c]) -> Auth \cup {NoAuth}]

\* A handler serves a client that waits for it, at a PoP of its path, and
\* gets past the parsing only if the request names a next hop.
HandlerServes ==
    \A c \in Clients :
        /\ hpc[c] # "none" => cpc[c] = "wait" /\ hop[c] > 0
        /\ hpc[c] \in {"commit", "reply", "sent"} => nextIps[c] # << >>

\* What the handler knows of the store: a circuit it saw or committed is there.
HandlerKnows ==
    \A c \in Clients :
        \/ hpc[c] = "commit" /\ ~fresh[c]
        \/ hpc[c] \in {"reply", "sent"}
        => Exists(At(c), auth[c])

\* What the client knows of the store: the circuit it will name as next hop.
ClientKnows ==
    \A c \in Clients, q \in PoPs :
        nextIps[c] = PopIps[q] => /\ nextAuth[c] \in Auth
                                  /\ Exists(q, nextAuth[c])

\* The inductive invariant behind CompleteCircuits and NextHopExists.
StoreInv ==
    ZkOK /\ LocalsOK /\ HandlerServes /\ HandlerKnows /\ ClientKnows /\ NextHopExists

-----------------------------------------------------------------------------
(* The store. *)

\* A PoP of a path is a PoP.
LEMMA AtIsPoP ==
    ASSUME NEW c \in Clients, NEW i \in 1..Len(Path[c])
    PROVE  Path[c][i] \in PoPs
<1>1. Path[c] \in Seq(PoPs)
  BY PathAssumption
<1> QED  BY <1>1

\* A handler works at a PoP of its client's path.
LEMMA AtInPath ==
    ASSUME LocalsOK, HandlerServes, NEW c \in Clients, hpc[c] # "none"
    PROVE  hop[c] \in 1..Len(Path[c]) /\ At(c) \in PoPs
<1>1. hop[c] > 0 /\ hop[c] \in 0..Len(Path[c])
  BY DEF HandlerServes, LocalsOK
<1>2. Len(Path[c]) \in Nat
  BY PathAssumption
<1>3. hop[c] \in 1..Len(Path[c])
  BY <1>1, <1>2
<1> QED  BY <1>3, AtIsPoP DEF At

\* Stepping back along the path stays on it.
LEMMA HopDown ==
    ASSUME LocalsOK, NEW c \in Clients, hop[c] \in 1..Len(Path[c]),
           hop' = [hop EXCEPT ![c] = @ - 1]
    PROVE  hop' \in [Clients -> Nat] /\ \A d \in Clients : hop'[d] \in 0..Len(Path[d])
<1>1. Len(Path[c]) \in Nat
  BY PathAssumption
<1>2. hop[c] - 1 \in 0..Len(Path[c]) /\ hop[c] - 1 \in Nat
  BY <1>1
<1>3. hop \in [Clients -> Nat] /\ \A d \in Clients : hop[d] \in 0..Len(Path[d])
  BY DEF LocalsOK
<1>4. hop' \in [Clients -> Nat]
  BY <1>2, <1>3
<1>5. ASSUME NEW d \in Clients
      PROVE  hop'[d] = IF d = c THEN hop[c] - 1 ELSE hop[d]
  BY <1>3
<1> QED  BY <1>2, <1>3, <1>4, <1>5

\* An address list that is not empty starts with one of the addresses.
LEMMA HeadIsIp ==
    ASSUME NEW s \in IpLists
    PROVE  s # << >> /\ Head(s) \in Ips
<1>1. s # << >> /\ s \in Seq(Range(s))
  <2>1. CASE \E p \in PoPs : s = PopIps[p]
    BY <2>1, IpsAssumption
  <2>2. CASE \E c \in Clients : s = <<Server[c]>>
    BY <2>2 DEF Range
  <2> QED  BY <2>1, <2>2 DEF IpLists
<1>2. Head(s) \in Range(s)
  BY <1>1 DEF Range
<1> QED  BY <1>1, <1>2 DEF Ips

\* Nothing is stored, or the circuit exists.
LEMMA ExistsIffStored ==
    ASSUME ZkOK, NEW p \in PoPs, NEW a \in Auth
    PROVE  /\ Exists(p, a) <=> zk[p][a] \in Circuit
           /\ Exists(p, a) <=> zk[p][a] # NoCircuit
           /\ Exists(p, a) <=> DOMAIN zk[p][a] = Znodes
           /\ ~Exists(p, a) <=> DOMAIN zk[p][a] = {}
<1>1. zk[p][a] \in Circuit \cup {NoCircuit}
  BY DEF ZkOK
<1>2. DOMAIN NoCircuit = {}
  BY DEF NoCircuit
<1>3. \A r \in Circuit : DOMAIN r = Znodes
  BY DEF Circuit, Znodes
<1>4. "client" \in Znodes
  BY DEF Znodes
<1> QED  BY <1>1, <1>2, <1>3, <1>4 DEF Exists

\* What a handler asks ZooKeeper to store is a circuit.
LEMMA RequestedIsCircuit ==
    ASSUME LocalsOK, NEW c \in Clients, nextIps[c] # << >>
    PROVE  Requested(c) \in Circuit
<1>1. nextIps[c] \in IpLists /\ nextAuth[c] \in NextAuths
  BY DEF LocalsOK
<1>2. Head(nextIps[c]) \in Ips
  BY <1>1, HeadIsIp
<1> QED  BY <1>1, <1>2 DEF Requested, Circuit

\* A transaction stores the whole request where nothing was, or rolls back
\* because a circuit is there already.
LEMMA CommitEffect ==
    ASSUME ZkOK, LocalsOK, HandlerServes, HandlerKnows,
           NEW c \in Clients, CommitCircuit(c)
    PROVE  /\ At(c) \in PoPs
           /\ auth[c] \in Auth
           /\ Requested(c) \in Circuit
           /\ \/ /\ ~Exists(At(c), auth[c])
                 /\ zk' = [zk EXCEPT ![At(c)][auth[c]] = Requested(c)]
                 /\ rolledBack' = rolledBack
              \/ /\ Exists(At(c), auth[c])
                 /\ zk' = zk
                 /\ rolledBack' = rolledBack \cup {c}
<1> DEFINE p == At(c)
           a == auth[c]
<1>1. p \in PoPs /\ a \in Auth
  BY AtInPath DEF CommitCircuit, LocalsOK
<1>2. Requested(c) \in Circuit
  BY RequestedIsCircuit DEF HandlerServes, CommitCircuit
<1>3. CASE Exists(p, a)
  <2>1. DOMAIN zk[p][a] = Znodes
    BY <1>1, <1>3, ExistsIffStored
  <2>2. "next_ip" \in Created(c) \cap Znodes
    BY DEF Created, Znodes
  <2>3. ~Applies(c)
    BY <2>1, <2>2 DEF Applies
  <2> QED  BY <1>1, <1>2, <1>3, <2>3 DEF CommitCircuit
<1>4. CASE ~Exists(p, a)
  <2>1. fresh[c]
    BY <1>4 DEF HandlerKnows, CommitCircuit, LocalsOK
  <2>2. DOMAIN zk[p][a] = {}
    BY <1>1, <1>4, ExistsIffStored
  <2>3. Created(c) = Znodes
    BY <2>1 DEF Created
  <2>4. Applies(c)
    BY <2>1, <2>2 DEF Applies
  <2>5. Merged(zk[p][a], Requested(c), Znodes) = Requested(c)
    BY <2>2 DEF Merged, Requested, Znodes
  <2>6. zk' = [zk EXCEPT ![p][a] = Merged(@, Requested(c), Znodes)]
    BY <2>3, <2>4 DEF CommitCircuit
  <2>7. zk' = [zk EXCEPT ![p][a] = Requested(c)]
    BY <2>5, <2>6
  <2> QED  BY <1>1, <1>2, <1>4, <2>4, <2>7 DEF CommitCircuit
<1> QED  BY <1>3, <1>4

\* No step changes a circuit that exists, so what exists stays.
LEMMA CircuitsStay ==
    ASSUME ZkOK, LocalsOK, HandlerServes, HandlerKnows, [Next]_vars
    PROVE  \A p \in PoPs, a \in Auth :
               Exists(p, a) => Exists(p, a)' /\ zk'[p][a] = zk[p][a]
<1>1. CASE \E c \in Clients : CommitCircuit(c)
  <2> PICK c \in Clients : CommitCircuit(c)
    BY <1>1
  <2>1. CASE zk' = zk
    BY <2>1 DEF Exists
  <2>2. CASE /\ ~Exists(At(c), auth[c])
             /\ zk' = [zk EXCEPT ![At(c)][auth[c]] = Requested(c)]
    <3> SUFFICES ASSUME NEW p \in PoPs, NEW a \in Auth, Exists(p, a)
                 PROVE  zk'[p][a] = zk[p][a]
      BY DEF Exists
    <3>1. p # At(c) \/ a # auth[c]
      BY <2>2
    <3> QED  BY <2>2, <3>1 DEF ZkOK
  <2> QED  BY <2>1, <2>2, CommitEffect
<1>2. CASE ~\E c \in Clients : CommitCircuit(c)
  <2>1. zk' = zk
    BY <1>2 DEF Next, vars, ClientStep, HandlerStep, storeVars, Connect,
                ConnectFails, ReceiveCreated, ReceiveClosed, RegisterLocally,
                DrawAuthenticator, SendCreated, HandlerFails
  <2> QED  BY <2>1 DEF Exists
<1> QED  BY <1>1, <1>2

-----------------------------------------------------------------------------
(* The invariant. *)

\* Nothing is stored, no handler runs and no client has learned anything at first.
LEMMA InitStoreInv == Init => StoreInv
<1> SUFFICES ASSUME Init
             PROVE  StoreInv
  OBVIOUS
<1>1. \A c \in Clients : Len(Path[c]) \in Nat /\ Len(Path[c]) > 0
  BY PathAssumption
<1>2. \A p \in PoPs, a \in Auth : ~Exists(p, a)
  BY DEF Init, Exists, NoCircuit
<1>3. ZkOK
  BY DEF Init, ZkOK
<1>4. LocalsOK
  <2>1. nextIps \in [Clients -> IpLists \cup {<< >>}]
    BY DEF Init, IpLists
  <2>2. nextAuth \in [Clients -> NextAuths]
    BY AuthAssumption DEF Init, NextAuths, Range
  <2>3. auth \in [Clients -> Auth]
    BY AuthAssumption DEF Init, Auth
  <2>4. \A c \in Clients : issued[c] \in [1..Len(Path[c]) -> Auth \cup {NoAuth}]
    BY DEF Init
  <2>5. issued \in [Clients -> UNION {[1..Len(Path[c]) -> Auth \cup {NoAuth}] :
                                           c \in Clients}]
    BY <2>4 DEF Init
  <2> QED  BY <1>1, <2>1, <2>2, <2>3, <2>4, <2>5 DEF Init, LocalsOK
<1>5. HandlerServes /\ HandlerKnows
  BY DEF Init, HandlerServes, HandlerKnows
<1>6. ClientKnows
  BY IpsAssumption DEF Init, ClientKnows
<1>7. NextHopExists
  BY <1>2 DEF NextHopExists
<1> QED  BY <1>3, <1>4, <1>5, <1>6, <1>7 DEF StoreInv

\* Only a commit changes the store, and it stores a whole circuit or nothing.
LEMMA NextZkOK == StoreInv /\ [Next]_vars => ZkOK'
<1> SUFFICES ASSUME StoreInv, [Next]_vars
             PROVE  ZkOK'
  OBVIOUS
<1>1. ASSUME NEW c \in Clients, CommitCircuit(c)
      PROVE  ZkOK'
  BY <1>1, CommitEffect DEF StoreInv, ZkOK
<1>2. CASE ~\E c \in Clients : CommitCircuit(c)
  BY <1>2 DEF StoreInv, ZkOK, Next, vars, ClientStep, HandlerStep, storeVars,
              Connect, ConnectFails, ReceiveCreated, ReceiveClosed,
              RegisterLocally, DrawAuthenticator, SendCreated, HandlerFails
<1> QED  BY <1>1, <1>2

\* Every step keeps the types of the client's and the handler's variables.
LEMMA NextLocalsOK == StoreInv /\ [Next]_vars => LocalsOK'
<1> SUFFICES ASSUME StoreInv, [Next]_vars
             PROVE  LocalsOK'
  OBVIOUS
<1> USE DEF StoreInv, LocalsOK
<1>1. \A c \in Clients : Len(Path[c]) \in Nat
  BY PathAssumption
<1>2. ASSUME NEW c \in Clients, Connect(c) \/ ConnectFails(c)
      PROVE  LocalsOK'
  BY <1>2 DEF Connect, ConnectFails, storeVars, handlerVars
<1>3. ASSUME NEW c \in Clients, ReceiveCreated(c)
      PROVE  LocalsOK'
  <2>1. hop[c] \in 1..Len(Path[c])
    BY <1>3, AtInPath DEF ReceiveCreated
  <2>2. PopIps[At(c)] \in IpLists
    BY <1>3, AtInPath DEF ReceiveCreated, IpLists
  <2>3. auth[c] \in NextAuths
    BY DEF NextAuths
  <2>4. issued' = [issued EXCEPT ![c] = [@ EXCEPT ![hop[c]] = auth[c]]]
    BY <1>3 DEF ReceiveCreated
  <2>5. [issued[c] EXCEPT ![hop[c]] = auth[c]]
            \in [1..Len(Path[c]) -> Auth \cup {NoAuth}]
    OBVIOUS
  <2>6. \A d \in Clients : issued'[d] \in [1..Len(Path[d]) -> Auth \cup {NoAuth}]
    BY <2>4, <2>5
  <2>7. issued' \in [Clients -> UNION {[1..Len(Path[d]) -> Auth \cup {NoAuth}] :
                                            d \in Clients}]
    BY <2>4, <2>6
  <2>8. hop' \in [Clients -> Nat] /\ \A d \in Clients : hop'[d] \in 0..Len(Path[d])
    BY <1>3, <2>1, HopDown DEF ReceiveCreated
  <2> QED  BY <1>3, <2>2, <2>3, <2>6, <2>7, <2>8 DEF ReceiveCreated, storeVars
<1>4. ASSUME NEW c \in Clients, ReceiveClosed(c)
      PROVE  LocalsOK'
  <2>1. hop[c] \in 1..Len(Path[c])
    BY <1>4, AtInPath DEF ReceiveClosed
  <2>2. 0 \in NextAuths
    BY AuthAssumption DEF NextAuths, Auth
  <2>3. hop' \in [Clients -> Nat] /\ \A d \in Clients : hop'[d] \in 0..Len(Path[d])
    BY <1>4, <2>1, HopDown DEF ReceiveClosed
  <2> QED  BY <1>4, <2>2, <2>3 DEF ReceiveClosed, storeVars
<1>5. ASSUME NEW c \in Clients, RegisterLocally(c)
      PROVE  LocalsOK'
  <2>1. CASE nextIps[c] # << >>
    <3>1. Head(nextIps[c]) \in Ips
      BY <2>1, HeadIsIp
    <3>2. [ip |-> Head(nextIps[c]), auth |-> nextAuth[c]] \in [ip : Ips, auth : NextAuths]
      BY <3>1
    <3>3. /\ rule' = [rule EXCEPT ![c] = [ip |-> Head(nextIps[c]), auth |-> nextAuth[c]]]
          /\ cpc' = [cpc EXCEPT ![c] = "registered"]
          /\ UNCHANGED <<hop, nextIps, nextAuth, issued, handlerVars, storeVars>>
      BY <1>5, <2>1 DEF RegisterLocally
    <3>4. rule' \in [Clients -> [ip : Ips, auth : NextAuths] \cup {NoRule}]
      BY <3>2, <3>3
    <3> QED  BY <3>3, <3>4 DEF storeVars, handlerVars
  <2>2. CASE nextIps[c] = << >>
    BY <1>5, <2>2 DEF RegisterLocally, storeVars, handlerVars
  <2> QED  BY <2>1, <2>2
<1>6. ASSUME NEW c \in Clients, DrawAuthenticator(c)
      PROVE  LocalsOK'
  BY <1>6 DEF DrawAuthenticator, clientVars, storeVars
<1>7. ASSUME NEW c \in Clients, CommitCircuit(c)
      PROVE  LocalsOK'
  BY <1>7 DEF CommitCircuit, clientVars
<1>8. ASSUME NEW c \in Clients, SendCreated(c) \/ HandlerFails(c)
      PROVE  LocalsOK'
  BY <1>8 DEF SendCreated, HandlerFails, clientVars, storeVars
<1>9. CASE UNCHANGED vars
  BY <1>9 DEF vars, clientVars, handlerVars, storeVars
<1> QED  BY <1>2, <1>3, <1>4, <1>5, <1>6, <1>7, <1>8, <1>9
         DEF Next, ClientStep, HandlerStep

\* A handler starts for a client that begins to wait and is gone before the
\* client goes on; a request without a next hop does not get past the parsing.
LEMMA NextHandlerServes == StoreInv /\ [Next]_vars => HandlerServes'
<1> SUFFICES ASSUME StoreInv, [Next]_vars
             PROVE  HandlerServes'
  OBVIOUS
<1> USE DEF StoreInv, LocalsOK, HandlerServes
<1>1. ASSUME NEW c \in Clients, ClientStep(c) \/ ConnectFails(c)
      PROVE  HandlerServes'
  <2>1. CASE Connect(c)
    BY <2>1 DEF Connect
  <2>2. CASE ReceiveCreated(c)
    BY <2>2 DEF ReceiveCreated
  <2>3. CASE ReceiveClosed(c)
    BY <2>3 DEF ReceiveClosed
  <2>4. CASE RegisterLocally(c)
    BY <2>4 DEF RegisterLocally, handlerVars
  <2>5. CASE ConnectFails(c)
    BY <2>5 DEF ConnectFails, handlerVars
  <2> QED  BY <1>1, <2>1, <2>2, <2>3, <2>4, <2>5 DEF ClientStep
<1>2. ASSUME NEW c \in Clients, HandlerStep(c) \/ HandlerFails(c)
      PROVE  HandlerServes'
  BY <1>2 DEF HandlerStep, DrawAuthenticator, CommitCircuit, SendCreated,
              HandlerFails, clientVars
<1>3. CASE UNCHANGED vars
  BY <1>3 DEF vars, clientVars, handlerVars
<1> QED  BY <1>1, <1>2, <1>3 DEF Next

\* A handler that commits leaves a circuit behind, its own or the one that made
\* the transaction roll back; circuits stay.
LEMMA NextHandlerKnows == StoreInv /\ [Next]_vars => HandlerKnows'
<1> SUFFICES ASSUME StoreInv, [Next]_vars,
                    NEW d \in Clients,
                    \/ hpc'[d] = "commit" /\ ~fresh'[d]
                    \/ hpc'[d] \in {"reply", "sent"}
             PROVE  Exists(At(d), auth[d])'
  BY DEF HandlerKnows
<1> USE DEF StoreInv, LocalsOK
<1>1. \A p \in PoPs, a \in Auth : Exists(p, a) => Exists(p, a)'
  BY CircuitsStay
<1>2. CASE /\ UNCHANGED <<auth[d], hop[d]>>
           /\ hpc[d] # "none" /\ Exists(At(d), auth[d])
  <2>1. At(d)' = At(d) /\ At(d) \in PoPs
    BY <1>2, AtInPath DEF At
  <2>2. Exists(At(d), auth[d])'
    BY <1>1, <1>2, <2>1 DEF Exists
  <2> QED  BY <2>2
<1>3. ASSUME NEW c \in Clients, ClientStep(c) \/ ConnectFails(c)
      PROVE  Exists(At(d), auth[d])'
  <2>1. c # d
    BY <1>3 DEF ClientStep, Connect, ReceiveCreated, ReceiveClosed,
                RegisterLocally, ConnectFails, handlerVars, HandlerServes
  <2>2. UNCHANGED <<auth[d], hop[d], hpc[d], fresh[d]>>
    BY <1>3, <2>1 DEF ClientStep, Connect, ReceiveCreated, ReceiveClosed,
                      RegisterLocally, ConnectFails, handlerVars
  <2> QED  BY <1>2, <2>2 DEF HandlerKnows
<1>4. ASSUME NEW c \in Clients, HandlerStep(c) \/ HandlerFails(c)
      PROVE  Exists(At(d), auth[d])'
  <2>1. CASE c # d
    <3>1. UNCHANGED <<auth[d], hop[d], hpc[d], fresh[d]>>
      BY <1>4, <2>1 DEF HandlerStep, DrawAuthenticator, CommitCircuit,
                        SendCreated, HandlerFails, clientVars
    <3> QED  BY <1>2, <3>1 DEF HandlerKnows
  <2>2. CASE c = d /\ DrawAuthenticator(d)
    BY <2>2 DEF DrawAuthenticator, At, Exists, clientVars, storeVars
  <2>3. CASE c = d /\ CommitCircuit(d)
    <3>1. Exists(At(d), auth[d]) \/ zk' = [zk EXCEPT ![At(d)][auth[d]] = Requested(d)]
      BY <2>3, CommitEffect
    <3>2. At(d) \in PoPs /\ auth[d] \in Auth /\ Requested(d) \in Circuit
      BY <2>3, CommitEffect
    <3>3. UNCHANGED <<auth[d], hop[d]>> /\ hpc[d] # "none"
      BY <2>3 DEF CommitCircuit, clientVars
    <3>4. CASE zk' = [zk EXCEPT ![At(d)][auth[d]] = Requested(d)]
      <4>1. zk'[At(d)][auth[d]] = Requested(d)
        BY <3>2, <3>4 DEF ZkOK
      <4>2. "client" \in DOMAIN Requested(d)
        BY DEF Requested
      <4> QED  BY <3>3, <4>1, <4>2 DEF Exists, At
    <3> QED  BY <1>2, <3>1, <3>3, <3>4
  <2>4. CASE c = d /\ (SendCreated(d) \/ HandlerFails(d))
    <3>1. UNCHANGED <<auth[d], hop[d]>> /\ hpc[d] = "reply"
      BY <2>4 DEF SendCreated, HandlerFails, clientVars
    <3> QED  BY <1>2, <3>1 DEF HandlerKnows
  <2> QED  BY <1>4, <2>1, <2>2, <2>3, <2>4 DEF HandlerStep
<1>5. CASE UNCHANGED vars
  <2>1. UNCHANGED <<auth[d], hop[d], hpc[d], fresh[d]>>
    BY <1>5 DEF vars, clientVars, handlerVars
  <2> QED  BY <1>2, <2>1 DEF HandlerKnows
<1> QED  BY <1>3, <1>4, <1>5 DEF Next

\* A client that learns an authenticator learns it from a handler that has left a
\* circuit behind.
LEMMA NextClientKnows == StoreInv /\ [Next]_vars => ClientKnows'
<1> SUFFICES ASSUME StoreInv, [Next]_vars,
                    NEW d \in Clients, NEW q \in PoPs,
                    nextIps'[d] = PopIps[q]
             PROVE  (nextAuth[d] \in Auth /\ Exists(q, nextAuth[d]))'
  BY DEF ClientKnows
<1> USE DEF StoreInv, LocalsOK
<1>1. \A a \in Auth : Exists(q, a) => Exists(q, a)'
  BY CircuitsStay
<1>2. CASE UNCHANGED <<nextIps[d], nextAuth[d]>>
  <2>1. nextAuth[d] \in Auth /\ Exists(q, nextAuth[d])
    BY <1>2 DEF ClientKnows
  <2> QED  BY <1>1, <1>2, <2>1 DEF Exists
<1>3. CASE ReceiveCreated(d)
  <2>1. nextAuth'[d] = auth[d] /\ nextIps'[d] = PopIps[At(d)] /\ hpc[d] = "sent"
    BY <1>3 DEF ReceiveCreated
  <2>2. At(d) = q
    BY <2>1, AtInPath, IpsAssumption
  <2>3. Exists(q, auth[d])
    BY <2>1, <2>2 DEF HandlerKnows
  <2> QED  BY <1>1, <2>1, <2>3 DEF Exists
<1>4. CASE ReceiveClosed(d)
  <2>1. nextIps'[d] = << >>
    BY <1>4 DEF ReceiveClosed
  <2> QED  BY <2>1, IpsAssumption
<1>5. ASSUME NEW c \in Clients, c # d, ReceiveCreated(c) \/ ReceiveClosed(c)
      PROVE  UNCHANGED <<nextIps[d], nextAuth[d]>>
  BY <1>5 DEF ReceiveCreated, ReceiveClosed
<1>6. ASSUME NEW c \in Clients,
             \/ Connect(c) \/ ConnectFails(c) \/ RegisterLocally(c)
             \/ HandlerStep(c) \/ HandlerFails(c)
      PROVE  UNCHANGED <<nextIps[d], nextAuth[d]>>
  BY <1>6 DEF Connect, ConnectFails, RegisterLocally, HandlerStep,
              DrawAuthenticator, CommitCircuit, SendCreated, HandlerFails, clientVars
<1>7. CASE UNCHANGED vars
  BY <1>2, <1>7 DEF vars, clientVars
<1> QED  BY <1>2, <1>3, <1>4, <1>5, <1>6, <1>7 DEF Next, ClientStep

\* A circuit that is new leads where its client has been, so to one that exists.
LEMMA NextNextHopExists == StoreInv /\ [Next]_vars => NextHopExists'
<1> SUFFICES ASSUME StoreInv, [Next]_vars,
                    NEW p \in PoPs, NEW q \in PoPs, NEW a \in Auth,
                    (Exists(p, a) /\ zk[p][a]["next_ips"] = PopIps[q])'
             PROVE  (/\ zk[p][a]["next_auth"] \in Auth
                     /\ Exists(q, zk[p][a]["next_auth"]))'
  BY DEF NextHopExists
<1> USE DEF StoreInv
<1>1. \A b \in Auth : Exists(q, b) => Exists(q, b)'
  BY CircuitsStay
<1>2. CASE Exists(p, a)
  <2>1. zk'[p][a] = zk[p][a]
    BY <1>2, CircuitsStay
  <2>2. zk[p][a]["next_auth"] \in Auth /\ Exists(q, zk[p][a]["next_auth"])
    BY <1>2, <2>1 DEF NextHopExists
  <2> QED  BY <1>1, <2>1, <2>2 DEF Exists
<1>3. CASE ~Exists(p, a)
  <2>1. PICK c \in Clients : CommitCircuit(c)
    BY <1>3 DEF Exists, Next, vars, ClientStep, HandlerStep, storeVars, Connect,
                ConnectFails, ReceiveCreated, ReceiveClosed, RegisterLocally,
                DrawAuthenticator, SendCreated, HandlerFails
  <2>2. /\ zk' = [zk EXCEPT ![At(c)][auth[c]] = Requested(c)]
        /\ p = At(c) /\ a = auth[c]
    BY <1>3, <2>1, CommitEffect DEF Exists, ZkOK
  <2>3. zk'[p][a] = Requested(c)
    BY <2>2 DEF ZkOK
  <2>4. zk'[p][a]["next_ips"] = nextIps[c] /\ zk'[p][a]["next_auth"] = nextAuth[c]
    BY <2>3 DEF Requested
  <2>5. nextAuth[c] \in Auth /\ Exists(q, nextAuth[c])
    BY <2>4 DEF ClientKnows
  <2> QED  BY <1>1, <2>4, <2>5 DEF Exists
<1> QED  BY <1>2, <1>3

\* Every step keeps the store invariant.
LEMMA NextStoreInv == StoreInv /\ [Next]_vars => StoreInv'
BY NextZkOK, NextLocalsOK, NextHandlerServes, NextHandlerKnows,
   NextClientKnows, NextNextHopExists DEF StoreInv

\* The store invariant holds in every reachable state.
THEOREM StoreInvariant == Spec => []StoreInv
BY InitStoreInv, NextStoreInv, PTL DEF Spec

\* Type correctness of clients, handlers and store.
THEOREM TypeCorrect == Spec => []TypeOK
<1>1. StoreInv => TypeOK
  <2> SUFFICES ASSUME StoreInv
               PROVE  TypeOK
    OBVIOUS
  <2>1. \A p \in PoPs, a \in Auth : DOMAIN zk[p][a] \subseteq Znodes
    BY ExistsIffStored DEF StoreInv
  <2> QED  BY <2>1 DEF StoreInv, LocalsOK, TypeOK
<1> QED  BY <1>1, StoreInvariant, PTL

\* A circuit is never seen in part, whatever handlers race, collide or fail.
THEOREM CircuitsComplete == Spec => []CompleteCircuits
<1>1. StoreInv => CompleteCircuits
  BY ExistsIffStored DEF StoreInv, CompleteCircuits
<1> QED  BY <1>1, StoreInvariant, PTL

\* A circuit that leads to another PoP leads to a circuit that exists there.
THEOREM NoDanglingNextHop == Spec => []NextHopExists
<1>1. StoreInv => NextHopExists
  BY DEF StoreInv
<1> QED  BY <1>1, StoreInvariant, PTL

-----------------------------------------------------------------------------
(* A client's own route. *)

HopInstalled(c, i) ==
    issued[c][i] \in Auth /\ zk[Path[c][i]][issued[c][i]] = HopCircuit(c, i)

\* The next hop the client will name is the one it established last.
NamesNextHop(c) ==
    IF hop[c] = Len(Path[c])
      THEN nextIps[c] = <<Server[c]>> /\ nextAuth[c] = ServiceId[c]
      ELSE /\ nextIps[c] = PopIps[Path[c][hop[c] + 1]]
           /\ nextAuth[c] = issued[c][hop[c] + 1]

\* While nothing was rolled back the hops behind the client are installed, and
\* so is the one the handler has committed.
RouteSoFar(c) ==
    /\ nextIps[c] # << >> =>
          /\ NamesNextHop(c)
          /\ \A i \in 1..Len(Path[c]) : i > hop[c] => HopInstalled(c, i)
    /\ hpc[c] \in {"reply", "sent"} => zk[At(c)][auth[c]] = Requested(c)
    /\ cpc[c] = "registered" => RouteInstalled(c)

RouteInv == StoreInv /\ \A c \in Clients : c \notin rolledBack => RouteSoFar(c)

\* A hop that is installed stays so until the client replaces its tokens.
LEMMA HopStays ==
    ASSUME StoreInv, [Next]_vars, NEW c \in Clients, NEW i \in 1..Len(Path[c]),
           HopInstalled(c, i), issued'[c][i] = issued[c][i],
           i < Len(Path[c]) => issued'[c][i + 1] = issued[c][i + 1]
    PROVE  HopInstalled(c, i)'
<1>1. Len(Path[c]) \in Nat
  BY PathAssumption
<1>2. Path[c][i] \in PoPs
  BY AtIsPoP
<1>3. "client" \in DOMAIN HopCircuit(c, i)
  BY DEF HopCircuit
<1>4. Exists(Path[c][i], issued[c][i])
  BY <1>3 DEF HopInstalled, Exists
<1>5. zk'[Path[c][i]][issued[c][i]] = zk[Path[c][i]][issued[c][i]]
  BY <1>2, <1>4, CircuitsStay DEF HopInstalled, StoreInv
<1>6. HopCircuit(c, i)' = HopCircuit(c, i)
  BY <1>1 DEF HopCircuit
<1> QED  BY <1>5, <1>6 DEF HopInstalled

\* A step of other clients leaves the route of a client as it is.
LEMMA OthersKeepRoute ==
    ASSUME RouteInv, [Next]_vars, NEW c \in Clients, c \notin rolledBack',
           c \notin rolledBack,
           UNCHANGED <<cpc[c], hop[c], nextIps[c], nextAuth[c], rule[c], issued[c],
                       hpc[c], auth[c]>>
    PROVE  RouteSoFar(c)'
<1>1. RouteSoFar(c)
  BY DEF RouteInv
<1>2. Len(Path[c]) \in Nat
  BY PathAssumption
<1>3. \A i \in 1..Len(Path[c]) : HopInstalled(c, i) => HopInstalled(c, i)'
  BY HopStays DEF RouteInv
<1>4. nextIps'[c] # << >> =>
          /\ NamesNextHop(c)'
          /\ \A i \in 1..Len(Path[c]) : i > hop'[c] => HopInstalled(c, i)'
  BY <1>1, <1>3 DEF RouteSoFar, NamesNextHop
<1>5. hpc'[c] \in {"reply", "sent"} => (zk[At(c)][auth[c]] = Requested(c))'
  <2> SUFFICES ASSUME hpc[c] \in {"reply", "sent"}
               PROVE  (zk[At(c)][auth[c]] = Requested(c))'
    OBVIOUS
  <2>1. At(c) \in PoPs /\ auth[c] \in Auth
    BY AtInPath DEF RouteInv, StoreInv, LocalsOK
  <2>2. zk'[At(c)][auth[c]] = zk[At(c)][auth[c]]
    BY <2>1, CircuitsStay DEF RouteInv, StoreInv, HandlerKnows
  <2>3. Requested(c)' = Requested(c) /\ At(c)' = At(c)
    BY DEF Requested, At
  <2> QED  BY <1>1, <2>2, <2>3 DEF RouteSoFar
<1>6. cpc'[c] = "registered" => RouteInstalled(c)'
  <2> SUFFICES ASSUME cpc[c] = "registered"
               PROVE  RouteInstalled(c)'
    OBVIOUS
  <2>1. RouteInstalled(c)
    BY <1>1 DEF RouteSoFar
  <2>2. \A i \in 1..Len(Path[c]) : HopInstalled(c, i)
    BY <2>1 DEF RouteInstalled, HopInstalled
  <2>3. \A i \in 1..Len(Path[c]) : HopInstalled(c, i)'
    BY <1>3, <2>2
  <2>4. (rule[c] = [ip |-> Head(PopIps[Path[c][1]]), auth |-> issued[c][1]])'
    BY <2>1 DEF RouteInstalled
  <2> QED  BY <2>3, <2>4 DEF RouteInstalled, HopInstalled
<1> QED  BY <1>4, <1>5, <1>6 DEF RouteSoFar

\* At first no client has a route and nothing has to be in place.
LEMMA InitRouteInv == Init => RouteInv
<1> SUFFICES ASSUME Init, NEW c \in Clients
             PROVE  RouteSoFar(c)
  BY InitStoreInv DEF RouteInv
<1>1. Len(Path[c]) \in Nat
  BY PathAssumption
<1> QED  BY <1>1 DEF Init, RouteSoFar, NamesNextHop

\* The client takes over the hop that its handler committed.
LEMMA ReceiveKeepsRoute ==
    ASSUME RouteInv, NEW c \in Clients, ReceiveCreated(c), c \notin rolledBack
    PROVE  RouteSoFar(c)'
<1>1. Len(Path[c]) \in Nat
  BY PathAssumption
<1> PICK h \in 1..Len(Path[c]) : h = hop[c]
  BY AtInPath DEF ReceiveCreated, RouteInv, StoreInv
<1> USE DEF RouteInv
<1>2. nextIps[c] # << >> /\ zk[Path[c][h]][auth[c]] = Requested(c)
  BY DEF ReceiveCreated, HandlerServes, RouteSoFar, StoreInv, At
<1>3. NamesNextHop(c) /\ \A i \in 1..Len(Path[c]) : i > h => HopInstalled(c, i)
  BY <1>2 DEF RouteSoFar
<1>4. /\ hop'[c] = h - 1 /\ nextIps'[c] = PopIps[Path[c][h]]
      /\ nextAuth'[c] = auth[c] /\ auth[c] \in Auth /\ zk' = zk
      /\ hpc'[c] = "none" /\ cpc'[c] = "next"
  BY DEF ReceiveCreated, storeVars, StoreInv, LocalsOK, At
<1>5. /\ issued'[c][h] = auth[c]
      /\ \A i \in 1..Len(Path[c]) : i # h => issued'[c][i] = issued[c][i]
  <2>1. issued' = [issued EXCEPT ![c] = [@ EXCEPT ![h] = auth[c]]]
    BY DEF ReceiveCreated
  <2>2. issued'[c] = [issued[c] EXCEPT ![h] = auth[c]]
    BY <2>1 DEF StoreInv, LocalsOK
  <2>3. issued[c] \in [1..Len(Path[c]) -> Auth \cup {NoAuth}]
    BY DEF StoreInv, LocalsOK
  <2> QED  BY <2>2, <2>3
<1>6. Requested(c) = HopCircuit(c, h)'
  <2>1. CASE h = Len(Path[c])
    BY <1>3, <2>1 DEF Requested, HopCircuit, NamesNextHop
  <2>2. CASE h # Len(Path[c])
    <3>1. h + 1 \in 1..Len(Path[c]) /\ h + 1 # h
      BY <1>1, <2>2
    <3>2. issued'[c][h + 1] = nextAuth[c]
      BY <1>3, <1>5, <2>2, <3>1 DEF NamesNextHop
    <3> QED  BY <1>3, <2>2, <3>2 DEF Requested, HopCircuit, NamesNextHop
  <2> QED  BY <2>1, <2>2
<1>7. HopInstalled(c, h)'
  BY <1>2, <1>4, <1>5, <1>6 DEF HopInstalled
<1>8. ASSUME NEW i \in 1..Len(Path[c]), i > h
      PROVE  HopInstalled(c, i)'
  <2>1. issued'[c][i] = issued[c][i]
    BY <1>5, <1>8
  <2>2. i < Len(Path[c]) => issued'[c][i + 1] = issued[c][i + 1]
    <3> SUFFICES ASSUME i < Len(Path[c])
                 PROVE  issued'[c][i + 1] = issued[c][i + 1]
      OBVIOUS
    <3>1. i + 1 \in 1..Len(Path[c]) /\ i + 1 # h
      BY <1>1, <1>8
    <3> QED  BY <1>5, <3>1
  <2>3. [Next]_vars
    BY DEF Next, ClientStep
  <2> QED  BY <1>3, <1>8, <2>1, <2>2, <2>3, HopStays
<1>9. \A i \in 1..Len(Path[c]) : i > hop'[c] => HopInstalled(c, i)'
  <2>1. \A i \in 1..Len(Path[c]) : i > h - 1 => i = h \/ i > h
    BY <1>1
  <2> QED  BY <1>4, <1>7, <1>8, <2>1
<1>10. NamesNextHop(c)'
  <2>1. h - 1 # Len(Path[c]) /\ (h - 1) + 1 = h
    BY <1>1
  <2> QED  BY <1>4, <1>5, <2>1 DEF NamesNextHop
<1> QED  BY <1>4, <1>9, <1>10 DEF RouteSoFar

\* A route that is complete is what the client's own rule starts.
LEMMA RegisterKeepsRoute ==
    ASSUME RouteInv, NEW c \in Clients, RegisterLocally(c), c \notin rolledBack
    PROVE  RouteSoFar(c)'
<1>1. Len(Path[c]) \in Nat /\ 0 # Len(Path[c])
  BY PathAssumption
<1>2. hop[c] = 0 /\ cpc[c] = "next" /\ hpc[c] = "none"
  BY DEF RegisterLocally, RouteInv, StoreInv, HandlerServes
<1>3. UNCHANGED <<hop[c], nextIps[c], nextAuth[c], issued[c], hpc[c], zk>>
  BY DEF RegisterLocally, handlerVars, storeVars
<1>4. CASE nextIps[c] # << >>
  <2>1. /\ NamesNextHop(c)
        /\ \A i \in 1..Len(Path[c]) : i > hop[c] => HopInstalled(c, i)
    BY <1>2, <1>4 DEF RouteInv, RouteSoFar
  <2>2. nextIps[c] = PopIps[Path[c][1]] /\ nextAuth[c] = issued[c][1]
    BY <1>1, <1>2, <2>1 DEF NamesNextHop
  <2>3. rule'[c] = [ip |-> Head(nextIps[c]), auth |-> nextAuth[c]]
    BY <1>4 DEF RegisterLocally, RouteInv, StoreInv, LocalsOK
  <2>4. \A i \in 1..Len(Path[c]) : HopInstalled(c, i)'
    BY <1>2, <1>3, <2>1 DEF HopInstalled, HopCircuit
  <2>5. RouteInstalled(c)'
    BY <1>3, <2>2, <2>3, <2>4 DEF RouteInstalled, HopInstalled
  <2> QED  BY <1>2, <1>3, <2>1, <2>4, <2>5 DEF RouteSoFar, NamesNextHop
<1>5. CASE nextIps[c] = << >>
  <2>1. cpc'[c] = "failed"
    BY <1>5 DEF RegisterLocally, RouteInv, StoreInv, LocalsOK
  <2> QED  BY <1>2, <1>3, <1>5, <2>1 DEF RouteSoFar
<1> QED  BY <1>4, <1>5

\* A step that leaves the tokens of a client, its loop and the store alone
\* keeps its route if the handler commits to nothing new.
LEMMA LocalStepKeepsRoute ==
    ASSUME RouteInv, NEW c \in Clients, c \notin rolledBack,
           UNCHANGED <<zk, hop[c], nextIps[c], nextAuth[c], issued[c], auth[c]>>,
           hpc'[c] \in {"reply", "sent"} => hpc[c] \in {"reply", "sent"},
           cpc'[c] # "registered"
    PROVE  RouteSoFar(c)'
<1>1. RouteSoFar(c)
  BY DEF RouteInv
<1> QED  BY <1>1 DEF RouteSoFar, NamesNextHop, HopInstalled, HopCircuit, At, Requested

\* The store holds what the handler was asked for once it has committed.
LEMMA CommitKeepsRoute ==
    ASSUME RouteInv, NEW c \in Clients, CommitCircuit(c), c \notin rolledBack'
    PROVE  RouteSoFar(c)'
<1> USE DEF RouteInv, StoreInv
<1>1. c \notin rolledBack
  BY DEF CommitCircuit
<1>2. [Next]_vars
  BY DEF Next, HandlerStep
<1>3. /\ At(c) \in PoPs /\ auth[c] \in Auth
      /\ zk' = [zk EXCEPT ![At(c)][auth[c]] = Requested(c)]
  BY CommitEffect
<1>4. zk'[At(c)][auth[c]] = Requested(c)
  BY <1>3 DEF ZkOK
<1>5. UNCHANGED <<cpc, hop, nextIps, nextAuth, rule, issued, auth>>
  BY DEF CommitCircuit, clientVars
<1>6. hpc[c] = "commit" /\ cpc[c] = "wait"
  BY DEF CommitCircuit, HandlerServes
<1>7. RouteSoFar(c)
  BY <1>1
<1>8. \A i \in 1..Len(Path[c]) : HopInstalled(c, i) => HopInstalled(c, i)'
  <2> SUFFICES ASSUME NEW i \in 1..Len(Path[c]), HopInstalled(c, i)
               PROVE  HopInstalled(c, i)'
    OBVIOUS
  <2> QED  BY <1>2, <1>5, HopStays
<1>9. (zk[At(c)][auth[c]] = Requested(c))'
  BY <1>4, <1>5 DEF At, Requested
<1>10. NamesNextHop(c)' <=> NamesNextHop(c)
  BY <1>5 DEF NamesNextHop
<1> QED  BY <1>5, <1>6, <1>7, <1>8, <1>9, <1>10 DEF RouteSoFar

\* Every step keeps the route invariant: a client that moves up extends its route
\* by the circuit its handler committed, and nobody changes the rest.
LEMMA NextRouteInv == RouteInv /\ [Next]_vars => RouteInv'
<1> SUFFICES ASSUME RouteInv, [Next]_vars, NEW d \in Clients, d \notin rolledBack'
             PROVE  RouteSoFar(d)'
  BY NextStoreInv DEF RouteInv
<1> USE DEF StoreInv, LocalsOK
<1>1. d \notin rolledBack
  BY DEF Next, vars, ClientStep, HandlerStep, storeVars, Connect, ConnectFails,
         ReceiveCreated, ReceiveClosed, RegisterLocally, DrawAuthenticator,
         CommitCircuit, SendCreated, HandlerFails
<1>2. ASSUME NEW c \in Clients, c # d, ClientStep(c) \/ ConnectFails(c)
      PROVE  RouteSoFar(d)'
  <2>1. UNCHANGED <<cpc[d], hop[d], nextIps[d], nextAuth[d], rule[d], issued[d],
                    hpc[d], auth[d]>>
    BY <1>2 DEF RouteInv, ClientStep, Connect, ReceiveCreated, ReceiveClosed,
                RegisterLocally, ConnectFails, handlerVars
  <2> QED  BY <1>1, <2>1, OthersKeepRoute
<1>3. ASSUME NEW c \in Clients, c # d, HandlerStep(c) \/ HandlerFails(c)
      PROVE  RouteSoFar(d)'
  <2>1. UNCHANGED <<cpc[d], hop[d], nextIps[d], nextAuth[d], rule[d], issued[d],
                    hpc[d], auth[d]>>
    BY <1>3 DEF RouteInv, HandlerStep, DrawAuthenticator, CommitCircuit,
                SendCreated, HandlerFails, clientVars
  <2> QED  BY <1>1, <2>1, OthersKeepRoute
<1>4. CASE UNCHANGED vars
  <2>1. UNCHANGED <<cpc[d], hop[d], nextIps[d], nextAuth[d], rule[d], issued[d],
                    hpc[d], auth[d]>>
    BY <1>4 DEF vars, clientVars, handlerVars
  <2> QED  BY <1>1, <2>1, OthersKeepRoute
<1>5. CASE Connect(d) \/ ConnectFails(d)
  <2>1. /\ UNCHANGED <<zk, hop[d], nextIps[d], nextAuth[d], issued[d], auth[d]>>
        /\ cpc'[d] # "registered"
    BY <1>5 DEF Connect, ConnectFails, storeVars, handlerVars, RouteInv
  <2>2. hpc'[d] \in {"reply", "sent"} => hpc[d] \in {"reply", "sent"}
    BY <1>5 DEF Connect, ConnectFails, handlerVars, RouteInv
  <2> QED  BY <1>1, <2>1, <2>2, LocalStepKeepsRoute
<1>6. CASE ReceiveCreated(d)
  BY <1>1, <1>6, ReceiveKeepsRoute
<1>7. CASE ReceiveClosed(d)
  <2>1. nextIps'[d] = << >> /\ hpc'[d] = "none" /\ cpc'[d] = "next"
    BY <1>7 DEF ReceiveClosed, RouteInv
  <2> QED  BY <2>1 DEF RouteSoFar
<1>8. CASE RegisterLocally(d)
  BY <1>1, <1>8, RegisterKeepsRoute
<1>9. CASE DrawAuthenticator(d)
  <2>1. hpc[d] = "recv" /\ cpc[d] = "wait" /\ hpc'[d] \in {"closed", "commit"}
    BY <1>9 DEF DrawAuthenticator, RouteInv, HandlerServes
  <2>2. UNCHANGED <<zk, cpc, hop, nextIps, nextAuth, issued>>
    BY <1>9 DEF DrawAuthenticator, clientVars, storeVars
  <2>3. RouteSoFar(d)
    BY <1>1 DEF RouteInv
  <2> QED  BY <2>1, <2>2, <2>3 DEF RouteSoFar, NamesNextHop, HopInstalled, HopCircuit
<1>10. CASE CommitCircuit(d)
  BY <1>10, CommitKeepsRoute
<1>11. CASE SendCreated(d) \/ HandlerFails(d)
  <2>1. /\ UNCHANGED <<zk, hop[d], nextIps[d], nextAuth[d], issued[d], auth[d]>>
        /\ cpc'[d] = cpc[d] /\ hpc[d] # "none"
    BY <1>11 DEF SendCreated, HandlerFails, storeVars, clientVars
  <2>2. cpc'[d] # "registered"
    BY <2>1 DEF RouteInv, HandlerServes
  <2>3. hpc'[d] \in {"reply", "sent"} => hpc[d] \in {"reply", "sent"}
    BY <1>11 DEF SendCreated, HandlerFails, RouteInv
  <2> QED  BY <1>1, <2>1, <2>2, <2>3, LocalStepKeepsRoute
<1> QED  BY <1>2, <1>3, <1>4, <1>5, <1>6, <1>7, <1>8, <1>9, <1>10, <1>11
         DEF Next, ClientStep, HandlerStep

\* A client that ends with a local rule and saw no transaction roll back has
\* its whole route in the stores of its path, and no later client takes it.
THEOREM RegisteredClientsOwnTheirRoute == Spec => []OwnRoute
<1>1. RouteInv => OwnRoute
  BY DEF RouteInv, RouteSoFar, OwnRoute
<1>2. Spec => []RouteInv
  BY InitRouteInv, NextRouteInv, PTL DEF Spec
<1> QED  BY <1>1, <1>2, PTL

-----------------------------------------------------------------------------
(* Refinement. *)

\* Every step of establishment creates one circuit of the abstract store, and
\* only one that leads to a stored circuit, or leaves the store alone.
THEOREM EstablishmentImplementsStore == Spec => StoreSpec
<1>1. Init => Store!Init
  BY DEF Init, Store!Init
<1>2. StoreInv /\ [Next]_vars => [Store!Next]_zk
  <2> SUFFICES ASSUME StoreInv, [Next]_vars, zk' # zk
               PROVE  Store!Next
    OBVIOUS
  <2> PICK c \in Clients : CommitCircuit(c)
    BY DEF Next, vars, ClientStep, HandlerStep, storeVars, Connect, ConnectFails,
           ReceiveCreated, ReceiveClosed, RegisterLocally, DrawAuthenticator,
           SendCreated, HandlerFails
  <2> DEFINE r == Requested(c)
  <2>1. /\ At(c) \in PoPs /\ auth[c] \in Auth /\ r \in Circuit
        /\ ~Exists(At(c), auth[c])
        /\ zk' = [zk EXCEPT ![At(c)][auth[c]] = r]
    BY CommitEffect DEF StoreInv
  <2>2. ~Store!Stored(At(c), auth[c])
    BY <2>1, ExistsIffStored DEF StoreInv, Store!Stored
  <2>3. r.next_ip = Head(r.next_ips)
    BY DEF Requested
  <2>4. \A q \in PoPs : Store!Leads(r, q)
    <3> SUFFICES ASSUME NEW q \in PoPs, r.next_ips = PopIps[q]
                 PROVE  Store!Stored(q, r.next_auth)
      BY DEF Store!Leads
    <3>1. r.next_ips = nextIps[c] /\ r.next_auth = nextAuth[c]
      BY DEF Requested
    <3>2. nextAuth[c] \in Auth /\ Exists(q, nextAuth[c])
      BY <3>1 DEF StoreInv, ClientKnows
    <3> QED  BY <3>1, <3>2, ExistsIffStored DEF StoreInv, Store!Stored
  <2>5. Store!Create(At(c), auth[c], r)
    BY <2>1, <2>2, <2>3, <2>4 DEF Store!Create
  <2> QED  BY <2>1, <2>5 DEF Store!Next
<1> QED  BY <1>1, <1>2, StoreInvariant, PTL DEF Spec, StoreSpec, Store!Spec
=============================================================================
