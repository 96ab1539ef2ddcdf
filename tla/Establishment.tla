--------------------------- MODULE Establishment ---------------------------
(***************************************************************************)
(* Circuit establishment: clients/circuitc.py, which asks the PoPs of its  *)
(* path for a circuit one after the other, last PoP first, and             *)
(* daemons/circuitd.py, which answers each request in a thread of its own  *)
(* and stores the circuit in the PoP's ZooKeeper.                          *)
(*                                                                         *)
(* A client has at most one connection open, so the handler thread that    *)
(* serves it is named by the client.  ZooKeeper is a linearizable store:   *)
(* one call is one step.                                                   *)
(***************************************************************************)
EXTENDS Integers, Sequences, Functions

CONSTANTS
    PoPs,          \* points of presence, each with a circuitd and a ZooKeeper
    Clients,       \* runs of circuitc.py
    Path,          \* Path[c]: the PoPs of c's path, first PoP first
    PopIps,        \* PopIps[p]: config['ips'], the edge nodes of PoP p
    Server,        \* Server[c]: the address of the other end host
    ServiceId,     \* ServiceId[c]: the service id the server is bound to
    MaxAuth        \* new_authenticator draws from 0..MaxAuth (2^31 in the code)

ASSUME PathAssumption == Path \in [Clients -> Seq(PoPs) \ {<< >>}]

ASSUME AuthAssumption == /\ MaxAuth \in Nat
                         /\ ServiceId \in [Clients -> Nat]

\* No two PoPs list the same nodes, every PoP has one, and no end host is one.
ASSUME IpsAssumption ==
    /\ \A p \in PoPs : PopIps[p] # << >>
    /\ \A p, q \in PoPs : PopIps[p] = PopIps[q] => p = q
    /\ \A c \in Clients, p \in PoPs : PopIps[p] # <<Server[c]>>
    /\ \A p \in PoPs : PopIps[p] \in Seq(Range(PopIps[p]))

-----------------------------------------------------------------------------
(* Data. *)

Auth == 0..MaxAuth

NextAuths == Auth \cup Range(ServiceId)

IpLists == {PopIps[p] : p \in PoPs} \cup {<<Server[c]>> : c \in Clients}

Ips == UNION {Range(s) : s \in IpLists}

\* circuitc sends the same client id in every request.
ClientId == 2

\* The znodes of circuit a: /circuit/a itself, whose data is the client id,
\* and its three children.
Znodes == {"client", "next_ip", "next_ips", "next_auth"}

Circuit == [client : {ClientId}, next_ip : Ips, next_ips : IpLists,
            next_auth : NextAuths]

NoCircuit == [z \in {} |-> ClientId]

NoAuth == -1

NoRule == [ip |-> "none", auth |-> NoAuth]

VARIABLES
    zk,          \* zk[p][a]: the znodes that exist for authenticator a, with data
    cpc,         \* circuitc: "next" (loop head), "wait" (in recv), and the ends
    hop,         \* circuitc: index in Path of the PoP it asks, 0 after the loop
    nextIps,     \* circuitc: next_hop_ips
    nextAuth,    \* circuitc: next_hop_authenticator
    rule,        \* the end host's own service table entry
    hpc,         \* circuitd handler: where it stands
    auth,        \* circuitd handler: the authenticator it drew
    fresh,       \* circuitd handler: the transaction also creates /circuit/a
    rolledBack,  \* clients one of whose commits reported a failure
    issued       \* history: issued[c][i] is the authenticator c got for hop i

clientVars == <<cpc, hop, nextIps, nextAuth, rule, issued>>
handlerVars == <<hpc, auth, fresh>>
storeVars == <<zk, rolledBack>>
vars == <<clientVars, handlerVars, storeVars>>

Exists(p, a) == "client" \in DOMAIN zk[p][a]

\* The PoP that client c is talking to.
At(c) == Path[c][hop[c]]

Init ==
    /\ zk = [p \in PoPs |-> [a \in Auth |-> NoCircuit]]
    /\ cpc = [c \in Clients |-> "next"]
    /\ hop = [c \in Clients |-> Len(Path[c])]
    /\ nextIps = [c \in Clients |-> <<Server[c]>>]
    /\ nextAuth = [c \in Clients |-> ServiceId[c]]
    /\ rule = [c \in Clients |-> NoRule]
    /\ hpc = [c \in Clients |-> "none"]
    /\ auth = [c \in Clients |-> 0]
    /\ fresh = [c \in Clients |-> FALSE]
    /\ rolledBack = {}
    /\ issued = [c \in Clients |-> [i \in 1..Len(Path[c]) |-> NoAuth]]

-----------------------------------------------------------------------------
(* circuitc.py *)

\* The loop body down to sock.send: connect to the PoP and send CreateCircuit.
Connect(c) ==
    /\ cpc[c] = "next"
    /\ hop[c] > 0
    /\ cpc' = [cpc EXCEPT ![c] = "wait"]
    /\ hpc' = [hpc EXCEPT ![c] = "recv"]
    /\ UNCHANGED <<hop, nextIps, nextAuth, rule, issued, auth, fresh, storeVars>>

\* connect raises: the script ends, what it has established stays.
ConnectFails(c) ==
    /\ cpc[c] = "next"
    /\ hop[c] > 0
    /\ cpc' = [cpc EXCEPT ![c] = "failed"]
    /\ UNCHANGED <<hop, nextIps, nextAuth, rule, issued, handlerVars, storeVars>>

\* Variant of ReceiveCreated: next_hop_ips keeps its old value.
ReceiveCreatedKeepingIps(c) ==
    /\ cpc[c] = "wait"
    /\ hpc[c] = "sent"
    /\ nextAuth' = [nextAuth EXCEPT ![c] = auth[c]]
    /\ issued' = [issued EXCEPT ![c][hop[c]] = auth[c]]
    /\ hop' = [hop EXCEPT ![c] = @ - 1]
    /\ cpc' = [cpc EXCEPT ![c] = "next"]
    /\ hpc' = [hpc EXCEPT ![c] = "none"]
    /\ UNCHANGED <<nextIps, rule, auth, fresh, storeVars>>

\* recv returns a CircuitCreated: it is the next hop of the next request.
ReceiveCreated(c) ==
    /\ cpc[c] = "wait"
    /\ hpc[c] = "sent"
    /\ nextIps' = [nextIps EXCEPT ![c] = PopIps[At(c)]]
    /\ nextAuth' = [nextAuth EXCEPT ![c] = auth[c]]
    /\ issued' = [issued EXCEPT ![c][hop[c]] = auth[c]]
    /\ hop' = [hop EXCEPT ![c] = @ - 1]
    /\ cpc' = [cpc EXCEPT ![c] = "next"]
    /\ hpc' = [hpc EXCEPT ![c] = "none"]
    /\ UNCHANGED <<rule, auth, fresh, storeVars>>

\* Variant of ReceiveClosed: the missing authenticator becomes -1, not 0.
ReceiveClosedAsMinusOne(c) ==
    /\ cpc[c] = "wait"
    /\ hpc[c] = "closed"
    /\ nextIps' = [nextIps EXCEPT ![c] = << >>]
    /\ nextAuth' = [nextAuth EXCEPT ![c] = NoAuth]
    /\ hop' = [hop EXCEPT ![c] = @ - 1]
    /\ cpc' = [cpc EXCEPT ![c] = "next"]
    /\ hpc' = [hpc EXCEPT ![c] = "none"]
    /\ UNCHANGED <<rule, issued, auth, fresh, storeVars>>

\* recv returns the empty string.  ParseFromString leaves every field at its
\* default: authenticator 0 and no address.  The loop goes on with them.
ReceiveClosed(c) ==
    /\ cpc[c] = "wait"
    /\ hpc[c] = "closed"
    /\ nextIps' = [nextIps EXCEPT ![c] = << >>]
    /\ nextAuth' = [nextAuth EXCEPT ![c] = 0]
    /\ hop' = [hop EXCEPT ![c] = @ - 1]
    /\ cpc' = [cpc EXCEPT ![c] = "next"]
    /\ hpc' = [hpc EXCEPT ![c] = "none"]
    /\ UNCHANGED <<rule, issued, auth, fresh, storeVars>>

\* After the loop: add the rule for the server's service id, through the first
\* node of the first PoP.  next_hop_ips[0] raises if the last reply was empty.
RegisterLocally(c) ==
    /\ cpc[c] = "next"
    /\ hop[c] = 0
    /\ \/ /\ nextIps[c] # << >>
          /\ rule' = [rule EXCEPT ![c] = [ip |-> Head(nextIps[c]),
                                          auth |-> nextAuth[c]]]
          /\ cpc' = [cpc EXCEPT ![c] = "registered"]
       \/ /\ nextIps[c] = << >>
          /\ cpc' = [cpc EXCEPT ![c] = "failed"]
          /\ UNCHANGED rule
    /\ UNCHANGED <<hop, nextIps, nextAuth, issued, handlerVars, storeVars>>

-----------------------------------------------------------------------------
(* circuitd.py, CircuitHandler.handle *)

\* Receive and parse the request, draw an authenticator and ask ZooKeeper if
\* it is taken.  cr.next_hop_ip[0] of an empty list raises before the commit.
DrawAuthenticator(c) ==
    /\ hpc[c] = "recv"
    /\ \E a \in Auth :
          /\ auth' = [auth EXCEPT ![c] = a]
          /\ fresh' = [fresh EXCEPT ![c] = ~Exists(At(c), a)]
    /\ hpc' = [hpc EXCEPT ![c] = IF nextIps[c] = << >> THEN "closed" ELSE "commit"]
    /\ UNCHANGED <<clientVars, storeVars>>

\* What the handler stores for the request of client c.
Requested(c) == [client |-> ClientId, next_ip |-> Head(nextIps[c]),
                 next_ips |-> nextIps[c], next_auth |-> nextAuth[c]]

Created(c) == IF fresh[c] THEN Znodes ELSE Znodes \ {"client"}

\* A transaction applies if every create does: no znode of it exists and the
\* parent of the three children exists or is created with them.
Applies(c) ==
    /\ Created(c) \cap DOMAIN zk[At(c)][auth[c]] = {}
    /\ fresh[c] \/ Exists(At(c), auth[c])

Merged(old, new, zs) ==
    [z \in DOMAIN old \cup zs |-> IF z \in zs THEN new[z] ELSE old[z]]

\* Variant of CommitCircuit: separate creates, a later one may not happen.
CommitCircuitOneByOne(c) ==
    /\ hpc[c] = "commit"
    /\ Applies(c)
    /\ \E zs \in {Created(c), {"client", "next_ip"}} :
          zk' = [zk EXCEPT ![At(c)][auth[c]] = Merged(@, Requested(c), zs)]
    /\ hpc' = [hpc EXCEPT ![c] = "reply"]
    /\ UNCHANGED <<clientVars, auth, fresh, rolledBack>>

\* Variant of CommitCircuit: set instead of create, so the last writer wins.
CommitCircuitOverwriting(c) ==
    /\ hpc[c] = "commit"
    /\ zk' = [zk EXCEPT ![At(c)][auth[c]] = Merged(@, Requested(c), Znodes)]
    /\ hpc' = [hpc EXCEPT ![c] = "reply"]
    /\ UNCHANGED <<clientVars, auth, fresh, rolledBack>>

\* transaction.commit() applies all creates or none.  It returns the failures
\* instead of raising, nobody looks at them, and the handler answers anyway.
CommitCircuit(c) ==
    /\ hpc[c] = "commit"
    /\ \/ /\ Applies(c)
          /\ zk' = [zk EXCEPT ![At(c)][auth[c]] =
                                  Merged(@, Requested(c), Created(c))]
          /\ UNCHANGED rolledBack
       \/ /\ ~Applies(c)
          /\ rolledBack' = rolledBack \cup {c}
          /\ UNCHANGED zk
    /\ hpc' = [hpc EXCEPT ![c] = "reply"]
    /\ UNCHANGED <<clientVars, auth, fresh>>

SendCreated(c) ==
    /\ hpc[c] = "reply"
    /\ hpc' = [hpc EXCEPT ![c] = "sent"]
    /\ UNCHANGED <<clientVars, auth, fresh, storeVars>>

\* Variant of HandlerFails: the failed call is swallowed and answered as done.
HandlerFailsSwallowed(c) ==
    /\ hpc[c] \in {"recv", "commit", "reply"}
    /\ hpc' = [hpc EXCEPT ![c] = "reply"]
    /\ UNCHANGED <<clientVars, auth, fresh, storeVars>>

\* Variant of HandlerFails: the thread dies and leaves the connection open.
HandlerFailsSilently(c) ==
    /\ hpc[c] \in {"recv", "commit", "reply"}
    /\ hpc' = [hpc EXCEPT ![c] = "none"]
    /\ UNCHANGED <<clientVars, auth, fresh, storeVars>>

\* A ZooKeeper call or the send raises: the thread ends and SocketServer closes
\* the connection.  A commit that raised may have been applied ("reply").
HandlerFails(c) ==
    /\ hpc[c] \in {"recv", "commit", "reply"}
    /\ hpc' = [hpc EXCEPT ![c] = "closed"]
    /\ UNCHANGED <<clientVars, auth, fresh, storeVars>>

-----------------------------------------------------------------------------

ClientStep(c) ==
    Connect(c) \/ ReceiveCreated(c) \/ ReceiveClosed(c) \/ RegisterLocally(c)

HandlerStep(c) == DrawAuthenticator(c) \/ CommitCircuit(c) \/ SendCreated(c)

Next == \E c \in Clients :
            ClientStep(c) \/ HandlerStep(c) \/ ConnectFails(c) \/ HandlerFails(c)

Spec == Init /\ [][Next]_vars

\* Client processes and handler threads are scheduled and TCP delivers.
FairSpec == Spec /\ \A c \in Clients : /\ WF_vars(ClientStep(c))
                                       /\ WF_vars(HandlerStep(c))

-----------------------------------------------------------------------------
(* Properties. *)

\* Every variable has its type.
TypeOK ==
    /\ \A p \in PoPs, a \in Auth : DOMAIN zk[p][a] \subseteq Znodes
    /\ cpc \in [Clients -> {"next", "wait", "registered", "failed"}]
    /\ \A c \in Clients : hop[c] \in 0..Len(Path[c])
    /\ nextIps \in [Clients -> IpLists \cup {<< >>}]
    /\ nextAuth \in [Clients -> NextAuths]
    /\ rule \in [Clients -> [ip : Ips, auth : NextAuths] \cup {NoRule}]
    /\ hpc \in [Clients -> {"none", "recv", "commit", "reply", "sent", "closed"}]
    /\ auth \in [Clients -> Auth]
    /\ fresh \in [Clients -> BOOLEAN]
    /\ rolledBack \in SUBSET Clients
    /\ \A c \in Clients :
          issued[c] \in [1..Len(Path[c]) -> Auth \cup {NoAuth}]

\* The comment in watcherd ("transaction guarantees that if
\* /circuit/authenticator exists then all three its children exist"): whatever
\* handlers race or fail, a circuit is never seen in part.
CompleteCircuits ==
    \A p \in PoPs, a \in Auth : Exists(p, a) => zk[p][a] \in Circuit

\* Establishing from the last PoP to the first pays off: a circuit that leads
\* to another PoP leads to a circuit that exists there, at every moment, even
\* when clients draw the same authenticator, handlers fail or clients give up.
NextHopExists ==
    \A p, q \in PoPs, a \in Auth :
        Exists(p, a) /\ zk[p][a]["next_ips"] = PopIps[q] =>
            /\ zk[p][a]["next_auth"] \in Auth
            /\ Exists(q, zk[p][a]["next_auth"])

\* What c asked for at hop i of its path.
HopCircuit(c, i) ==
    LET last == i = Len(Path[c])
        ips == IF last THEN <<Server[c]>> ELSE PopIps[Path[c][i + 1]]
    IN [client |-> ClientId, next_ip |-> Head(ips), next_ips |-> ips,
        next_auth |-> IF last THEN ServiceId[c] ELSE issued[c][i + 1]]

\* The authenticators c was issued lead hop by hop along its path to its server.
RouteInstalled(c) ==
    /\ rule[c] = [ip |-> Head(PopIps[Path[c][1]]), auth |-> issued[c][1]]
    /\ \A i \in 1..Len(Path[c]) :
          /\ issued[c][i] \in Auth
          /\ zk[Path[c][i]][issued[c][i]] = HopCircuit(c, i)

\* A client that ends with a local rule has its whole route in place, whatever
\* failed on the way, unless ZooKeeper rejected one of its transactions (which
\* circuitd does not notice).  No later client can take the route from it.
OwnRoute ==
    \A c \in Clients :
        cpc[c] = "registered" /\ c \notin rolledBack => RouteInstalled(c)

\* 5page.tex: the token is there "so that the ISP knows to send them along that
\* route".  Two clients that draw the same authenticator share one route.
TokenNamesOwnRoute ==
    \A c \in Clients : cpc[c] = "registered" => RouteInstalled(c)

\* Establishment keeps the promise of the circuit store.
Store == INSTANCE CircuitStore WITH circuits <- zk

StoreSpec == Store!Spec

\* Every client ends, with a rule or with an error: a handler that dies closes
\* the connection the client is blocked on.
EveryClientEnds ==
    \A c \in Clients : <>(cpc[c] \in {"registered", "failed"})
=============================================================================
