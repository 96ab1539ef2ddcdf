------------------------------ MODULE Failover ------------------------------
(***************************************************************************)
(* Edge node failover: daemons/failoverd.py on every edge node of one      *)
(* circuit that crosses PoPs 1..N.                                         *)
(*                                                                         *)
(* A check enters at a node of PoP 1 and travels along the circuit: the    *)
(* handler of a node asks the current next hop to check on, pings the      *)
(* other nodes of the next PoP, and switches to one of them if the current *)
(* next hop does not answer or answers that its own check failed.          *)
(*                                                                         *)
(* A check asks one node per PoP, so (check, PoP) names a handler.  next_ip*)
(* is in the PoP's ZooKeeper, shared by its nodes; the service table is    *)
(* the node's own.  watcherd, which carries next_ip to the tables of the   *)
(* other nodes, is not part of this module.                                *)
(***************************************************************************)
EXTENDS Integers, Sequences, FiniteSets, Functions, FiniteSetsExt

CONSTANTS
    N,          \* the PoPs of the circuit, 1..N
    Hosts,      \* Hosts[n]: the edge nodes of PoP n, in the order of next_ips
    Checks,     \* the checks that clients send
    MaxActive,  \* how many checks run at the same time
    MaxDown,    \* how many nodes may be down
    Crashes,    \* TRUE: nodes also go down while checks run
    Prompt,     \* TRUE: a live node answers well within CHECK_TIMEOUT, no
                \* datagram is lost and neither sockets nor ZooKeeper fail
    ShortAuths, \* TRUE: circuitd may have drawn authenticators below 10000
    NoNode

ASSUME HostsAssumption ==
    /\ N \in Nat \ {0}
    /\ \A n \in 1..N : Hosts[n] \in Seq(Range(Hosts[n])) \ {<< >>}
    /\ \A n \in 1..N : NoNode \notin Range(Hosts[n])
    /\ \A m, n \in 1..N : m # n => Range(Hosts[m]) \cap Range(Hosts[n]) = {}

ASSUME ChecksAssumption == IsFiniteSet(Checks)

PoPs == 1..N

Nodes == UNION {Range(Hosts[n]) : n \in PoPs}

\* The nodes that next_ips of PoP n lists.
NextHops(n) == Range(Hosts[n + 1])

VARIABLES
    nextIp,   \* nextIp[n]: /circuit/<authenticator>/next_ip in PoP n, n < N
    table,    \* table[h]: the next hops that h's service table has a rule for
    up,       \* the nodes that run
    handler,  \* handler[k][n]: FailoverHandler.handle for check k in PoP n
    short,    \* the PoPs that know the PoP after them by a short authenticator
    batches   \* history: how often a check was sent while no other one ran

vars == <<nextIp, table, up, handler, short, batches>>

NoHandler == [pc |-> "none", node |-> NoNode, cur |-> NoNode,
              target |-> NoNode, res |-> [h \in {} |-> "pending"], ans |-> "none"]

\* A datagram that asks node h to check.
SentTo(h) == [NoHandler EXCEPT !.pc = "sent", !.node = h]

Running(k, n) == handler[k][n].node \in up

Quiet(k) == \A n \in PoPs : handler[k][n].pc \in {"none", "done"} \/ ~Running(k, n)

\* The checks that still run somewhere.
Active == {k \in Checks : ~Quiet(k)}

\* Every PoP keeps a node; the circuit starts at the first node of every PoP.
Init ==
    /\ up \in SUBSET Nodes
    /\ Cardinality(Nodes \ up) <= MaxDown
    /\ \A n \in PoPs : Range(Hosts[n]) \cap up # {}
    /\ nextIp = [n \in 1..(N - 1) |-> Hosts[n + 1][1]]
    /\ table = [h \in Nodes |->
                   {Hosts[n + 1][1] : n \in {m \in 1..(N - 1) : h \in Range(Hosts[m])}}]
    /\ handler = [k \in Checks |-> [n \in PoPs |-> NoHandler]]
    /\ short \in IF ShortAuths THEN SUBSET (1..(N - 1)) ELSE {{}}
    /\ batches = 0

-----------------------------------------------------------------------------
(* The client and the nodes. *)

\* A client sends '1' and its authenticator to a node of the first PoP.
SendCheck(k) ==
    /\ handler[k][1].pc = "none"
    /\ Cardinality(Active) < MaxActive
    /\ \E h \in Range(Hosts[1]) : handler' = [handler EXCEPT ![k][1] = SentTo(h)]
    /\ batches' = IF Active = {} THEN batches + 1 ELSE batches
    /\ UNCHANGED <<nextIp, table, up, short>>

\* A node stops, with the handlers that run on it.
Crash(h) ==
    /\ Crashes
    /\ h \in up
    /\ Cardinality(Nodes \ up) < MaxDown
    /\ \A n \in PoPs : Range(Hosts[n]) \cap (up \ {h}) # {}
    /\ up' = up \ {h}
    /\ UNCHANGED <<nextIp, table, handler, short, batches>>

-----------------------------------------------------------------------------
(* FailoverHandler.handle: the check and its answers. *)

\* The last hop answers at once, and so does a node that takes its PoP for the last
\* because of a short authenticator.  Others read next_ip and next_ips and start a
\* ping thread per node: a check for the current next hop, a ping for the rest.
ReceiveCheck(k, n) ==
    /\ handler[k][n].pc = "sent"
    /\ Running(k, n)
    /\ IF n = N \/ n \in short
         THEN handler' = [handler EXCEPT ![k][n].ans = "1", ![k][n].pc = "done"]
         ELSE handler' = [handler EXCEPT
                 ![k][n].cur = nextIp[n],
                 ![k][n].res = [h \in NextHops(n) |-> "pending"],
                 ![k][n].pc = "wait",
                 ![k][n + 1] = SentTo(nextIp[n])]
    /\ UNCHANGED <<nextIp, table, up, short, batches>>

Pending(k, n, h) ==
    /\ handler[k][n].pc = "wait"
    /\ Running(k, n)
    /\ h \in NextHops(n)
    /\ handler[k][n].res[h] = "pending"

\* A standby node acknowledges the ping.
AnswerPing(k, n, h) ==
    /\ Pending(k, n, h)
    /\ h # handler[k][n].cur
    /\ h \in up
    /\ handler' = [handler EXCEPT ![k][n].res[h] = "1"]
    /\ UNCHANGED <<nextIp, table, up, short, batches>>

\* The answer of the current next hop to the check arrives in time.
AnswerCheck(k, n, h) ==
    /\ Pending(k, n, h)
    /\ h = handler[k][n].cur
    /\ handler[k][n + 1].ans # "none"
    /\ handler' = [handler EXCEPT ![k][n].res[h] = handler[k][n + 1].ans]
    /\ UNCHANGED <<nextIp, table, up, short, batches>>

\* Somewhere from PoP n on the check k waits or has waited for a dead node.
Stalled(k, n) ==
    \E m \in n..N : \/ handler[k][m].pc # "none" /\ ~Running(k, m)
                    \/ \E h \in DOMAIN handler[k][m].res :
                          \/ handler[k][m].res[h] = "late"
                          \/ handler[k][m].res[h] = "pending" /\ h \notin up

\* Variant of TimesOut: settimeout only on the sockets of the pings.
TimesOutPingsOnly(k, n, h) ==
    /\ Pending(k, n, h)
    /\ h # handler[k][n].cur
    /\ ~Prompt \/ h \notin up
    /\ handler' = [handler EXCEPT ![k][n].res[h] = "late"]
    /\ UNCHANGED <<nextIp, table, up, short, batches>>

\* CHECK_TIMEOUT passes.  The check has the same timeout in every PoP, so it
\* passes in PoP n before any handler further down gives up on its own pings.
TimesOut(k, n, h) ==
    /\ Pending(k, n, h)
    /\ \/ ~Prompt
       \/ h \notin up
       \/ h = handler[k][n].cur /\ Stalled(k, n + 1)
    /\ handler' = [handler EXCEPT ![k][n].res[h] = "late"]
    /\ UNCHANGED <<nextIp, table, up, short, batches>>

\* socket, sendto or recv raises what is no timeout: the thread ends, and the result
\* keeps the initial value of ping_response.
PingFails(k, n, h) ==
    /\ ~Prompt
    /\ Pending(k, n, h)
    /\ handler' = [handler EXCEPT ![k][n].res[h] = "x"]
    /\ UNCHANGED <<nextIp, table, up, short, batches>>

-----------------------------------------------------------------------------
(* FailoverHandler.handle: the switch. *)

Joined(k, n) ==
    /\ handler[k][n].pc = "wait"
    /\ Running(k, n)
    /\ \A h \in NextHops(n) : handler[k][n].res[h] # "pending"

\* PING_FAILURE: the answer '0', or a timeout, but not the 'x' of a failed ping.
Failed(k, n, h) == handler[k][n].res[h] \in {"0", "late"}

\* Variant of Working: any node but the current one, whatever it answered.
WorkingAny(k, n) == {i \in DOMAIN Hosts[n + 1] : Hosts[n + 1][i] # handler[k][n].cur}

Working(k, n) == {i \in DOMAIN Hosts[n + 1] : handler[k][n].res[Hosts[n + 1][i]] = "1"}

Switches(k, n) == Joined(k, n) /\ Failed(k, n, handler[k][n].cur) /\ Working(k, n) # {}

\* Variant of DelRule: the node to leave is the one the store names by now.
DelRuleRereading(k, n) ==
    /\ Switches(k, n)
    /\ table' = [table EXCEPT ![handler[k][n].node] = @ \ {nextIp[n]}]
    /\ handler' = [handler EXCEPT
          ![k][n].target = Hosts[n + 1][CHOOSE i \in DOMAIN Hosts[n + 1] :
                              Hosts[n + 1][i] # nextIp[n]],
          ![k][n].pc = "add"]
    /\ UNCHANGED <<nextIp, up, short, batches>>

\* Variant of DelRule: the rule of the current next hop stays.
DelRuleForgotten(k, n) ==
    /\ Switches(k, n)
    /\ handler' = [handler EXCEPT ![k][n].target = Hosts[n + 1][Min(Working(k, n))],
                                  ![k][n].pc = "add"]
    /\ UNCHANGED <<nextIp, table, up, short, batches>>

\* Variant of DelRule: what is kept of the new next hop is its index.
DelRuleKeepingIndex(k, n) ==
    /\ Switches(k, n)
    /\ table' = [table EXCEPT ![handler[k][n].node] = @ \ {handler[k][n].cur}]
    /\ handler' = [handler EXCEPT ![k][n].target = Min(Working(k, n)), ![k][n].pc = "add"]
    /\ UNCHANGED <<nextIp, up, short, batches>>

\* Pick the first node that answered and delete the rule of the current one.
DelRule(k, n) ==
    /\ Switches(k, n)
    /\ table' = [table EXCEPT ![handler[k][n].node] = @ \ {handler[k][n].cur}]
    /\ handler' = [handler EXCEPT ![k][n].target = Hosts[n + 1][Min(Working(k, n))],
                                  ![k][n].pc = "add"]
    /\ UNCHANGED <<nextIp, up, short, batches>>

\* Variant of AddRule: no rule if the store names the target already.
AddRuleUnlessStored(k, n) ==
    /\ handler[k][n].pc = "add"
    /\ Running(k, n)
    /\ table' = IF nextIp[n] = handler[k][n].target THEN table
                ELSE [table EXCEPT ![handler[k][n].node] = @ \cup {handler[k][n].target}]
    /\ handler' = [handler EXCEPT ![k][n].pc = "answer"]
    /\ UNCHANGED <<nextIp, up, short, batches>>

AddRule(k, n) ==
    /\ handler[k][n].pc = "add"
    /\ Running(k, n)
    /\ table' = [table EXCEPT ![handler[k][n].node] = @ \cup {handler[k][n].target}]
    /\ handler' = [handler EXCEPT ![k][n].pc = "answer"]
    /\ UNCHANGED <<nextIp, up, short, batches>>

AnswerSuccess(k, n) ==
    /\ handler[k][n].pc = "answer"
    /\ Running(k, n)
    /\ handler' = [handler EXCEPT ![k][n].ans = "1", ![k][n].pc = "set"]
    /\ UNCHANGED <<nextIp, table, up, short, batches>>

\* Variant of SetNextIp: the node stores its own address.
SetNextIpToSelf(k, n) ==
    /\ handler[k][n].pc = "set"
    /\ Running(k, n)
    /\ nextIp' = [nextIp EXCEPT ![n] = handler[k][n].node]
    /\ handler' = [handler EXCEPT ![k][n].pc = "done"]
    /\ UNCHANGED <<table, up, short, batches>>

\* The store learns of the switch only after the answer, and unconditionally.
SetNextIp(k, n) ==
    /\ handler[k][n].pc = "set"
    /\ Running(k, n)
    /\ nextIp' = [nextIp EXCEPT ![n] = handler[k][n].target]
    /\ handler' = [handler EXCEPT ![k][n].pc = "done"]
    /\ UNCHANGED <<table, up, short, batches>>

\* Every other outcome, a current next hop that works among them.
AnswerFailure(k, n) ==
    /\ Joined(k, n)
    /\ ~Switches(k, n)
    /\ handler' = [handler EXCEPT ![k][n].ans = "0", ![k][n].pc = "done"]
    /\ UNCHANGED <<nextIp, table, up, short, batches>>

\* zookeeper.get or zookeeper.set raises and ends the handler's thread.
StoreFails(k, n) ==
    /\ ~Prompt
    /\ handler[k][n].pc \in {"sent", "set"}
    /\ Running(k, n)
    /\ handler' = [handler EXCEPT ![k][n].pc = "done"]
    /\ UNCHANGED <<nextIp, table, up, short, batches>>

-----------------------------------------------------------------------------

PingStep(k, n, h) == AnswerPing(k, n, h) \/ AnswerCheck(k, n, h) \/ TimesOut(k, n, h)

SwitchStep(k, n) ==
    DelRule(k, n) \/ AddRule(k, n) \/ AnswerSuccess(k, n) \/ SetNextIp(k, n)

HandlerStep(k, n) ==
    \/ \E h \in Nodes : n < N /\ PingStep(k, n, h)
    \/ n < N /\ (SwitchStep(k, n) \/ AnswerFailure(k, n))

Next ==
    \/ \E k \in Checks : SendCheck(k)
    \/ \E k \in Checks, n \in PoPs :
          \/ ReceiveCheck(k, n) \/ HandlerStep(k, n) \/ StoreFails(k, n)
          \/ \E h \in Nodes : n < N /\ PingFails(k, n, h)
    \/ \E h \in Nodes : Crash(h)

Spec == Init /\ [][Next]_vars

\* Handler threads and their timers run.  No datagram has to arrive, and no socket
\* has to fail.
FairSpec == Spec /\ \A k \in Checks, n \in PoPs : WF_vars(HandlerStep(k, n))

-----------------------------------------------------------------------------
(* Properties. *)

\* Every variable has its type.
TypeOK ==
    /\ nextIp \in [1..(N - 1) -> Nodes]
    /\ table \in [Nodes -> SUBSET Nodes]
    /\ up \in SUBSET Nodes
    /\ short \in SUBSET (1..(N - 1))
    /\ batches \in 0..Cardinality(Checks)
    /\ \A k \in Checks, n \in PoPs :
          LET d == handler[k][n] IN
          /\ d.pc \in {"none", "sent", "wait", "add", "answer", "set", "done"}
          /\ {d.node, d.cur, d.target} \subseteq Nodes \cup {NoNode}
          /\ d.ans \in {"none", "0", "1"}
          /\ \A h \in DOMAIN d.res : d.res[h] \in {"pending", "0", "1", "late", "x"}

\* The hops that a check gets to: it ends at the first short authenticator.
Checked == {n \in 1..(N - 1) : \A m \in 1..n : m \notin short}

FailedHops == {n \in Checked : Hosts[n + 1][1] \notin up}

\* With live nodes prompt and no further failure, every batch of overlapping
\* checks repairs at least one failed hop for good: as many batches as failed
\* hops mend the circuit as far as its authenticators let a check get, although
\* the checks act on stale next hops, nodes give up on live next hops, and some
\* switch without need.
RetriesRepair ==
    Active = {} /\ batches >= Cardinality(FailedHops) =>
        \A n \in Checked : nextIp[n] \in up

\* What the ZooKeepers of the PoPs hold of the circuit.
Stored == [n \in 1..(N - 1) |-> [a \in {"circuit"} |->
              [next_ip |-> nextIp[n], next_ips |-> Hosts[n + 1], next_auth |-> a]]]

Store == INSTANCE CircuitStore WITH
             PoPs <- 1..(N - 1), Auth <- {"circuit"}, PopIps <- Hosts,
             Circuit <- {}, NoCircuit <- [next_ips |-> << >>], circuits <- Stored

\* Whatever a node writes, stale or late, redirects one circuit to one of its
\* next_ips, as the readers of the stores expect: a later check finds the current
\* next hop among those that it pings.
RedirectsOnly == [][Store!Next]_nextIp

\* As long as no node fails, a hop that works is never lost again: no write, however
\* stale what its handler has read, replaces a next hop that is up by one that is not.
RepairsLast ==
    [][\A n \in 1..(N - 1) : nextIp[n] \in up => nextIp'[n] \in up']_nextIp

\* Between del and add a node has no rule for the circuit.  However checks
\* overlap and however stale the next hop they read, it is left without one at
\* no other time.
RoutedUnlessSwitching ==
    \A n \in 1..(N - 1) : \A h \in Range(Hosts[n]) :
        table[h] = {} => \E k \in Checks : handler[k][n].pc = "add"
                                           /\ handler[k][n].node = h

\* As long as checks do not overlap, the rule of a lone entry node is the stored
\* next hop whenever no check runs.  (The answer goes out before zookeeper.set,
\* so of three checks that overlap, one can set a next hop that others have left.)
RuleFollowsStore ==
    Active = {} /\ batches = Cardinality({k \in Checks : handler[k][1].pc # "none"}) =>
        \A h \in Range(Hosts[1]) : table[h] = {nextIp[1]}

\* A check that reached a node which stays up is answered.
ChecksAnswered ==
    \A k \in Checks, n \in PoPs :
        handler[k][n].pc = "wait" ~> handler[k][n].pc = "done" \/ ~Running(k, n)

\* failoverd.py, at the answer CHECK_FAILURE: "none of the next_ips work".
FailureMeansNoneWork ==
    \A k \in Checks, n \in 1..(N - 1) :
        handler[k][n].ans = "0" => Working(k, n) = {}

\* 5page.tex: a node first acknowledges the check "so that the client doesn't
\* assume it has failed".  A node that runs and is prompt is never given up.
LiveHopNotGivenUp ==
    \A k \in Checks, n \in 1..(N - 1) : \A h \in DOMAIN handler[k][n].res :
        handler[k][n].res[h] = "late" => h \notin up

\* Where the stores send a packet of the circuit after the first PoP.
PathUp == \A n \in 1..(N - 1) : nextIp[n] \in up

\* 5page.tex: the node "informs the client that the failover has succeeded.
\* Subsequent traffic is now routed through the new circuit."
SuccessMeansRepaired ==
    Active = {} =>
        \A k \in Checks : handler[k][1].ans = "1" => PathUp
=============================================================================
