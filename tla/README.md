# Reliable ISP: a verification project

TLA+ models of the control plane, the failover protocol and the client side of
this repository, TLC runs that check them on small instances, and TLAPS proofs
of what matters most for instances of every size. Every definition is translated from the
code; `PROJECT.json` names the lines of each (`map`), what each run checks
(`runs`), for every property a plausible bug that breaks it (`mutants`), where
code and documents disagree (`findings`) and what the code is exposed to
(`hazards`).

Run `tlc -config <run>.cfg <module>.tla` for a run and `tlapm <module>.tla` for
the proofs.

## The system

A client establishes a *circuit* through points of presence (PoPs) of several
ISPs. Each PoP has a ZooKeeper, one `circuitd`, and edge nodes that each run
`watcherd` and `failoverd`. A circuit is named, per PoP, by a random
authenticator; the znodes below `/circuit/<authenticator>` name the next hop's
address (`next_ip`), the alternatives (`next_ips`) and the authenticator there
(`next_auth`), or the server and its service id at the last PoP.

| Component | State | Operations | Talks to |
|---|---|---|---|
| `clients/circuitc.py` | loop index, next hop's addresses and authenticator, local rule | ask each PoP from the last to the first, register the local rule | circuitd over TCP |
| `daemons/circuitd.py` | none but ZooKeeper's | create `/circuit` if it is not there; per request, in a thread: draw an authenticator, test it, create its znodes in a transaction, answer | circuitc, ZooKeeper |
| `daemons/watcherd.py` | `circuitStates`, watches; the node's service table | create `/circuit` if it is not there, list circuits, watch them, move the rule when `next_ip` changes | ZooKeeper, service table |
| `daemons/failoverd.py` | none but ZooKeeper's and the service table | per datagram, in a thread: answer a ping, or check the next hop on, ping its alternatives and switch | failoverd of the next PoP, ZooKeeper, service table |
| `daemons/forwarderd.py` | none | per packet, in a thread: look up next hop and token, send on | ZooKeeper |
| `clients/udp_taas_client.c` | sockets, which ISP is in use | ping, wait for the pong, trigger a failover, change the ISP | ping server, first hop |
| `clients/trigger_failover.c` | one TCP connection | ask for a check, read the acknowledgement and the outcome | first hop |
| `daemons/udp_taas_server.c` | the one connection it serves | accept, answer a ping with a pong on a backchannel, give the connection up | ping client |
| ZooKeeper, kazoo, Serval, UDP, TCP | external | transactions, one-shot watches, service table rules, datagrams, streams | |
| generated messages, scripts, configurations | none | | |

What is hard in this code: threads per request that test and then create
(circuitd); two threads on one dictionary (watcherd, start-up against
callbacks); reads before the watch that should cover them; decisions on a
`next_ip` that is stale by the time it is acted on (failoverd); a nested check
whose timeout is the same at every level; answers sent between two of three
updates; two daemons of a node that change one service table; daemons that start
together and create the same znode; crashes that leave the service table behind;
lost and late datagrams; messages on a byte stream that are read one `read` each;
error paths that leave sockets open.

What makes each part correct:

* *Establishment*: circuits appear whole, never change hands, lead only to
  circuits that exist; a client that ends with a rule owns the whole route.
* *Failover*: checks repair a circuit, no node is left without a rule, every
  check is answered.
* *Watcher*: the table follows the store, every circuit gets a rule, whoever loses
  the race for `/circuit` leaves one that wins it.
* *Edge node*: whatever watcherd and failoverd did to the table, the stored next hop
  has a rule in the end.
* *Forwarding*: packets follow the circuits as established, never in a cycle.
* *Client*: success is reported only when confirmed, a dead path is left, sockets do
  not pile up.

## Modules

| Module | Models | Notes |
|---|---|---|
| `CircuitStore` | what all stores promise together (abstract) | refined by `Establishment`, used as its environment by `Forwarding`; `Failover`'s writes are its `Redirect` |
| `Establishment` | circuitc and circuitd | `Connect` to `RegisterLocally` are the script; `DrawAuthenticator`, `CommitCircuit`, `SendCreated`, `HandlerFails` the handler thread |
| `Failover` | failoverd in every PoP of one circuit | a handler is named by (check, PoP); `ReceiveCheck` to `AnswerFailure` follow `handle` |
| `Watcher` | watcherd on one node, the start of circuitd | the race for `/circuit`, the main thread's loops, the callback thread, restart; circuitd's transactions and other nodes' failoverds are the environment |
| `EdgeNode` | watcherd and failoverd on one node | extends `Watcher`; of a check it keeps what touches the table and the store |
| `Forwarding` | forwarderd, `send.py`, the echo server | over `CircuitStore` |
| `TriggerFailover` | one call of `trigger_failover()` | the first hop is external |
| `Messages` | what `messages.pb-c.c` says of the two replies | extends `TriggerFailover`: the bytes that its `wire` stands for |
| `TaasClient` | `udp_taas_client.c` and `udp_taas_server.c` | extends `TriggerFailover`: a timeout calls it, its return continues the client |
| `EstablishmentProofs`, `FailoverProofs`, `WatcherProofs`, `EdgeNodeProofs`, `ForwardingProofs`, `TaasClientProofs` | theorems about the module each is named for | `EdgeNodeProofs` extends `WatcherProofs`; `TaasClientProofs` also covers `Messages` |
| `FailoverRepairProofs` | theorems about what checks repair while no node fails | extends `FailoverProofs` |
| `MC*` | instances for TLC | |

An operator that a comment calls a *variant* of the one that follows is a
plausible bug in the code the latter models; the model does not use it.

Common abstractions: one ZooKeeper call is one step (a linearizable store); a
`servicetool` call is one step; an address, a node or a message is a model
value. Undefined behaviour: when `read` fails in `trigger_failover.c` the length
-1 reaches the unpacking, which fails or kills the process (`ReadOfReset`);
`rbuf[-1]` in `udp_taas_client.c` is written below the frame and has no effect.

Details worth knowing:

* *Establishment.* A client has one connection at a time, so its name names the
  handler. `commit()` returns failures instead of raising them and the code does
  not look: `rolledBack` remembers which clients this happened to, and `OwnRoute`
  excuses exactly those. When a handler dies the client parses an empty reply:
  authenticator 0, no address (`ReceiveClosed`).
* *Failover.* `Prompt` says that live nodes answer in time, nothing is lost and
  neither ZooKeeper nor a ping's socket fails; without it any answer may be late, and a
  ping may end with another socket error than a timeout (`PingFails`): `run` catches
  only `socket.timeout`, so the result stays `'x'`, which the handler takes neither for a
  failure (`Failed`) nor for a success (`Working`). An answer that cannot be sent is a
  lost one, followed by `StoreFails` after a switch. `TimesOut` with `Prompt`
  follows from the equal timeouts: a handler is given up when its PoP is dead or
  something further down is waiting for a dead node. `Crashes` lets nodes die
  during checks. `batches` is a history variable that counts groups of
  overlapping checks. `short` holds the PoPs whose next authenticator circuitd drew
  below 10000, where a check ends with success; `RetriesRepair` speaks of the hops
  before the first of them. `RedirectsOnly` maps `nextIp` to `CircuitStore`. The
  table of a node is that for one authenticator of the circuit: a circuit that crosses
  a PoP twice has two there and is not an instance of this module
  (`HostsAssumption`); in `Forwarding` paths do cross PoPs twice.
* *Watcher.* DataWatch and ChildrenWatch read and arm a one-shot watch in one
  call, and callbacks run one after the other (`Idle`), but not exclusively with the
  main thread before `serve`. Two histories name the circuits whose rule the code does
  not keep right. `raced`: redirected while watcherd was taking them up (or a restarted
  one was). `leftover`: a killed watcherd left a rule that is not, or then ceased to be,
  the one of the stored `next_ip`; its successor only adds. For all others
  `FollowsUnlessRaced` shows that the table follows. `boot` is the start of each daemon;
  one that is `dead` has lost the race for `/circuit`, and nothing but `Restart`, for
  watcherd, brings it back.
* *Edge node.* The outcome of the pings is any: `Failover` models it. Two more
  histories name what the code gives up. `missed`: the last write of `next_ip` came while the
  watcher was taking the circuit up, or a switch was cut short (failoverd killed,
  `zookeeper.set` failed) after its rule was moved and nothing was written since.
  `blurred`: the watcher had one event for two writes, or a switch was cut short, so
  it cannot know every next hop that got a rule; such a rule stays. For all other
  circuits the event that follows a late, unconditional `zookeeper.set` mends the
  table.
* *Forwarding.* A datagram is what stands before its first colon (`token`) and the
  parts after it (`data`); a part is a number or `Text`, which names no circuit. After a
  `next_auth` of 0 the bare payload goes on (`Stripped`), so its first part is the token
  of the next forwarder, which may name a circuit there. A token that is followed by the
  payload's remaining parts is all that such a packet has, so it still ends: each time a
  payload is read as a token it gets shorter. `used` collects the circuits since the
  last time, and `NoLoops` says that none comes twice. Service ids are numbers like
  authenticators, and nothing keeps them apart: the instance uses one for both.
* *Messages.* A packed message is its fields with their numbers and wire types;
  values are left out, and order too, for unpacking asks neither for an order nor
  that a field comes once. It shows that `Unpacked`, which says that a
  reply is unpacked only if it arrives alone, is what the field numbers give: an
  acknowledgement and an outcome in one buffer clash in field 1, and an outcome is
  not an acknowledgement.
* *Failover trigger.* `trigger_failover.c` connects over TCP to port 3457 and exchanges
  protobuf messages; the `failoverd.py` of this repository listens on the same port
  number over UDP and takes text (`'1'` and an authenticator). The two cannot talk, so
  the first hop of `TriggerFailover` is external, and the checks of `Failover` come from
  a client that speaks failoverd's own datagrams.
* *Client.* The pings of each ISP have a server process of their own, which serves
  one connection at a time. `connect_sv` succeeds or fails whatever the server does;
  a server that has exited never accepts. `close` and `close_sv` always release the
  descriptor. Times that the client measures and prints are left out.

## Runs

Each run takes at most about two minutes with two workers.

| Run | Instance | Shows |
|---|---|---|
| `establish` | 2 clients, 3 PoPs, paths of 3 and 2 that share two PoPs, 2 authenticators | `CompleteCircuits`, `NextHopExists`, `OwnRoute`, refinement `StoreSpec`, `EveryClientEnds` |
| `establish_token` | the same | **violated**: `TokenNamesOwnRoute` |
| `failover_repair` | 3 PoPs, 2 nodes in the second and third, 3 checks of which 2 overlap, up to 2 nodes down, any short authenticators, prompt | `RetriesRepair`, `RepairsLast`, `RuleFollowsStore`, `RedirectsOnly` |
| `failover_race` | 2 PoPs with 2 nodes each, 2 overlapping checks, a crash, losses, late answers, socket and ZooKeeper errors | `RoutedUnlessSwitching`, `ChecksAnswered` |
| `failover_answer`, `failover_ack`, `failover_success` | one check | **violated**: `FailureMeansNoneWork`, `LiveHopNotGivenUp`, `SuccessMeansRepaired` |
| `watch` | 2 circuits, 2 nodes, 2 redirections, 1 restart, watcherd and circuitd start together | `FollowsUnlessRaced`, `RoutedUnlessSwitching`, `SomeDaemonSurvives`, `EveryCircuitRouted` |
| `watch_match` | 1 circuit, 1 redirection | **violated**: `TableMatchesStore` |
| `edge` | 1 circuit, 3 nodes, 2 local checks, 1 redirection by another node, 1 kill of failoverd, 1 restart of watcherd | `StoredHopHasRule`, `NoStaleRule` |
| `session` | 2 ISPs, 1 completed failover | `SuccessIsConfirmed`, `FewLatePongs`, `FewSockets`, `RepliesToldApart`, `DeadPathLeft` |
| `forward` | 2 PoPs, one with 2 nodes, 2 authenticators (one is 0, the other also a service id), 1 packet, payloads of text or of two numbers | `FollowsCircuits`, `NoLoops`, `RejectedOnlyAfterZero`, `PacketsEnd` |

Why the bounds are enough:

* Two authenticators for two clients give collisions at the same PoP and
  the reuse of a number at different PoPs; sharing two PoPs lets one client lose
  one transaction and win another.
* In `failover_repair` two failed hops, one behind the other, need two batches;
  three checks let one handler's late write overtake two others. That is also
  where `RuleFollowsStore` stops to hold under overlap: with three checks a delayed
  `zookeeper.set` overwrites a newer one, so the property speaks of checks that
  do not overlap.
* `watch` has a second circuit because the loops interleave with callbacks for
  another circuit, and a restart at every point. Its redirections return to the
  first node; in `edge` there are three nodes, one circuit and up to three writes.
  Nodes and checks are interchangeable there, so `edge` uses symmetry (it has no
  liveness property).
* The race for `/circuit` takes two daemons: the one that dies and the one that was
  faster. More of them die in the same way.
* Packets do not interact, so `forward` has one; with two authenticators at each
  of two PoPs a path can cross each PoP twice, which is what a cycle takes. A payload of
  two numbers can be read as a token twice.
* `session` has no bound on pings, path changes or lost connections; only completed
  failovers are bounded, which bounds late pongs. One shows that a success leaves
  no socket behind; the proofs are for any number.

Deadlock is not checked: client scripts end, checks and packets are finite, a
client process exits.

Fairness: client scripts, handler threads and their timers run (weak fairness of
each process's steps), and in `Forwarding` a datagram that is not lost arrives. Nothing
is assumed of crashes, losses, socket and ZooKeeper errors, other daemons, servers or the first hop.
`EveryClientEnds` also uses that TCP delivers or closes. In `TaasClient` only the
client is fair.

## Findings

* circuitd answers with an authenticator whose transaction was rolled back
  (`establish_token`).
* failoverd answers CHECK_FAILURE on a healthy circuit, and upstream nodes then
  switch without need (`failover_answer`).
* failoverd sends no acknowledgement before its own pings end, unlike the paper
  (`failover_ack`); it reports success of a switch to a node whose
  onward route nobody checked (`failover_success`).
* watcherd loses a change between its read and its watch (`watch_match`).

The properties excuse the following, each by a history variable or a condition of its
own. It is what the code does; TLC finds the trace as soon as the excuse is left out.

| Behaviour | Lines | Excused in |
|---|---|---|
| watcherd dies if circuitd creates `/circuit` between its test and its create | `watcherd.py:60` | `EveryCircuitRouted` |
| after a restart of watcherd the rule of a next hop that changed meanwhile stays | `watcherd.py:50` | `FollowsUnlessRaced`, `NoStaleRule` (`leftover`) |
| a `zookeeper.set` that fails leaves table and store different until the next write | `failoverd.py:148` | `StoredHopHasRule` (`missed`) |
| a write by failoverd and one by another node, reported to watcherd as one event, leave the rule that failoverd added | `watcherd.py:128` | `NoStaleRule` (`blurred`) |
| a ping that ends in a socket error other than a timeout counts as neither failure nor success: failoverd keeps a next hop it could not ask | `failoverd.py:63` | `Failed`, `RetriesRepair` (`Prompt`) |
| after `next_auth` 0 the next forwarder routes by what the payload starts with | `forwarderd.py:23` | `NoLoops` (`used`), `RejectedOnlyAfterZero` |

## Proofs

Proved for every value of the constants that the named assumptions allow:

* `EstablishmentProofs`: `TypeCorrect`, `CircuitsComplete`, `NoDanglingNextHop`,
  `RegisteredClientsOwnTheirRoute` (`OwnRoute`) and
  `EstablishmentImplementsStore` (`StoreSpec`).
  The safety properties are not inductive. `StoreInv` adds that what a handler
  saw or committed exists (`HandlerKnows`), that a client's last authenticator
  names a circuit at the PoP its addresses belong to (`ClientKnows`), and that a
  handler serves a client that waits (`HandlerServes`). `RouteInv` adds, for
  clients without a rolled-back transaction, that the hops behind them are
  installed and name each other (`RouteSoFar`). Both rest on `CircuitsStay`: no
  step changes a circuit that exists. Refinement follows: a commit that applies
  is `Create`, everything else stutters.
  Assumed: paths are non-empty sequences of PoPs, no two PoPs have the same list of
  edge nodes and none is a list of one server.
* `FailoverProofs`: `TypeCorrect`, `RoutedButBetweenDelAndAdd`
  (`RoutedUnlessSwitching`) and `WritesAreRedirects` (`RedirectsOnly`), for prompt
  networks and for all others. `Outcomes` is what a ping can come to, `'x'` among it
  unless the network is prompt. `HandlersInv` adds that a handler works on a node of
  its PoP and for nodes of the next one, and that a check gets to a PoP only from the
  one before, so that a check that arrives overwrites no handler at work;
  `HopsInv` that the stored next hop is one of `next_ips`.
  Assumed: PoPs are not empty and share no nodes, checks are finitely many.
* `FailoverRepairProofs`: three theorems about a network in which no node fails once
  checks run (`~Crashes`; any may be down from the start). `HandlerMoves` first puts
  every step of a handler into one of eight forms (`Asks` to `Drops`), and the
  invariants are shown for those.
  - `RepairsAreForGood` (`RepairsLast`), for all networks, prompt or not. `LiveInv`: an
    answer `'1'` means that the node runs, also when it answers a check, and so
    does the `target` of every switch.
  - `BatchesRepair` (`RetriesRepair`), for prompt networks behind a lone entry node
    (a check that is sent to a dead entry node would be a batch that repairs nothing).
    `PassInv`: behind a check that has passed a hop, or found it working, the stored
    next hop works. `BatchInv` counts: batches and broken hops (`Broken`) together are
    no more than the hops that failed, or one more while the batch has repaired
    nothing yet, and then one of its checks has met every working hop when it
    worked (`Asked`); that check cannot end before a hop is repaired.
  - `EntryFollowsStore` (`RuleFollowsStore`), under the same conditions and for two PoPs or
    more. `EntryInv` ties the table of the entry node to the `cur` and `target` of the
    only check at work in each stage of its switch (`EntryRule`).
* `WatcherProofs`: `OneDaemonGetsThrough` (`SomeDaemonSurvives`), `TypeCorrect`,
  `RoutedButBetweenDelAndAdd` (`RoutedUnlessSwitching`) and `TableFollowsStore`
  (`FollowsUnlessRaced`). `BootInv`: beside a daemon that has lost the race, or will,
  there is one that got through. `StageInv` ties the watch, `circuitStates` and the
  loops together; `ChildrenInv` says that no circuit is overlooked once the
  ChildrenWatch is set. `RacedInv` says of a circuit that is neither raced nor leftover what the table
  and `circuitStates` hold in each stage, from untouched (`TakingUp`) to followed,
  with a callback or without (`Following`).
  Assumed: watcherd and circuitd are two of the daemons; "none" is no authenticator.
* `EdgeNodeProofs`: `EdgeTypeCorrect`, `StoredHopRouted` (`StoredHopHasRule`) and
  `OnlyStoredHopRouted` (`NoStaleRule`), on top of the watcher's lemmas. `HopInv`: the
  stored next hop of a followed circuit has a rule, or a check has still to write, an
  event is on its way, or a callback will add one. `StaleInv`: every rule is one
  that the watcher knows or will know with its next event, or that of a check between
  its add and its write. The histories `missed`, `blurred`, `raced` and `leftover` are exactly
  what these two exclude.
* `ForwardingProofs`: `TypeCorrect`, `PacketsFollowCircuits` (`FollowsCircuits`),
  `TokensAreFound` (`RejectedOnlyAfterZero`) and `NoPacketLoops` (`NoLoops`).
  `PacketInv` says where a packet is and what its token is relative to the circuit that
  it used last. Loops are excluded by a rank (`Ranked`): a circuit leads only to one that
  was stored before it, so a new one can be given a rank above that, and packets go
  down until one loses a part of its payload, where `used` starts anew (`StrippedType`). `StoreInv` (a circuit leads to a stored one) is why nothing can lead to the new
  circuit.
  Assumed: PoPs share no nodes with each other or with the servers; service ids are
  any numbers, payloads any sequences of parts.
* `TaasClientProofs`: `TypeCorrect`, `SuccessConfirmed` (`SuccessIsConfirmed`),
  `LatePongsBounded` (`FewLatePongs`), `SocketsBounded` (`FewSockets`) and
  `RepliesNotConfused` (`RepliesToldApart`). The invariant adds that an outcome on the wire is announced by the first hop's state
  (`WireOK`), that a failover in progress leaves room below `MaxFailovers`, and that
  a call that was told of success has closed its socket (`SocketsInv`).
  `ReplyOrder` says what can be on the wire at each read: an acknowledgement and
  then an outcome at the first, only an outcome at the second. `Unpacking` shows for
  these that the field descriptors tell them apart.

Every safety property of the passing runs is proved. Left to TLC are the liveness
properties `EveryClientEnds`, `ChecksAnswered`, `EveryCircuitRouted`, `DeadPathLeft` and
`PacketsEnd` (the prover does not do fairness or ENABLED), and the counterexamples
of the runs that expect a violation.

## Plan

The components are modelled and their safety proved. What a further proof
could reach:

1. The invariants that the liveness properties rest on: that a process which still
   works has a step to take, as far as this is said without ENABLED.
2. `RuleFollowsStore` for several entry nodes, as what one of them that saw the last
   switch holds: the others' tables are moved by their `watcherd`, which `Failover` does
   not have, so this belongs to a composition of `EdgeNode`s.

## Not modelled

Shell scripts, provisioning, configuration files and data: no logic to check.
The generated message code is modelled by what its users see (an empty message)
and by the fields of the two replies that one connection carries; the C code of the
circuit messages is used by nothing. `trigger_failover.py` speaks the same
dialogue as the C function and is not called by anything. `get_local_service_table`
in watcherd is never called. Malformed datagrams, a ping
thread that cannot be started and ZooKeeper session loss are left out. `rbuf[-1]` in
`udp_taas_client.c` is written and never read, so no property speaks of it.
