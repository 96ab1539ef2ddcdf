------------------------------ MODULE Watcher -------------------------------
(***************************************************************************)
(* daemons/watcherd.py on one edge node: it takes up every circuit in the  *)
(* ZooKeeper of its PoP, adds a rule for it to the node's service table    *)
(* and moves the rule when the circuit's next_ip changes.                  *)
(*                                                                         *)
(* Two threads share circuitStates: the main thread, until start-up ends,  *)
(* and kazoo's callback thread.  kazoo is modelled from how the code uses  *)
(* it: DataWatch and ChildrenWatch read and arm a one-shot ZooKeeper watch *)
(* in one call; a watch that has fired makes the callback thread read and  *)
(* arm again and call the function; callbacks run one after the other.     *)
(* circuitd and the failoverds of the other edge nodes are the environment.*)
(***************************************************************************)
EXTENDS Integers, FiniteSets

CONSTANTS
    Auth,          \* the authenticators that may be issued in the PoP
    Ips,           \* the nodes that next_ip may name
    NoIp,
    Watcherd, Circuitd,
    Daemons,       \* these two and the watcherds of other nodes
    MaxRedirects,  \* bound: how often another daemon sets a next_ip
    MaxRestarts    \* bound: how often watcherd is restarted

ASSUME WatcherAssumption == /\ NoIp \notin Ips
                            /\ "none" \notin Auth
                            /\ Watcherd # Circuitd
                            /\ {Watcherd, Circuitd} \subseteq Daemons
                            /\ MaxRedirects \in Nat
                            /\ MaxRestarts \in Nat

VARIABLES
    root,       \* /circuit exists
    boot,       \* boot[d]: the start of daemon d, up to the existence of /circuit
    zk,         \* zk[a]: /circuit/a/next_ip, NoIp if there is no circuit a
    watch,      \* watch[a]: the watch of the DataWatch on /circuit/a/next_ip
    kids,       \* the watch of the ChildrenWatch on /circuit
    states,     \* states[a]: circuitStates[a]['next_ip'], NoIp if a is no key
    table,      \* table[a]: the next hops of the rules for a
    phase,      \* the main thread: "list", "scan", "register", "children", "serve"
    todo,       \* authenticators the running for-loop has still to visit
    visit,      \* the iteration of that loop: where it stands
    callback,   \* the run of _nextIpWatcher: where it stands
    redirects, restarts,
    raced,      \* history: circuits redirected while the watcher took them up
    leftover    \* history: circuits whose rule is left from a watcherd that was
                \* killed, and was or became another than that of next_ip

store == <<root, boot, zk, redirects, raced, leftover>>
threads == <<phase, todo, visit, callback>>
vars == <<root, boot, zk, watch, kids, states, table, phase, todo, visit, callback,
          redirects, restarts, raced, leftover>>

NoVisit == [pc |-> "next", auth |-> "none", ip |-> NoIp]
NoCallback == [pc |-> "idle", auth |-> "none", ip |-> NoIp]

Circuits == {a \in Auth : zk[a] # NoIp}

Known == {a \in Auth : states[a] # NoIp}

Init ==
    /\ watch = [a \in Auth |-> "unset"]
    /\ kids = "unset"
    /\ states = [a \in Auth |-> NoIp]
    /\ phase = "list"
    /\ todo = {}
    /\ visit = NoVisit
    /\ callback = NoCallback
    /\ root \in BOOLEAN
    /\ boot = [d \in Daemons |-> "test"]
    /\ zk \in [Auth -> Ips \cup {NoIp}]
    /\ root \/ Circuits = {}
    /\ table = [a \in Auth |-> {}]
    /\ redirects = 0
    /\ restarts = 0
    /\ raced = {}
    /\ leftover = {}

-----------------------------------------------------------------------------
(* The start of circuitd and of every watcherd: test for /circuit, create it. *)

\* Variant of TestRoot: the existence test is left out.
TestRootNot(d) ==
    /\ boot[d] = "test"
    /\ boot' = [boot EXCEPT ![d] = "create"]
    /\ UNCHANGED <<root, zk, redirects, raced, leftover>>
    /\ UNCHANGED <<watch, kids, states, table, threads, restarts>>

\* zookeeper.exists('/circuit').
TestRoot(d) ==
    /\ boot[d] = "test"
    /\ boot' = [boot EXCEPT ![d] = IF root THEN "up" ELSE "create"]
    /\ UNCHANGED <<root, zk, redirects, raced, leftover>>
    /\ UNCHANGED <<watch, kids, states, table, threads, restarts>>

\* zookeeper.create('/circuit') raises NodeExistsError if another daemon was
\* faster, which ends the daemon.
CreateRoot(d) ==
    /\ boot[d] = "create"
    /\ boot' = [boot EXCEPT ![d] = IF root THEN "dead" ELSE "up"]
    /\ root' = TRUE
    /\ UNCHANGED <<zk, redirects, raced, leftover>>
    /\ UNCHANGED <<watch, kids, states, table, threads, restarts>>

StartStep(d) == TestRoot(d) \/ CreateRoot(d)

-----------------------------------------------------------------------------
(* The other daemons of the PoP at work. *)

\* A circuit is followed once its rule is added and its watch is set.
Followed(a) ==
    /\ a \in Known
    /\ watch[a] # "unset"
    /\ phase \notin {"list", "scan"}
    /\ visit.auth # a
    /\ phase = "register" => a \notin todo

\* The watcher holds something that it read of circuit a.
TakenUp(a) == a \in Known \/ visit.auth = a

\* circuitd's transaction creates a circuit.
Create(a) ==
    /\ boot[Circuitd] = "up"
    /\ zk[a] = NoIp
    /\ \E ip \in Ips : zk' = [zk EXCEPT ![a] = ip]
    /\ kids' = IF kids = "armed" THEN "fired" ELSE kids
    /\ UNCHANGED <<root, boot, watch, states, table, threads, redirects, restarts>>
    /\ UNCHANGED <<raced, leftover>>

\* zookeeper.set of next_ip.
SetNextIp(a, ip) ==
    /\ zk' = [zk EXCEPT ![a] = ip]
    /\ watch' = [watch EXCEPT ![a] = IF @ = "armed" THEN "fired" ELSE @]
    /\ raced' = IF TakenUp(a) /\ ~Followed(a) THEN raced \cup {a} ELSE raced
    /\ leftover' = IF TakenUp(a) \/ table[a] \subseteq {ip} THEN leftover
                   ELSE leftover \cup {a}
    /\ UNCHANGED <<root, boot, kids, states, table, threads, restarts>>

\* failoverd of another edge node sets next_ip.
Redirect(a) ==
    /\ zk[a] # NoIp
    /\ redirects < MaxRedirects
    /\ redirects' = redirects + 1
    /\ \E ip \in Ips : SetNextIp(a, ip)

-----------------------------------------------------------------------------
(* Loops over circuits: _getCircuitState, the loop of __init__ and            *)
(* _circuitNodeWatcher.                                                       *)

\* authenticators = get_children('/circuit').
ListCircuits ==
    /\ boot[Watcherd] = "up"
    /\ phase = "list"
    /\ phase' = "scan"
    /\ todo' = Circuits
    /\ UNCHANGED <<store, watch, kids, states, table, visit, callback, restarts>>

\* zookeeper.get of next_ip, next_ips and next_auth.
GetCircuit(a) ==
    /\ phase \in {"scan", "children", "serve"}
    /\ visit.pc = "next"
    /\ a \in todo
    /\ todo' = todo \ {a}
    /\ visit' = [pc |-> "watch", auth |-> a, ip |-> zk[a]]
    /\ UNCHANGED <<store, watch, kids, states, table, phase, callback, restarts>>

\* The DataWatch reads again and calls _nextIpWatcher without an event, which
\* ignores what was read.
WatchCircuit ==
    /\ visit.pc = "watch"
    /\ watch' = [watch EXCEPT ![visit.auth] = "armed"]
    /\ visit' = [visit EXCEPT !.pc = "store"]
    /\ UNCHANGED <<store, kids, states, table, phase, todo, callback, restarts>>

\* circuitStates[auth] = ...; only _circuitNodeWatcher goes on to register.
StoreCircuit ==
    /\ visit.pc = "store"
    /\ states' = [states EXCEPT ![visit.auth] = visit.ip]
    /\ visit' = IF phase = "scan" THEN NoVisit ELSE [visit EXCEPT !.pc = "register"]
    /\ UNCHANGED <<store, watch, kids, table, phase, todo, callback, restarts>>

\* All circuits are stored: __init__ begins to register them.
ScanDone ==
    /\ phase = "scan"
    /\ todo = {} /\ visit.pc = "next"
    /\ phase' = "register"
    /\ todo' = Known
    /\ UNCHANGED <<store, watch, kids, states, table, visit, callback, restarts>>

\* next_ip = self.circuitStates[auth]['next_ip'] in the loop of __init__.
PickKnown(a) ==
    /\ phase = "register"
    /\ visit.pc = "next"
    /\ a \in todo
    /\ todo' = todo \ {a}
    /\ visit' = [pc |-> "register", auth |-> a, ip |-> states[a]]
    /\ UNCHANGED <<store, watch, kids, states, table, phase, callback, restarts>>

\* register_service(auth, next_ip, next_auth).
RegisterCircuit ==
    /\ visit.pc = "register"
    /\ table' = [table EXCEPT ![visit.auth] = @ \cup {visit.ip}]
    /\ visit' = NoVisit
    /\ UNCHANGED <<store, watch, kids, states, phase, todo, callback, restarts>>

\* Variant of WatchChildren: what was listed at the start is taken as complete.
WatchChildrenOnly ==
    /\ phase = "register"
    /\ todo = {} /\ visit.pc = "next"
    /\ phase' = "children"
    /\ kids' = "armed"
    /\ UNCHANGED <<store, watch, states, table, todo, visit, callback, restarts>>

\* The ChildrenWatch lists the children and calls _circuitNodeWatcher at once,
\* in the main thread.
WatchChildren ==
    /\ phase = "register"
    /\ todo = {} /\ visit.pc = "next"
    /\ phase' = "children"
    /\ kids' = "armed"
    /\ todo' = Circuits \ Known
    /\ UNCHANGED <<store, watch, states, table, visit, callback, restarts>>

Serve ==
    /\ phase = "children"
    /\ todo = {} /\ visit.pc = "next"
    /\ phase' = "serve"
    /\ UNCHANGED <<store, watch, kids, states, table, todo, visit, callback, restarts>>

-----------------------------------------------------------------------------
(* The callback thread. *)

\* No callback is running.
Idle == callback.pc = "idle" /\ (phase = "serve" => todo = {} /\ visit.pc = "next")

\* The watch on /circuit has fired: list the children and visit the new ones.
ChildrenChanged ==
    /\ phase = "serve"
    /\ Idle
    /\ kids = "fired"
    /\ kids' = "armed"
    /\ todo' = Circuits \ Known
    /\ UNCHANGED <<store, watch, states, table, phase, visit, callback, restarts>>

\* Variant of NextIpChanged: the watch is not set again.
NextIpChangedOnce(a) ==
    /\ Idle
    /\ watch[a] = "fired"
    /\ watch' = [watch EXCEPT ![a] = "gone"]
    /\ callback' = [pc |-> "delete", auth |-> a, ip |-> zk[a]]
    /\ UNCHANGED <<store, kids, states, table, phase, todo, visit, restarts>>

\* The watch on a's next_ip has fired: read, arm again, call _nextIpWatcher.
NextIpChanged(a) ==
    /\ Idle
    /\ watch[a] = "fired"
    /\ watch' = [watch EXCEPT ![a] = "armed"]
    /\ callback' = [pc |-> "delete", auth |-> a, ip |-> zk[a]]
    /\ UNCHANGED <<store, kids, states, table, phase, todo, visit, restarts>>

\* Delete the rule that circuitStates knows.  A circuit that is not in
\* circuitStates yet raises KeyError: the change is lost.
DeleteOldRule ==
    /\ callback.pc = "delete"
    /\ \/ /\ callback.auth \in Known
          /\ table' = [table EXCEPT ![callback.auth] = @ \ {states[callback.auth]}]
          /\ callback' = [callback EXCEPT !.pc = "add"]
       \/ /\ callback.auth \notin Known
          /\ callback' = NoCallback
          /\ UNCHANGED table
    /\ UNCHANGED <<store, watch, kids, states, phase, todo, visit, restarts>>

\* Variant of AddNewRule: no rule for a next_ip that circuitStates has already.
AddNewRuleIfChanged ==
    /\ callback.pc = "add"
    /\ table' = IF states[callback.auth] = callback.ip THEN table
                ELSE [table EXCEPT ![callback.auth] = @ \cup {callback.ip}]
    /\ callback' = [callback EXCEPT !.pc = "store"]
    /\ UNCHANGED <<store, watch, kids, states, phase, todo, visit, restarts>>

AddNewRule ==
    /\ callback.pc = "add"
    /\ table' = [table EXCEPT ![callback.auth] = @ \cup {callback.ip}]
    /\ callback' = [callback EXCEPT !.pc = "store"]
    /\ UNCHANGED <<store, watch, kids, states, phase, todo, visit, restarts>>

\* Variant of StoreNewIp: circuitStates keeps the old next_ip.
StoreNewIpForgotten ==
    /\ callback.pc = "store"
    /\ callback' = NoCallback
    /\ UNCHANGED <<store, watch, kids, states, table, phase, todo, visit, restarts>>

StoreNewIp ==
    /\ callback.pc = "store"
    /\ states' = [states EXCEPT ![callback.auth] = callback.ip]
    /\ callback' = NoCallback
    /\ UNCHANGED <<store, watch, kids, table, phase, todo, visit, restarts>>

\* watcherd is killed and started again.  The service table is the kernel's.
Restart ==
    /\ restarts < MaxRestarts
    /\ restarts' = restarts + 1
    /\ boot' = [boot EXCEPT ![Watcherd] = "test"]
    /\ watch' = [a \in Auth |-> "unset"]
    /\ kids' = "unset"
    /\ states' = [a \in Auth |-> NoIp]
    /\ phase' = "list"
    /\ todo' = {}
    /\ visit' = NoVisit
    /\ callback' = NoCallback
    /\ leftover' = leftover \cup {a \in Circuits : ~(table[a] \subseteq {zk[a]})}
    /\ UNCHANGED <<root, zk, redirects, table, raced>>

-----------------------------------------------------------------------------

LoopStep ==
    \/ StartStep(Watcherd)
    \/ ListCircuits \/ ScanDone \/ WatchChildren \/ Serve
    \/ \E a \in Auth : GetCircuit(a) \/ PickKnown(a)
    \/ WatchCircuit \/ StoreCircuit \/ RegisterCircuit

CallbackStep ==
    \/ ChildrenChanged
    \/ \E a \in Auth : NextIpChanged(a)
    \/ DeleteOldRule \/ AddNewRule \/ StoreNewIp

Next ==
    \/ LoopStep
    \/ CallbackStep
    \/ \E d \in Daemons \ {Watcherd} : StartStep(d)
    \/ \E a \in Auth : Create(a) \/ Redirect(a)
    \/ Restart

Spec == Init /\ [][Next]_vars

\* Both threads run.
FairSpec == Spec /\ WF_vars(LoopStep) /\ WF_vars(CallbackStep)

-----------------------------------------------------------------------------
(* Properties. *)

\* Every variable has its type.
TypeOK ==
    /\ root \in BOOLEAN
    /\ boot \in [Daemons -> {"test", "create", "up", "dead"}]
    /\ zk \in [Auth -> Ips \cup {NoIp}]
    /\ watch \in [Auth -> {"unset", "armed", "fired"}]
    /\ kids \in {"unset", "armed", "fired"}
    /\ states \in [Auth -> Ips \cup {NoIp}]
    /\ table \in [Auth -> SUBSET Ips]
    /\ phase \in {"list", "scan", "register", "children", "serve"}
    /\ todo \in SUBSET Auth
    /\ visit.pc \in {"next", "watch", "store", "register"}
    /\ callback.pc \in {"idle", "delete", "add", "store"}
    /\ redirects \in 0..MaxRedirects /\ restarts \in 0..MaxRestarts
    /\ raced \in SUBSET Auth /\ leftover \in SUBSET Auth

\* Nothing is left to do for the watcher.
Settled ==
    /\ phase = "serve" /\ Idle
    /\ kids # "fired"
    /\ \A a \in Auth : watch[a] # "fired"

\* A circuit that is never redirected while the watcher takes it up, or is down,
\* has exactly one rule, to its stored next_ip, whenever the watcher has nothing
\* to do: however often and however fast it is redirected at other times, and
\* whatever circuits appear meanwhile.
FollowsUnlessRaced ==
    Settled => \A a \in Circuits \ (raced \cup leftover) : table[a] = {zk[a]}

\* A circuit that has a rule loses it only between del and add.
RoutedUnlessSwitching ==
    \A a \in Auth : table[a] = {} =>
        \/ callback.auth = a /\ callback.pc = "add"
        \/ ~Followed(a)

\* Daemons that start together test for /circuit and create it in two calls, and
\* those that lose the race die.  Whatever the store held and however the starts
\* interleave, one of them gets through.
SomeDaemonSurvives == \E d \in Daemons : boot[d] # "dead"

\* Every circuit that is established gets a rule, one created at any moment of
\* the start-up too, unless watcherd has died in the race for /circuit.
EveryCircuitRouted ==
    \A a \in Auth : a \in Circuits ~> table[a] # {} \/ boot[Watcherd] = "dead"

\* 5page.tex: the daemon "ensures that its local routing state [...] corresponds to
\* the state in Zookeeper".  Also for a circuit that is redirected at any time while
\* one watcherd runs.
TableMatchesStore ==
    Settled => \A a \in Circuits \ leftover : table[a] = {zk[a]}
=============================================================================
