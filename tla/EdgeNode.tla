------------------------------ MODULE EdgeNode ------------------------------
(***************************************************************************)
(* One edge node: its watcherd (Watcher) and its failoverd change the same *)
(* service table.  failoverd moves the rule first and writes next_ip to    *)
(* ZooKeeper last; that write reaches watcherd as a change like any other, *)
(* and watcherd moves the rule that it knows.                              *)
(*                                                                         *)
(* Of a check this module keeps what touches the table and the store: the  *)
(* next hop that it read, the outcome of its pings (any), the switch.      *)
(* Failover models the checks themselves.                                  *)
(***************************************************************************)
EXTENDS Watcher

CONSTANTS
    Checks,    \* the checks that this node receives
    MaxKills   \* bound: how often failoverd is killed

ASSUME EdgeAssumption == MaxKills \in Nat

VARIABLES
    check,   \* check[k]: FailoverHandler.handle for check k
    kills,
    missed,  \* history: circuits whose stored next hop may lack a rule, because
             \* next_ip was last set while the watcher took the circuit up, or
             \* because a switch has been cut short since
    blurred  \* history: circuits of which the watcher cannot know every next hop
             \* that got a rule: one event for two writes, or a switch cut short

edgeVars == <<vars, check, kills, missed, blurred>>

NoCheck == [pc |-> "none", auth |-> "none", cur |-> NoIp, target |-> NoIp]

\* A handler that has ended.
Done == [NoCheck EXCEPT !.pc = "done"]

EdgeInit ==
    /\ Init
    /\ check = [k \in Checks |-> NoCheck]
    /\ kills = 0
    /\ missed = {}
    /\ blurred = {}

-----------------------------------------------------------------------------
(* FailoverHandler.handle on this node. *)

\* zookeeper.get of next_ip; the pings start.
ReceiveCheck(k, a) ==
    /\ check[k].pc = "none"
    /\ a \in Circuits
    /\ check' = [check EXCEPT ![k] = [NoCheck EXCEPT !.pc = "ping", !.auth = a, !.cur = zk[a]]]
    /\ UNCHANGED <<vars, kills, missed, blurred>>

\* Nothing is switched: the current next hop works, or no other one does.
AnswerOnly(k) ==
    /\ check[k].pc = "ping"
    /\ check' = [check EXCEPT ![k] = Done]
    /\ UNCHANGED <<vars, kills, missed, blurred>>

LeaveTable(a, ip) == table' = [table EXCEPT ![a] = @ \ {ip}]

JoinTable(a, ip) == table' = [table EXCEPT ![a] = @ \cup {ip}]

\* servicetool changes nothing but the table.
OnlyTable ==
    UNCHANGED <<store, watch, kids, states, threads, restarts, kills, missed, blurred>>

\* Variant of DelRule: the target may be the hop that has just been given up.
DelRuleToAny(k) ==
    /\ check[k].pc = "ping"
    /\ LeaveTable(check[k].auth, check[k].cur)
    /\ \E ip \in Ips : check' = [check EXCEPT ![k].target = ip, ![k].pc = "add"]
    /\ OnlyTable

\* The current next hop has failed and another one answers: delete its rule.
DelRule(k) ==
    /\ check[k].pc = "ping"
    /\ LeaveTable(check[k].auth, check[k].cur)
    /\ \E ip \in Ips \ {check[k].cur} :
          check' = [check EXCEPT ![k].target = ip, ![k].pc = "add"]
    /\ OnlyTable

AddRule(k) ==
    /\ check[k].pc = "add"
    /\ JoinTable(check[k].auth, check[k].target)
    /\ check' = [check EXCEPT ![k].pc = "set"]
    /\ OnlyTable

\* History: a write of a's next_ip.
NoteWrite(a) ==
    /\ missed' = IF TakenUp(a) /\ ~Followed(a) THEN missed \cup {a} ELSE missed \ {a}
    /\ blurred' = IF watch[a] = "fired" THEN blurred \cup {a} ELSE blurred

\* History: switches of the circuits S end between their rule and their write.
NoteCut(S) ==
    /\ missed' = missed \cup S
    /\ blurred' = blurred \cup S

\* Variant of SetStored: next_ip is set only if it is still the one that was read.
SetStoredIfUnchanged(k) ==
    /\ check[k].pc = "set"
    /\ check' = [check EXCEPT ![k] = Done]
    /\ IF zk[check[k].auth] = check[k].cur
         THEN SetNextIp(check[k].auth, check[k].target) /\ NoteWrite(check[k].auth)
         ELSE UNCHANGED <<store, watch, kids, states, table, threads, restarts, missed, blurred>>
    /\ UNCHANGED <<redirects, kills>>

\* zookeeper.set of next_ip, unconditionally.
SetStored(k) ==
    /\ check[k].pc = "set"
    /\ check' = [check EXCEPT ![k] = Done]
    /\ SetNextIp(check[k].auth, check[k].target)
    /\ NoteWrite(check[k].auth)
    /\ UNCHANGED <<redirects, kills>>

\* zookeeper.set raises and ends the handler's thread.
SetFails(k) ==
    /\ check[k].pc = "set"
    /\ check' = [check EXCEPT ![k] = Done]
    /\ NoteCut({check[k].auth})
    /\ UNCHANGED <<vars, kills>>

\* failoverd is killed with all its handlers, and started again.
KillFailoverd ==
    /\ kills < MaxKills
    /\ kills' = kills + 1
    /\ check' = [k \in Checks |-> IF check[k].pc = "none" THEN NoCheck ELSE Done]
    /\ NoteCut({check[k].auth : k \in {c \in Checks : check[c].pc \in {"add", "set"}}})
    /\ UNCHANGED vars

-----------------------------------------------------------------------------
(* The watcher's steps and those of its environment. *)

Unnoted == UNCHANGED <<check, kills, missed, blurred>>

RedirectNoted(a) ==
    /\ Redirect(a)
    /\ NoteWrite(a)
    /\ UNCHANGED <<check, kills>>

\* A new watcherd reads every next_ip and adds a rule for it.
RestartNoted ==
    /\ Restart
    /\ missed' = {}
    /\ UNCHANGED <<check, kills, blurred>>

CheckStep(k) ==
    AnswerOnly(k) \/ DelRule(k) \/ AddRule(k) \/ SetStored(k) \/ SetFails(k)

EdgeNext ==
    \/ (LoopStep \/ CallbackStep) /\ Unnoted
    \/ \E a \in Auth : Create(a) /\ Unnoted
    \/ \E d \in Daemons \ {Watcherd} : StartStep(d) /\ Unnoted
    \/ \E a \in Auth : RedirectNoted(a)
    \/ RestartNoted
    \/ \E k \in Checks : CheckStep(k) \/ \E a \in Auth : ReceiveCheck(k, a)
    \/ KillFailoverd

EdgeSpec == EdgeInit /\ [][EdgeNext]_edgeVars

-----------------------------------------------------------------------------
(* Properties. *)

\* Every variable has its type.
EdgeTypeOK ==
    /\ TypeOK
    /\ \A k \in Checks :
          /\ check[k].pc \in {"none", "ping", "add", "set", "done"}
          /\ check[k].pc \in {"ping", "add", "set"} => check[k].auth \in Auth /\ check[k].cur \in Ips
          /\ check[k].pc \in {"add", "set"} => check[k].target \in Ips \ {check[k].cur}
    /\ kills \in 0..MaxKills
    /\ missed \in SUBSET Auth /\ blurred \in SUBSET Auth

Quiet == Settled /\ \A k \in Checks : check[k].pc \in {"none", "done"}

\* Whatever the local failoverd and those of other nodes did to the table and to
\* the store, in whatever order and from however stale a next hop: when no check
\* runs and the watcher has nothing to do, the stored next hop has a rule.
StoredHopHasRule == Quiet => \A a \in Circuits \ missed : zk[a] \in table[a]

\* And then there is no other rule either, as long as the watcher has had an event
\* for every write: it deletes just the rule that it knows.
NoStaleRule ==
    Quiet => \A a \in Circuits \ (raced \cup leftover \cup blurred) :
                 table[a] \subseteq {zk[a]}
=============================================================================
