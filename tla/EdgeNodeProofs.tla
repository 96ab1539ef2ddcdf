--------------------------- MODULE EdgeNodeProofs ---------------------------
(***************************************************************************)
(* Theorems about watcherd and failoverd on one edge node, for every       *)
(* number of circuits, next hops, checks, kills, redirections and restarts.*)
(***************************************************************************)
EXTENDS EdgeNode, WatcherProofs

-----------------------------------------------------------------------------
(* The invariant. *)

\* What a check holds, and the types of the histories.
CheckInv ==
    /\ check \in [Checks -> [pc : {"none", "ping", "add", "set", "done"},
                             auth : Auth \cup {"none"},
                             cur : Ips \cup {NoIp}, target : Ips \cup {NoIp}]]
    /\ \A k \in Checks : check[k].pc \in {"ping", "add", "set"} =>
                            check[k].auth \in Circuits /\ check[k].cur \in Ips
    /\ \A k \in Checks : check[k].pc \in {"add", "set"} =>
                            check[k].target \in Ips \ {check[k].cur}
    /\ kills \in 0..MaxKills
    /\ missed \in SUBSET Auth
    /\ blurred \in SUBSET Auth

\* Check k will write the next_ip of circuit a.
WillWrite(k, a) == check[k].auth = a /\ check[k].pc \in {"add", "set"}

\* Check k has added a rule to ip for circuit a and will write it.
HasAdded(k, a, ip) == check[k].auth = a /\ check[k].pc = "set" /\ check[k].target = ip

\* The watcher takes circuit a up with the next_ip that is stored.
TakenAsStored(a) ==
    /\ a \in Known => states[a] = zk[a]
    /\ visit.auth = a => visit.ip = zk[a]
    /\ watch[a] # "fired"
    /\ callback.auth # a

\* The stored next hop has a rule, or something is on its way that adds one.
HopInv ==
    \A a \in Circuits \ missed :
        IF Followed(a)
          THEN /\ watch[a] = "armed" /\ callback.auth = a => callback.ip = zk[a]
               /\ \/ \E k \in Checks : WillWrite(k, a)
                  \/ watch[a] = "fired"
                  \/ callback.auth = a /\ callback.pc \in {"delete", "add"}
                  \/ zk[a] \in table[a]
          ELSE TakenAsStored(a)

\* A rule that the watcher knows, or will know once it has had its event.
KnownRule(a, ip) ==
    \/ ip = states[a] /\ ~(callback.auth = a /\ callback.pc \in {"add", "store"})
    \/ ip = zk[a] /\ watch[a] = "fired"
    \/ ip = callback.ip /\ callback.auth = a

\* Every rule is known to the watcher, or to a check that has still to write it.
StaleInv ==
    \A a \in Circuits \ (raced \cup leftover \cup blurred) :
        IF Followed(a)
          THEN /\ watch[a] = "armed" =>
                     zk[a] = (IF callback.auth = a THEN callback.ip ELSE states[a])
               /\ \A ip \in table[a] :
                     KnownRule(a, ip) \/ \E k \in Checks : HasAdded(k, a, ip)
          ELSE /\ TakenAsStored(a)
               /\ \A ip \in table[a] :
                     ip = zk[a] \/ \E k \in Checks : HasAdded(k, a, ip)

EdgeInv == BootInv /\ ThreadInv /\ ChildrenInv /\ CheckInv /\ HopInv /\ StaleInv

-----------------------------------------------------------------------------
(* The invariant of the watcher. *)

\* Of a check's steps three touch what the watcher sees.
LEMMA EdgeSteps ==
    [EdgeNext]_edgeVars =>
        [Next]_vars \/ \E k \in Checks : DelRule(k) \/ AddRule(k) \/ SetStored(k)
  BY DEF EdgeNext, edgeVars, Next, RedirectNoted, RestartNoted, CheckStep, ReceiveCheck,
     AnswerOnly, SetFails, KillFailoverd

\* failoverd creates and kills no daemon.
LEMMA EdgeBoot == BootInv /\ [EdgeNext]_edgeVars => BootInv'
<1> SUFFICES ASSUME BootInv, [EdgeNext]_edgeVars
             PROVE  BootInv'
  OBVIOUS
<1>1. CASE \E k \in Checks : DelRule(k) \/ AddRule(k) \/ SetStored(k)
  BY <1>1 DEF DelRule, AddRule, SetStored, SetNextIp, OnlyTable, store, BootInv
<1> QED  BY <1>1, EdgeSteps, NextBoot

\* It moves rules and next hops of circuits that exist.
LEMMA EdgeThread == ThreadInv /\ CheckInv /\ [EdgeNext]_edgeVars => ThreadInv'
<1> SUFFICES ASSUME ThreadInv, CheckInv, [EdgeNext]_edgeVars
             PROVE  ThreadInv'
  OBVIOUS
<1>1. CASE [Next]_vars
  BY <1>1, NextType, NextHolds, NextStage DEF ThreadInv
<1> USE WatcherAssumption DEF CheckInv, ThreadInv, TypeInv, HoldsInv, StageInv, Visits,
        Callbacks, NoVisit, NoCallback, Circuits, Known, SetNextIp, Idle, store, threads
<1>2. CASE \E k \in Checks : DelRule(k)
  BY <1>2 DEF DelRule, LeaveTable, OnlyTable
<1>3. CASE \E k \in Checks : AddRule(k)
  BY <1>3 DEF AddRule, JoinTable, OnlyTable
<1>4. CASE \E k \in Checks : SetStored(k)
  BY <1>4 DEF SetStored
<1> QED  BY <1>1, <1>2, <1>3, <1>4, EdgeSteps

\* It creates no circuit.
LEMMA EdgeChildren ==
    ThreadInv /\ CheckInv /\ ChildrenInv /\ [EdgeNext]_edgeVars => ChildrenInv'
<1> SUFFICES ASSUME ThreadInv, CheckInv, ChildrenInv, [EdgeNext]_edgeVars
             PROVE  ChildrenInv'
  OBVIOUS
<1>1. CASE [Next]_vars
  BY <1>1, NextChildren
<1>2. CASE \E k \in Checks : DelRule(k) \/ AddRule(k) \/ SetStored(k)
  BY <1>2, WatcherAssumption DEF ChildrenInv, CheckInv, DelRule, AddRule, SetStored,
     LeaveTable, JoinTable, OnlyTable, ThreadInv, TypeInv, HoldsInv, StageInv, Visits,
     Callbacks, NoVisit, NoCallback,
    Circuits, Known, SetNextIp, Idle, store, threads
<1> QED  BY <1>1, <1>2, EdgeSteps

-----------------------------------------------------------------------------
(* The checks and the table. *)

\* A check is about a circuit that exists and its nodes.
LEMMA EdgeCheck == ThreadInv /\ CheckInv /\ [EdgeNext]_edgeVars => CheckInv'
<1> SUFFICES ASSUME ThreadInv, CheckInv, [EdgeNext]_edgeVars
             PROVE  CheckInv'
  OBVIOUS
<1> USE WatcherAssumption, EdgeAssumption DEF CheckInv, NoCheck, Done, NoteWrite,
        NoteCut, ThreadInv, TypeInv, HoldsInv, StageInv, Visits, Callbacks, NoVisit,
        NoCallback, Circuits, Known, SetNextIp, Idle, store, threads
<1>1. CASE LoopStep /\ Unnoted
  <2>1. CASE StartStep(Watcherd)
    BY <1>1, <2>1 DEF StartStep, TestRoot, CreateRoot, Unnoted
  <2>2. CASE ListCircuits
    BY <1>1, <2>2 DEF ListCircuits, Unnoted
  <2>3. CASE \E a \in Auth : GetCircuit(a)
    BY <1>1, <2>3 DEF GetCircuit, Unnoted
  <2>4. CASE WatchCircuit
    BY <1>1, <2>4 DEF WatchCircuit, Unnoted
  <2>5. CASE StoreCircuit
    BY <1>1, <2>5 DEF StoreCircuit, Unnoted
  <2>6. CASE ScanDone
    BY <1>1, <2>6 DEF ScanDone, Unnoted
  <2>7. CASE \E a \in Auth : PickKnown(a)
    BY <1>1, <2>7 DEF PickKnown, Unnoted
  <2>8. CASE RegisterCircuit
    BY <1>1, <2>8 DEF RegisterCircuit, Unnoted
  <2>9. CASE WatchChildren
    BY <1>1, <2>9 DEF WatchChildren, Unnoted
  <2>10. CASE Serve
    BY <1>1, <2>10 DEF Serve, Unnoted
  <2> QED  BY <1>1, <2>1, <2>2, <2>3, <2>4, <2>5, <2>6, <2>7, <2>8, <2>9, <2>10 DEF LoopStep
<1>2. CASE CallbackStep /\ Unnoted
  <2>1. CASE ChildrenChanged
    BY <1>2, <2>1 DEF ChildrenChanged, Unnoted
  <2>2. CASE \E a \in Auth : NextIpChanged(a)
    BY <1>2, <2>2 DEF NextIpChanged, Unnoted
  <2>3. CASE DeleteOldRule
    BY <1>2, <2>3 DEF DeleteOldRule, Unnoted
  <2>4. CASE AddNewRule
    BY <1>2, <2>4 DEF AddNewRule, Unnoted
  <2>5. CASE StoreNewIp
    BY <1>2, <2>5 DEF StoreNewIp, Unnoted
  <2> QED  BY <1>2, <2>1, <2>2, <2>3, <2>4, <2>5 DEF CallbackStep
<1>3. CASE \E a \in Auth : Create(a) /\ Unnoted
  BY <1>3 DEF Create, Unnoted
<1>4. CASE \E d \in Daemons : StartStep(d) /\ Unnoted
  BY <1>4 DEF StartStep, TestRoot, CreateRoot, Unnoted
<1>5. CASE \E a \in Auth : RedirectNoted(a)
  BY <1>5 DEF RedirectNoted, Redirect
<1>6. CASE RestartNoted
  BY <1>6 DEF RestartNoted, Restart
<1>7. CASE \E k \in Checks, a \in Auth : ReceiveCheck(k, a)
  <2>1. PICK k \in Checks, a \in Auth : ReceiveCheck(k, a)
    BY <1>7
  <2> DEFINE c == [NoCheck EXCEPT !.pc = "ping", !.auth = a, !.cur = zk[a]]
  <2>2. c \in [pc : {"none", "ping", "add", "set", "done"}, auth : Auth \cup {"none"},
               cur : Ips \cup {NoIp}, target : Ips \cup {NoIp}]
    BY <2>1 DEF ReceiveCheck
  <2>3. c.pc = "ping" /\ c.auth = a /\ c.cur = zk[a]
    OBVIOUS
  <2>4. /\ a \in Circuits /\ UNCHANGED <<zk, kills, missed, blurred>>
        /\ check' = [check EXCEPT ![k] = c]
    BY <2>1 DEF ReceiveCheck, vars
  <2> HIDE DEF c
  <2> QED  BY <2>2, <2>3, <2>4
<1>8. CASE \E k \in Checks : AnswerOnly(k)
  BY <1>8 DEF AnswerOnly, vars
<1>9. CASE \E k \in Checks : DelRule(k)
  BY <1>9 DEF DelRule, LeaveTable, OnlyTable
<1>10. CASE \E k \in Checks : AddRule(k)
  BY <1>10 DEF AddRule, JoinTable, OnlyTable
<1>11. CASE \E k \in Checks : SetStored(k)
  BY <1>11 DEF SetStored
<1>12. CASE \E k \in Checks : SetFails(k)
  BY <1>12 DEF SetFails, vars
<1>13. CASE KillFailoverd
  BY <1>13 DEF KillFailoverd, vars
<1>14. CASE UNCHANGED edgeVars
  BY <1>14 DEF edgeVars, vars
<1> QED  BY <1>1, <1>2, <1>3, <1>4, <1>5, <1>6, <1>7, <1>8, <1>9, <1>10, <1>11, <1>12,
            <1>13, <1>14
         DEF EdgeNext, CheckStep

\* A write of next_ip is followed by an event, and the callback adds the rule.
LEMMA EdgeHop == ThreadInv /\ CheckInv /\ HopInv /\ [EdgeNext]_edgeVars => HopInv'
<1> SUFFICES ASSUME ThreadInv, CheckInv, HopInv, [EdgeNext]_edgeVars
             PROVE  HopInv'
  OBVIOUS
<1> USE WatcherAssumption, EdgeAssumption DEF CheckInv, NoCheck, Done, NoteWrite,
        NoteCut, HopInv, Followed, TakenUp, TakenAsStored, WillWrite, ThreadInv,
        TypeInv, HoldsInv, StageInv, Visits, Callbacks, NoVisit, NoCallback, Circuits,
        Known, SetNextIp, Idle, store, threads
<1>1. CASE LoopStep /\ Unnoted
  <2>1. CASE StartStep(Watcherd)
    BY <1>1, <2>1 DEF StartStep, TestRoot, CreateRoot, Unnoted
  <2>2. CASE ListCircuits
    BY <1>1, <2>2 DEF ListCircuits, Unnoted
  <2>3. CASE \E a \in Auth : GetCircuit(a)
    BY <1>1, <2>3 DEF GetCircuit, Unnoted
  <2>4. CASE WatchCircuit
    BY <1>1, <2>4 DEF WatchCircuit, Unnoted
  <2>5. CASE StoreCircuit
    BY <1>1, <2>5 DEF StoreCircuit, Unnoted
  <2>6. CASE ScanDone
    BY <1>1, <2>6 DEF ScanDone, Unnoted
  <2>7. CASE \E a \in Auth : PickKnown(a)
    BY <1>1, <2>7 DEF PickKnown, Unnoted
  <2>8. CASE RegisterCircuit
    BY <1>1, <2>8 DEF RegisterCircuit, Unnoted
  <2>9. CASE WatchChildren
    BY <1>1, <2>9 DEF WatchChildren, Unnoted
  <2>10. CASE Serve
    BY <1>1, <2>10 DEF Serve, Unnoted
  <2> QED  BY <1>1, <2>1, <2>2, <2>3, <2>4, <2>5, <2>6, <2>7, <2>8, <2>9, <2>10 DEF LoopStep
<1>2. CASE CallbackStep /\ Unnoted
  <2>1. CASE ChildrenChanged
    BY <1>2, <2>1 DEF ChildrenChanged, Unnoted
  <2>2. CASE \E a \in Auth : NextIpChanged(a)
    BY <1>2, <2>2 DEF NextIpChanged, Unnoted
  <2>3. CASE DeleteOldRule
    BY <1>2, <2>3 DEF DeleteOldRule, Unnoted
  <2>4. CASE AddNewRule
    BY <1>2, <2>4 DEF AddNewRule, Unnoted
  <2>5. CASE StoreNewIp
    BY <1>2, <2>5 DEF StoreNewIp, Unnoted
  <2> QED  BY <1>2, <2>1, <2>2, <2>3, <2>4, <2>5 DEF CallbackStep
<1>3. CASE \E a \in Auth : Create(a) /\ Unnoted
  BY <1>3 DEF Create, Unnoted
<1>4. CASE \E d \in Daemons : StartStep(d) /\ Unnoted
  BY <1>4 DEF StartStep, TestRoot, CreateRoot, Unnoted
<1>5. CASE \E a \in Auth : RedirectNoted(a)
  BY <1>5 DEF RedirectNoted, Redirect
<1>6. CASE RestartNoted
  BY <1>6 DEF RestartNoted, Restart
<1>7. CASE \E k \in Checks, a \in Auth : ReceiveCheck(k, a)
  BY <1>7 DEF ReceiveCheck, vars
<1>8. CASE \E k \in Checks : AnswerOnly(k)
  BY <1>8 DEF AnswerOnly, vars
<1>9. CASE \E k \in Checks : DelRule(k)
  BY <1>9 DEF DelRule, LeaveTable, OnlyTable
<1>10. CASE \E k \in Checks : AddRule(k)
  BY <1>10 DEF AddRule, JoinTable, OnlyTable
<1>11. CASE \E k \in Checks : SetStored(k)
  BY <1>11 DEF SetStored
<1>12. CASE \E k \in Checks : SetFails(k)
  BY <1>12 DEF SetFails, vars
<1>13. CASE KillFailoverd
  BY <1>13 DEF KillFailoverd, vars
<1>14. CASE UNCHANGED edgeVars
  BY <1>14 DEF edgeVars, vars
<1> QED  BY <1>1, <1>2, <1>3, <1>4, <1>5, <1>6, <1>7, <1>8, <1>9, <1>10, <1>11, <1>12,
            <1>13, <1>14
         DEF EdgeNext, CheckStep

\* The watcher gets to know every rule, and deletes the one it knew.
LEMMA EdgeStale == ThreadInv /\ CheckInv /\ StaleInv /\ [EdgeNext]_edgeVars => StaleInv'
<1> SUFFICES ASSUME ThreadInv, CheckInv, StaleInv, [EdgeNext]_edgeVars
             PROVE  StaleInv'
  OBVIOUS
<1> USE WatcherAssumption, EdgeAssumption DEF CheckInv, NoCheck, Done, NoteWrite,
        NoteCut, StaleInv, Followed, TakenUp, TakenAsStored, KnownRule, HasAdded,
        ThreadInv, TypeInv, HoldsInv, StageInv, Visits, Callbacks, NoVisit, NoCallback,
        Circuits, Known, SetNextIp, Idle, store, threads
<1>1. CASE LoopStep /\ Unnoted
  <2>1. CASE StartStep(Watcherd)
    BY <1>1, <2>1 DEF StartStep, TestRoot, CreateRoot, Unnoted
  <2>2. CASE ListCircuits
    BY <1>1, <2>2 DEF ListCircuits, Unnoted
  <2>3. CASE \E a \in Auth : GetCircuit(a)
    BY <1>1, <2>3 DEF GetCircuit, Unnoted
  <2>4. CASE WatchCircuit
    BY <1>1, <2>4 DEF WatchCircuit, Unnoted
  <2>5. CASE StoreCircuit
    BY <1>1, <2>5 DEF StoreCircuit, Unnoted
  <2>6. CASE ScanDone
    BY <1>1, <2>6 DEF ScanDone, Unnoted
  <2>7. CASE \E a \in Auth : PickKnown(a)
    BY <1>1, <2>7 DEF PickKnown, Unnoted
  <2>8. CASE RegisterCircuit
    BY <1>1, <2>8 DEF RegisterCircuit, Unnoted
  <2>9. CASE WatchChildren
    BY <1>1, <2>9 DEF WatchChildren, Unnoted
  <2>10. CASE Serve
    BY <1>1, <2>10 DEF Serve, Unnoted
  <2> QED  BY <1>1, <2>1, <2>2, <2>3, <2>4, <2>5, <2>6, <2>7, <2>8, <2>9, <2>10 DEF LoopStep
<1>2. CASE CallbackStep /\ Unnoted
  <2>1. CASE ChildrenChanged
    BY <1>2, <2>1 DEF ChildrenChanged, Unnoted
  <2>2. CASE \E a \in Auth : NextIpChanged(a)
    BY <1>2, <2>2 DEF NextIpChanged, Unnoted
  <2>3. CASE DeleteOldRule
    BY <1>2, <2>3 DEF DeleteOldRule, Unnoted
  <2>4. CASE AddNewRule
    BY <1>2, <2>4 DEF AddNewRule, Unnoted
  <2>5. CASE StoreNewIp
    BY <1>2, <2>5 DEF StoreNewIp, Unnoted
  <2> QED  BY <1>2, <2>1, <2>2, <2>3, <2>4, <2>5 DEF CallbackStep
<1>3. CASE \E a \in Auth : Create(a) /\ Unnoted
  BY <1>3 DEF Create, Unnoted
<1>4. CASE \E d \in Daemons : StartStep(d) /\ Unnoted
  BY <1>4 DEF StartStep, TestRoot, CreateRoot, Unnoted
<1>5. CASE \E a \in Auth : RedirectNoted(a)
  BY <1>5 DEF RedirectNoted, Redirect
<1>6. CASE RestartNoted
  BY <1>6 DEF RestartNoted, Restart
<1>7. CASE \E k \in Checks, a \in Auth : ReceiveCheck(k, a)
  BY <1>7 DEF ReceiveCheck, vars
<1>8. CASE \E k \in Checks : AnswerOnly(k)
  BY <1>8 DEF AnswerOnly, vars
<1>9. CASE \E k \in Checks : DelRule(k)
  BY <1>9 DEF DelRule, LeaveTable, OnlyTable
<1>10. CASE \E k \in Checks : AddRule(k)
  BY <1>10 DEF AddRule, JoinTable, OnlyTable
<1>11. CASE \E k \in Checks : SetStored(k)
  BY <1>11 DEF SetStored
<1>12. CASE \E k \in Checks : SetFails(k)
  BY <1>12 DEF SetFails, vars
<1>13. CASE KillFailoverd
  BY <1>13 DEF KillFailoverd, vars
<1>14. CASE UNCHANGED edgeVars
  BY <1>14 DEF edgeVars, vars
<1> QED  BY <1>1, <1>2, <1>3, <1>4, <1>5, <1>6, <1>7, <1>8, <1>9, <1>10, <1>11, <1>12,
            <1>13, <1>14
         DEF EdgeNext, CheckStep

-----------------------------------------------------------------------------
(* The theorems. *)

\* The initial state is one of the invariant.
LEMMA InitEdge == EdgeInit => EdgeInv
<1> SUFFICES ASSUME EdgeInit
             PROVE  EdgeInv
  OBVIOUS
<1>1. BootInv /\ ThreadInv /\ ChildrenInv
  BY InitBoot, InitThread DEF EdgeInit
<1>2. CheckInv
  BY EdgeAssumption DEF EdgeInit, CheckInv, NoCheck
<1>3. \A a \in Auth : TakenAsStored(a) /\ ~Followed(a) /\ table[a] = {}
  BY WatcherAssumption
     DEF EdgeInit, Init, TakenAsStored, Followed, Known, NoVisit, NoCallback
<1>4. HopInv /\ StaleInv
  BY <1>3 DEF HopInv, StaleInv, Circuits
<1> QED  BY <1>1, <1>2, <1>4 DEF EdgeInv

\* The state of watcherd and failoverd on one node stays within EdgeInv: what the
\* two threads and the checks hold fits the store and the table.
THEOREM EdgeInvariant == EdgeSpec => []EdgeInv
<1>1. EdgeInv /\ [EdgeNext]_edgeVars => EdgeInv'
  BY EdgeBoot, EdgeThread, EdgeChildren, EdgeCheck, EdgeHop, EdgeStale DEF EdgeInv
<1> QED  BY <1>1, InitEdge, PTL DEF EdgeSpec

\* Every variable of the watcher, the checks and the histories has its type.
THEOREM EdgeTypeCorrect == EdgeSpec => []EdgeTypeOK
<1>1. EdgeInv => EdgeTypeOK
  BY DEF EdgeInv, BootInv, BootStates, ThreadInv, TypeInv, Visits, Callbacks, CheckInv,
     Circuits, EdgeTypeOK, TypeOK
<1> QED  BY <1>1, EdgeInvariant, PTL

\* A watcher with nothing to do follows every circuit.
LEMMA QuietFollows ==
    ASSUME EdgeInv, Quiet, NEW a \in Circuits
    PROVE  /\ Followed(a) /\ watch[a] = "armed" /\ callback.pc = "idle"
           /\ callback.auth # a
           /\ \A k \in Checks : check[k].pc \in {"none", "done"}
<1>1. /\ phase = "serve" /\ todo = {} /\ visit.pc = "next" /\ callback.pc = "idle"
      /\ kids # "fired" /\ watch[a] # "fired"
      /\ \A k \in Checks : check[k].pc \in {"none", "done"}
  BY DEF Quiet, Settled, Idle, Circuits
<1>2. visit.auth = "none" /\ callback.auth = "none" /\ a # "none"
  BY <1>1, WatcherAssumption DEF EdgeInv, ThreadInv, HoldsInv, Circuits
<1>3. a \in Known
  BY <1>1, <1>2 DEF EdgeInv, ChildrenInv, ThreadInv, TypeInv
<1>4. watch[a] = "armed"
  BY <1>1, <1>3 DEF EdgeInv, ThreadInv, TypeInv, StageInv, Circuits
<1> QED  BY <1>1, <1>2, <1>3, <1>4 DEF Followed

\* watcherd and failoverd move rules of the same table.  When neither is at it, the
\* stored next hop has a rule, unless the watcher missed the last write or a switch
\* was cut short.
THEOREM StoredHopRouted == EdgeSpec => []StoredHopHasRule
<1>1. EdgeInv => StoredHopHasRule
  <2> SUFFICES ASSUME EdgeInv, Quiet, NEW a \in Circuits \ missed
               PROVE  zk[a] \in table[a]
    BY DEF StoredHopHasRule
  <2> QED  BY QuietFollows DEF EdgeInv, HopInv, WillWrite
<1> QED  BY <1>1, EdgeInvariant, PTL

\* And no rule to another hop is left of a circuit of which the watcher has had one
\* event for every write.
THEOREM OnlyStoredHopRouted == EdgeSpec => []NoStaleRule
<1>1. EdgeInv => NoStaleRule
  <2> SUFFICES ASSUME EdgeInv, Quiet, NEW a \in Circuits \ (raced \cup leftover \cup blurred),
                      NEW ip \in table[a]
               PROVE  ip = zk[a]
    BY DEF NoStaleRule
  <2>1. zk[a] = states[a] /\ KnownRule(a, ip)
    BY QuietFollows DEF EdgeInv, StaleInv, HasAdded
  <2> QED  BY <2>1, QuietFollows DEF KnownRule
<1> QED  BY <1>1, EdgeInvariant, PTL

=============================================================================
