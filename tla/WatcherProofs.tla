--------------------------- MODULE WatcherProofs ---------------------------
(***************************************************************************)
(* Theorems about watcherd and the start of the daemons, for every number  *)
(* of circuits, next hops, daemons, redirections and restarts.             *)
(***************************************************************************)
EXTENDS Watcher, TLAPS

-----------------------------------------------------------------------------
(* The race for /circuit. *)

BootStates == {"test", "create", "up", "dead"}

\* A daemon that has lost, or is about to lose, has a winner beside it, which may
\* have been restarted since.
BootInv ==
    /\ root \in BOOLEAN
    /\ boot \in [Daemons -> BootStates]
    /\ \A d \in Daemons : boot[d] = "dead" => root
    /\ root => \A d \in Daemons : boot[d] \in {"create", "dead"} =>
                  \E e \in Daemons : boot[e] \in {"up", "test"}

-----------------------------------------------------------------------------
(* What the two threads hold. *)

Visits == [pc : {"next", "watch", "store", "register"}, auth : Auth \cup {"none"},
           ip : Ips \cup {NoIp}]

Callbacks == [pc : {"idle", "delete", "add", "store"}, auth : Auth \cup {"none"},
              ip : Ips \cup {NoIp}]

TypeInv ==
    /\ zk \in [Auth -> Ips \cup {NoIp}]
    /\ watch \in [Auth -> {"unset", "armed", "fired"}]
    /\ kids \in {"unset", "armed", "fired"}
    /\ states \in [Auth -> Ips \cup {NoIp}]
    /\ table \in [Auth -> SUBSET Ips]
    /\ phase \in {"list", "scan", "register", "children", "serve"}
    /\ todo \in SUBSET Auth
    /\ visit \in Visits
    /\ callback \in Callbacks
    /\ redirects \in 0..MaxRedirects
    /\ restarts \in 0..MaxRestarts
    /\ raced \in SUBSET Auth /\ leftover \in SUBSET Auth

\* Everything that the watcher holds is about circuits that exist.
HoldsInv ==
    /\ todo \subseteq Circuits
    /\ Known \subseteq Circuits
    /\ \A a \in Auth : watch[a] # "unset" => a \in Circuits
    /\ \A a \in Auth : table[a] # {} => a \in Circuits
    /\ IF visit.pc = "next" THEN visit.auth = "none"
                            ELSE visit.auth \in Circuits /\ visit.ip \in Ips
    /\ IF callback.pc = "idle" THEN callback.auth = "none"
                               ELSE callback.auth \in Circuits /\ callback.ip \in Ips

\* How far the main thread is with each circuit.
StageInv ==
    /\ visit.auth \notin todo
    /\ visit.pc \in {"watch", "store"} => phase \in {"scan", "children", "serve"}
                                          /\ visit.auth \notin Known
    /\ visit.pc = "register" => phase \in {"register", "children", "serve"}
                                /\ visit.auth \in Known
    /\ IF phase = "register" THEN todo \subseteq Known ELSE todo \cap Known = {}
    /\ phase = "list" => /\ visit.pc = "next" /\ callback.pc = "idle"
                         /\ Known = {} /\ todo = {}
                         /\ \A a \in Auth : watch[a] = "unset"
    /\ \A a \in Auth : watch[a] # "unset" <=>
                          a \in Known \/ (visit.pc = "store" /\ visit.auth = a)
    /\ callback.pc \in {"add", "store"} => callback.auth \in Known
    /\ callback.pc # "idle" => watch[callback.auth] # "unset"

\* Once the ChildrenWatch is set no circuit is overlooked.
ChildrenInv ==
    phase \in {"children", "serve"} =>
        /\ kids # "unset"
        /\ kids = "armed" => \A a \in Circuits : a \in Known \cup todo \/ visit.auth = a

\* A circuit that is neither raced nor leftover is taken up with the next_ip that is stored.
TakingUp(a) ==
    /\ table[a] \subseteq {zk[a]}
    /\ a \in Known => states[a] = zk[a]
    /\ visit.auth = a => visit.ip = zk[a]
    /\ watch[a] # "fired"
    /\ callback.auth # a

\* And then the table has the rule that circuitStates names, but for a callback
\* that runs; if no event is on its way these are the stored next_ip.
Following(a) ==
    IF callback.auth = a
      THEN /\ callback.pc = "delete" => table[a] = {states[a]}
           /\ callback.pc = "add" => table[a] = {}
           /\ callback.pc = "store" => table[a] = {callback.ip}
           /\ watch[a] = "armed" => callback.ip = zk[a]
      ELSE /\ table[a] = {states[a]}
           /\ watch[a] = "armed" => states[a] = zk[a]

RacedInv ==
    \A a \in Circuits \ (raced \cup leftover) :
        IF Followed(a) THEN Following(a) ELSE TakingUp(a)

ThreadInv == TypeInv /\ HoldsInv /\ StageInv

Inv == BootInv /\ ThreadInv /\ ChildrenInv /\ RacedInv /\ RoutedUnlessSwitching

-----------------------------------------------------------------------------
(* The race for /circuit. *)

\* The initial state is one of the invariant.
LEMMA InitBoot == Init => BootInv
  BY DEF Init, BootInv, BootStates

\* A daemon dies only beside one that has got through.
LEMMA StartKeepsBoot ==
    ASSUME BootInv, NEW d \in Daemons, StartStep(d)
    PROVE  BootInv'
<1> USE DEF BootInv, BootStates
<1>1. CASE TestRoot(d)
  BY <1>1 DEF TestRoot
<1>2. CASE CreateRoot(d)
  <2>1. CASE root
    <3>1. PICK e \in Daemons : boot[e] \in {"up", "test"}
      BY <1>2, <2>1 DEF CreateRoot
    <3>2. boot'[e] = boot[e]
      BY <1>2, <3>1 DEF CreateRoot
    <3> QED  BY <1>2, <2>1, <3>1, <3>2 DEF CreateRoot
  <2>2. CASE ~root
    <3>1. boot'[d] = "up" /\ root' = TRUE
      BY <1>2, <2>2 DEF CreateRoot
    <3> QED  BY <1>2, <2>2, <3>1 DEF CreateRoot
  <2> QED  BY <2>1, <2>2
<1> QED  BY <1>1, <1>2 DEF StartStep

\* No other step touches the root znode or kills a daemon.
LEMMA NextBoot == BootInv /\ [Next]_vars => BootInv'
<1> SUFFICES ASSUME BootInv, [Next]_vars
             PROVE  BootInv'
  OBVIOUS
<1>0. Watcherd \in Daemons
  BY WatcherAssumption
<1>1. CASE \E d \in Daemons : StartStep(d)
  BY <1>1, StartKeepsBoot
<1>2. CASE Restart
  <2>1. /\ boot'[Watcherd] = "test" /\ root' = root
        /\ \A d \in Daemons : boot'[d] = boot[d] \/ boot'[d] = "test"
        /\ boot' \in [Daemons -> BootStates]
    BY <1>0, <1>2 DEF Restart, BootInv, BootStates
  <2> QED  BY <1>0, <2>1 DEF BootInv
<1>3. CASE UNCHANGED <<root, boot>>
  BY <1>3 DEF BootInv
<1>4. CASE LoopStep
  BY <1>0, <1>1, <1>3, <1>4 DEF LoopStep, ListCircuits, ScanDone, WatchChildren, Serve,
     GetCircuit, PickKnown, WatchCircuit, StoreCircuit, RegisterCircuit, store
<1>5. CASE CallbackStep
  BY <1>3, <1>5 DEF CallbackStep, ChildrenChanged, NextIpChanged, DeleteOldRule,
     AddNewRule, StoreNewIp, store
<1>6. CASE \E a \in Auth : Create(a) \/ Redirect(a)
  BY <1>3, <1>6 DEF Create, Redirect, SetNextIp
<1>7. CASE UNCHANGED vars
  BY <1>3, <1>7 DEF vars
<1> QED  BY <1>1, <1>2, <1>4, <1>5, <1>6, <1>7 DEF Next

\* Whatever the store held and however the starts interleave, a daemon gets through.
THEOREM OneDaemonGetsThrough == Spec => []SomeDaemonSurvives
<1>1. BootInv => SomeDaemonSurvives
  BY WatcherAssumption DEF BootInv, BootStates, SomeDaemonSurvives
<1> QED  BY <1>1, InitBoot, NextBoot, PTL DEF Spec

-----------------------------------------------------------------------------
(* The threads. *)

\* The initial state is one of the invariant.
LEMMA InitThread == Init => ThreadInv /\ ChildrenInv /\ RacedInv
  BY WatcherAssumption DEF Init, ThreadInv, TypeInv, HoldsInv, StageInv, ChildrenInv,
     RacedInv, TakingUp, Followed, Circuits, Known, NoVisit, NoCallback, Visits, Callbacks

\* Every step keeps the types.
LEMMA NextType == ThreadInv /\ [Next]_vars => TypeInv'
<1> SUFFICES ASSUME ThreadInv, [Next]_vars
             PROVE  TypeInv'
  OBVIOUS
<1> USE WatcherAssumption DEF ThreadInv, TypeInv, HoldsInv, Visits, Callbacks, NoVisit,
        NoCallback, Circuits, Known, SetNextIp, store, threads
<1>1. CASE \E d \in Daemons : StartStep(d)
  BY <1>1 DEF StartStep, TestRoot, CreateRoot
<1>2. CASE ListCircuits
  BY <1>2 DEF ListCircuits
<1>3. CASE \E a \in Auth : GetCircuit(a)
  BY <1>3 DEF GetCircuit
<1>4. CASE WatchCircuit
  BY <1>4 DEF WatchCircuit
<1>5. CASE StoreCircuit
  BY <1>5 DEF StoreCircuit
<1>6. CASE ScanDone
  BY <1>6 DEF ScanDone
<1>7. CASE \E a \in Auth : PickKnown(a)
  BY <1>7 DEF PickKnown
<1>8. CASE RegisterCircuit
  BY <1>8 DEF RegisterCircuit
<1>9. CASE WatchChildren
  BY <1>9 DEF WatchChildren
<1>10. CASE Serve
  BY <1>10 DEF Serve
<1>11. CASE ChildrenChanged
  BY <1>11 DEF ChildrenChanged
<1>12. CASE \E a \in Auth : NextIpChanged(a)
  BY <1>12 DEF NextIpChanged
<1>13. CASE DeleteOldRule
  BY <1>13 DEF DeleteOldRule
<1>14. CASE AddNewRule
  BY <1>14 DEF AddNewRule
<1>15. CASE StoreNewIp
  BY <1>15 DEF StoreNewIp
<1>16. CASE \E a \in Auth : Create(a)
  BY <1>16 DEF Create
<1>17. CASE \E a \in Auth : Redirect(a)
  BY <1>17 DEF Redirect
<1>18. CASE Restart
  BY <1>18 DEF Restart
<1>19. CASE UNCHANGED vars
  BY <1>19 DEF vars
<1> QED  BY <1>1, <1>2, <1>3, <1>4, <1>5, <1>6, <1>7, <1>8, <1>9, <1>10, <1>11, <1>12,
            <1>13, <1>14, <1>15, <1>16, <1>17, <1>18, <1>19
         DEF Next, LoopStep, CallbackStep

\* Circuits are never removed, so what the watcher holds goes on to exist.
LEMMA NextHolds == ThreadInv /\ [Next]_vars => HoldsInv'
<1> SUFFICES ASSUME ThreadInv, [Next]_vars
             PROVE  HoldsInv'
  OBVIOUS
<1> USE WatcherAssumption DEF ThreadInv, TypeInv, HoldsInv, StageInv, Visits, Callbacks,
        NoVisit, NoCallback, Circuits, Known, SetNextIp, store, threads
<1>1. CASE \E d \in Daemons : StartStep(d)
  BY <1>1 DEF StartStep, TestRoot, CreateRoot
<1>2. CASE ListCircuits
  BY <1>2 DEF ListCircuits
<1>3. CASE \E a \in Auth : GetCircuit(a)
  BY <1>3 DEF GetCircuit
<1>4. CASE WatchCircuit
  BY <1>4 DEF WatchCircuit
<1>5. CASE StoreCircuit
  BY <1>5 DEF StoreCircuit
<1>6. CASE ScanDone
  BY <1>6 DEF ScanDone
<1>7. CASE \E a \in Auth : PickKnown(a)
  BY <1>7 DEF PickKnown
<1>8. CASE RegisterCircuit
  BY <1>8 DEF RegisterCircuit
<1>9. CASE WatchChildren
  BY <1>9 DEF WatchChildren
<1>10. CASE Serve
  BY <1>10 DEF Serve
<1>11. CASE ChildrenChanged
  BY <1>11 DEF ChildrenChanged
<1>12. CASE \E a \in Auth : NextIpChanged(a)
  BY <1>12 DEF NextIpChanged
<1>13. CASE DeleteOldRule
  BY <1>13 DEF DeleteOldRule
<1>14. CASE AddNewRule
  BY <1>14 DEF AddNewRule
<1>15. CASE StoreNewIp
  BY <1>15 DEF StoreNewIp
<1>16. CASE \E a \in Auth : Create(a)
  BY <1>16 DEF Create
<1>17. CASE \E a \in Auth : Redirect(a)
  BY <1>17 DEF Redirect
<1>18. CASE Restart
  BY <1>18 DEF Restart
<1>19. CASE UNCHANGED vars
  BY <1>19 DEF vars
<1> QED  BY <1>1, <1>2, <1>3, <1>4, <1>5, <1>6, <1>7, <1>8, <1>9, <1>10, <1>11, <1>12,
            <1>13, <1>14, <1>15, <1>16, <1>17, <1>18, <1>19
         DEF Next, LoopStep, CallbackStep

\* Each circuit is taken up once, in order.
LEMMA NextStage == ThreadInv /\ [Next]_vars => StageInv'
<1> SUFFICES ASSUME ThreadInv, [Next]_vars
             PROVE  StageInv'
  OBVIOUS
<1> USE WatcherAssumption DEF ThreadInv, TypeInv, HoldsInv, StageInv, Visits, Callbacks,
        NoVisit, NoCallback, Circuits, Known, SetNextIp, Idle, store, threads
<1>1. CASE \E d \in Daemons : StartStep(d)
  BY <1>1 DEF StartStep, TestRoot, CreateRoot
<1>2. CASE ListCircuits
  BY <1>2 DEF ListCircuits
<1>3. CASE \E a \in Auth : GetCircuit(a)
  BY <1>3 DEF GetCircuit
<1>4. CASE WatchCircuit
  BY <1>4 DEF WatchCircuit
<1>5. CASE StoreCircuit
  BY <1>5 DEF StoreCircuit
<1>6. CASE ScanDone
  BY <1>6 DEF ScanDone
<1>7. CASE \E a \in Auth : PickKnown(a)
  BY <1>7 DEF PickKnown
<1>8. CASE RegisterCircuit
  BY <1>8 DEF RegisterCircuit
<1>9. CASE WatchChildren
  BY <1>9 DEF WatchChildren
<1>10. CASE Serve
  BY <1>10 DEF Serve
<1>11. CASE ChildrenChanged
  BY <1>11 DEF ChildrenChanged
<1>12. CASE \E a \in Auth : NextIpChanged(a)
  BY <1>12 DEF NextIpChanged
<1>13. CASE DeleteOldRule
  BY <1>13 DEF DeleteOldRule
<1>14. CASE AddNewRule
  BY <1>14 DEF AddNewRule
<1>15. CASE StoreNewIp
  BY <1>15 DEF StoreNewIp
<1>16. CASE \E a \in Auth : Create(a)
  BY <1>16 DEF Create
<1>17. CASE \E a \in Auth : Redirect(a)
  BY <1>17 DEF Redirect
<1>18. CASE Restart
  BY <1>18 DEF Restart
<1>19. CASE UNCHANGED vars
  BY <1>19 DEF vars
<1> QED  BY <1>1, <1>2, <1>3, <1>4, <1>5, <1>6, <1>7, <1>8, <1>9, <1>10, <1>11, <1>12,
            <1>13, <1>14, <1>15, <1>16, <1>17, <1>18, <1>19
         DEF Next, LoopStep, CallbackStep

\* A circuit that is created sets off the ChildrenWatch.
LEMMA NextChildren == (ThreadInv /\ ChildrenInv) /\ [Next]_vars => ChildrenInv'
<1> SUFFICES ASSUME (ThreadInv /\ ChildrenInv), [Next]_vars
             PROVE  ChildrenInv'
  OBVIOUS
<1> USE WatcherAssumption DEF ThreadInv, TypeInv, HoldsInv, StageInv, Visits, Callbacks,
        NoVisit, NoCallback, Circuits, Known, SetNextIp, Idle, store, threads,
        ChildrenInv
<1>1. CASE \E d \in Daemons : StartStep(d)
  BY <1>1 DEF StartStep, TestRoot, CreateRoot
<1>2. CASE ListCircuits
  BY <1>2 DEF ListCircuits
<1>3. CASE \E a \in Auth : GetCircuit(a)
  BY <1>3 DEF GetCircuit
<1>4. CASE WatchCircuit
  BY <1>4 DEF WatchCircuit
<1>5. CASE StoreCircuit
  BY <1>5 DEF StoreCircuit
<1>6. CASE ScanDone
  BY <1>6 DEF ScanDone
<1>7. CASE \E a \in Auth : PickKnown(a)
  BY <1>7 DEF PickKnown
<1>8. CASE RegisterCircuit
  BY <1>8 DEF RegisterCircuit
<1>9. CASE WatchChildren
  BY <1>9 DEF WatchChildren
<1>10. CASE Serve
  BY <1>10 DEF Serve
<1>11. CASE ChildrenChanged
  BY <1>11 DEF ChildrenChanged
<1>12. CASE \E a \in Auth : NextIpChanged(a)
  BY <1>12 DEF NextIpChanged
<1>13. CASE DeleteOldRule
  BY <1>13 DEF DeleteOldRule
<1>14. CASE AddNewRule
  BY <1>14 DEF AddNewRule
<1>15. CASE StoreNewIp
  BY <1>15 DEF StoreNewIp
<1>16. CASE \E a \in Auth : Create(a)
  BY <1>16 DEF Create
<1>17. CASE \E a \in Auth : Redirect(a)
  BY <1>17 DEF Redirect
<1>18. CASE Restart
  BY <1>18 DEF Restart
<1>19. CASE UNCHANGED vars
  BY <1>19 DEF vars
<1> QED  BY <1>1, <1>2, <1>3, <1>4, <1>5, <1>6, <1>7, <1>8, <1>9, <1>10, <1>11, <1>12,
            <1>13, <1>14, <1>15, <1>16, <1>17, <1>18, <1>19
         DEF Next, LoopStep, CallbackStep

\* A rule is taken away only by the callback that puts another in its place.
LEMMA NextRouted == (ThreadInv /\ RoutedUnlessSwitching) /\ [Next]_vars => RoutedUnlessSwitching'
<1> SUFFICES ASSUME (ThreadInv /\ RoutedUnlessSwitching), [Next]_vars
             PROVE  RoutedUnlessSwitching'
  OBVIOUS
<1> USE WatcherAssumption DEF ThreadInv, TypeInv, HoldsInv, StageInv, Visits, Callbacks,
        NoVisit, NoCallback, Circuits, Known, SetNextIp, Idle, store, threads,
        RoutedUnlessSwitching, Followed
<1>1. CASE \E d \in Daemons : StartStep(d)
  BY <1>1 DEF StartStep, TestRoot, CreateRoot
<1>2. CASE ListCircuits
  BY <1>2 DEF ListCircuits
<1>3. CASE \E a \in Auth : GetCircuit(a)
  BY <1>3 DEF GetCircuit
<1>4. CASE WatchCircuit
  BY <1>4 DEF WatchCircuit
<1>5. CASE StoreCircuit
  BY <1>5 DEF StoreCircuit
<1>6. CASE ScanDone
  BY <1>6 DEF ScanDone
<1>7. CASE \E a \in Auth : PickKnown(a)
  BY <1>7 DEF PickKnown
<1>8. CASE RegisterCircuit
  BY <1>8 DEF RegisterCircuit
<1>9. CASE WatchChildren
  BY <1>9 DEF WatchChildren
<1>10. CASE Serve
  BY <1>10 DEF Serve
<1>11. CASE ChildrenChanged
  BY <1>11 DEF ChildrenChanged
<1>12. CASE \E a \in Auth : NextIpChanged(a)
  BY <1>12 DEF NextIpChanged
<1>13. CASE DeleteOldRule
  BY <1>13 DEF DeleteOldRule
<1>14. CASE AddNewRule
  BY <1>14 DEF AddNewRule
<1>15. CASE StoreNewIp
  BY <1>15 DEF StoreNewIp
<1>16. CASE \E a \in Auth : Create(a)
  BY <1>16 DEF Create
<1>17. CASE \E a \in Auth : Redirect(a)
  BY <1>17 DEF Redirect
<1>18. CASE Restart
  BY <1>18 DEF Restart
<1>19. CASE UNCHANGED vars
  BY <1>19 DEF vars
<1> QED  BY <1>1, <1>2, <1>3, <1>4, <1>5, <1>6, <1>7, <1>8, <1>9, <1>10, <1>11, <1>12,
            <1>13, <1>14, <1>15, <1>16, <1>17, <1>18, <1>19
         DEF Next, LoopStep, CallbackStep

\* A circuit that is neither raced nor leftover stays in step with the store.
LEMMA NextRaced == (ThreadInv /\ RacedInv) /\ [Next]_vars => RacedInv'
<1> SUFFICES ASSUME (ThreadInv /\ RacedInv), [Next]_vars
             PROVE  RacedInv'
  OBVIOUS
<1> USE WatcherAssumption DEF ThreadInv, TypeInv, HoldsInv, StageInv, Visits, Callbacks,
        NoVisit, NoCallback, Circuits, Known, SetNextIp, Idle, store, threads, RacedInv,
        Followed, TakenUp, TakingUp, Following
<1>1. CASE \E d \in Daemons : StartStep(d)
  BY <1>1 DEF StartStep, TestRoot, CreateRoot
<1>2. CASE ListCircuits
  BY <1>2 DEF ListCircuits
<1>3. CASE \E a \in Auth : GetCircuit(a)
  BY <1>3 DEF GetCircuit
<1>4. CASE WatchCircuit
  BY <1>4 DEF WatchCircuit
<1>5. CASE StoreCircuit
  BY <1>5 DEF StoreCircuit
<1>6. CASE ScanDone
  BY <1>6 DEF ScanDone
<1>7. CASE \E a \in Auth : PickKnown(a)
  BY <1>7 DEF PickKnown
<1>8. CASE RegisterCircuit
  BY <1>8 DEF RegisterCircuit
<1>9. CASE WatchChildren
  BY <1>9 DEF WatchChildren
<1>10. CASE Serve
  BY <1>10 DEF Serve
<1>11. CASE ChildrenChanged
  BY <1>11 DEF ChildrenChanged
<1>12. CASE \E a \in Auth : NextIpChanged(a)
  BY <1>12 DEF NextIpChanged
<1>13. CASE DeleteOldRule
  BY <1>13 DEF DeleteOldRule
<1>14. CASE AddNewRule
  BY <1>14 DEF AddNewRule
<1>15. CASE StoreNewIp
  BY <1>15 DEF StoreNewIp
<1>16. CASE \E a \in Auth : Create(a)
  BY <1>16 DEF Create
<1>17. CASE \E a \in Auth : Redirect(a)
  BY <1>17 DEF Redirect
<1>18. CASE Restart
  BY <1>18 DEF Restart
<1>19. CASE UNCHANGED vars
  BY <1>19 DEF vars
<1> QED  BY <1>1, <1>2, <1>3, <1>4, <1>5, <1>6, <1>7, <1>8, <1>9, <1>10, <1>11, <1>12,
            <1>13, <1>14, <1>15, <1>16, <1>17, <1>18, <1>19
         DEF Next, LoopStep, CallbackStep

-----------------------------------------------------------------------------

\* The invariant holds in every reachable state.
THEOREM Invariant == Spec => []Inv
<1>1. Init => Inv
  BY InitBoot, InitThread DEF Inv, Init, RoutedUnlessSwitching, Followed
<1>2. Inv /\ [Next]_vars => Inv'
  BY NextBoot, NextType, NextHolds, NextStage, NextChildren, NextRaced, NextRouted
     DEF Inv, ThreadInv
<1> QED  BY <1>1, <1>2, PTL DEF Spec

\* Type correctness of the store, the table and the watcher.
THEOREM TypeCorrect == Spec => []TypeOK
<1>1. Inv => TypeOK
  BY DEF Inv, BootInv, BootStates, ThreadInv, TypeInv, Visits, Callbacks, TypeOK
<1> QED  BY <1>1, Invariant, PTL

\* A circuit that has a rule loses it only between del and add of the callback.
THEOREM RoutedButBetweenDelAndAdd == Spec => []RoutedUnlessSwitching
<1>1. Inv => RoutedUnlessSwitching
  BY DEF Inv
<1> QED  BY <1>1, Invariant, PTL

\* When the watcher has nothing to do, the table has the stored next_ip of every
\* circuit that was not redirected while it was taken up, and nothing else.
THEOREM TableFollowsStore == Spec => []FollowsUnlessRaced
<1>1. Inv => FollowsUnlessRaced
  <2> SUFFICES ASSUME Inv, Settled, NEW a \in Circuits \ (raced \cup leftover)
               PROVE  table[a] = {zk[a]}
    BY DEF FollowsUnlessRaced
  <2> USE WatcherAssumption DEF Inv, ThreadInv, TypeInv, HoldsInv, StageInv, Settled, Idle,
      Circuits
  <2>1. todo = {} /\ visit.auth = "none" /\ callback.auth = "none" /\ a # "none"
    OBVIOUS
  <2>2. a \in Known
    BY <2>1 DEF ChildrenInv
  <2>3. watch[a] = "armed"
    BY <2>2
  <2>4. Followed(a)
    BY <2>1, <2>2, <2>3 DEF Followed
  <2> QED  BY <2>1, <2>3, <2>4 DEF RacedInv, Following
<1> QED  BY <1>1, Invariant, PTL
=============================================================================
