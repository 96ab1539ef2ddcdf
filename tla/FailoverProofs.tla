--------------------------- MODULE FailoverProofs ---------------------------
(***************************************************************************)
(* Theorems about failoverd, for every number of PoPs, nodes, checks and   *)
(* failures, for prompt networks and for networks that lose and delay.     *)
(***************************************************************************)
EXTENDS Failover, FiniteSetTheorems, WellFoundedInduction, TLAPS

-----------------------------------------------------------------------------
(* The invariant. *)

\* What becomes of a ping; none fails in a prompt network.
Outcomes == {"pending", "0", "1", "late"} \cup (IF Prompt THEN {} ELSE {"x"})

Results == UNION {[S -> Outcomes] : S \in SUBSET Nodes}

HandlerType ==
    [pc : {"none", "sent", "wait", "add", "answer", "set", "done"},
     node : Nodes \cup {NoNode}, cur : Nodes \cup {NoNode}, target : Nodes \cup {NoNode},
     res : Results, ans : {"none", "0", "1"}]

\* A handler d of PoP n works on a node of PoP n and for nodes of the next PoP.
Fits(n, d) ==
    /\ d.pc # "none" => d.node \in Range(Hosts[n])
    /\ d.pc \in {"wait", "add", "answer", "set"} => n < N /\ d.cur \in NextHops(n)
    /\ d.pc = "wait" => DOMAIN d.res = NextHops(n)
    /\ d.pc \in {"add", "answer", "set"} => d.target \in NextHops(n)

\* Every handler fits its PoP, and a check gets to a PoP from the one before it.
HandlersInv ==
    /\ handler \in [Checks -> [PoPs -> HandlerType]]
    /\ \A k \in Checks, n \in PoPs : Fits(n, handler[k][n])
    /\ \A k \in Checks, n \in 1..(N - 1) :
          handler[k][n].pc \in {"none", "sent"} => handler[k][n + 1].pc = "none"

\* The store names a node of the next PoP.
HopsInv ==
    /\ nextIp \in [1..(N - 1) -> Nodes]
    /\ \A n \in 1..(N - 1) : nextIp[n] \in NextHops(n)

\* The checks that were sent.
Sent == {k \in Checks : handler[k][1].pc # "none"}

RestInv ==
    /\ table \in [Nodes -> SUBSET Nodes]
    /\ up \in SUBSET Nodes
    /\ short \in SUBSET (1..(N - 1))
    /\ batches \in 0..Cardinality(Sent)

\* A handler between del and add of its node h of PoP n.
Switching(n, h) == \E k \in Checks : handler[k][n].pc = "add" /\ handler[k][n].node = h

Inv == HandlersInv /\ HopsInv /\ RestInv /\ RoutedUnlessSwitching

-----------------------------------------------------------------------------
(* PoPs and nodes. *)

\* The nodes of a PoP are nodes, and there is one.
LEMMA HostsAreNodes ==
    ASSUME NEW n \in PoPs
    PROVE  /\ Range(Hosts[n]) \subseteq Nodes
           /\ Hosts[n] # << >> /\ 1 \in DOMAIN Hosts[n] /\ DOMAIN Hosts[n] \subseteq Nat
           /\ Hosts[n][1] \in Range(Hosts[n])
<1>1. Hosts[n] \in Seq(Range(Hosts[n])) /\ Hosts[n] # << >>
  BY HostsAssumption DEF PoPs
<1>2. Range(Hosts[n]) \subseteq Nodes
  BY DEF Nodes
<1>3. DOMAIN Hosts[n] = 1..Len(Hosts[n]) /\ Len(Hosts[n]) \in Nat /\ Len(Hosts[n]) # 0
  BY <1>1
<1>4. 1 \in DOMAIN Hosts[n] /\ DOMAIN Hosts[n] \subseteq Nat
  BY <1>3
<1> QED  BY <1>1, <1>2, <1>4 DEF Range

\* Before the last PoP there is a next one.
LEMMA NextPoP ==
    ASSUME NEW n \in PoPs, n < N
    PROVE  n \in 1..(N - 1) /\ n + 1 \in PoPs /\ n + 1 # n /\ NextHops(n) \subseteq Nodes
           /\ n + 1 # 1
<1>1. n \in 1..(N - 1) /\ n + 1 \in PoPs /\ n + 1 # n /\ n + 1 # 1
  BY HostsAssumption DEF PoPs
<1> QED  BY <1>1, HostsAreNodes DEF NextHops

\* And a hop before the last PoP is one of a PoP.
LEMMA HopPoP ==
    ASSUME NEW n \in 1..(N - 1)
    PROVE  n \in PoPs /\ n < N
  BY HostsAssumption DEF PoPs

\* A set of numbers has a least one.
LEMMA MinIsMember ==
    ASSUME NEW S \in SUBSET Nat, S # {}
    PROVE  Min(S) \in S /\ \A x \in S : Min(S) <= x
<1>1. PICK x \in S : \A y \in S : ~(<<y, x>> \in OpToRel(<, Nat))
  BY NatLessThanWellFounded, WFMin
<1>2. \A y \in S : x <= y
  <2> SUFFICES ASSUME NEW y \in S, ~(x <= y)
               PROVE  FALSE
    OBVIOUS
  <2>1. y < x /\ <<y, x>> \in Nat \X Nat
    OBVIOUS
  <2>2. <<y, x>> \in OpToRel(<, Nat)
    BY <2>1 DEF OpToRel
  <2> QED  BY <1>1, <2>2
<1> QED  BY <1>1, <1>2 DEF Min

\* The node that a switch picks is one of the next PoP.
LEMMA TargetIsHop ==
    ASSUME NEW n \in PoPs, n < N, NEW k, Working(k, n) # {}
    PROVE  Hosts[n + 1][Min(Working(k, n))] \in NextHops(n)
<1>1. n + 1 \in PoPs
  BY NextPoP
<1>2. Working(k, n) \subseteq DOMAIN Hosts[n + 1] /\ Working(k, n) \in SUBSET Nat
  BY <1>1, HostsAreNodes DEF Working
<1>3. Min(Working(k, n)) \in DOMAIN Hosts[n + 1]
  BY <1>2, MinIsMember
<1> QED  BY <1>3 DEF NextHops, Range

\* An outcome of a ping changes.
LEMMA ResultsUpdate ==
    ASSUME NEW r \in Results, NEW h \in DOMAIN r, NEW v \in Outcomes
    PROVE  [r EXCEPT ![h] = v] \in Results /\ DOMAIN [r EXCEPT ![h] = v] = DOMAIN r
<1>1. PICK S \in SUBSET Nodes : r \in [S -> Outcomes]
  BY DEF Results
<1>2. [r EXCEPT ![h] = v] \in [S -> Outcomes]
  BY <1>1
<1> QED  BY <1>1, <1>2 DEF Results

\* The outcomes at the start of the pings.
LEMMA ResultsStart ==
    ASSUME NEW S \in SUBSET Nodes
    PROVE  [h \in S |-> "pending"] \in Results /\ DOMAIN [h \in S |-> "pending"] = S
<1>1. [h \in S |-> "pending"] \in [S -> Outcomes]
  BY DEF Outcomes
<1> QED  BY <1>1 DEF Results

\* A datagram that asks to check.
LEMMA SentType ==
    ASSUME NEW n \in PoPs, NEW h \in Range(Hosts[n])
    PROVE  /\ NoHandler \in HandlerType /\ NoHandler.pc = "none"
           /\ SentTo(h) \in HandlerType /\ SentTo(h).pc = "sent" /\ Fits(n, SentTo(h))
<1>1. [g \in {} |-> "pending"] \in Results
  BY ResultsStart
<1>2. h \in Nodes
  BY HostsAreNodes
<1> QED  BY <1>1, <1>2 DEF NoHandler, SentTo, HandlerType, Fits

-----------------------------------------------------------------------------
(* The handlers. *)

\* Handler (k, n) becomes d and no other one changes.
Becomes(k, n, d) == handler' = [handler EXCEPT ![k] = [@ EXCEPT ![n] = d]]

\* What that means.
LEMMA BecomesPointwise ==
    ASSUME handler \in [Checks -> [PoPs -> HandlerType]], NEW k \in Checks, NEW n \in PoPs,
           NEW d \in HandlerType, Becomes(k, n, d)
    PROVE  /\ handler' \in [Checks -> [PoPs -> HandlerType]]
           /\ \A j \in Checks, m \in PoPs :
                 handler'[j][m] = IF j = k /\ m = n THEN d ELSE handler[j][m]
  BY DEF Becomes

\* A handler that runs becomes one that has gone on.
LEMMA BecomesKeeps ==
    ASSUME HandlersInv, NEW k \in Checks, NEW n \in PoPs, NEW d \in HandlerType, Fits(n, d),
           Becomes(k, n, d), handler[k][n].pc # "none", d.pc \notin {"none", "sent"}
    PROVE  HandlersInv' /\ Sent' = Sent
<1>1. /\ handler' \in [Checks -> [PoPs -> HandlerType]]
      /\ \A j \in Checks, m \in PoPs :
            handler'[j][m] = IF j = k /\ m = n THEN d ELSE handler[j][m]
  BY BecomesPointwise DEF HandlersInv
<1>2. \A j \in Checks, m \in PoPs : Fits(m, handler'[j][m])
  BY <1>1 DEF HandlersInv
<1>3. \A j \in Checks, m \in 1..(N - 1) :
         handler'[j][m].pc \in {"none", "sent"} => handler'[j][m + 1].pc = "none"
  BY <1>1, HopPoP, NextPoP DEF HandlersInv
<1>4. 1 \in PoPs
  BY HostsAssumption DEF PoPs
<1>5. Sent' = Sent
  BY <1>1, <1>4 DEF Sent
<1> QED  BY <1>1, <1>2, <1>3, <1>5 DEF HandlersInv, Fits

\* A ping ends, or fails.
PingEnds(k, n, h) == PingStep(k, n, h) \/ PingFails(k, n, h)

\* Its handler has an outcome more.
LEMMA PingKeeps ==
    ASSUME HandlersInv, NEW k \in Checks, NEW n \in PoPs, n < N, NEW h, PingEnds(k, n, h)
    PROVE  HandlersInv' /\ Sent' = Sent
<1>1. /\ handler[k][n].pc = "wait" /\ h \in NextHops(n)
      /\ \E v \in Outcomes : handler' = [handler EXCEPT ![k][n].res[h] = v]
  <2>1. CASE AnswerPing(k, n, h)
    BY <2>1 DEF AnswerPing, Pending, Outcomes
  <2>2. CASE AnswerCheck(k, n, h)
    <3>1. handler[k][n + 1].ans \in {"0", "1"}
      BY <2>2, NextPoP DEF AnswerCheck, HandlersInv, HandlerType
    <3> QED  BY <2>2, <3>1 DEF AnswerCheck, Pending, Outcomes
  <2>3. CASE TimesOut(k, n, h)
    BY <2>3 DEF TimesOut, Pending, Outcomes
  <2>4. CASE PingFails(k, n, h)
    BY <2>4 DEF PingFails, Pending, Outcomes
  <2> QED  BY <2>1, <2>2, <2>3, <2>4 DEF PingEnds, PingStep
<1>2. PICK v \in Outcomes : handler' = [handler EXCEPT ![k][n].res[h] = v]
  BY <1>1
<1> DEFINE r == [handler[k][n].res EXCEPT ![h] = v]
           d == [handler[k][n] EXCEPT !.res = r]
<1>3. handler[k][n] \in HandlerType /\ Fits(n, handler[k][n])
  BY DEF HandlersInv
<1>4. r \in Results /\ DOMAIN r = NextHops(n)
  BY <1>1, <1>3, ResultsUpdate DEF HandlerType, Fits, Outcomes
<1>5. Becomes(k, n, d)
  BY <1>2 DEF Becomes
<1> HIDE DEF r
<1>6. d \in HandlerType /\ Fits(n, d) /\ d.pc = "wait"
  BY <1>1, <1>3, <1>4 DEF HandlerType, Fits
<1> HIDE DEF d
<1> QED  BY <1>1, <1>5, <1>6, BecomesKeeps

\* The current next hop is given up for one that answered.
LEMMA DelRuleKeeps ==
    ASSUME HandlersInv, NEW k \in Checks, NEW n \in PoPs, n < N, DelRule(k, n)
    PROVE  HandlersInv' /\ Sent' = Sent
           /\ handler'[k][n].pc = "add" /\ handler'[k][n].node = handler[k][n].node
<1> DEFINE t == Hosts[n + 1][Min(Working(k, n))]
           d == [handler[k][n] EXCEPT !.target = t, !.pc = "add"]
<1>1. t \in NextHops(n) /\ t \in Nodes
  BY TargetIsHop, NextPoP DEF DelRule, Switches
<1>2. handler[k][n] \in HandlerType /\ Fits(n, handler[k][n]) /\ handler[k][n].pc = "wait"
  BY DEF HandlersInv, DelRule, Switches, Joined
<1>3. Becomes(k, n, d)
  BY DEF Becomes, DelRule
<1> HIDE DEF t
<1>4. /\ d \in HandlerType /\ Fits(n, d) /\ d.pc = "add" /\ d.node = handler[k][n].node
  BY <1>1, <1>2 DEF HandlerType, Fits
<1> HIDE DEF d
<1> QED  BY <1>2, <1>3, <1>4, BecomesKeeps, BecomesPointwise DEF HandlersInv

\* The other steps of a handler.
LEMMA GoesOn ==
    ASSUME HandlersInv, NEW k \in Checks, NEW n \in PoPs, handler[k][n].pc # "none",
           NEW pc \in {"answer", "set", "done"}, NEW ans \in {"none", "0", "1"},
           pc \in {"answer", "set"} => handler[k][n].pc \in {"add", "answer"},
           handler' = [handler EXCEPT ![k][n].ans = ans, ![k][n].pc = pc]
    PROVE  HandlersInv' /\ Sent' = Sent
<1> DEFINE d == [handler[k][n] EXCEPT !.ans = ans, !.pc = pc]
<1>1. handler[k][n] \in HandlerType /\ Fits(n, handler[k][n])
  BY DEF HandlersInv
<1>2. Becomes(k, n, d)
  BY DEF Becomes
<1>3. d \in HandlerType /\ Fits(n, d) /\ d.pc = pc
  BY <1>1 DEF HandlerType, Fits
<1> HIDE DEF d
<1> QED  BY <1>2, <1>3, BecomesKeeps

\* A client's check.
LEMMA SendKeeps ==
    ASSUME HandlersInv, NEW k \in Checks, SendCheck(k)
    PROVE  HandlersInv' /\ Sent' = Sent \cup {k} /\ k \notin Sent
<1>0. 1 \in PoPs
  BY HostsAssumption DEF PoPs
<1>1. PICK h \in Range(Hosts[1]) : handler' = [handler EXCEPT ![k][1] = SentTo(h)]
  BY DEF SendCheck
<1> DEFINE d == SentTo(h)
<1>2. d \in HandlerType /\ Fits(1, d) /\ d.pc = "sent"
  BY <1>0, SentType
<1>3. Becomes(k, 1, d)
  BY <1>1 DEF Becomes
<1> HIDE DEF d
<1>4. /\ handler' \in [Checks -> [PoPs -> HandlerType]]
      /\ \A j \in Checks, m \in PoPs :
            handler'[j][m] = IF j = k /\ m = 1 THEN d ELSE handler[j][m]
  BY <1>0, <1>2, <1>3, BecomesPointwise DEF HandlersInv
<1>5. handler[k][1].pc = "none"
  BY DEF SendCheck
<1>6. \A j \in Checks, m \in PoPs : Fits(m, handler'[j][m])
  BY <1>2, <1>4 DEF HandlersInv
<1>7. \A j \in Checks, m \in 1..(N - 1) :
         handler'[j][m].pc \in {"none", "sent"} => handler'[j][m + 1].pc = "none"
  BY <1>4, <1>5, HopPoP, NextPoP DEF HandlersInv
<1>8. Sent' = Sent \cup {k} /\ k \notin Sent
  BY <1>0, <1>2, <1>4, <1>5 DEF Sent
<1> QED  BY <1>4, <1>6, <1>7, <1>8 DEF HandlersInv, Fits

\* A node receives a check, and asks the current next hop unless it takes itself for
\* a node of the last PoP.
LEMMA ReceiveKeeps ==
    ASSUME HandlersInv, HopsInv, NEW k \in Checks, NEW n \in PoPs, ReceiveCheck(k, n)
    PROVE  HandlersInv' /\ Sent' = Sent
           /\ \A j \in Checks, m \in PoPs : handler[j][m].pc = "add" =>
                  handler'[j][m] = handler[j][m]
<1>1. handler[k][n].pc = "sent" /\ handler[k][n] \in HandlerType /\ Fits(n, handler[k][n])
  BY DEF ReceiveCheck, HandlersInv
<1>2. CASE n = N \/ n \in short
  <2> DEFINE d == [handler[k][n] EXCEPT !.ans = "1", !.pc = "done"]
  <2>1. Becomes(k, n, d)
    <3>1. handler' = [handler EXCEPT ![k][n].ans = "1", ![k][n].pc = "done"]
      BY <1>2, Zenon DEF ReceiveCheck
    <3> QED  BY <3>1 DEF Becomes
  <2>2. d \in HandlerType /\ Fits(n, d) /\ d.pc = "done"
    BY <1>1 DEF HandlerType, Fits
  <2> HIDE DEF d
  <2> QED  BY <1>1, <2>1, <2>2, BecomesKeeps, BecomesPointwise DEF HandlersInv
<1>3. CASE n < N /\ ~(n = N \/ n \in short)
  <2> DEFINE r == [h \in NextHops(n) |-> "pending"]
             d == [handler[k][n] EXCEPT !.cur = nextIp[n], !.res = r, !.pc = "wait"]
             e == SentTo(nextIp[n])
  <2>1. n \in 1..(N - 1) /\ n + 1 \in PoPs /\ n + 1 # n /\ NextHops(n) \subseteq Nodes
        /\ n + 1 # 1
    BY <1>3, NextPoP
  <2>2. nextIp[n] \in NextHops(n) /\ nextIp[n] \in Nodes /\ nextIp[n] \in Range(Hosts[n + 1])
    BY <2>1 DEF HopsInv, NextHops
  <2>3. r \in Results /\ DOMAIN r = NextHops(n)
    BY <2>1, ResultsStart
  <2>4. e \in HandlerType /\ Fits(n + 1, e) /\ e.pc = "sent"
    BY <2>1, <2>2, SentType
  <2>5. handler' = [handler EXCEPT ![k] = [[@ EXCEPT ![n] = d] EXCEPT ![n + 1] = e]]
    <3>1. handler' = [handler EXCEPT ![k][n].cur = nextIp[n], ![k][n].res = r,
                                     ![k][n].pc = "wait", ![k][n + 1] = e]
      BY <1>3, Zenon DEF ReceiveCheck
    <3> HIDE DEF r, e
    <3> QED  BY <3>1
  <2> HIDE DEF r, e
  <2>6. d \in HandlerType /\ Fits(n, d) /\ d.pc = "wait"
    BY <1>1, <1>3, <2>2, <2>3 DEF HandlerType, Fits
  <2> HIDE DEF d
  <2>7. /\ handler' \in [Checks -> [PoPs -> HandlerType]]
        /\ \A j \in Checks, m \in PoPs :
              handler'[j][m] = IF j = k /\ m = n THEN d
                               ELSE IF j = k /\ m = n + 1 THEN e ELSE handler[j][m]
    BY <2>1, <2>4, <2>5, <2>6 DEF HandlersInv
  <2>8. handler[k][n + 1].pc = "none"
    BY <1>1, <2>1 DEF HandlersInv
  <2>9. \A j \in Checks, m \in PoPs : Fits(m, handler'[j][m])
    BY <2>4, <2>6, <2>7 DEF HandlersInv
  <2>10. \A j \in Checks, m \in 1..(N - 1) :
            handler'[j][m].pc \in {"none", "sent"} => handler'[j][m + 1].pc = "none"
    BY <1>1, <2>1, <2>4, <2>6, <2>7, <2>8, HopPoP, NextPoP DEF HandlersInv
  <2>11. 1 \in PoPs
    BY HostsAssumption DEF PoPs
  <2>12. Sent' = Sent
    BY <1>1, <2>1, <2>6, <2>7, <2>11 DEF Sent
  <2> QED  BY <1>1, <2>7, <2>8, <2>9, <2>10, <2>12 DEF HandlersInv, Fits
<1>4. n = N \/ n < N
  BY HostsAssumption DEF PoPs
<1> QED  BY <1>2, <1>3, <1>4

-----------------------------------------------------------------------------
(* Every step. *)

\* How a step of the handlers is put together from those above.
HandlerSteps(k, n) ==
    \/ ReceiveCheck(k, n)
    \/ n < N /\ \E h \in Nodes : PingEnds(k, n, h)
    \/ n < N /\ (SwitchStep(k, n) \/ AnswerFailure(k, n))
    \/ StoreFails(k, n)

\* A step is one of a client, a handler or a node that stops.
LEMMA NextSteps ==
    [Next]_vars => \/ \E k \in Checks : SendCheck(k)
                   \/ \E k \in Checks, n \in PoPs : HandlerSteps(k, n)
                   \/ \E h \in Nodes : Crash(h)
                   \/ UNCHANGED vars
  BY DEF Next, HandlerStep, HandlerSteps, PingEnds

\* What a handler leaves alone.
LEMMA HandlerFrame ==
    ASSUME NEW k \in Checks, NEW n \in PoPs, HandlerSteps(k, n)
    PROVE  /\ UNCHANGED <<up, short, batches>>
           /\ (n < N /\ SetNextIp(k, n)) \/ UNCHANGED nextIp
           /\ (n < N /\ (DelRule(k, n) \/ AddRule(k, n))) \/ UNCHANGED table
<1>1. CASE ReceiveCheck(k, n)
  BY <1>1 DEF ReceiveCheck
<1>2. CASE n < N /\ \E h \in Nodes : PingEnds(k, n, h)
  BY <1>2 DEF PingEnds, PingStep, AnswerPing, AnswerCheck, TimesOut, PingFails
<1>3. CASE n < N /\ (DelRule(k, n) \/ AddRule(k, n))
  BY <1>3 DEF DelRule, AddRule
<1>4. CASE n < N /\ (AnswerSuccess(k, n) \/ SetNextIp(k, n))
  BY <1>4 DEF AnswerSuccess, SetNextIp
<1>5. CASE AnswerFailure(k, n) \/ StoreFails(k, n)
  BY <1>5 DEF AnswerFailure, StoreFails
<1> QED  BY <1>1, <1>2, <1>3, <1>4, <1>5 DEF HandlerSteps, SwitchStep

\* A step of a handler leaves handlers that fit their PoPs.
LEMMA HandlerKeepsHandlers ==
    ASSUME HandlersInv, HopsInv, NEW k \in Checks, NEW n \in PoPs, HandlerSteps(k, n)
    PROVE  HandlersInv' /\ Sent' = Sent
<1> DEFINE Same == handler[k][n].ans
<1>0. handler[k][n] \in HandlerType /\ Same \in {"none", "0", "1"}
  BY DEF HandlersInv, HandlerType
<1>1. CASE ReceiveCheck(k, n)
  BY <1>1, ReceiveKeeps
<1>2. CASE n < N /\ \E h \in Nodes : PingEnds(k, n, h)
  BY <1>2, PingKeeps
<1>3. CASE n < N /\ DelRule(k, n)
  BY <1>3, DelRuleKeeps
<1>4. CASE AddRule(k, n)
  <2>1. handler[k][n].pc = "add"
    BY <1>4 DEF AddRule
  <2>2. handler' = [handler EXCEPT ![k][n].ans = Same, ![k][n].pc = "answer"]
    BY <1>0, <1>4 DEF AddRule, HandlersInv, HandlerType
  <2> HIDE DEF Same
  <2> QED  BY <1>0, <2>1, <2>2, GoesOn
<1>5. CASE AnswerSuccess(k, n)
  BY <1>5, GoesOn DEF AnswerSuccess
<1>6. CASE SetNextIp(k, n)
  <2>1. handler[k][n].pc = "set"
    BY <1>6 DEF SetNextIp
  <2>2. handler' = [handler EXCEPT ![k][n].ans = Same, ![k][n].pc = "done"]
    BY <1>0, <1>6 DEF SetNextIp, HandlersInv, HandlerType
  <2> HIDE DEF Same
  <2> QED  BY <1>0, <2>1, <2>2, GoesOn
<1>7. CASE AnswerFailure(k, n)
  BY <1>7, GoesOn DEF AnswerFailure, Joined
<1>8. CASE StoreFails(k, n)
  <2>1. handler[k][n].pc # "none"
    BY <1>8 DEF StoreFails
  <2>2. handler' = [handler EXCEPT ![k][n].ans = Same, ![k][n].pc = "done"]
    BY <1>0, <1>8 DEF StoreFails, HandlersInv, HandlerType
  <2> HIDE DEF Same
  <2> QED  BY <1>0, <2>1, <2>2, GoesOn
<1> QED  BY <1>1, <1>2, <1>3, <1>4, <1>5, <1>6, <1>7, <1>8 DEF HandlerSteps,
            SwitchStep

\* The handlers go on to fit their PoPs.
LEMMA NextHandlers ==
    ASSUME HandlersInv, HopsInv, [Next]_vars
    PROVE  /\ HandlersInv'
           /\ \/ Sent' = Sent
              \/ \E k \in Checks : SendCheck(k) /\ k \notin Sent /\ Sent' = Sent \cup {k}
<1>1. CASE \E k \in Checks : SendCheck(k)
  BY <1>1, SendKeeps
<1>2. CASE UNCHANGED handler
  BY <1>2 DEF HandlersInv, Sent, Fits
<1>3. CASE \E k \in Checks, n \in PoPs : HandlerSteps(k, n)
  BY <1>3, HandlerKeepsHandlers
<1> QED  BY <1>1, <1>2, <1>3, NextSteps DEF Crash, vars

\* Only a switch writes next_ip, the node that it picked.
LEMMA NextStore ==
    ASSUME HandlersInv, HopsInv, [Next]_vars
    PROVE  \/ UNCHANGED nextIp
           \/ \E n \in 1..(N - 1), h \in Nodes : h \in NextHops(n)
                                                 /\ nextIp' = [nextIp EXCEPT ![n] = h]
<1>1. CASE \E k \in Checks, n \in PoPs : n < N /\ SetNextIp(k, n)
  <2>1. PICK k \in Checks, n \in PoPs : n < N /\ SetNextIp(k, n)
    BY <1>1
  <2>2. handler[k][n].target \in NextHops(n)
    BY <2>1 DEF HandlersInv, Fits, SetNextIp
  <2>3. n \in 1..(N - 1) /\ handler[k][n].target \in Nodes
    BY <2>1, <2>2, NextPoP
  <2> QED  BY <2>1, <2>2, <2>3 DEF SetNextIp
<1>2. CASE ~\E k \in Checks, n \in PoPs : n < N /\ SetNextIp(k, n)
  BY <1>2, NextSteps, HandlerFrame DEF SendCheck, Crash, vars
<1> QED  BY <1>1, <1>2

\* The store goes on to name a node of the next PoP.
LEMMA NextHopsInv ==
    ASSUME HandlersInv, HopsInv, [Next]_vars
    PROVE  HopsInv'
<1>1. CASE UNCHANGED nextIp
  BY <1>1 DEF HopsInv
<1>2. CASE \E n \in 1..(N - 1), h \in Nodes : h \in NextHops(n)
                                              /\ nextIp' = [nextIp EXCEPT ![n] = h]
  BY <1>2 DEF HopsInv
<1> QED  BY <1>1, <1>2, NextStore

\* The other variables keep their types.
LEMMA NextRest ==
    ASSUME HandlersInv, HopsInv, RestInv, [Next]_vars
    PROVE  RestInv'
<1>1. table' \in [Nodes -> SUBSET Nodes]
  <2>1. CASE \E k \in Checks, n \in PoPs : AddRule(k, n)
    <3>1. PICK k \in Checks, n \in PoPs : AddRule(k, n)
      BY <2>1
    <3>2. handler[k][n].target \in Nodes
      BY <3>1, NextPoP DEF HandlersInv, Fits, AddRule
    <3> QED  BY <3>1, <3>2 DEF AddRule, RestInv
  <2>2. CASE \E k \in Checks, n \in PoPs : DelRule(k, n)
    <3>1. PICK k \in Checks, n \in PoPs : DelRule(k, n)
      BY <2>2
    <3>2. table' = [table EXCEPT ![handler[k][n].node] = @ \ {handler[k][n].cur}]
      BY <3>1 DEF DelRule
    <3> QED  BY <3>2 DEF RestInv
  <2>3. CASE UNCHANGED table
    BY <2>3 DEF RestInv
  <2> QED  BY <2>1, <2>2, <2>3, NextSteps, HandlerFrame DEF SendCheck, Crash, vars
<1>2. up' \in SUBSET Nodes /\ short' \in SUBSET (1..(N - 1))
  BY NextSteps, HandlerFrame DEF RestInv, SendCheck, Crash, vars
<1>3. IsFiniteSet(Sent) /\ Cardinality(Sent) \in Nat
  BY ChecksAssumption, FS_Subset, FS_CardinalityType DEF Sent
<1>4. CASE \E k \in Checks : SendCheck(k)
  <2>1. PICK k \in Checks : SendCheck(k)
    BY <1>4
  <2>2. k \notin Sent /\ Sent' = Sent \cup {k}
    BY <2>1, SendKeeps
  <2>3. Cardinality(Sent') = Cardinality(Sent) + 1
    BY <1>3, <2>2, FS_AddElement
  <2>4. batches' \in {batches, batches + 1}
    BY <2>1 DEF SendCheck
  <2> QED  BY <1>1, <1>2, <1>3, <2>3, <2>4 DEF RestInv
<1>5. CASE ~\E k \in Checks : SendCheck(k)
  <2>1. Sent' = Sent
    BY <1>5, NextHandlers
  <2>2. UNCHANGED batches
    BY <1>5, NextSteps, HandlerFrame DEF Crash, vars
  <2> QED  BY <1>1, <1>2, <2>1, <2>2 DEF RestInv
<1> QED  BY <1>4, <1>5

\* A node is in one PoP, so del and add at another PoP leave its rules alone.
LEMMA NextRouted ==
    ASSUME HandlersInv, HopsInv, RestInv, RoutedUnlessSwitching, [Next]_vars
    PROVE  RoutedUnlessSwitching'
<1> SUFFICES ASSUME NEW m \in 1..(N - 1), NEW g \in Range(Hosts[m]), table'[g] = {}
             PROVE  Switching(m, g)'
  BY DEF RoutedUnlessSwitching, Switching
<1>0. m \in PoPs /\ g \in Nodes
  BY HopPoP, HostsAreNodes
<1>1. CASE \E k \in Checks, n \in PoPs : n < N /\ DelRule(k, n)
  <2>1. PICK k \in Checks, n \in PoPs : n < N /\ DelRule(k, n)
    BY <1>1
  <2>2. handler'[k][n].pc = "add" /\ handler'[k][n].node = handler[k][n].node
    BY <2>1, DelRuleKeeps
  <2>3. handler[k][n].node \in Range(Hosts[n]) /\ handler[k][n].pc = "wait"
    BY <2>1 DEF HandlersInv, Fits, DelRule, Switches, Joined
  <2>4. CASE handler[k][n].node = g
    <3>1. n = m
      BY <1>0, <2>3, <2>4, HostsAssumption DEF PoPs
    <3> QED  BY <2>2, <2>4, <3>1 DEF Switching
  <2>5. CASE handler[k][n].node # g
    <3>1. table[g] = {}
      BY <1>0, <2>1, <2>5 DEF DelRule, RestInv
    <3>2. PICK j \in Checks : handler[j][m].pc = "add" /\ handler[j][m].node = g
      BY <3>1 DEF RoutedUnlessSwitching
    <3>3. handler'[j][m] = handler[j][m]
      BY <1>0, <2>1, <2>3, <3>2 DEF DelRule, HandlersInv
    <3> QED  BY <3>2, <3>3 DEF Switching
  <2> QED  BY <2>4, <2>5
<1>2. CASE \E k \in Checks, n \in PoPs : n < N /\ AddRule(k, n)
  <2>1. PICK k \in Checks, n \in PoPs : n < N /\ AddRule(k, n)
    BY <1>2
  <2>2. handler[k][n].node # g
    BY <1>0, <2>1 DEF AddRule, RestInv
  <2>3. table[g] = {}
    BY <1>0, <2>1, <2>2 DEF AddRule, RestInv
  <2>4. PICK j \in Checks : handler[j][m].pc = "add" /\ handler[j][m].node = g
    BY <2>3 DEF RoutedUnlessSwitching
  <2>5. handler'[j][m].pc = handler[j][m].pc /\ handler'[j][m].node = handler[j][m].node
    BY <1>0, <2>1, <2>2, <2>4 DEF AddRule, HandlersInv
  <2> QED  BY <2>4, <2>5 DEF Switching
<1>3. CASE ~\E k \in Checks, n \in PoPs : n < N /\ (DelRule(k, n) \/ AddRule(k, n))
  <2>1. UNCHANGED table
    BY <1>3, NextSteps, HandlerFrame DEF SendCheck, Crash, vars
  <2>2. PICK j \in Checks : handler[j][m].pc = "add" /\ handler[j][m].node = g
    BY <2>1 DEF RoutedUnlessSwitching
  <2>3. handler'[j][m].pc = "add" /\ handler'[j][m].node = g
    <3>1. CASE \E k \in Checks, n \in PoPs : ReceiveCheck(k, n)
      BY <1>0, <2>2, <3>1, ReceiveKeeps
    <3>2. CASE \E k \in Checks, n \in PoPs : n < N /\ \E h \in Nodes : PingEnds(k, n, h)
      BY <1>0, <2>2, <3>2 DEF PingEnds, PingStep, AnswerPing, AnswerCheck, TimesOut,
         PingFails, Pending, HandlersInv
    <3>3. CASE \E k \in Checks, n \in PoPs : AnswerSuccess(k, n)
      BY <1>0, <2>2, <3>3 DEF AnswerSuccess, HandlersInv
    <3>4. CASE \E k \in Checks, n \in PoPs : SetNextIp(k, n)
      BY <1>0, <2>2, <3>4 DEF SetNextIp, HandlersInv
    <3>5. CASE \E k \in Checks, n \in PoPs : AnswerFailure(k, n)
      BY <1>0, <2>2, <3>5 DEF AnswerFailure, Joined, HandlersInv
    <3>6. CASE \E k \in Checks, n \in PoPs : StoreFails(k, n)
      BY <1>0, <2>2, <3>6 DEF StoreFails, HandlersInv
    <3>7. CASE \E k \in Checks : SendCheck(k)
      BY <1>0, <2>2, <3>7 DEF SendCheck, HandlersInv
    <3>8. CASE UNCHANGED handler
      BY <2>2, <3>8
    <3> QED  BY <1>3, <3>1, <3>2, <3>3, <3>4, <3>5, <3>6, <3>7, <3>8
             DEF Next, HandlerStep, PingEnds, SwitchStep, Crash, vars
  <2> QED  BY <2>3 DEF Switching
<1> QED  BY <1>1, <1>2, <1>3

-----------------------------------------------------------------------------
(* The theorems. *)

\* No check is on its way, and every node has its rule.
LEMMA InitInv == Init => Inv
<1> SUFFICES ASSUME Init
             PROVE  Inv
  OBVIOUS
<1>1. ASSUME NEW n \in 1..(N - 1)
      PROVE  /\ n \in PoPs /\ n + 1 \in PoPs
             /\ Hosts[n + 1][1] \in NextHops(n) /\ Hosts[n + 1][1] \in Nodes
  <2>1. n \in PoPs /\ n + 1 \in PoPs /\ NextHops(n) \subseteq Nodes
    BY HopPoP, NextPoP
  <2> QED  BY <2>1, HostsAreNodes DEF NextHops
<1>2. HopsInv
  BY <1>1 DEF Init, HopsInv
<1>3. NoHandler \in HandlerType /\ NoHandler.pc = "none"
  <2>1. 1 \in PoPs
    BY HostsAssumption DEF PoPs
  <2> QED  BY <2>1, SentType, HostsAreNodes
<1>4. HandlersInv
  BY <1>1, <1>3 DEF Init, HandlersInv, Fits
<1>5. \A h \in Nodes :
         table[h] = {Hosts[n + 1][1] : n \in {m \in 1..(N - 1) : h \in Range(Hosts[m])}}
  BY DEF Init
<1>6. RestInv
  <2>1. table \in [Nodes -> SUBSET Nodes]
    BY <1>1 DEF Init
  <2>2. batches \in 0..Cardinality(Sent)
    <3>1. IsFiniteSet(Sent) /\ Cardinality(Sent) \in Nat
      BY ChecksAssumption, FS_Subset, FS_CardinalityType DEF Sent
    <3> QED  BY <3>1 DEF Init
  <2> QED  BY <2>1, <2>2 DEF Init, RestInv
<1>7. RoutedUnlessSwitching
  <2> SUFFICES ASSUME NEW n \in 1..(N - 1), NEW h \in Range(Hosts[n])
               PROVE  table[h] # {}
    BY DEF RoutedUnlessSwitching
  <2>1. h \in Nodes
    BY <1>1, HostsAreNodes
  <2>2. Hosts[n + 1][1] \in table[h]
    BY <1>5, <2>1
  <2> QED  BY <2>2
<1> QED  BY <1>2, <1>4, <1>6, <1>7 DEF Inv

\* The invariant holds in every reachable state.
THEOREM Invariant == Spec => []Inv
<1>1. Inv /\ [Next]_vars => Inv'
  BY NextHandlers, NextHopsInv, NextRest, NextRouted DEF Inv
<1> QED  BY <1>1, InitInv, PTL DEF Spec

\* Type correctness of the store, the tables and the handlers.
THEOREM TypeCorrect == Spec => []TypeOK
<1>1. Inv => TypeOK
  <2> SUFFICES ASSUME Inv
               PROVE  TypeOK
    OBVIOUS
  <2>1. batches \in 0..Cardinality(Checks)
    <3>1. Cardinality(Sent) <= Cardinality(Checks) /\ Cardinality(Sent) \in Nat
          /\ Cardinality(Checks) \in Nat
      BY ChecksAssumption, FS_Subset, FS_CardinalityType DEF Sent
    <3> QED  BY <3>1 DEF Inv, RestInv
  <2>2. ASSUME NEW k \in Checks, NEW n \in PoPs
        PROVE  LET d == handler[k][n] IN
               /\ d.pc \in {"none", "sent", "wait", "add", "answer", "set", "done"}
               /\ {d.node, d.cur, d.target} \subseteq Nodes \cup {NoNode}
               /\ d.ans \in {"none", "0", "1"}
               /\ \A h \in DOMAIN d.res : d.res[h] \in {"pending", "0", "1", "late", "x"}
    <3>1. handler[k][n] \in HandlerType
      BY DEF Inv, HandlersInv
    <3>2. PICK S \in SUBSET Nodes : handler[k][n].res \in [S -> Outcomes]
      BY <3>1 DEF HandlerType, Results
    <3> QED  BY <3>1, <3>2 DEF HandlerType, Outcomes
  <2> QED  BY <2>1, <2>2 DEF Inv, HopsInv, RestInv, TypeOK
<1> QED  BY <1>1, Invariant, PTL

\* However checks overlap and whatever is lost or late, a node has no rule for the
\* circuit only between del and add.
THEOREM RoutedButBetweenDelAndAdd == Spec => []RoutedUnlessSwitching
<1>1. Inv => RoutedUnlessSwitching
  BY DEF Inv
<1> QED  BY <1>1, Invariant, PTL

\* A step of failoverd is a Redirect of CircuitStore or leaves the stores alone.
LEMMA StepRedirects == Inv /\ [Next]_vars => [Store!Next]_nextIp
<1> SUFFICES ASSUME Inv, [Next]_vars, ~UNCHANGED nextIp
             PROVE  Store!Next
  OBVIOUS
<1>1. PICK n \in 1..(N - 1), h \in Nodes : h \in NextHops(n)
                                           /\ nextIp' = [nextIp EXCEPT ![n] = h]
  BY NextStore DEF Inv
<1> DEFINE a == "circuit"
           r == [next_ip |-> nextIp[n], next_ips |-> Hosts[n + 1], next_auth |-> a]
<1>2. Stored[n][a] = r /\ r.next_ips = Hosts[n + 1]
  BY DEF Stored
<1>3. r # [next_ips |-> << >>]
  <2>1. Hosts[n + 1] # << >>
    BY HopPoP, NextPoP, HostsAreNodes
  <2> QED  BY <2>1
<1>4. Store!Stored(n, a)
  BY <1>2, <1>3 DEF Store!Stored
<1>5. Stored' = [Stored EXCEPT ![n][a].next_ip = h]
  BY <1>1 DEF Stored, Inv, HopsInv
<1>6. h \in Store!Range(Stored[n][a].next_ips)
  BY <1>1, <1>2 DEF NextHops, Range, Store!Range
<1> HIDE DEF r
<1> QED  BY <1>4, <1>5, <1>6 DEF Store!Next, Store!Redirect

\* Whatever a node writes, stale or late, redirects the circuit to one of its
\* next_ips and changes nothing else.
THEOREM WritesAreRedirects == Spec => RedirectsOnly
  BY StepRedirects, Invariant, PTL DEF Spec, RedirectsOnly

=============================================================================
