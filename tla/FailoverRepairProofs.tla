------------------------- MODULE FailoverRepairProofs -------------------------
(***************************************************************************)
(* Theorems about failoverd while no node fails: what checks repair, and   *)
(* what the entry node's table makes of it.  They hold for every number of *)
(* PoPs, nodes and checks and for any nodes that are down from the start.  *)
(***************************************************************************)
EXTENDS FailoverProofs

-----------------------------------------------------------------------------
(* A step of handler (k, n), which was c and becomes d. *)

\* It receives the check and passes it on to the stored next hop.
Asks(k, n, c, d) ==
    /\ c.pc = "sent" /\ n < N /\ n \notin short
    /\ d.pc = "wait" /\ d.cur = nextIp[n] /\ d.ans = c.ans
    /\ \A h \in NextHops(n) : d.res[h] = "pending"
    /\ handler[k][n + 1].pc = "none" /\ handler'[k][n + 1] = SentTo(nextIp[n])
    /\ UNCHANGED <<nextIp, table>>

\* It ends with the check that it received, or without a word.
Ends(n, c, d) ==
    /\ c.pc = "sent" /\ (n = N \/ n \in short \/ ~Prompt)
    /\ d.pc = "done"
    /\ UNCHANGED <<nextIp, table>>

\* A ping ends.  A node that does not run never answers, and a prompt one always.
Hears(k, n, c, d) ==
    /\ c.pc = "wait" /\ n < N
    /\ d.pc = "wait" /\ d.cur = c.cur /\ d.ans = c.ans
    /\ \E h \in NextHops(n) :
          /\ \A g \in NextHops(n) \ {h} : d.res[g] = c.res[g]
          /\ d.res[h] = "1" => h \in up \/ (h = c.cur /\ handler[k][n + 1].ans # "none")
          /\ Prompt /\ h \in up /\ h # c.cur => d.res[h] = "1"
    /\ UNCHANGED <<nextIp, table>>

\* It gives the current next hop up for one that answered.
Turns(n, c, d) ==
    /\ c.pc = "wait" /\ n < N
    /\ d.pc = "add" /\ d.cur = c.cur /\ d.ans = c.ans
    /\ d.target \in NextHops(n) /\ c.res[d.target] = "1"
    /\ table' = [table EXCEPT ![c.node] = @ \ {c.cur}]
    /\ UNCHANGED nextIp

\* All answers are there and the current next hop is kept, or none answered, unless
\* its ping failed.
Stays(n, c, d) ==
    /\ c.pc = "wait" /\ n < N
    /\ d.pc = "done" /\ d.cur = c.cur
    /\ \A h \in NextHops(n) : c.res[h] # "pending"
    /\ Prompt => c.res[c.cur] = "1" \/ \A h \in NextHops(n) : c.res[h] # "1"
    /\ UNCHANGED <<nextIp, table>>

\* It adds the rule for the new next hop, or has answered.
Goes(n, c, d) ==
    /\ n < N /\ d.cur = c.cur /\ d.target = c.target
    /\ \/ /\ c.pc = "add" /\ d.pc = "answer"
          /\ table' = [table EXCEPT ![c.node] = @ \cup {c.target}]
       \/ c.pc = "answer" /\ d.pc = "set" /\ UNCHANGED table
    /\ UNCHANGED nextIp

\* It writes the new next hop.
Stores(n, c, d) ==
    /\ c.pc = "set" /\ n < N
    /\ d.pc = "done" /\ d.cur = c.cur
    /\ nextIp' = [nextIp EXCEPT ![n] = c.target]
    /\ UNCHANGED table

\* ZooKeeper fails and it writes nothing.
Drops(c, d) ==
    /\ c.pc = "set" /\ ~Prompt
    /\ d.pc = "done" /\ d.cur = c.cur
    /\ UNCHANGED <<nextIp, table>>

Moves(k, n, c, d) ==
    \/ Asks(k, n, c, d) \/ Ends(n, c, d) \/ Hears(k, n, c, d) \/ Turns(n, c, d)
    \/ Stays(n, c, d) \/ Goes(n, c, d) \/ Stores(n, c, d) \/ Drops(c, d)

\* What changes if handler (k, n) becomes d.
LEMMA BecomesOnly ==
    ASSUME HandlersInv, NEW k \in Checks, NEW n \in PoPs, NEW d, Becomes(k, n, d)
    PROVE  \A j \in Checks, m \in PoPs :
              handler'[j][m] = IF j = k /\ m = n THEN d ELSE handler[j][m]
  BY DEF Becomes, HandlersInv

\* A ping ends in one of these ways.
LEMMA PingMoves ==
    ASSUME HandlersInv, NEW k \in Checks, NEW n \in PoPs, n < N, NEW h, PingEnds(k, n, h)
    PROVE  \E d : /\ Becomes(k, n, d) /\ d.node = handler[k][n].node
                  /\ Hears(k, n, handler[k][n], d)
<1> DEFINE c == handler[k][n]
<1>1. PICK v \in {"0", "1", "late", "x"} :
         /\ handler' = [handler EXCEPT ![k][n].res[h] = v]
         /\ v = "1" => h \in up \/ (h = c.cur /\ handler[k][n + 1].ans # "none")
         /\ Prompt /\ h \in up /\ h # c.cur => v = "1"
  <2>1. CASE AnswerPing(k, n, h)
    BY <2>1 DEF AnswerPing
  <2>2. CASE AnswerCheck(k, n, h)
    <3>1. handler[k][n + 1].ans \in {"0", "1"}
      BY <2>2, NextPoP DEF AnswerCheck, HandlersInv, HandlerType
    <3> QED  BY <2>2, <3>1 DEF AnswerCheck
  <2>3. CASE TimesOut(k, n, h)
    BY <2>3 DEF TimesOut
  <2>4. CASE PingFails(k, n, h)
    BY <2>4 DEF PingFails
  <2> QED  BY <2>1, <2>2, <2>3, <2>4 DEF PingEnds, PingStep
<1>2. c.pc = "wait" /\ h \in NextHops(n) /\ UNCHANGED <<nextIp, table>>
  BY DEF PingEnds, PingStep, AnswerPing, AnswerCheck, TimesOut, PingFails, Pending
<1>3. c \in HandlerType /\ DOMAIN c.res = NextHops(n)
  BY <1>2 DEF HandlersInv, Fits
<1> DEFINE r == [c.res EXCEPT ![h] = v]
           d == [c EXCEPT !.res = r]
<1>4. Becomes(k, n, d)
  BY <1>1 DEF Becomes
<1>5. r[h] = v /\ \A g \in NextHops(n) \ {h} : r[g] = c.res[g]
  BY <1>2, <1>3
<1> HIDE DEF r
<1>6. d.node = c.node /\ d.pc = c.pc /\ d.cur = c.cur /\ d.ans = c.ans /\ d.res = r
  BY <1>3 DEF HandlerType
<1> HIDE DEF d
<1>7. Hears(k, n, c, d)
  BY <1>1, <1>2, <1>5, <1>6 DEF Hears
<1> QED  BY <1>4, <1>6, <1>7

\* So does a switch, which turns to a node that answered.
LEMMA TurnMoves ==
    ASSUME HandlersInv, NEW k \in Checks, NEW n \in PoPs, n < N, DelRule(k, n)
    PROVE  \E d : /\ Becomes(k, n, d) /\ d.node = handler[k][n].node
                  /\ Turns(n, handler[k][n], d)
<1> DEFINE c == handler[k][n]
           t == Hosts[n + 1][Min(Working(k, n))]
           d == [c EXCEPT !.target = t, !.pc = "add"]
<1>1. c \in HandlerType /\ c.pc = "wait" /\ Working(k, n) # {}
      /\ table' = [table EXCEPT ![c.node] = @ \ {c.cur}] /\ UNCHANGED nextIp
  BY DEF HandlersInv, DelRule, Switches, Joined
<1>2. t \in NextHops(n)
  BY <1>1, TargetIsHop
<1>3. c.res[t] = "1"
  <2>1. Working(k, n) \in SUBSET Nat
    BY NextPoP, HostsAreNodes DEF Working
  <2>2. Min(Working(k, n)) \in Working(k, n)
    BY <1>1, <2>1, MinIsMember
  <2> QED  BY <2>2 DEF Working
<1>4. Becomes(k, n, d)
  BY DEF Becomes, DelRule
<1> HIDE DEF t
<1>5. d.node = c.node /\ d.pc = "add" /\ d.cur = c.cur /\ d.ans = c.ans /\ d.target = t
  BY <1>1 DEF HandlerType
<1> HIDE DEF d
<1>6. Turns(n, c, d)
  BY <1>1, <1>2, <1>3, <1>5 DEF Turns
<1> QED  BY <1>4, <1>5, <1>6

\* And a node that keeps its next hop has a reason.
LEMMA StayMoves ==
    ASSUME HandlersInv, NEW k \in Checks, NEW n \in PoPs, n < N, AnswerFailure(k, n)
    PROVE  \E d : /\ Becomes(k, n, d) /\ d.node = handler[k][n].node
                  /\ Stays(n, handler[k][n], d)
<1> DEFINE c == handler[k][n]
           d == [c EXCEPT !.ans = "0", !.pc = "done"]
<1>1. c \in HandlerType /\ c.pc = "wait" /\ UNCHANGED <<nextIp, table>>
      /\ \A h \in NextHops(n) : c.res[h] # "pending"
  BY DEF HandlersInv, AnswerFailure, Joined
<1>2. Prompt => c.res[c.cur] = "1" \/ \A h \in NextHops(n) : c.res[h] # "1"
  <2> SUFFICES ASSUME Prompt
               PROVE  c.res[c.cur] = "1" \/ \A h \in NextHops(n) : c.res[h] # "1"
    OBVIOUS
  <2>1. c.res[c.cur] = "1" \/ Working(k, n) = {}
    <3>1. c.res[c.cur] \notin {"0", "late"} \/ Working(k, n) = {}
      BY DEF AnswerFailure, Switches, Failed
    <3>2. c.cur \in NextHops(n) /\ DOMAIN c.res = NextHops(n)
      BY <1>1 DEF HandlersInv, Fits
    <3>3. PICK S \in SUBSET Nodes : c.res \in [S -> Outcomes]
      BY <1>1 DEF HandlerType, Results
    <3>4. c.res[c.cur] \in Outcomes
      BY <3>2, <3>3
    <3> QED  BY <1>1, <3>1, <3>2, <3>4 DEF Outcomes
  <2>2. ASSUME NEW h \in NextHops(n), c.res[h] = "1"
        PROVE  Working(k, n) # {}
    <3>1. PICK i \in DOMAIN Hosts[n + 1] : h = Hosts[n + 1][i]
      BY DEF NextHops, Range
    <3> QED  BY <2>2, <3>1 DEF Working
  <2> QED  BY <2>1, <2>2
<1>3. Becomes(k, n, d)
  BY DEF Becomes, AnswerFailure
<1>4. d.node = c.node /\ d.pc = "done" /\ d.cur = c.cur
  BY <1>1 DEF HandlerType
<1> HIDE DEF d
<1>5. Stays(n, c, d)
  BY <1>1, <1>2, <1>4 DEF Stays
<1> QED  BY <1>3, <1>4, <1>5

\* A check that arrives.
LEMMA ReceiveMoves ==
    ASSUME HandlersInv, HopsInv, NEW k \in Checks, NEW n \in PoPs, ReceiveCheck(k, n)
    PROVE  \E d : /\ d.node = handler[k][n].node
                  /\ \/ Becomes(k, n, d) /\ Ends(n, handler[k][n], d)
                     \/ /\ Asks(k, n, handler[k][n], d)
                        /\ \A j \in Checks, m \in PoPs : ~(j = k /\ m = n + 1) =>
                              handler'[j][m] = IF j = k /\ m = n THEN d ELSE handler[j][m]
<1> DEFINE c == handler[k][n]
<1>1. c.pc = "sent" /\ c \in HandlerType /\ UNCHANGED <<nextIp, table>>
  BY DEF ReceiveCheck, HandlersInv
<1>2. CASE n = N \/ n \in short
  <2> DEFINE d == [c EXCEPT !.ans = "1", !.pc = "done"]
  <2>1. handler' = [handler EXCEPT ![k][n].ans = "1", ![k][n].pc = "done"]
    BY <1>2, Zenon DEF ReceiveCheck
  <2>2. Becomes(k, n, d)
    BY <2>1 DEF Becomes
  <2>3. d.node = c.node /\ d.pc = "done"
    BY <1>1 DEF HandlerType
  <2> HIDE DEF d
  <2>4. Ends(n, c, d)
    BY <1>1, <1>2, <2>3 DEF Ends
  <2> QED  BY <2>2, <2>3, <2>4
<1>3. CASE n < N /\ ~(n = N \/ n \in short)
  <2> DEFINE r == [h \in NextHops(n) |-> "pending"]
             d == [c EXCEPT !.cur = nextIp[n], !.res = r, !.pc = "wait"]
             e == SentTo(nextIp[n])
  <2>1. n \in 1..(N - 1) /\ n + 1 \in PoPs /\ n + 1 # n
    BY <1>3, NextPoP
  <2>2. handler' = [handler EXCEPT ![k] = [[@ EXCEPT ![n] = d] EXCEPT ![n + 1] = e]]
    <3>1. handler' = [handler EXCEPT ![k][n].cur = nextIp[n], ![k][n].res = r,
                                     ![k][n].pc = "wait", ![k][n + 1] = e]
      BY <1>3, Zenon DEF ReceiveCheck
    <3> HIDE DEF r, e
    <3> QED  BY <3>1
  <2>3. \A h \in NextHops(n) : r[h] = "pending"
    OBVIOUS
  <2> HIDE DEF r, e
  <2>4. d.node = c.node /\ d.pc = "wait" /\ d.cur = nextIp[n] /\ d.ans = c.ans /\ d.res = r
    BY <1>1 DEF HandlerType
  <2> HIDE DEF d
  <2>5. \A j \in Checks, m \in PoPs :
           handler'[j][m] = IF j = k /\ m = n THEN d
                            ELSE IF j = k /\ m = n + 1 THEN e ELSE handler[j][m]
    BY <2>1, <2>2 DEF HandlersInv
  <2>6. handler[k][n + 1].pc = "none"
    BY <1>1, <2>1 DEF HandlersInv
  <2>7. Asks(k, n, c, d)
    BY <1>1, <1>3, <2>1, <2>3, <2>4, <2>5, <2>6 DEF Asks, e
  <2> QED  BY <2>4, <2>5, <2>7
<1>4. n = N \/ n < N
  BY HostsAssumption DEF PoPs
<1> QED  BY <1>2, <1>3, <1>4

\* The other steps change the stage and perhaps the answer.
LEMMA OtherMoves ==
    ASSUME HandlersInv, NEW k \in Checks, NEW n \in PoPs,
           \/ n < N /\ (AddRule(k, n) \/ AnswerSuccess(k, n) \/ SetNextIp(k, n))
           \/ StoreFails(k, n)
    PROVE  \E d : /\ Becomes(k, n, d) /\ d.node = handler[k][n].node
                  /\ \/ Goes(n, handler[k][n], d) \/ Stores(n, handler[k][n], d)
                     \/ Drops(handler[k][n], d) \/ Ends(n, handler[k][n], d)
<1> DEFINE c == handler[k][n]
           d(pc) == [c EXCEPT !.pc = pc]
<1>1. c \in HandlerType
  BY DEF HandlersInv
<1>2. \A pc : d(pc).node = c.node /\ d(pc).cur = c.cur /\ d(pc).target = c.target
              /\ d(pc).pc = pc
  BY <1>1 DEF HandlerType
<1>3. CASE n < N /\ AddRule(k, n)
  <2>1. Becomes(k, n, d("answer"))
    BY <1>3 DEF Becomes, AddRule
  <2>2. Goes(n, c, d("answer"))
    <3> HIDE DEF d
    <3> QED  BY <1>2, <1>3 DEF Goes, AddRule
  <2> QED  BY <1>2, <2>1, <2>2
<1>4. CASE n < N /\ AnswerSuccess(k, n)
  <2> DEFINE f == [c EXCEPT !.ans = "1", !.pc = "set"]
  <2>1. Becomes(k, n, f)
    BY <1>4 DEF Becomes, AnswerSuccess
  <2>2. f.node = c.node /\ f.cur = c.cur /\ f.target = c.target /\ f.pc = "set"
    BY <1>1 DEF HandlerType
  <2> HIDE DEF f
  <2>3. Goes(n, c, f)
    BY <1>4, <2>2 DEF Goes, AnswerSuccess
  <2> QED  BY <2>1, <2>2, <2>3
<1>5. CASE n < N /\ SetNextIp(k, n)
  <2>1. Becomes(k, n, d("done"))
    BY <1>5 DEF Becomes, SetNextIp
  <2>2. Stores(n, c, d("done"))
    <3> HIDE DEF d
    <3> QED  BY <1>2, <1>5 DEF Stores, SetNextIp
  <2> QED  BY <1>2, <2>1, <2>2
<1>6. CASE StoreFails(k, n)
  <2>1. Becomes(k, n, d("done"))
    BY <1>6 DEF Becomes, StoreFails
  <2>2. Ends(n, c, d("done")) \/ Drops(c, d("done"))
    <3> HIDE DEF d
    <3> QED  BY <1>2, <1>6 DEF Ends, Drops, StoreFails
  <2> QED  BY <1>2, <2>1, <2>2
<1> QED  BY <1>3, <1>4, <1>5, <1>6

\* Every step of a handler is one of these, and changes at most one handler more:
\* that of the node that it asks.
LEMMA HandlerMoves ==
    ASSUME HandlersInv, HopsInv, NEW k \in Checks, NEW n \in PoPs, HandlerSteps(k, n)
    PROVE  /\ handler[k][n].node \in up /\ handler'[k][n].node = handler[k][n].node
           /\ UNCHANGED <<up, short, batches>>
           /\ Moves(k, n, handler[k][n], handler'[k][n])
           /\ \A j \in Checks, m \in PoPs :
                 \/ handler'[j][m] = handler[j][m] \/ (j = k /\ m = n)
                 \/ j = k /\ m = n + 1 /\ Asks(k, n, handler[k][n], handler'[k][n])
<1> DEFINE c == handler[k][n]
<1>1. UNCHANGED <<up, short, batches>>
  BY HandlerFrame
<1>2. c.node \in up
  BY DEF HandlerSteps, ReceiveCheck, PingEnds, PingStep, AnswerPing, AnswerCheck, TimesOut,
     PingFails, Pending, SwitchStep, DelRule, AddRule, AnswerSuccess, SetNextIp, AnswerFailure, Switches,
     Joined, StoreFails, Running
<1>3. ASSUME NEW d, Becomes(k, n, d)
      PROVE  /\ handler'[k][n] = d
             /\ \A j \in Checks, m \in PoPs :
                   handler'[j][m] = handler[j][m] \/ (j = k /\ m = n)
  BY <1>3, BecomesOnly
<1>4. CASE ReceiveCheck(k, n)
  <2>1. PICK d : /\ d.node = c.node
                 /\ \/ Becomes(k, n, d) /\ Ends(n, c, d)
                    \/ /\ Asks(k, n, c, d)
                       /\ \A j \in Checks, m \in PoPs : ~(j = k /\ m = n + 1) =>
                             handler'[j][m] = IF j = k /\ m = n THEN d ELSE handler[j][m]
    BY <1>4, ReceiveMoves
  <2>2. CASE Becomes(k, n, d) /\ Ends(n, c, d)
    BY <1>1, <1>2, <1>3, <2>1, <2>2 DEF Moves
  <2>3. CASE ~(Becomes(k, n, d) /\ Ends(n, c, d))
    <3>1. n + 1 # n
      BY DEF PoPs
    <3>2. handler'[k][n] = d
      BY <2>1, <2>3, <3>1
    <3> QED  BY <1>1, <1>2, <2>1, <2>3, <3>2 DEF Moves
  <2> QED  BY <2>2, <2>3
<1>5. CASE n < N /\ \E h \in Nodes : PingEnds(k, n, h)
  BY <1>1, <1>2, <1>3, <1>5, PingMoves DEF Moves
<1>6. CASE n < N /\ DelRule(k, n)
  BY <1>1, <1>2, <1>3, <1>6, TurnMoves DEF Moves
<1>7. CASE n < N /\ AnswerFailure(k, n)
  BY <1>1, <1>2, <1>3, <1>7, StayMoves DEF Moves
<1>8. CASE \/ n < N /\ (AddRule(k, n) \/ AnswerSuccess(k, n) \/ SetNextIp(k, n))
           \/ StoreFails(k, n)
  BY <1>1, <1>2, <1>3, <1>8, OtherMoves DEF Moves
<1> QED  BY <1>4, <1>5, <1>6, <1>7, <1>8 DEF HandlerSteps, SwitchStep

-----------------------------------------------------------------------------
(* A switch turns to a node that is up. *)

\* Handler d of PoP n, which asks handler e of the PoP after it.
AsksLive(n, d, e) ==
    /\ d.pc \in {"wait", "add", "answer", "set"} => e.pc # "none" /\ e.node = d.cur
    /\ d.pc = "wait" => \A h \in NextHops(n) : d.res[h] = "1" => h \in up
    /\ d.pc \in {"add", "answer", "set"} => d.target \in up

\* Every PoP keeps a node.  Only nodes that are up answer, pings and checks.
LiveInv ==
    /\ \A n \in PoPs : Range(Hosts[n]) \cap up # {}
    /\ \A k \in Checks, n \in PoPs : handler[k][n].ans # "none" => handler[k][n].node \in up
    /\ \A k \in Checks, n \in 1..(N - 1) : AsksLive(n, handler[k][n], handler[k][n + 1])

\* A datagram that asks node h to check.
LEMMA SentToNode ==
    ASSUME NEW h
    PROVE  SentTo(h).pc = "sent" /\ SentTo(h).node = h /\ SentTo(h).ans = "none"
  BY DEF SentTo, NoHandler

\* A client's check changes one handler.
LEMMA SendMoves ==
    ASSUME HandlersInv, NEW k \in Checks, SendCheck(k)
    PROVE  /\ handler[k][1].pc = "none" /\ UNCHANGED <<nextIp, table, up, short>>
           /\ \E h \in Range(Hosts[1]) : handler'[k][1] = SentTo(h)
           /\ \A j \in Checks, m \in PoPs : handler'[j][m] = handler[j][m] \/ (j = k /\ m = 1)
<1>1. 1 \in PoPs
  BY HostsAssumption DEF PoPs
<1>2. PICK h \in Range(Hosts[1]) : handler' = [handler EXCEPT ![k][1] = SentTo(h)]
  BY DEF SendCheck
<1> DEFINE d == SentTo(h)
<1>3. Becomes(k, 1, d)
  BY <1>2 DEF Becomes
<1> HIDE DEF d
<1>4. \A j \in Checks, m \in PoPs :
         handler'[j][m] = IF j = k /\ m = 1 THEN d ELSE handler[j][m]
  BY <1>1, <1>3, BecomesOnly
<1> QED  BY <1>1, <1>4 DEF d, SendCheck

\* A step of a handler keeps what its neighbours know.
LEMMA HandlerKeepsLive ==
    ASSUME HandlersInv, HopsInv, LiveInv, NEW k \in Checks, NEW n \in PoPs,
           HandlerSteps(k, n)
    PROVE  LiveInv'
<1> DEFINE c == handler[k][n]
           d == handler'[k][n]
<1>1. /\ c.node \in up /\ d.node = c.node /\ UNCHANGED up
      /\ Moves(k, n, c, d)
      /\ \A j \in Checks, m \in PoPs :
            \/ handler'[j][m] = handler[j][m] \/ (j = k /\ m = n)
            \/ j = k /\ m = n + 1 /\ Asks(k, n, c, d)
  BY HandlerMoves
<1>2. Asks(k, n, c, d) => /\ n \in 1..(N - 1) /\ n + 1 \in PoPs
                          /\ handler[k][n + 1].pc = "none"
                          /\ handler'[k][n + 1].pc = "sent"
                          /\ handler'[k][n + 1].ans = "none"
                          /\ handler'[k][n + 1].node = nextIp[n]
  BY NextPoP, SentToNode DEF Asks
<1>3. c.pc # "none" /\ d.pc \notin {"none", "sent"}
  BY <1>1 DEF Moves, Asks, Ends, Hears, Turns, Stays, Goes, Stores, Drops
<1>4. ASSUME NEW j \in Checks, NEW m \in PoPs, handler'[j][m].ans # "none"
      PROVE  handler'[j][m].node \in up
  BY <1>1, <1>2, <1>4 DEF LiveInv
<1>5. n < N => AsksLive(n, handler[k][n], handler[k][n + 1])'
  <2> SUFFICES ASSUME n < N
               PROVE  AsksLive(n, handler[k][n], handler[k][n + 1])'
    OBVIOUS
  <2>1. n \in 1..(N - 1) /\ n + 1 \in PoPs /\ n + 1 # n
    BY NextPoP
  <2>2. AsksLive(n, c, handler[k][n + 1])
    BY <2>1 DEF LiveInv
  <2>3. ~Asks(k, n, c, d) => handler'[k][n + 1] = handler[k][n + 1]
    BY <1>1, <2>1
  <2>4. handler[k][n + 1].ans # "none" => handler[k][n + 1].node \in up
    BY <2>1 DEF LiveInv
  <2>5. CASE Asks(k, n, c, d)
    BY <1>2, <2>5 DEF Asks, AsksLive
  <2>6. CASE Hears(k, n, c, d)
    BY <1>1, <2>2, <2>3, <2>4, <2>6 DEF Asks, Hears, AsksLive
  <2>7. CASE Turns(n, c, d)
    BY <1>1, <2>2, <2>3, <2>7 DEF Asks, Turns, AsksLive
  <2>8. CASE Goes(n, c, d)
    BY <1>1, <2>2, <2>3, <2>8 DEF Asks, Goes, AsksLive
  <2>9. CASE Ends(n, c, d) \/ Stays(n, c, d) \/ Stores(n, c, d) \/ Drops(c, d)
    BY <2>9 DEF Ends, Stays, Stores, Drops, AsksLive
  <2> QED  BY <1>1, <2>5, <2>6, <2>7, <2>8, <2>9 DEF Moves
<1>6. ASSUME NEW j \in Checks, NEW m \in 1..(N - 1)
      PROVE  AsksLive(m, handler[j][m], handler[j][m + 1])'
  <2>1. m \in PoPs /\ m + 1 \in PoPs /\ m < N /\ m + 1 # m
    BY HopPoP, NextPoP
  <2>2. AsksLive(m, handler[j][m], handler[j][m + 1])
    BY DEF LiveInv
  <2>3. CASE j = k /\ m = n
    BY <1>5, <2>1, <2>3
  <2>4. CASE j = k /\ m = n + 1 /\ Asks(k, n, c, d)
    BY <1>2, <2>4 DEF AsksLive
  <2>5. CASE j = k /\ m + 1 = n
    <3>1. handler'[j][m] = handler[j][m]
      BY <1>1, <2>1, <2>5 DEF PoPs
    <3> QED  BY <1>1, <1>3, <2>2, <2>5, <3>1 DEF AsksLive
  <2>6. CASE handler'[j][m] = handler[j][m] /\ handler'[j][m + 1] = handler[j][m + 1]
    BY <1>1, <2>2, <2>6 DEF AsksLive
  <2> QED  BY <1>1, <2>1, <2>3, <2>4, <2>5, <2>6 DEF PoPs
<1> QED  BY <1>1, <1>4, <1>6 DEF LiveInv

\* As long as no node fails, every step keeps it.
LEMMA NextLive ==
    ASSUME ~Crashes, HandlersInv, HopsInv, LiveInv, [Next]_vars
    PROVE  LiveInv'
<1>1. CASE \E k \in Checks : SendCheck(k)
  <2>1. PICK k \in Checks : SendCheck(k)
    BY <1>1
  <2>2. PICK h : handler'[k][1] = SentTo(h)
    BY <2>1, SendMoves
  <2>3. /\ UNCHANGED up
        /\ handler'[k][1].pc = "sent" /\ handler'[k][1].ans = "none"
        /\ \A j \in Checks, m \in PoPs :
              handler'[j][m] = handler[j][m] \/ (j = k /\ m = 1)
    BY <2>1, <2>2, SendMoves, SentToNode
  <2>4. ASSUME NEW j \in Checks, NEW m \in 1..(N - 1)
        PROVE  AsksLive(m, handler[j][m], handler[j][m + 1])'
    <3>1. m \in PoPs /\ m + 1 \in PoPs /\ m + 1 # 1
      BY HopPoP, NextPoP
    <3>2. AsksLive(m, handler[j][m], handler[j][m + 1])
      BY DEF LiveInv
    <3> QED  BY <2>3, <3>1, <3>2 DEF AsksLive
  <2> QED  BY <2>3, <2>4 DEF LiveInv
<1>2. CASE UNCHANGED vars
  BY <1>2 DEF LiveInv, AsksLive, vars
<1> QED  BY <1>1, <1>2, NextSteps, HandlerKeepsLive DEF Crash

\* Initially no node has been asked.
LEMMA InitLive == Init => LiveInv
<1> SUFFICES ASSUME Init
             PROVE  LiveInv
  OBVIOUS
<1>1. NoHandler.pc = "none" /\ NoHandler.ans = "none"
  BY DEF NoHandler
<1>2. \A k \in Checks, n \in PoPs : handler[k][n] = NoHandler
  BY DEF Init
<1> QED  BY <1>1, <1>2, HopPoP DEF Init, LiveInv, AsksLive

\* What a step writes to the store is up, and stays so.
LEMMA NextUp ==
    ASSUME ~Crashes, HandlersInv, HopsInv, LiveInv, [Next]_vars, NEW m \in 1..(N - 1),
           nextIp[m] \in up
    PROVE  nextIp'[m] \in up'
<1>1. CASE \E k \in Checks, n \in PoPs : HandlerSteps(k, n)
  <2>1. PICK k \in Checks, n \in PoPs : HandlerSteps(k, n)
    BY <1>1
  <2>2. UNCHANGED up /\ (UNCHANGED nextIp \/ (n < N /\ SetNextIp(k, n)))
    BY <2>1, HandlerFrame
  <2>3. CASE n < N /\ SetNextIp(k, n)
    <3>1. n \in 1..(N - 1)
      BY <2>3, NextPoP
    <3>2. handler[k][n].target \in up
      BY <2>3, <3>1 DEF SetNextIp, LiveInv, AsksLive
    <3> QED  BY <2>2, <2>3, <3>2 DEF SetNextIp, HopsInv
  <2> QED  BY <2>2, <2>3
<1>2. CASE (\E k \in Checks : SendCheck(k)) \/ UNCHANGED vars
  BY <1>2 DEF SendCheck, vars
<1> QED  BY <1>1, <1>2, NextSteps DEF Crash

-----------------------------------------------------------------------------
(* A check that has passed a hop leaves it repaired. *)

\* Handler d of PoP n, which asks handler e of the PoP after it, if nodes are prompt.
Passes(n, d, e) ==
    /\ d.pc = "wait" =>
          \A h \in NextHops(n) : h \in up /\ h # d.cur => d.res[h] \in {"pending", "1"}
    /\ d.pc \notin {"none", "sent"} /\ n \notin short =>
          /\ e.pc # "none" /\ e.node = d.cur
          /\ d.cur \in up \/ d.pc = "done" => nextIp[n] \in up

PassInv ==
    /\ \A k \in Checks, n \in 1..(N - 1) : Passes(n, handler[k][n], handler[k][n + 1])
    /\ \A k \in Checks : handler[k][1].pc = "none" => \A n \in PoPs : handler[k][n].pc = "none"

\* If all answers are there, a next hop that is down was given up or is left.
LEMMA StayIsUp ==
    ASSUME Prompt, HandlersInv, LiveInv, PassInv, NEW k \in Checks, NEW n \in 1..(N - 1),
           NEW d, Stays(n, handler[k][n], d), n \notin short
    PROVE  nextIp[n] \in up
<1> DEFINE c == handler[k][n]
<1>1. n \in PoPs /\ n + 1 \in PoPs /\ n < N
  BY HopPoP, NextPoP
<1>2. /\ c.pc = "wait" /\ c.cur \in NextHops(n)
      /\ \A h \in NextHops(n) : c.res[h] # "pending"
      /\ c.res[c.cur] = "1" \/ \A h \in NextHops(n) : c.res[h] # "1"
  BY <1>1 DEF Stays, HandlersInv, Fits
<1>3. \A h \in NextHops(n) : c.res[h] = "1" => h \in up
  BY <1>2 DEF LiveInv, AsksLive
<1>4. Passes(n, c, handler[k][n + 1])
  BY DEF PassInv
<1>5. CASE c.cur \in up
  BY <1>2, <1>4, <1>5 DEF Passes
<1>6. CASE c.cur \notin up
  <2>1. PICK g \in NextHops(n) : g \in up
    BY <1>1 DEF LiveInv, NextHops
  <2>2. c.res[g] \in {"pending", "1"}
    BY <1>2, <1>4, <1>6, <2>1 DEF Passes
  <2> QED  BY <1>2, <1>3, <1>6, <2>2
<1> QED  BY <1>5, <1>6

\* A step of a handler keeps what its neighbours know.
LEMMA HandlerKeepsPass ==
    ASSUME Prompt, HandlersInv, HopsInv, LiveInv, PassInv, NEW k \in Checks, NEW n \in PoPs,
           HandlerSteps(k, n),
           \A m \in 1..(N - 1) : nextIp[m] \in up => nextIp'[m] \in up'
    PROVE  PassInv'
<1> DEFINE c == handler[k][n]
           d == handler'[k][n]
<1>1. /\ d.node = c.node /\ UNCHANGED <<up, short>>
      /\ Moves(k, n, c, d)
      /\ \A j \in Checks, m \in PoPs :
            \/ handler'[j][m] = handler[j][m] \/ (j = k /\ m = n)
            \/ j = k /\ m = n + 1 /\ Asks(k, n, c, d)
  BY HandlerMoves
<1>2. Asks(k, n, c, d) => /\ n \in 1..(N - 1) /\ n + 1 \in PoPs /\ n + 1 # 1
                          /\ handler'[k][n + 1].pc = "sent"
                          /\ handler'[k][n + 1].node = nextIp[n]
  BY NextPoP, SentToNode DEF Asks
<1>3. c.pc # "none" /\ d.pc \notin {"none", "sent"}
  BY <1>1 DEF Moves, Asks, Ends, Hears, Turns, Stays, Goes, Stores, Drops
<1>4. ASSUME NEW j \in Checks, handler'[j][1].pc = "none", NEW m \in PoPs
      PROVE  handler'[j][m].pc = "none"
  <2>1. 1 \in PoPs
    BY HostsAssumption DEF PoPs
  <2>2. j # k
    BY <1>1, <1>2, <1>3, <1>4, <2>1 DEF PassInv
  <2> QED  BY <1>1, <1>4, <2>1, <2>2 DEF PassInv
<1>5. n < N => Passes(n, handler[k][n], handler[k][n + 1])'
  <2> SUFFICES ASSUME n < N
               PROVE  Passes(n, handler[k][n], handler[k][n + 1])'
    OBVIOUS
  <2>1. n \in 1..(N - 1) /\ n + 1 \in PoPs /\ n + 1 # n
    BY NextPoP
  <2>2. Passes(n, c, handler[k][n + 1]) /\ AsksLive(n, c, handler[k][n + 1])
    BY <2>1 DEF PassInv, LiveInv
  <2>3. ~Asks(k, n, c, d) => handler'[k][n + 1] = handler[k][n + 1]
    BY <1>1, <2>1
  <2>4. nextIp[n] \in up => nextIp'[n] \in up
    BY <1>1, <2>1
  <2>5. CASE Asks(k, n, c, d)
    BY <1>1, <1>2, <2>5 DEF Asks, Passes
  <2>6. CASE Hears(k, n, c, d)
    BY <1>1, <2>2, <2>3, <2>4, <2>6 DEF Asks, Hears, Passes
  <2>7. CASE Turns(n, c, d)
    BY <1>1, <2>2, <2>3, <2>4, <2>7 DEF Asks, Turns, Passes
  <2>8. CASE Goes(n, c, d)
    BY <1>1, <2>2, <2>3, <2>4, <2>8 DEF Asks, Goes, Passes
  <2>9. CASE Ends(n, c, d)
    <3>1. n # N
      BY <2>1, HostsAssumption
    <3> QED  BY <1>1, <2>9, <3>1 DEF Ends, Passes
  <2>10. CASE Stays(n, c, d)
    <3>1. n \notin short => nextIp[n] \in up
      BY <2>1, <2>10, StayIsUp
    <3> QED  BY <1>1, <2>2, <2>3, <2>4, <2>10, <3>1 DEF Asks, Stays, Passes
  <2>11. CASE Stores(n, c, d)
    <3>1. nextIp'[n] \in up
      BY <2>1, <2>2, <2>11 DEF Stores, AsksLive, HopsInv
    <3> QED  BY <1>1, <2>2, <2>3, <2>11, <3>1 DEF Asks, Stores, Passes
  <2> QED  BY <1>1, <2>5, <2>6, <2>7, <2>8, <2>9, <2>10, <2>11 DEF Moves, Drops
<1>6. ASSUME NEW j \in Checks, NEW m \in 1..(N - 1)
      PROVE  Passes(m, handler[j][m], handler[j][m + 1])'
  <2>1. m \in PoPs /\ m + 1 \in PoPs /\ m < N /\ m + 1 # m
    BY HopPoP, NextPoP
  <2>2. Passes(m, handler[j][m], handler[j][m + 1])
    BY DEF PassInv
  <2>3. CASE j = k /\ m = n
    BY <1>5, <2>1, <2>3
  <2>4. CASE j = k /\ m = n + 1 /\ Asks(k, n, c, d)
    BY <1>2, <2>4 DEF Passes
  <2>5. nextIp[m] \in up => nextIp'[m] \in up
    BY <1>1
  <2>6. CASE j = k /\ m + 1 = n
    <3>1. handler'[j][m] = handler[j][m]
      BY <1>1, <2>1, <2>6 DEF PoPs
    <3> QED  BY <1>1, <1>3, <2>2, <2>5, <2>6, <3>1 DEF Passes
  <2>7. CASE handler'[j][m] = handler[j][m] /\ handler'[j][m + 1] = handler[j][m + 1]
    BY <1>1, <2>2, <2>5, <2>7 DEF Passes
  <2> QED  BY <1>1, <2>1, <2>3, <2>4, <2>6, <2>7 DEF PoPs
<1> QED  BY <1>4, <1>6 DEF PassInv

\* As long as nodes are prompt and none fails, every step keeps it.
LEMMA NextPass ==
    ASSUME Prompt, ~Crashes, HandlersInv, HopsInv, LiveInv, PassInv, [Next]_vars
    PROVE  PassInv'
<1>1. \A m \in 1..(N - 1) : nextIp[m] \in up => nextIp'[m] \in up'
  BY NextUp
<1>2. CASE \E k \in Checks : SendCheck(k)
  <2>1. PICK k \in Checks : SendCheck(k)
    BY <1>2
  <2>2. PICK h : handler'[k][1] = SentTo(h)
    BY <2>1, SendMoves
  <2>3. /\ UNCHANGED <<up, short, nextIp>> /\ handler'[k][1].pc = "sent"
        /\ \A j \in Checks, m \in PoPs :
              handler'[j][m] = handler[j][m] \/ (j = k /\ m = 1)
    BY <2>1, <2>2, SendMoves, SentToNode
  <2>4. ASSUME NEW j \in Checks, NEW m \in 1..(N - 1)
        PROVE  Passes(m, handler[j][m], handler[j][m + 1])'
    <3>1. m \in PoPs /\ m + 1 \in PoPs /\ m + 1 # 1
      BY HopPoP, NextPoP
    <3>2. Passes(m, handler[j][m], handler[j][m + 1])
      BY DEF PassInv
    <3> QED  BY <2>3, <3>1, <3>2 DEF Passes
  <2>5. ASSUME NEW j \in Checks, handler'[j][1].pc = "none", NEW m \in PoPs
        PROVE  handler'[j][m].pc = "none"
    <3>1. 1 \in PoPs
      BY HostsAssumption DEF PoPs
    <3> QED  BY <2>3, <2>5, <3>1 DEF PassInv
  <2> QED  BY <2>4, <2>5 DEF PassInv
<1>3. CASE UNCHANGED vars
  BY <1>3 DEF PassInv, Passes, vars
<1>4. CASE \E k \in Checks, n \in PoPs : HandlerSteps(k, n)
  BY <1>1, <1>4, HandlerKeepsPass
<1> QED  BY <1>2, <1>3, <1>4, NextSteps DEF Crash

\* Initially no check has gone anywhere.
LEMMA InitPass == Init => PassInv
<1> SUFFICES ASSUME Init
             PROVE  PassInv
  OBVIOUS
<1>1. NoHandler.pc = "none"
  BY DEF NoHandler
<1>2. \A k \in Checks, n \in PoPs : handler[k][n] = NoHandler
  BY DEF Init
<1> QED  BY <1>1, <1>2, HopPoP DEF PassInv, Passes

-----------------------------------------------------------------------------
(* Every batch repairs a hop. *)

\* The hops that a check gets to and where it is sent to a node that is down.
Broken == {n \in Checked : nextIp[n] \notin up}

\* Wherever check k got by way of a hop that works now, it worked then.
Asked(k) ==
    \A n \in Checked \ Broken :
        handler[k][n].pc \notin {"none", "sent"} => handler[k][n].cur \in up

\* A batch has repaired a hop or its first check has, so far, met no hop that was
\* repaired after it passed.
BatchInv ==
    \/ Broken = {}
    \/ batches + Cardinality(Broken) <= Cardinality(FailedHops)
    \/ /\ batches + Cardinality(Broken) <= Cardinality(FailedHops) + 1
       /\ \E k \in Sent : Asked(k)

\* Hops are finitely many.
LEMMA HopsFinite ==
    /\ Broken \subseteq Checked /\ Checked \subseteq 1..(N - 1)
    /\ IsFiniteSet(Broken) /\ Cardinality(Broken) \in Nat
    /\ IsFiniteSet(FailedHops) /\ Cardinality(FailedHops) \in Nat
<1>1. Broken \subseteq Checked /\ FailedHops \subseteq Checked /\ Checked \subseteq 1..(N - 1)
  BY DEF Broken, FailedHops, Checked
<1>2. IsFiniteSet(1..(N - 1))
  BY HostsAssumption, FS_Interval
<1> QED  BY <1>1, <1>2, FS_Subset, FS_CardinalityType

\* A check that runs nowhere any more has got past every hop up to the first broken
\* one, and has repaired that one: there is none.
LEMMA QuietRepairs ==
    ASSUME NEW e, Range(Hosts[1]) = {e},
           HandlersInv, LiveInv, PassInv, NEW k \in Sent, Quiet(k), Asked(k)
    PROVE  Broken = {}
<1> SUFFICES ASSUME Broken # {}
             PROVE  FALSE
  OBVIOUS
<1> DEFINE b == Min(Broken)
           Passed(n) == handler[k][n].pc = "done" /\ handler[k][n].node \in up
           Unpassed == {n \in 1..b : ~Passed(n)}
<1>1. b \in Broken /\ \A n \in Broken : b <= n
  <2>1. Broken \in SUBSET Nat
    BY HopsFinite
  <2> QED  BY <2>1, MinIsMember
<1> HIDE DEF b
<1>2. b \in 1..(N - 1) /\ b \in Checked /\ nextIp[b] \notin up
  BY <1>1, HopsFinite DEF Broken
<1>3. \A n \in 1..b : n \in Checked /\ n \notin short
  BY <1>2, HostsAssumption DEF Checked
<1>4. \A n \in 1..b : n \in 1..(N - 1) /\ n \in PoPs
  BY <1>2, HostsAssumption, HopPoP
<1>5. k \in Checks /\ handler[k][1].pc # "none" /\ 1 \in PoPs
  BY HostsAssumption DEF Sent, PoPs
<1>6. \A n \in PoPs : handler[k][n].pc # "none" /\ handler[k][n].node \in up => Passed(n)
  BY DEF Quiet, Running
<1>7. Passed(1)
  <2>1. handler[k][1].node = e
    BY <1>5 DEF HandlersInv, Fits
  <2>2. e \in up
    BY <1>5 DEF LiveInv
  <2> QED  BY <1>5, <1>6, <2>1, <2>2
<1>8. \A n \in 1..b : Passed(n)
  <2> SUFFICES ASSUME Unpassed # {}
               PROVE  FALSE
    OBVIOUS
  <2> DEFINE u == Min(Unpassed)
  <2>1. u \in Unpassed /\ \A n \in Unpassed : u <= n
    <3>1. Unpassed \in SUBSET Nat
      OBVIOUS
    <3> HIDE DEF Unpassed
    <3> QED  BY <3>1, MinIsMember
  <2> HIDE DEF u, Passed
  <2>2. u \in 1..b /\ u # 1
    BY <1>7, <2>1
  <2>3. u - 1 \in 1..b /\ u - 1 \notin Broken /\ u - 1 \notin Unpassed
        /\ (u - 1) + 1 = u
    BY <1>1, <1>2, <2>1, <2>2
  <2>4. Passed(u - 1)
    BY <2>3
  <2>5. Passes(u - 1, handler[k][u - 1], handler[k][u])
    BY <1>4, <1>5, <2>3 DEF PassInv
  <2>6. handler[k][u].pc # "none" /\ handler[k][u].node = handler[k][u - 1].cur
    BY <1>3, <2>3, <2>4, <2>5 DEF Passes, Passed
  <2>7. handler[k][u - 1].cur \in up
    BY <1>3, <2>3, <2>4 DEF Asked, Passed
  <2>8. Passed(u)
    BY <1>4, <1>6, <2>2, <2>6, <2>7
  <2> QED  BY <2>1, <2>8
<1>9. Passed(b)
  BY <1>2, <1>8
<1>10. Passes(b, handler[k][b], handler[k][b + 1])
  BY <1>2, <1>5 DEF PassInv
<1> QED  BY <1>2, <1>3, <1>9, <1>10 DEF Passes

\* What the first check of a batch has met stays so, if no hop is repaired.
LEMMA HandlerKeepsAsked ==
    ASSUME Prompt, HandlersInv, HopsInv, NEW k \in Checks, NEW n \in PoPs, HandlerSteps(k, n),
           NEW j \in Checks, Asked(j), Broken' = Broken, Checked' = Checked
    PROVE  Asked(j)'
<1> DEFINE c == handler[k][n]
           d == handler'[k][n]
<1>1. /\ UNCHANGED up
      /\ Moves(k, n, c, d)
      /\ \A i \in Checks, m \in PoPs :
            \/ handler'[i][m] = handler[i][m] \/ (i = k /\ m = n)
            \/ i = k /\ m = n + 1 /\ Asks(k, n, c, d)
  BY HandlerMoves
<1> SUFFICES ASSUME NEW m \in Checked \ Broken, handler'[j][m].pc \notin {"none", "sent"}
             PROVE  handler'[j][m].cur \in up
  BY <1>1 DEF Asked
<1>2. m \in 1..(N - 1) /\ m \in PoPs /\ m # N /\ m \notin short /\ nextIp[m] \in up
  BY HopPoP, HostsAssumption DEF Checked, Broken
<1>3. handler[j][m].pc \notin {"none", "sent"} => handler[j][m].cur \in up
  BY DEF Asked
<1>4. CASE handler'[j][m] = handler[j][m]
  BY <1>3, <1>4
<1>5. CASE j = k /\ m = n + 1 /\ Asks(k, n, c, d)
  BY <1>5, SentToNode DEF Asks
<1>6. CASE j = k /\ m = n
  <2>1. CASE Asks(k, n, c, d)
    BY <1>2, <1>6, <2>1 DEF Asks
  <2>2. CASE ~Asks(k, n, c, d)
    BY <1>1, <1>2, <1>3, <1>6, <2>2 DEF Moves, Ends, Hears, Turns, Stays, Goes, Stores, Drops
  <2> QED  BY <2>1, <2>2
<1> QED  BY <1>1, <1>2, <1>4, <1>5, <1>6

\* A batch begins only after the one before it has repaired a hop, and ends so.
LEMMA NextBatch ==
    ASSUME NEW e, Range(Hosts[1]) = {e}, Prompt, ~Crashes,
           HandlersInv, HopsInv, RestInv, LiveInv, PassInv, BatchInv, [Next]_vars
    PROVE  BatchInv'
<1>1. UNCHANGED <<up, short>>
  BY NextSteps, HandlerFrame DEF SendCheck, Crash, vars
<1>2. Checked' = Checked /\ FailedHops' = FailedHops
  BY <1>1 DEF Checked, FailedHops
<1>3. Broken' \subseteq Broken
  <2> SUFFICES ASSUME NEW m \in Broken'
               PROVE  m \in Broken
    OBVIOUS
  <2>1. m \in Checked /\ m \in 1..(N - 1) /\ nextIp'[m] \notin up'
    BY <1>2, HopsFinite DEF Broken
  <2> QED  BY <2>1, NextUp DEF Broken
<1>4. batches \in Nat
  <2>1. Cardinality(Sent) \in Nat
    BY ChecksAssumption, FS_Subset, FS_CardinalityType DEF Sent
  <2> QED  BY <2>1 DEF RestInv
<1>5. CASE Broken' # Broken
  <2>1. Cardinality(Broken') < Cardinality(Broken) /\ Cardinality(Broken') \in Nat
    <3>1. IsFiniteSet(Broken) /\ Cardinality(Broken) \in Nat /\ Broken' \in SUBSET Broken
      BY <1>3, HopsFinite
    <3>2. /\ IsFiniteSet(Broken') /\ Cardinality(Broken') <= Cardinality(Broken)
          /\ Cardinality(Broken') # Cardinality(Broken)
      BY <1>5, <3>1, FS_Subset
    <3>3. Cardinality(Broken') \in Nat
      BY <3>2, FS_CardinalityType
    <3> QED  BY <3>1, <3>2, <3>3
  <2>2. batches' = batches
    <3>1. nextIp' # nextIp
      BY <1>1, <1>2, <1>5 DEF Broken
    <3> QED  BY <3>1, NextSteps, HandlerFrame DEF SendCheck, Crash, vars
  <2>3. batches' + Cardinality(Broken') <= Cardinality(FailedHops)
    <3>1. Cardinality(Broken) \in Nat /\ Cardinality(FailedHops) \in Nat
      BY HopsFinite
    <3>2. Broken # {}
      BY <1>3, <1>5
    <3>3. batches + Cardinality(Broken) <= Cardinality(FailedHops) + 1
      BY <1>4, <3>1, <3>2 DEF BatchInv
    <3> QED  BY <1>4, <2>1, <2>2, <3>1, <3>3
  <2> QED  BY <1>2, <2>3 DEF BatchInv
<1>6. CASE Broken' = Broken /\ \E k \in Checks : SendCheck(k)
  <2>1. PICK k \in Checks : SendCheck(k)
    BY <1>6
  <2>2. Sent' = Sent \cup {k} /\ k \notin Sent
    BY <2>1, SendKeeps
  <2>3. PICK h : handler'[k][1] = SentTo(h)
    BY <2>1, SendMoves
  <2>4. /\ handler[k][1].pc = "none" /\ handler'[k][1].pc = "sent"
        /\ \A j \in Checks, m \in PoPs :
              handler'[j][m] = handler[j][m] \/ (j = k /\ m = 1)
    BY <2>1, <2>3, SendMoves, SentToNode
  <2>5. \A m \in Checked : m \in PoPs
    BY HopsFinite, HopPoP
  <2>6. Asked(k)'
    BY <1>2, <1>6, <2>4, <2>5 DEF Asked, PassInv
  <2>7. \A j \in Sent : Asked(j) => Asked(j)'
    BY <1>1, <1>2, <1>6, <2>2, <2>4, <2>5 DEF Asked, Sent
  <2>8. CASE Active = {}
    <3>1. batches' = batches + 1
      BY <2>1, <2>8 DEF SendCheck
    <3>2. \A j \in Sent : Quiet(j)
      BY <2>8 DEF Active, Sent
    <3>3. Broken = {} \/ batches + Cardinality(Broken) <= Cardinality(FailedHops)
      BY <3>2, QuietRepairs DEF BatchInv
    <3>4. k \in Sent'
      BY <2>2
    <3> QED  BY <1>2, <1>4, <1>6, <2>6, <3>1, <3>3, <3>4, HopsFinite DEF BatchInv
  <2>9. CASE Active # {}
    <3>1. batches' = batches
      BY <2>1, <2>9 DEF SendCheck
    <3> QED  BY <1>2, <1>6, <2>2, <2>7, <3>1 DEF BatchInv
  <2> QED  BY <2>8, <2>9
<1>7. CASE Broken' = Broken /\ \E k \in Checks, n \in PoPs : HandlerSteps(k, n)
  <2>1. PICK k \in Checks, n \in PoPs : HandlerSteps(k, n)
    BY <1>7
  <2>2. \A j \in Sent : Asked(j) => Asked(j)'
    BY <1>2, <1>7, <2>1, HandlerKeepsAsked DEF Sent
  <2>3. batches' = batches
    BY <2>1, HandlerFrame
  <2>4. Sent' = Sent
    BY <2>1, HandlerKeepsHandlers
  <2> QED  BY <1>2, <1>7, <2>2, <2>3, <2>4 DEF BatchInv
<1>8. CASE UNCHANGED vars
  <2>1. Broken' = Broken /\ Sent' = Sent /\ \A j \in Sent : Asked(j) => Asked(j)'
    BY <1>2, <1>8 DEF Broken, Sent, Asked, vars
  <2> QED  BY <1>2, <1>8, <2>1 DEF BatchInv, vars
<1> QED  BY <1>5, <1>6, <1>7, <1>8, NextSteps DEF Crash

\* Initially every failed hop is broken, and there was no batch.
LEMMA InitBatch == Init => BatchInv
<1> SUFFICES ASSUME Init
             PROVE  BatchInv
  OBVIOUS
<1>1. Broken = FailedHops
  BY DEF Init, Broken, FailedHops, Checked
<1> QED  BY <1>1, HopsFinite DEF Init, BatchInv

-----------------------------------------------------------------------------
(* The table of a lone entry node. *)

\* The handler of check k at the entry node has begun and not ended.
AtWork(k) == handler[k][1].pc \notin {"none", "done"}

\* The rule of the entry node e while its handler d is at work.
EntryRule(e, d) ==
    /\ d.pc \in {"wait", "add"} => d.cur = nextIp[1]
    /\ table[e] = IF d.pc = "add" THEN {}
                  ELSE IF d.pc \in {"answer", "set"} THEN {d.target} ELSE {nextIp[1]}

\* As long as every check was a batch of its own, one handler is at work.
EntryInv(e) ==
    batches = Cardinality(Sent) =>
        /\ \A j, k \in Checks : AtWork(j) /\ AtWork(k) => j = k
        /\ \A k \in Checks : AtWork(k) => EntryRule(e, handler[k][1])
        /\ (\A k \in Checks : ~AtWork(k)) => table[e] = {nextIp[1]}

\* A step of another PoP leaves the entry node alone, and its own keep its rule.
LEMMA HandlerKeepsEntry ==
    ASSUME NEW e, Range(Hosts[1]) = {e}, N > 1, Prompt, HandlersInv, HopsInv, RestInv,
           NEW k \in Checks, NEW n \in PoPs, HandlerSteps(k, n), EntryInv(e)
    PROVE  EntryInv(e)'
<1> DEFINE c == handler[k][n]
           d == handler'[k][n]
<1>1. /\ d.node = c.node /\ UNCHANGED batches
      /\ Moves(k, n, c, d)
      /\ \A j \in Checks, m \in PoPs :
            \/ handler'[j][m] = handler[j][m] \/ (j = k /\ m = n)
            \/ j = k /\ m = n + 1 /\ Asks(k, n, c, d)
  BY HandlerMoves
<1>2. Sent' = Sent
  BY HandlerKeepsHandlers
<1>3. 1 \in PoPs /\ 1 \in 1..(N - 1) /\ 1 < N /\ 1 # N
  BY HostsAssumption DEF PoPs
<1>4. c.node \in Range(Hosts[n]) /\ c.node \in Nodes /\ e \in Nodes
  <2>1. c.pc # "none"
    BY <1>1 DEF Moves, Asks, Ends, Hears, Turns, Stays, Goes, Stores, Drops
  <2> QED  BY <1>3, <2>1, HostsAreNodes DEF HandlersInv, Fits
<1>5. \A j \in Checks : j # k => handler'[j][1] = handler[j][1]
  BY <1>1, <1>3
<1>6. table \in [Nodes -> SUBSET Nodes] /\ nextIp \in [1..(N - 1) -> Nodes]
  BY DEF RestInv, HopsInv
<1> SUFFICES ASSUME batches = Cardinality(Sent)
             PROVE  /\ \A i, j \in Checks : AtWork(i)' /\ AtWork(j)' => i = j
                    /\ \A j \in Checks : AtWork(j)' => EntryRule(e, handler[j][1])'
                    /\ (\A j \in Checks : ~AtWork(j)') => table'[e] = {nextIp'[1]}
  BY <1>1, <1>2 DEF EntryInv
<1>7. /\ \A i, j \in Checks : AtWork(i) /\ AtWork(j) => i = j
      /\ \A j \in Checks : AtWork(j) => EntryRule(e, handler[j][1])
      /\ (\A j \in Checks : ~AtWork(j)) => table[e] = {nextIp[1]}
  BY DEF EntryInv
<1>8. CASE n # 1
  <2>1. n + 1 # 1
    BY DEF PoPs
  <2>2. \A j \in Checks : handler'[j][1] = handler[j][1]
    BY <1>1, <1>3, <1>8, <2>1
  <2>3. c.node # e
    BY <1>3, <1>4, <1>8, HostsAssumption DEF PoPs
  <2>4. table'[e] = table[e] /\ nextIp'[1] = nextIp[1]
    BY <1>1, <1>3, <1>4, <1>6, <1>8, <2>3 DEF Moves, Asks, Ends, Hears, Turns, Stays, Goes,
       Stores, Drops
  <2>5. \A j \in Checks : AtWork(j)' <=> AtWork(j)
    BY <2>2 DEF AtWork
  <2>6. \A j \in Checks : EntryRule(e, handler[j][1]) => EntryRule(e, handler[j][1])'
    BY <2>2, <2>4 DEF EntryRule
  <2> QED  BY <1>7, <2>4, <2>5, <2>6
<1>9. CASE n = 1
  <2>1. c.node = e
    BY <1>4, <1>9
  <2>2. AtWork(k) /\ EntryRule(e, c)
    <3>1. AtWork(k)
      BY <1>1, <1>9 DEF AtWork, Moves, Asks, Ends, Hears, Turns, Stays, Goes, Stores, Drops
    <3> QED  BY <1>7, <1>9, <3>1
  <2>3. \A j \in Checks : j # k => ~AtWork(j) /\ ~AtWork(j)'
    BY <1>5, <1>7, <2>2 DEF AtWork
  <2>4. AtWork(k)' => EntryRule(e, handler[k][1])'
    BY <1>1, <1>3, <1>4, <1>6, <1>9, <2>1, <2>2 DEF AtWork, EntryRule, Moves, Asks, Ends, Hears,
       Turns, Stays, Goes, Stores, Drops
  <2>5. ~AtWork(k)' => table'[e] = {nextIp'[1]}
    BY <1>1, <1>3, <1>4, <1>6, <1>9, <2>1, <2>2 DEF AtWork, EntryRule, Moves, Asks, Ends, Hears,
       Turns, Stays, Goes, Stores, Drops
  <2> QED  BY <2>3, <2>4, <2>5
<1> QED  BY <1>8, <1>9

\* A check that is sent while another one runs is no batch.
LEMMA NextEntry ==
    ASSUME NEW e, Range(Hosts[1]) = {e}, N > 1, Prompt, ~Crashes,
           HandlersInv, HopsInv, RestInv, LiveInv, EntryInv(e), [Next]_vars
    PROVE  EntryInv(e)'
<1>1. CASE \E k \in Checks : SendCheck(k)
  <2>1. PICK k \in Checks : SendCheck(k)
    BY <1>1
  <2>2. Sent' = Sent \cup {k} /\ k \notin Sent
    BY <2>1, SendKeeps
  <2>3. IsFiniteSet(Sent) /\ Cardinality(Sent) \in Nat
    BY ChecksAssumption, FS_Subset, FS_CardinalityType DEF Sent
  <2>4. Cardinality(Sent') = Cardinality(Sent) + 1 /\ batches \in 0..Cardinality(Sent)
    BY <2>2, <2>3, FS_AddElement DEF RestInv
  <2>5. CASE Active # {}
    <3>1. batches' = batches
      BY <2>1, <2>5 DEF SendCheck
    <3> QED  BY <2>3, <2>4, <3>1 DEF EntryInv
  <2>6. CASE Active = {}
    <3>1. batches' = batches + 1
      BY <2>1, <2>6 DEF SendCheck
    <3>2. PICK h : handler'[k][1] = SentTo(h)
      BY <2>1, SendMoves
    <3>3. 1 \in PoPs
      BY HostsAssumption DEF PoPs
    <3>4. /\ UNCHANGED <<nextIp, table>> /\ handler'[k][1].pc = "sent"
          /\ \A j \in Checks : j # k => handler'[j][1] = handler[j][1]
      BY <2>1, <3>2, <3>3, SendMoves, SentToNode
    <3>5. \A j \in Checks : ~AtWork(j)
      <4> SUFFICES ASSUME NEW j \in Checks, AtWork(j)
                   PROVE  FALSE
        OBVIOUS
      <4>1. handler[j][1].node = e
        BY <3>3 DEF AtWork, HandlersInv, Fits
      <4>2. e \in up
        BY <3>3 DEF LiveInv
      <4> QED  BY <2>6, <3>3, <4>1, <4>2 DEF Active, Quiet, Running, AtWork
    <3>6. \A j \in Checks : j # k => ~AtWork(j)'
      BY <3>4, <3>5 DEF AtWork
    <3>7. batches = Cardinality(Sent) => EntryRule(e, handler[k][1])'
      BY <3>4, <3>5 DEF EntryInv, EntryRule
    <3> QED  BY <2>3, <2>4, <3>1, <3>4, <3>6, <3>7 DEF EntryInv, AtWork
  <2> QED  BY <2>5, <2>6
<1>2. CASE UNCHANGED vars
  BY <1>2 DEF EntryInv, AtWork, EntryRule, Sent, vars
<1> QED  BY <1>1, <1>2, NextSteps, HandlerKeepsEntry DEF Crash

\* Initially the entry node has the rule that circuitd stored.
LEMMA InitEntry ==
    ASSUME NEW e, Range(Hosts[1]) = {e}, N > 1, Init
    PROVE  EntryInv(e)
<1>1. 1 \in PoPs /\ 1 \in 1..(N - 1) /\ e \in Nodes
  BY HostsAssumption, HostsAreNodes DEF PoPs
<1>2. \A k \in Checks : handler[k][1].pc = "none"
  BY <1>1 DEF Init, NoHandler
<1>3. \A m \in 1..(N - 1) : e \in Range(Hosts[m]) <=> m = 1
  BY <1>1, HopPoP, HostsAssumption DEF PoPs
<1>4. {m \in 1..(N - 1) : e \in Range(Hosts[m])} = {1}
  BY <1>1, <1>3
<1>5. table[e] = {Hosts[n + 1][1] : n \in {m \in 1..(N - 1) : e \in Range(Hosts[m])}}
  BY <1>1 DEF Init
<1>6. table[e] = {Hosts[1 + 1][1]}
  BY <1>4, <1>5
<1>7. nextIp[1] = Hosts[1 + 1][1]
  BY <1>1 DEF Init
<1> QED  BY <1>2, <1>6, <1>7 DEF EntryInv, AtWork

-----------------------------------------------------------------------------
(* The theorems. *)

\* As long as no node fails, only nodes that are up are turned to.
LEMMA LiveInvariant ==
    ASSUME ~Crashes
    PROVE  Spec => [](Inv /\ LiveInv)
<1>1. LiveInv /\ Inv /\ [Next]_vars => LiveInv'
  BY NextLive DEF Inv
<1> QED  BY <1>1, InitLive, Invariant, PTL DEF Spec

\* Whatever else is lost or late, no write of next_ip, however stale what its handler
\* has read, replaces a next hop that is up by one that is not.
THEOREM RepairsAreForGood ==
    ASSUME ~Crashes
    PROVE  Spec => RepairsLast
<1>1. Inv /\ LiveInv /\ [Next]_vars
         => [\A n \in 1..(N - 1) : nextIp[n] \in up => nextIp'[n] \in up']_nextIp
  BY NextUp DEF Inv
<1> QED  BY <1>1, LiveInvariant, PTL DEF Spec, RepairsLast

\* If live nodes are prompt and none fails any more, as many batches of overlapping
\* checks as there are failed hops mend the circuit of a lone entry node, as far as its
\* authenticators let a check get.
THEOREM BatchesRepair ==
    ASSUME NEW e, Range(Hosts[1]) = {e}, Prompt, ~Crashes
    PROVE  Spec => []RetriesRepair
<1>1. Init => PassInv /\ BatchInv
  BY InitPass, InitBatch
<1>2. PassInv /\ BatchInv /\ Inv /\ LiveInv /\ [Next]_vars => PassInv' /\ BatchInv'
  BY NextPass, NextBatch DEF Inv
<1>3. Inv /\ LiveInv /\ PassInv /\ BatchInv => RetriesRepair
  <2> SUFFICES ASSUME Inv, LiveInv, PassInv, BatchInv, Active = {},
                      batches >= Cardinality(FailedHops)
               PROVE  Broken = {}
    BY DEF RetriesRepair, Broken
  <2>1. \A k \in Sent : Quiet(k)
    BY DEF Active, Sent
  <2>2. batches \in Nat
    <3>1. Cardinality(Sent) \in Nat
      BY ChecksAssumption, FS_Subset, FS_CardinalityType DEF Sent
    <3> QED  BY <3>1 DEF Inv, RestInv
  <2>3. CASE batches + Cardinality(Broken) <= Cardinality(FailedHops)
    <3>1. Cardinality(Broken) = 0
      BY <2>2, <2>3, HopsFinite
    <3> QED  BY <3>1, HopsFinite, FS_EmptySet
  <2>4. CASE \E k \in Sent : Asked(k)
    BY <2>1, <2>4, QuietRepairs DEF Inv
  <2> QED  BY <2>3, <2>4 DEF BatchInv
<1> QED  BY <1>1, <1>2, <1>3, Invariant, LiveInvariant, PTL DEF Spec

\* Under the same conditions the rule of the lone entry node is the stored next hop
\* whenever no check runs, as long as no two of them have overlapped.
THEOREM EntryFollowsStore ==
    ASSUME NEW e, Range(Hosts[1]) = {e}, N > 1, Prompt, ~Crashes
    PROVE  Spec => []RuleFollowsStore
<1>1. Init => EntryInv(e)
  BY InitEntry
<1>2. EntryInv(e) /\ Inv /\ LiveInv /\ [Next]_vars => EntryInv(e)'
  BY NextEntry DEF Inv
<1>3. Inv /\ LiveInv /\ EntryInv(e) => RuleFollowsStore
  <2> SUFFICES ASSUME Inv, LiveInv, EntryInv(e), Active = {}, batches = Cardinality(Sent)
               PROVE  table[e] = {nextIp[1]}
    BY DEF RuleFollowsStore, Sent
  <2>1. 1 \in PoPs
    BY HostsAssumption DEF PoPs
  <2>2. \A k \in Checks : ~AtWork(k)
    <3> SUFFICES ASSUME NEW k \in Checks, AtWork(k)
                 PROVE  FALSE
      OBVIOUS
    <3>1. handler[k][1].node = e
      BY <2>1 DEF AtWork, Inv, HandlersInv, Fits
    <3>2. e \in up
      BY <2>1 DEF LiveInv
    <3> QED  BY <2>1, <3>1, <3>2 DEF Active, Quiet, Running, AtWork
  <2> QED  BY <2>2 DEF EntryInv
<1> QED  BY <1>1, <1>2, <1>3, Invariant, LiveInvariant, PTL DEF Spec
=============================================================================
