-------------------------- MODULE TaasClientProofs --------------------------
(***************************************************************************)
(* Theorems about the ping client and its failover dialogue, for every     *)
(* number of failovers that the ISPs complete.                             *)
(***************************************************************************)
EXTENDS TaasClient, Messages, TLAPS

-----------------------------------------------------------------------------
(* The dialogue. *)

Msgs == Acks \cup Completions

PeerStates == {"none", "listening", "asked", "acked", "success", "failure", "other"}

\* What the first hop can have sent by now.
WireOK ==
    /\ wire \in Seq(Msgs)
    /\ peer \in {"none", "listening", "asked"} => wire = << >>
    /\ peer = "acked" => Len(wire) <= 1
    /\ Len(wire) <= 2
    /\ \A i \in 1..Len(wire) :
          wire[i].mine /\ wire[i].kind = "success" => peer = "success"

DialogueInv ==
    /\ tpc \in {"idle", "connect", "write", "ack", "complete", "returned", "crashed"}
    /\ ret \in {0, 1}
    /\ ended \in {"no", "eof", "reset"}
    /\ peer \in PeerStates
    /\ WireOK
    /\ tpc = "connect" => peer = "none"
    /\ SuccessIsConfirmed

\* What the first hop sends is announced by its state.
LEMMA PeerKeepsDialogue ==
    ASSUME DialogueInv, NEW m \in Completions, PeerStep(m)
    PROVE  DialogueInv'
<1> USE DEF DialogueInv, WireOK, PeerStates, SuccessIsConfirmed
<1>1. CASE PeerAcknowledges
  <2>1. PICK a \in Acks : wire' = Append(wire, a)
    BY <1>1 DEF PeerAcknowledges
  <2>2. wire = << >> /\ peer' = "acked" /\ UNCHANGED <<tpc, ret, ended>> /\ peer = "asked"
    BY <1>1 DEF PeerAcknowledges
  <2>3. wire' = <<a>> /\ a \in Msgs /\ a.kind = "ack"
    BY <2>1, <2>2 DEF Acks, Msgs
  <2> QED  BY <2>2, <2>3
<1>2. CASE PeerCompletes(m)
  <2>1. /\ wire' = Append(wire, m) /\ peer = "acked"
        /\ peer' = IF m.mine THEN m.kind ELSE "other"
        /\ UNCHANGED <<tpc, ret, ended>>
    BY <1>2 DEF PeerCompletes
  <2>2. m \in Msgs /\ m.kind \in {"success", "failure"} /\ m.mine \in BOOLEAN
    BY DEF Msgs, Completions
  <2>3. /\ wire' \in Seq(Msgs) /\ Len(wire') = Len(wire) + 1
        /\ \A i \in 1..Len(wire') :
              wire'[i] = m \/ (i \in 1..Len(wire) /\ wire'[i] = wire[i])
    BY <2>1, <2>2
  <2>4. \A i \in 1..Len(wire) : ~(wire[i].mine /\ wire[i].kind = "success")
    BY <2>1
  <2>5. \A i \in 1..Len(wire') :
           wire'[i].mine /\ wire'[i].kind = "success" => peer' = "success"
    BY <2>1, <2>3, <2>4
  <2>6. peer' \in {"success", "failure", "other"}
    BY <2>1, <2>2
  <2> QED  BY <2>1, <2>3, <2>5, <2>6
<1>3. CASE PeerEnds
  BY <1>3 DEF PeerEnds
<1> QED  BY <1>1, <1>2, <1>3 DEF PeerStep

\* Only an outcome about this check makes the call return success.
LEMMA TriggerKeepsDialogue ==
    ASSUME DialogueInv, TriggerStep
    PROVE  DialogueInv'
<1> USE DEF DialogueInv, WireOK, PeerStates, SuccessIsConfirmed
<1>1. CASE Connected
  BY <1>1 DEF Connected
<1>2. CASE WriteRequest
  BY <1>2 DEF WriteRequest
<1>3. CASE SelectTimesOut
  BY <1>3 DEF SelectTimesOut
<1>4. CASE ReadAck
  BY <1>4 DEF ReadAck
<1>5. CASE ReadComplete
  <2>1. ret' = 0 => peer = "success"
    <3> SUFFICES ASSUME ret' = 0
                 PROVE  peer = "success"
      OBVIOUS
    <3>1. PICK m \in Unpacked(Completions) : m.mine /\ m.kind = "success"
      BY <1>5 DEF ReadComplete
    <3>2. wire = <<m>>
      BY <3>1 DEF Unpacked
    <3>3. Len(wire) = 1 /\ wire[1] = m
      BY <3>2
    <3> QED  BY <3>1, <3>3
  <2>2. /\ wire' = << >> /\ tpc' = "returned" /\ ret' \in {0, 1}
        /\ UNCHANGED <<ended, peer>>
    BY <1>5 DEF ReadComplete
  <2> QED  BY <2>1, <2>2
<1>6. CASE ReadOfReset
  BY <1>6 DEF ReadOfReset
<1> QED  BY <1>1, <1>2, <1>3, <1>4, <1>5, <1>6 DEF TriggerStep

-----------------------------------------------------------------------------
(* The client and the network. *)

ClientInv ==
    /\ isp \in Isps
    /\ cpc \in {"start", "send", "recv", "trigger", "done"}
    /\ tpc = "idle" <=> cpc # "trigger"
    /\ path \in [Isps -> BOOLEAN]
    /\ server \in [Isps -> {"idle", "dialed", "serving"}]
    /\ pings \in [Isps -> Nat]
    /\ pongs \in Nat
    /\ inbox \in Nat
    /\ failovers \in 0..MaxFailovers
    /\ tpc # "idle" /\ peer = "success" => failovers < MaxFailovers
    /\ FewLatePongs

\* A call that runs has its socket; one that was told of success has closed it.
SocketsInv ==
    /\ fds \in Nat
    /\ FewSockets
    /\ cpc \in {"send", "recv"} => fds >= 2
    /\ cpc = "trigger" => fds >= (IF tpc = "returned" THEN 2 ELSE 3)
    /\ cpc = "trigger" /\ tpc = "returned" /\ ret = 0 => fds <= 2 * Ended + 2

Inv == DialogueInv /\ ClientInv /\ SocketsInv

\* The initial state is one of the invariant.
LEMMA InitInv == Init => Inv
<1> SUFFICES ASSUME Init
             PROVE  Inv
  OBVIOUS
<1>1. DialogueInv
  BY DEF Init, TriggerInit, DialogueInv, WireOK, PeerStates, SuccessIsConfirmed
<1>2. ClientInv
  BY FailoversAssumption DEF Init, Listening, TriggerInit, ClientInv, FewLatePongs,
     Outstanding, Timeouts, Ended, Isps
<1>3. SocketsInv
  BY DEF Init, TriggerInit, SocketsInv, FewSockets, Ended, Isps
<1> QED  BY <1>1, <1>2, <1>3 DEF Inv

\* Every step of the client, the network and the first hop keeps the dialogue.
LEMMA NextDialogueInv == Inv /\ [Next]_vars => DialogueInv'
<1> SUFFICES ASSUME DialogueInv, ClientInv, [Next]_vars
             PROVE  DialogueInv'
  BY DEF Inv
<1>1. UNCHANGED dialogueVars => DialogueInv'
  BY DEF dialogueVars, DialogueInv, WireOK, SuccessIsConfirmed
<1>2. CASE ReceiveTimesOut
  BY <1>2 DEF ReceiveTimesOut, Call, DialogueInv, WireOK, PeerStates,
     SuccessIsConfirmed
<1>3. CASE TriggerReturns
  BY <1>3 DEF TriggerReturns, DialogueInv, WireOK, SuccessIsConfirmed
<1>4. CASE ClientStep
  BY <1>1, <1>2, <1>3, <1>4, TriggerKeepsDialogue
     DEF ClientStep, Connect, SendPing, ReceivePong, triggerVars
<1>5. CASE \E m \in Completions : PeerStep(m)
  BY <1>5, PeerKeepsDialogue
<1>6. CASE ConnectFails \/ SendFails
  BY <1>1, <1>6 DEF ConnectFails, SendFails, triggerVars
<1>7. CASE \E i \in Isps : PathChanges(i) \/ LosePing(i) \/ Accept(i)
                           \/ EndConnection(i) \/ AnswerPing(i)
  BY <1>1, <1>7 DEF PathChanges, LosePing, Accept, EndConnection, AnswerPing, triggerVars
<1>8. CASE LosePong \/ DeliverPong
  BY <1>1, <1>8 DEF LosePong, DeliverPong, triggerVars
<1>9. CASE UNCHANGED vars
  BY <1>1, <1>9 DEF vars, triggerVars
<1> QED  BY <1>4, <1>5, <1>6, <1>7, <1>8, <1>9 DEF Next

\* Every step keeps the count of pongs that can still come.
LEMMA NextClientInv == Inv /\ [Next]_vars => ClientInv'
<1> SUFFICES ASSUME DialogueInv, ClientInv, [Next]_vars
             PROVE  ClientInv'
  BY DEF Inv
<1> USE FailoversAssumption DEF ClientInv, FewLatePongs, Outstanding, Timeouts, Ended, Isps,
    clientVars, networkVars, triggerVars, dialogueVars
<1>1. CASE Connect
  <2>1. server' \in [Isps -> {"idle", "dialed", "serving"}]
    BY <1>1 DEF Connect
  <2> QED  BY <1>1, <2>1 DEF Connect
<1>2. CASE SendPing
  BY <1>2 DEF SendPing
<1>3. CASE ReceivePong
  BY <1>3 DEF ReceivePong
<1>4. CASE ReceiveTimesOut
  BY <1>4 DEF ReceiveTimesOut, Call
<1>5. CASE TriggerReturns
  <2>1. CASE ret = 0
    <3>1. peer = "success" /\ failovers < MaxFailovers
      BY <1>5, <2>1 DEF TriggerReturns, DialogueInv, SuccessIsConfirmed
    <3> QED  BY <1>5, <2>1, <3>1 DEF TriggerReturns
  <2>2. CASE ret # 0
    BY <1>5, <2>2 DEF TriggerReturns, ClientEnds
  <2> QED  BY <2>1, <2>2
<1>6. CASE TriggerStep /\ UNCHANGED <<clientVars, networkVars, inbox>>
  <2>1. tpc' # "idle" /\ tpc # "idle" /\ (peer' = "success" => peer = "success")
    BY <1>6 DEF TriggerStep, Connected, WriteRequest, SelectTimesOut, ReadAck,
       ReadComplete, ReadOfReset
  <2> QED  BY <1>6, <2>1
<1>7. CASE ConnectFails \/ SendFails
  BY <1>7 DEF ConnectFails, SendFails, ClientEnds
<1>8. CASE \E m \in Completions :
              /\ m.kind = "success" => failovers < MaxFailovers
              /\ PeerStep(m)
              /\ UNCHANGED <<clientVars, networkVars, inbox>>
  <2>1. tpc' = tpc /\ (peer' = "success" => peer = "success" \/ failovers < MaxFailovers)
    BY <1>8 DEF PeerStep, PeerAcknowledges, PeerCompletes, PeerEnds
  <2> QED  BY <1>8, <2>1
<1>9. CASE \E i \in Isps : PathChanges(i) \/ LosePing(i) \/ Accept(i)
                           \/ EndConnection(i) \/ AnswerPing(i)
  <2>1. PICK i \in Isps : \/ PathChanges(i) \/ LosePing(i) \/ Accept(i)
                          \/ EndConnection(i) \/ AnswerPing(i)
    BY <1>9
  <2>2. CASE PathChanges(i)
    <3>1. path' \in [Isps -> BOOLEAN]
      BY <2>2, Zenon DEF PathChanges
    <3> QED  BY <2>2, <3>1 DEF PathChanges
  <2>3. CASE LosePing(i)
    BY <2>3 DEF LosePing
  <2>4. CASE Accept(i)
    BY <2>4 DEF Accept
  <2>5. CASE EndConnection(i)
    BY <2>5 DEF EndConnection
  <2>6. CASE AnswerPing(i)
    BY <2>6 DEF AnswerPing
  <2> QED  BY <2>1, <2>2, <2>3, <2>4, <2>5, <2>6
<1>10. CASE LosePong \/ DeliverPong
  BY <1>10 DEF LosePong, DeliverPong
<1>11. CASE UNCHANGED vars
  BY <1>11 DEF vars
<1> QED  BY <1>1, <1>2, <1>3, <1>4, <1>5, <1>6, <1>7, <1>8, <1>9, <1>10, <1>11
         DEF Next, ClientStep

\* Every step keeps the count of open sockets.
LEMMA NextSocketsInv == Inv /\ [Next]_vars => SocketsInv'
<1> SUFFICES ASSUME ClientInv, SocketsInv, [Next]_vars
             PROVE  SocketsInv'
  BY DEF Inv
<1>0. isp \in {1, 2} /\ cpc \in {"start", "send", "recv", "trigger", "done"}
      /\ (tpc = "idle" <=> cpc # "trigger")
  BY DEF ClientInv, Isps
<1> USE <1>0 DEF SocketsInv, FewSockets, Ended, clientVars, triggerVars, dialogueVars
<1>1. CASE Connect
  BY <1>1 DEF Connect
<1>2. CASE SendPing \/ ReceivePong
  BY <1>2 DEF SendPing, ReceivePong
<1>3. CASE ReceiveTimesOut
  BY <1>3 DEF ReceiveTimesOut, Call
<1>4. CASE TriggerReturns
  BY <1>4 DEF TriggerReturns, ClientEnds
<1>5. CASE TriggerStep /\ UNCHANGED <<clientVars, networkVars, inbox>>
  <2>1. UNCHANGED <<isp, cpc>> /\ cpc = "trigger"
    BY <1>5 DEF TriggerStep, Connected, WriteRequest, SelectTimesOut, ReadAck,
       ReadComplete, ReadOfReset
  <2>2. CASE Connected \/ WriteRequest \/ ReadOfReset
    BY <2>1, <2>2 DEF Connected, WriteRequest, ReadOfReset
  <2>3. CASE SelectTimesOut \/ ReadAck
    BY <2>1, <2>3 DEF SelectTimesOut, ReadAck
  <2>4. CASE ReadComplete
    <3>1. tpc = "complete" /\ tpc' = "returned" /\ fds' \in {fds, fds - 1}
      BY <2>4 DEF ReadComplete
    <3>2. ret' = 0 => fds' = fds - 1
      BY <2>4 DEF ReadComplete
    <3> QED  BY <2>1, <3>1, <3>2
  <2> QED  BY <1>5, <2>2, <2>3, <2>4 DEF TriggerStep
<1>6. CASE ConnectFails
  BY <1>6 DEF ConnectFails, ClientEnds
<1>7. CASE SendFails
  BY <1>7 DEF SendFails, ClientEnds
<1>8. CASE \E m \in Completions :
              /\ m.kind = "success" => failovers < MaxFailovers
              /\ PeerStep(m)
              /\ UNCHANGED <<clientVars, networkVars, inbox>>
  BY <1>8 DEF PeerStep, PeerAcknowledges, PeerCompletes, PeerEnds
<1>9. CASE \E i \in Isps : PathChanges(i) \/ LosePing(i) \/ Accept(i)
                           \/ EndConnection(i) \/ AnswerPing(i)
  BY <1>9 DEF PathChanges, LosePing, Accept, EndConnection, AnswerPing
<1>10. CASE LosePong \/ DeliverPong
  BY <1>10 DEF LosePong, DeliverPong
<1>11. CASE UNCHANGED vars
  BY <1>11 DEF vars
<1> QED  BY <1>1, <1>2, <1>3, <1>4, <1>5, <1>6, <1>7, <1>8, <1>9, <1>10, <1>11
         DEF Next, ClientStep

-----------------------------------------------------------------------------

\* The invariant holds in every reachable state.
THEOREM Invariant == Spec => []Inv
<1>1. Inv /\ [Next]_vars => Inv'
  BY NextDialogueInv, NextClientInv, NextSocketsInv DEF Inv
<1> QED  BY <1>1, InitInv, PTL DEF Spec

\* Type correctness of the client, the network and the dialogue.
THEOREM TypeCorrect == Spec => []TypeOK
<1>1. Inv => TypeOK
  BY DEF Inv, ClientInv, DialogueInv, SocketsInv, WireOK, PeerStates, Msgs, TypeOK,
     TriggerTypeOK
<1> QED  BY <1>1, Invariant, PTL

\* trigger_failover() returns success only if the first hop said so of this check.
THEOREM SuccessConfirmed == Spec => []SuccessIsConfirmed
<1>1. Inv => SuccessIsConfirmed
  BY DEF Inv, DialogueInv
<1> QED  BY <1>1, Invariant, PTL

\* Late pongs never outnumber the timeouts, so a dead path does not hide behind
\* more of them.
THEOREM LatePongsBounded == Spec => []FewLatePongs
<1>1. Inv => FewLatePongs
  BY DEF Inv, ClientInv
<1> QED  BY <1>1, Invariant, PTL

\* The client never holds more than a fixed number of sockets, however many
\* failovers succeed: only calls that fail leak theirs, and they end client().
THEOREM SocketsBounded == Spec => []FewSockets
<1>1. Inv => FewSockets
  BY DEF Inv, SocketsInv
<1> QED  BY <1>1, Invariant, PTL

-----------------------------------------------------------------------------
(* The replies on the wire. *)

\* While the client waits for an acknowledgement, it is the first that has arrived;
\* once it is read, nothing but the outcome can.
ReplyOrder ==
    /\ tpc \in {"connect", "write"} => peer \in {"none", "listening"}
    /\ tpc = "ack" =>
          /\ peer = "acked" => wire # << >>
          /\ \A i \in 1..Len(wire) : wire[i] \in IF i = 1 THEN Acks ELSE Completions
    /\ tpc = "complete" =>
          /\ peer \notin {"none", "listening", "asked"}
          /\ peer = "acked" => wire = << >>
          /\ Len(wire) <= 1
          /\ \A i \in 1..Len(wire) : wire[i] \in Completions

\* The first hop acknowledges once and before the outcome.
LEMMA PeerKeepsOrder ==
    ASSUME DialogueInv, ReplyOrder, NEW m \in Completions, PeerStep(m)
    PROVE  ReplyOrder'
<1> USE DEF ReplyOrder
<1>1. CASE PeerAcknowledges
  <2>1. PICK a \in Acks : wire' = Append(wire, a)
    BY <1>1 DEF PeerAcknowledges
  <2>2. wire = << >> /\ peer' = "acked" /\ peer = "asked" /\ UNCHANGED tpc
    BY <1>1 DEF PeerAcknowledges, DialogueInv, WireOK
  <2>3. wire' = <<a>>
    BY <2>1, <2>2
  <2> QED  BY <2>2, <2>3
<1>2. CASE PeerCompletes(m)
  <2>1. /\ wire' = Append(wire, m) /\ peer = "acked" /\ UNCHANGED tpc
        /\ peer' \in {"success", "failure", "other"}
    BY <1>2 DEF PeerCompletes, Completions
  <2>2. wire \in Seq(Msgs) /\ Len(wire) <= 1 /\ m \in Msgs
    BY <2>1 DEF DialogueInv, WireOK, Msgs
  <2>3. /\ Len(wire') = Len(wire) + 1
        /\ \A i \in 1..Len(wire') : wire'[i] = IF i = Len(wire) + 1 THEN m ELSE wire[i]
    BY <2>1, <2>2
  <2>4. tpc = "ack" => Len(wire) = 1
    <3> SUFFICES ASSUME tpc = "ack" PROVE Len(wire) = 1
      OBVIOUS
    <3>1. wire # << >>
      BY <2>1
    <3>2. Len(wire) # 0
      BY <2>2, <3>1
    <3>3. PICK k \in Nat : k = Len(wire)
      BY <2>2
    <3>4. k <= 1 /\ k # 0
      BY <2>2, <3>2, <3>3
    <3>5. k = 1
      BY <3>4
    <3> QED  BY <3>3, <3>5
  <2>5. tpc = "complete" => Len(wire) = 0
    BY <2>1
  <2> QED  BY <2>1, <2>3, <2>4, <2>5
<1>3. CASE PeerEnds
  BY <1>3 DEF PeerEnds
<1> QED  BY <1>1, <1>2, <1>3 DEF PeerStep

\* Every step keeps the order.
LEMMA NextOrder == Inv /\ ReplyOrder /\ [Next]_vars => ReplyOrder'
<1> SUFFICES ASSUME Inv, ReplyOrder, [Next]_vars
             PROVE  ReplyOrder'
  OBVIOUS
<1>0. DialogueInv
  BY DEF Inv
<1>1. UNCHANGED dialogueVars => ReplyOrder'
  BY DEF dialogueVars, ReplyOrder
<1>2. CASE ReceiveTimesOut
  BY <1>2 DEF ReceiveTimesOut, Call, ReplyOrder
<1>3. CASE TriggerReturns
  BY <1>3 DEF TriggerReturns, ReplyOrder
<1>4. CASE TriggerStep
  <2>1. CASE Connected \/ SelectTimesOut \/ ReadComplete \/ ReadOfReset
    BY <2>1 DEF Connected, SelectTimesOut, ReadComplete, ReadOfReset, ReplyOrder
  <2>2. CASE WriteRequest
    <3>1. wire = << >> /\ wire' = << >>
      BY <1>0, <2>2 DEF WriteRequest, ReplyOrder, DialogueInv, WireOK
    <3> QED  BY <2>2, <3>1 DEF WriteRequest, ReplyOrder
  <2>3. CASE ReadAck
    <3>1. wire' = << >> /\ tpc' \in {"complete", "returned"} /\ peer' = peer
      BY <2>3 DEF ReadAck
    <3>2. tpc' = "complete" => wire # << >>
      BY <2>3 DEF ReadAck, Unpacked
    <3>3. tpc' = "complete" => peer \notin {"none", "listening", "asked"}
      BY <1>0, <3>2 DEF DialogueInv, WireOK
    <3> QED  BY <3>1, <3>3 DEF ReplyOrder
  <2> QED  BY <1>4, <2>1, <2>2, <2>3 DEF TriggerStep
<1>5. CASE ClientStep
  BY <1>1, <1>2, <1>3, <1>4, <1>5 DEF ClientStep, Connect, SendPing, ReceivePong, triggerVars
<1>6. CASE \E m \in Completions : PeerStep(m)
  BY <1>0, <1>6, PeerKeepsOrder
<1>7. CASE ConnectFails \/ SendFails
  BY <1>1, <1>7 DEF ConnectFails, SendFails, triggerVars
<1>8. CASE \E i \in Isps : PathChanges(i) \/ LosePing(i) \/ Accept(i)
                           \/ EndConnection(i) \/ AnswerPing(i)
  BY <1>1, <1>8 DEF PathChanges, LosePing, Accept, EndConnection, AnswerPing, triggerVars
<1>9. CASE LosePong \/ DeliverPong
  BY <1>1, <1>9 DEF LosePong, DeliverPong, triggerVars
<1>10. CASE UNCHANGED vars
  BY <1>1, <1>10 DEF vars, triggerVars
<1> QED  BY <1>5, <1>6, <1>7, <1>8, <1>9, <1>10 DEF Next

\* What a buffer with one reply, or both, unpacks as.
LEMMA Unpacking ==
    LET acknowledge == check_failover_acknowledge
        complete == failover_complete
    IN  /\ ~Unpacks(acknowledge, {}) /\ ~Unpacks(complete, {})
        /\ Unpacks(acknowledge, acknowledge) /\ Unpacks(complete, complete)
        /\ ~Unpacks(acknowledge, acknowledge \cup complete)
  BY DEF Unpacks, check_failover_acknowledge, failover_complete, Field, WireType

\* Nothing on the wire separates two replies, and fields that are not known are
\* skipped, but a reply is unpacked exactly if it arrives alone and is waited for.
THEOREM RepliesNotConfused == Spec => []RepliesToldApart
<1>1. Init => ReplyOrder
  BY DEF Init, TriggerInit, ReplyOrder
<1>2. Inv /\ ReplyOrder => RepliesToldApart
  <2> SUFFICES ASSUME Inv, ReplyOrder
               PROVE  RepliesToldApart
    OBVIOUS
  <2>1. wire \in Seq(Msgs) /\ Len(wire) \in {0, 1, 2} /\ DOMAIN wire = 1..Len(wire)
    <3>1. wire \in Seq(Msgs) /\ Len(wire) <= 2
      BY DEF Inv, DialogueInv, WireOK
    <3>2. Len(wire) \in Nat /\ DOMAIN wire = 1..Len(wire)
      BY <3>1
    <3> QED  BY <3>1, <3>2
  <2>2. /\ \A m \in Acks : Schema(m) = check_failover_acknowledge
        /\ \A m \in Completions : Schema(m) = failover_complete
    BY DEF Schema, Acks, Completions
  <2>3. CASE Len(wire) = 0
    <3>1. Arrived = {}
      BY <2>1, <2>3 DEF Arrived
    <3>2. Unpacked(Acks) = {} /\ Unpacked(Completions) = {}
      BY <2>3 DEF Unpacked
    <3> QED  BY <3>1, <3>2, Unpacking DEF RepliesToldApart
  <2>4. CASE Len(wire) = 1
    <3>1. wire = <<wire[1]>> /\ Arrived = Schema(wire[1])
      BY <2>1, <2>4 DEF Arrived
    <3>2. tpc = "ack" => wire[1] \in Acks
      BY <2>4 DEF ReplyOrder
    <3>3. tpc = "complete" => wire[1] \in Completions
      BY <2>4 DEF ReplyOrder
    <3>4. /\ tpc = "ack" => Unpacked(Acks) # {}
          /\ tpc = "complete" => Unpacked(Completions) # {}
      BY <3>1, <3>2, <3>3 DEF Unpacked
    <3> QED  BY <2>2, <3>1, <3>2, <3>3, <3>4, Unpacking DEF RepliesToldApart
  <2>5. CASE Len(wire) = 2
    <3>1. tpc # "complete"
      BY <2>5 DEF ReplyOrder
    <3>2. tpc = "ack" => wire[1] \in Acks /\ wire[2] \in Completions
      BY <2>5 DEF ReplyOrder
    <3>3. Arrived = Schema(wire[1]) \cup Schema(wire[2])
      BY <2>1, <2>5 DEF Arrived
    <3>4. Unpacked(Acks) = {}
      BY <2>5 DEF Unpacked
    <3> QED  BY <2>2, <3>1, <3>2, <3>3, <3>4, Unpacking DEF RepliesToldApart
  <2> QED  BY <2>1, <2>3, <2>4, <2>5
<1> QED  BY <1>1, <1>2, NextOrder, Invariant, PTL DEF Spec
=============================================================================
