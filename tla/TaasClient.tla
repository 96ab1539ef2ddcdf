----------------------------- MODULE TaasClient -----------------------------
(***************************************************************************)
(* The end-to-end loop: clients/udp_taas_client.c pings the server of      *)
(* daemons/udp_taas_server.c through one ISP, takes five seconds without a *)
(* pong for a failure, asks the ISP to fail over (TriggerFailover) and     *)
(* turns to the second ISP if that does not succeed.                       *)
(*                                                                         *)
(* Pings travel through the ISP, pongs come back over a backchannel: plain *)
(* UDP to an address that the ping carries.  Both client() calls bind the  *)
(* same port and the first socket is never closed; the kernel hands a pong *)
(* to the socket that was bound last.  Pongs carry no number.              *)
(*                                                                         *)
(* Every ISP's pings have a server process of their own, which accepts one *)
(* connection at a time.  A server that exits is one that never accepts.   *)
(***************************************************************************)
EXTENDS TriggerFailover, FiniteSets

CONSTANT
    MaxFailovers  \* bound: how many failovers the ISPs complete

ASSUME FailoversAssumption == MaxFailovers \in Nat

\* main calls client() once for each ISP, whatever the first call returns.
Isps == {1, 2}

VARIABLES
    isp,        \* which of the calls of client() runs
    cpc,        \* client(): where it stands
    path,       \* path[i]: the route through ISP i works
    server,     \* server[i]: "idle", "dialed" (a connection waits), "serving"
    pings,      \* pings[i]: pings on their way through ISP i
    pongs,      \* pongs on their way back
    inbox,      \* pongs in the receive queue of the newest backchannel socket
    failovers   \* how many failovers the client has been told of

clientVars == <<isp, cpc, failovers>>
networkVars == <<path, server, pings, pongs>>
vars == <<clientVars, networkVars, inbox, triggerVars>>

\* A server has bound its service and listens, or it has exited.
Listening == server = [i \in Isps |-> "idle"]

Init ==
    /\ TriggerInit
    /\ Listening
    /\ isp = 1
    /\ cpc = "start"
    /\ path \in [Isps -> BOOLEAN]
    /\ pings = [i \in Isps |-> 0]
    /\ pongs = 0
    /\ inbox = 0
    /\ failovers = 0

-----------------------------------------------------------------------------
(* The network and the server. *)

PathChanges(i) ==
    /\ path' = [path EXCEPT ![i] = ~@]
    /\ UNCHANGED <<clientVars, server, pings, pongs, inbox, triggerVars>>

LosePing(i) ==
    /\ pings[i] > 0
    /\ pings' = [pings EXCEPT ![i] = @ - 1]
    /\ UNCHANGED <<clientVars, path, server, pongs, inbox, triggerVars>>

\* accept_sv returns the connection that waits.
Accept(i) ==
    /\ server[i] = "dialed"
    /\ server' = [server EXCEPT ![i] = "serving"]
    /\ UNCHANGED <<clientVars, path, pings, pongs, inbox, triggerVars>>

\* recvfrom_sv fails or finds the end: the server closes the connection and goes
\* back to accept_sv.  The client does not connect again.
EndConnection(i) ==
    /\ server[i] = "serving"
    /\ server' = [server EXCEPT ![i] = "idle"]
    /\ UNCHANGED <<clientVars, path, pings, pongs, inbox, triggerVars>>

\* The server answers a ping on the backchannel.
AnswerPing(i) ==
    /\ pings[i] > 0 /\ path[i] /\ server[i] = "serving"
    /\ pings' = [pings EXCEPT ![i] = @ - 1]
    /\ pongs' = pongs + 1
    /\ UNCHANGED <<clientVars, path, server, inbox, triggerVars>>

LosePong ==
    /\ pongs > 0
    /\ pongs' = pongs - 1
    /\ UNCHANGED <<clientVars, path, server, pings, inbox, triggerVars>>

DeliverPong ==
    /\ pongs > 0
    /\ pongs' = pongs - 1
    /\ inbox' = inbox + 1
    /\ UNCHANGED <<clientVars, path, server, pings, triggerVars>>

-----------------------------------------------------------------------------
(* client() *)

\* A call of client() ends: the next one begins, or main returns.
ClientEnds ==
    IF isp = 1 THEN isp' = 2 /\ cpc' = "start" ELSE cpc' = "done" /\ UNCHANGED isp

\* A new socket for the pongs, bound to the same port; socket_sv and connect_sv.
Connect ==
    /\ cpc = "start"
    /\ inbox' = 0
    /\ fds' = fds + 2
    /\ server' = [server EXCEPT ![isp] = "dialed"]
    /\ cpc' = "send"
    /\ UNCHANGED <<isp, failovers, path, pings, pongs, dialogueVars>>

\* socket, socket_sv or connect_sv fails; what is open already stays open.
ConnectFails ==
    /\ cpc = "start"
    /\ \E n \in 0..2 : fds' = fds + n
    /\ ClientEnds
    /\ UNCHANGED <<failovers, networkVars, inbox, dialogueVars>>

\* sendto_sv fails: client() ends and closes nothing.
SendFails ==
    /\ cpc = "send"
    /\ ClientEnds
    /\ UNCHANGED <<failovers, networkVars, inbox, triggerVars>>

\* Variant of SendPing: the next ping does not wait for the pong.
SendPingsAhead ==
    /\ cpc = "send"
    /\ pings' = [pings EXCEPT ![isp] = @ + 1]
    /\ cpc' \in {"send", "recv"}
    /\ pings[isp] < 5
    /\ UNCHANGED <<isp, failovers, path, server, pongs, inbox, triggerVars>>

SendPing ==
    /\ cpc = "send"
    /\ pings' = [pings EXCEPT ![isp] = @ + 1]
    /\ cpc' = "recv"
    /\ UNCHANGED <<isp, failovers, path, server, pongs, inbox, triggerVars>>

ReceivePong ==
    /\ cpc = "recv"
    /\ inbox > 0
    /\ inbox' = inbox - 1
    /\ cpc' = "send"
    /\ UNCHANGED <<isp, failovers, networkVars, triggerVars>>

\* Variant of ReceiveTimesOut: the failure is taken for a lost ping, once.
ReceiveTimesOutUntriggered ==
    /\ cpc = "recv"
    /\ inbox = 0
    /\ cpc' = "send"
    /\ UNCHANGED <<isp, failovers, networkVars, inbox, triggerVars>>

\* FAILOVER_TIMEOUT passes without a pong: trigger_failover is called.
ReceiveTimesOut ==
    /\ cpc = "recv"
    /\ inbox = 0
    /\ Call
    /\ cpc' = "trigger"
    /\ UNCHANGED <<isp, failovers, networkVars, inbox>>

\* The ISP has failed over: go on with it.  Otherwise close the socket of the
\* pings, not that of the pongs, and give the ISP up.
TriggerReturns ==
    /\ cpc = "trigger"
    /\ tpc = "returned"
    /\ tpc' = "idle"
    /\ IF ret = 0
         THEN cpc' = "send" /\ failovers' = failovers + 1 /\ UNCHANGED <<isp, fds>>
         ELSE ClientEnds /\ fds' = fds - 1 /\ UNCHANGED failovers
    /\ UNCHANGED <<ret, wire, ended, peer, networkVars, inbox>>

-----------------------------------------------------------------------------

ClientStep ==
    \/ Connect \/ SendPing \/ ReceivePong \/ ReceiveTimesOut \/ TriggerReturns
    \/ TriggerStep /\ UNCHANGED <<clientVars, networkVars, inbox>>

Next ==
    \/ ClientStep
    \/ ConnectFails \/ SendFails
    \/ \E m \in Completions :
          /\ m.kind = "success" => failovers < MaxFailovers
          /\ PeerStep(m)
          /\ UNCHANGED <<clientVars, networkVars, inbox>>
    \/ \E i \in Isps : 
          PathChanges(i) \/ LosePing(i) \/ Accept(i) \/ EndConnection(i) \/ AnswerPing(i)
    \/ LosePong \/ DeliverPong

Spec == Init /\ [][Next]_vars

\* The client process runs and its timers expire.  The network, the server and
\* the ISPs do as they like.
FairSpec == Spec /\ WF_vars(ClientStep)

-----------------------------------------------------------------------------
(* Properties. *)

\* Every variable has its type.
TypeOK ==
    /\ TriggerTypeOK
    /\ isp \in Isps
    /\ cpc \in {"start", "send", "recv", "trigger", "done"}
    /\ tpc = "idle" <=> cpc # "trigger"
    /\ path \in [Isps -> BOOLEAN]
    /\ server \in [Isps -> {"idle", "dialed", "serving"}]
    /\ pings \in [Isps -> Nat] /\ pongs \in Nat /\ inbox \in Nat
    /\ failovers \in 0..MaxFailovers

Outstanding == pings[1] + pings[2] + pongs + inbox

\* The calls of client() that have ended.
Ended == IF cpc = "done" THEN 2 ELSE isp - 1

\* Each of them ended with a failover or with the client() call.
Timeouts == failovers + Ended

\* Pongs are not matched with pings: an answer that comes after its timeout is
\* taken for the answer to a later ping, and hides that ping's loss.  There are
\* never more late answers than timeouts, through both ISPs together, so that is
\* how many pings a failure can go unnoticed.
FewLatePongs ==
    Outstanding <= Timeouts + (IF cpc \in {"recv", "trigger"} THEN 1 ELSE 0)

\* Every client() call leaves up to two sockets open, and a trigger_failover() call
\* that fails leaves its own.  All the same the process never holds more than a
\* fixed number of them, however many failovers succeed.
FewSockets ==
    /\ cpc \in {"start", "done"} => fds <= 2 * Ended
    /\ cpc \in {"send", "recv"} => fds <= 2 * Ended + 2
    /\ cpc = "trigger" => fds <= 2 * Ended + 3

\* The pings of ISP i are answered.
Works(i) == path[i] /\ server[i] = "serving"

\* A client does not stay for ever with an ISP whose path is dead, or whose server
\* has not accepted the client or has dropped it, if the ISP does not claim success
\* for ever: the client gets past late pongs, and no step of the failover dialogue
\* blocks, whatever the ISP sends or fails to send.
DeadPathLeft ==
    \A i \in Isps :
        []<>~(isp = i /\ ~Works(i) /\ cpc # "done" /\ tpc # "crashed")
=============================================================================
