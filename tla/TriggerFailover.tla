-------------------------- MODULE TriggerFailover --------------------------
(***************************************************************************)
(* clients/trigger_failover.c: one call of trigger_failover(), which asks  *)
(* the first hop over TCP to check the circuit and waits for an            *)
(* acknowledgement and then for the outcome.                               *)
(*                                                                         *)
(* The first hop is external: it acknowledges, completes, stays silent or  *)
(* ends the connection as it likes.  (failoverd.py listens on a UDP port   *)
(* only, so a TCP connection to it is refused.)  A message is identified   *)
(* by its kind and by whether it carries the authenticator of the check.   *)
(***************************************************************************)
EXTENDS Integers, Sequences

VARIABLES
    tpc,     \* where the call stands; "idle" between calls
    ret,     \* what the last call returned, 0 for success
    wire,    \* the messages that have arrived and are not read yet
    ended,   \* how the first hop has ended the connection: "no", "eof", "reset"
    peer,    \* the first hop: what it has received or last sent
    fds      \* the descriptors that the client process holds

dialogueVars == <<tpc, ret, wire, ended, peer>>
triggerVars == <<dialogueVars, fds>>

Acks == [kind : {"ack"}, mine : BOOLEAN]

Completions == [kind : {"success", "failure"}, mine : BOOLEAN]

TriggerInit ==
    /\ tpc = "idle"
    /\ ret = 1
    /\ wire = << >>
    /\ ended = "no"
    /\ peer = "none"
    /\ fds = 0

-----------------------------------------------------------------------------
(* The first hop. *)

PeerAcknowledges ==
    /\ peer = "asked" /\ ended = "no"
    /\ \E m \in Acks : wire' = Append(wire, m)
    /\ peer' = "acked"
    /\ UNCHANGED <<tpc, ret, ended, fds>>

PeerCompletes(m) ==
    /\ peer = "acked" /\ ended = "no"
    /\ wire' = Append(wire, m)
    /\ peer' = IF m.mine THEN m.kind ELSE "other"
    /\ UNCHANGED <<tpc, ret, ended, fds>>

PeerEnds ==
    /\ peer # "none" /\ ended = "no"
    /\ ended' \in {"eof", "reset"}
    /\ UNCHANGED <<tpc, ret, wire, peer, fds>>

-----------------------------------------------------------------------------
(* trigger_failover() *)

\* Variant of Call: the socket of the last call is used again.
CallOnOldSocket ==
    /\ tpc = "idle"
    /\ tpc' = "connect"
    /\ ended' = "no" /\ peer' = "none"
    /\ fds' = fds + 1
    /\ UNCHANGED <<ret, wire>>

\* A new socket: nothing of an earlier call can arrive on it.
Call ==
    /\ tpc = "idle"
    /\ tpc' = "connect"
    /\ wire' = << >> /\ ended' = "no" /\ peer' = "none"
    /\ fds' = fds + 1
    /\ UNCHANGED ret

\* connect on the non-blocking socket, then select for writing.  A refused
\* connection is writable as well.
Connected ==
    /\ tpc = "connect"
    /\ tpc' = "write"
    /\ \/ peer' = "listening" /\ UNCHANGED ended
       \/ peer' = "none" /\ ended' = "eof"
    /\ UNCHANGED <<ret, wire, fds>>

\* The socket of a new connection takes the request at once, so the select
\* after the write does not time out.
WriteRequest ==
    /\ tpc = "write"
    /\ tpc' = "ack"
    /\ peer' = IF peer = "listening" THEN "asked" ELSE peer
    /\ UNCHANGED <<ret, wire, ended, fds>>

Readable == wire # << >> \/ ended # "no"

\* select returns 0 after ten seconds.  This return and those after a reply that
\* does not fit leave the socket open.
SelectTimesOut ==
    /\ \/ tpc = "connect"
       \/ tpc \in {"ack", "complete"} /\ ~Readable
    /\ tpc' = "returned"
    /\ ret' = 1
    /\ UNCHANGED <<wire, ended, peer, fds>>

\* read takes all that has arrived.  Unpacking succeeds if that is one message
\* of the expected type: two messages at once, or none, do not parse.
Unpacked(messages) == {m \in messages : wire = <<m>>}

\* The acknowledgement; it has to name the authenticator of the check.
ReadAck ==
    /\ tpc = "ack" /\ Readable
    /\ wire' = << >>
    /\ \/ /\ \E m \in Unpacked(Acks) : m.mine
          /\ tpc' = "complete"
          /\ UNCHANGED ret
       \/ /\ \A m \in Unpacked(Acks) : ~m.mine
          /\ tpc' = "returned"
          /\ ret' = 1
    /\ UNCHANGED <<ended, peer, fds>>

\* Variant of ReadComplete: the authenticator is not compared.
ReadCompleteOfAny ==
    /\ tpc = "complete" /\ Readable
    /\ wire' = << >>
    /\ ret' = IF \E m \in Unpacked(Completions) : m.kind = "success" THEN 0 ELSE 1
    /\ fds' = IF Unpacked(Completions) # {} THEN fds - 1 ELSE fds
    /\ tpc' = "returned"
    /\ UNCHANGED <<ended, peer>>

\* Variant of ReadComplete: the socket is closed only if the failover failed.
ReadCompleteUnclosed ==
    /\ tpc = "complete" /\ Readable
    /\ wire' = << >>
    /\ ret' = IF \E m \in Unpacked(Completions) : m.mine /\ m.kind = "success"
                THEN 0 ELSE 1
    /\ fds' = IF \E m \in Unpacked(Completions) : m.mine /\ m.kind = "failure"
                THEN fds - 1 ELSE fds
    /\ tpc' = "returned"
    /\ UNCHANGED <<ended, peer>>

\* The outcome; it has to name the authenticator of the check.  Only if it does
\* is the socket closed.
ReadComplete ==
    /\ tpc = "complete" /\ Readable
    /\ wire' = << >>
    /\ ret' = IF \E m \in Unpacked(Completions) : m.mine /\ m.kind = "success"
                THEN 0 ELSE 1
    /\ fds' = IF \E m \in Unpacked(Completions) : m.mine THEN fds - 1 ELSE fds
    /\ tpc' = "returned"
    /\ UNCHANGED <<ended, peer>>

\* read returns -1 and the unpacking takes that for a length: it runs through
\* the stack until a byte does not parse (as above) or the process dies.
ReadOfReset ==
    /\ tpc \in {"ack", "complete"}
    /\ wire = << >> /\ ended = "reset"
    /\ tpc' = "crashed"
    /\ UNCHANGED <<ret, wire, ended, peer, fds>>

TriggerStep ==
    Connected \/ WriteRequest \/ SelectTimesOut \/ ReadAck \/ ReadComplete \/ ReadOfReset

PeerStep(m) == PeerAcknowledges \/ PeerCompletes(m) \/ PeerEnds

TriggerTypeOK ==
    /\ tpc \in {"idle", "connect", "write", "ack", "complete", "returned", "crashed"}
    /\ ret \in {0, 1}
    /\ wire \in Seq(Acks \cup Completions) /\ Len(wire) <= 2
    /\ ended \in {"no", "eof", "reset"}
    /\ peer \in {"none", "listening", "asked", "acked", "success", "failure", "other"}
    /\ fds \in Nat

\* A call that returns success has been told so by the first hop, about this
\* very check: no acknowledgement, no outcome of another check and no broken
\* connection is taken for it.
SuccessIsConfirmed == tpc = "returned" /\ ret = 0 => peer = "success"
=============================================================================
