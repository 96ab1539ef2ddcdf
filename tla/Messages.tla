------------------------------ MODULE Messages ------------------------------
(***************************************************************************)
(* What clients/messages.pb-c.c tells protobuf-c about the two replies of  *)
(* a failover dialogue: the number and the type of every field.  Packed,   *)
(* a message is its fields, each with its number and its wire type, and no *)
(* mark where the message ends.                                            *)
(***************************************************************************)
EXTENDS TriggerFailover

Field(number, type) == [number |-> number, type |-> type]

check_failover_acknowledge == {Field(1, "message")}

\* Variant of failover_complete: the number of success is free in the other reply.
failover_complete_renumbered == {Field(2, "message"), Field(3, "bool")}

failover_complete == {Field(2, "message"), Field(1, "bool")}

Schema(m) == IF m.kind = "ack" THEN check_failover_acknowledge ELSE failover_complete

WireType(type) == IF type = "message" THEN "length prefixed" ELSE "varint"

\* protobuf-c: a known field has its wire type, but a bool is read from any; fields
\* with other numbers are skipped, every required field is there.  Neither their
\* order nor a repetition is an error.
Unpacks(schema, fields) ==
    /\ \A f \in schema, g \in fields :
          g.number = f.number => f.type = "bool" \/ WireType(g.type) = WireType(f.type)
    /\ \A f \in schema : \E g \in fields : g.number = f.number

\* What one read finds: the fields of all messages that have arrived, with nothing
\* in between.
Arrived == UNION {Schema(wire[i]) : i \in DOMAIN wire}

\* A reply is unpacked if it arrives alone and is the one that is waited for: two
\* replies in one read are not taken for the first, nor one for the other, although
\* nothing on the wire separates them and fields that are not known are skipped.
RepliesToldApart ==
    /\ tpc = "ack" => (Unpacks(check_failover_acknowledge, Arrived) <=> Unpacked(Acks) # {})
    /\ tpc = "complete" => (Unpacks(failover_complete, Arrived) <=> Unpacked(Completions) # {})
=============================================================================
