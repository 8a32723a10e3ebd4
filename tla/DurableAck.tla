----------------------------- MODULE DurableAck -----------------------------
(***************************************************************************)
(* What the ingest boundary promises a sender, and nothing else: an event  *)
(* becomes durable, and a delivery is acknowledged only once every event   *)
(* it carried that the platform must keep is durable.  Durability is never *)
(* taken back and an acknowledgement is never withdrawn.                   *)
(***************************************************************************)
CONSTANTS Deliveries,   \* what senders deliver
          Events,       \* event identities
          Owed          \* Owed[d]: the events of d the platform must keep

VARIABLES durable,      \* events on the durable topic
          acked         \* deliveries answered with a 2xx

vars == <<durable, acked>>

Init == durable = {} /\ acked = {}

Commit == \E E \in SUBSET Events :
              /\ durable' = durable \cup E
              /\ UNCHANGED acked

Ack(d) == /\ Owed[d] \subseteq durable
          /\ acked' = acked \cup {d}
          /\ UNCHANGED durable

Next == Commit \/ \E d \in Deliveries : Ack(d)

Spec == Init /\ [][Next]_vars
=============================================================================
