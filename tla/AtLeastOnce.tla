---------------------------- MODULE AtLeastOnce ----------------------------
(***************************************************************************)
(* What a consumer group promises about its topic: a record may be handled *)
(* any number of times and out of turn, but the committed offset only ever *)
(* moves forward and never past a record that has not been dealt with.     *)
(***************************************************************************)
EXTENDS Naturals, Sequences

CONSTANT Records

VARIABLES topic,        \* the records of one partition, in offset order
          done,         \* records whose effect is durable, or that need none
          committed     \* the group's committed offset: a count of records

vars == <<topic, done, committed>>

Init == /\ topic = <<>>
        /\ done \in SUBSET Records
        /\ committed = 0

Publish(r) == /\ topic' = Append(topic, r)
              /\ UNCHANGED <<done, committed>>

Handle == \E R \in SUBSET Records :
              /\ done' = done \cup R
              /\ UNCHANGED <<topic, committed>>

CommitTo(n) == /\ n > committed
               /\ \A i \in 1..n : topic[i] \in done
               /\ committed' = n
               /\ UNCHANGED <<topic, done>>

Next == \/ \E r \in Records : Publish(r)
        \/ Handle
        \/ \E n \in 1..Len(topic) : CommitTo(n)

Spec == Init /\ [][Next]_vars
=============================================================================
