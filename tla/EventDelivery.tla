--------------------------- MODULE EventDelivery ---------------------------
(***************************************************************************)
(* What the edge promises about the domain events it must hand to the      *)
(* cloud, with nothing of how it does it: an event is recorded on the edge,*)
(* the cloud carries out its effect at least once, and only then does the  *)
(* edge take it off its list.  No recorded, delivered or acknowledged      *)
(* event is ever forgotten.                                                *)
(***************************************************************************)

CONSTANT Events       \* the domain events of one edge node

VARIABLES
  recorded,           \* events written to the edge's DomainEvent table
  delivered,          \* events whose effect the cloud has committed
  acked               \* events the edge counts as done

vars == <<recorded, delivered, acked>>

TypeOK ==
  /\ recorded \in SUBSET Events
  /\ delivered \in SUBSET Events
  /\ acked \in SUBSET Events

Init ==
  /\ recorded = {}
  /\ delivered = {}
  /\ acked = {}

Record(e) ==
  /\ e \notin recorded
  /\ recorded' = recorded \cup {e}
  /\ UNCHANGED <<delivered, acked>>

Deliver(e) ==
  /\ e \in recorded
  /\ delivered' = delivered \cup {e}
  /\ UNCHANGED <<recorded, acked>>

Acknowledge(e) ==
  /\ e \in delivered
  /\ acked' = acked \cup {e}
  /\ UNCHANGED <<recorded, delivered>>

Next == \E e \in Events : Record(e) \/ Deliver(e) \/ Acknowledge(e)

Spec == Init /\ [][Next]_vars
=============================================================================
