------------------------- MODULE DeliveryContract -------------------------
(***************************************************************************)
(* What the message bus promises the services: a message that was sent is  *)
(* settled, by its handler or as a dead letter, and never forgotten.       *)
(***************************************************************************)

CONSTANT Msgs

VARIABLES
  sent,     \* messages a producer has published
  settled   \* messages processed or dead-lettered

vars == <<sent, settled>>

Init ==
  /\ sent = {}
  /\ settled = {}

Send(m) ==
  /\ m \notin sent
  /\ sent' = sent \cup {m}
  /\ UNCHANGED settled

Settle(m) ==
  /\ m \in sent \ settled
  /\ settled' = settled \cup {m}
  /\ UNCHANGED sent

Next == \E m \in Msgs : Send(m) \/ Settle(m)

Safety == Init /\ [][Next]_vars

Spec == Safety /\ \A m \in Msgs : WF_vars(Settle(m))

=============================================================================
