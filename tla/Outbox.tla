------------------------------- MODULE Outbox -------------------------------
(***************************************************************************)
(* What the notification outbox promises of one delivery row, whatever     *)
(* workers, claims, retries and guests do: a row that is owed is settled   *)
(* once, for good, and is settled as sent only after the push provider has *)
(* accepted it.  DeliveryQueue implements this specification.              *)
(***************************************************************************)

CONSTANT Deliveries

VARIABLES
  fate,       \* fate[d]: how delivery d stands
  accepted    \* the deliveries the provider has accepted at least once

outboxVars == <<fate, accepted>>

Fates   == {"absent", "owed", "sent", "failed", "cancelled"}
Settled == {"sent", "failed", "cancelled"}

Init ==
  /\ fate = [d \in Deliveries |-> "absent"]
  /\ accepted = {}

\* A published event owes an alert to each of its recipients.
Owe(ds) ==
  /\ \A d \in ds : fate[d] = "absent"
  /\ fate' = [d \in Deliveries |-> IF d \in ds THEN "owed" ELSE fate[d]]
  /\ UNCHANGED accepted

\* The provider accepts a push for a row that was owed when it was taken up.
Accept(d) ==
  /\ fate[d] # "absent"
  /\ accepted' = accepted \cup {d}
  /\ UNCHANGED fate

Send(d) ==
  /\ fate[d] = "owed"
  /\ d \in accepted
  /\ fate' = [fate EXCEPT ![d] = "sent"]
  /\ UNCHANGED accepted

\* Owed rows are given up together: one failed, or a whole endpoint lost.
GiveUp(ds, how) ==
  /\ \A d \in ds : fate[d] = "owed"
  /\ fate' = [d \in Deliveries |-> IF d \in ds THEN how ELSE fate[d]]
  /\ UNCHANGED accepted

Next ==
  \/ \E ds \in SUBSET Deliveries :
       Owe(ds) \/ GiveUp(ds, "failed") \/ GiveUp(ds, "cancelled")
  \/ \E d \in Deliveries : Accept(d) \/ Send(d)

Spec == Init /\ [][Next]_outboxVars
=============================================================================
