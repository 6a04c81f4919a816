--------------------------- MODULE MCReconciliation ---------------------------
(* Instances of Reconciliation for TLC. *)
EXTENDS Reconciliation, TLC

\* WCA Live is seen by polling and by subscription, under one result identity.
MCOrigin == [o \in Observers |-> IF o \in Trusted THEN "wca_live" ELSE "cubingchina"]

\* The two methods that see WCA Live may be exchanged.
MCSymmetry == Permutations(Trusted)
===============================================================================
