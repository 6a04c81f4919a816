--------------------------- MODULE MCDeliveryQueue ---------------------------
(* The instance of DeliveryQueue for TLC: its two workers are model values. No *)
(* symmetry, for the run checks a liveness property too.                       *)
EXTENDS DeliveryQueue

CONSTANTS w1, w2
=============================================================================
