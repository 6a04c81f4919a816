------------------------ MODULE MCClassificationQueue ------------------------
(* Instances of ClassificationQueue for TLC; only the run without liveness   *)
(* properties uses the symmetry.                                            *)
EXTENDS ClassificationQueue, TLC

CONSTANTS w1, w2

\* Workers run the same program: permuting them maps behaviours to behaviours.
WorkerSymmetry == Permutations(Workers)
=============================================================================
