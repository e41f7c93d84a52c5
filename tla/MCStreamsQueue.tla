--------------------------- MODULE MCStreamsQueue ---------------------------
(* Instances of StreamsQueue for TLC.                                      *)
EXTENDS StreamsQueue, TLC

Symmetry == Permutations(Procs)
============================================================================
