------------------------- MODULE MCEventQuarantine -------------------------
(* Small instances of EventQuarantine.                                     *)
EXTENDS EventQuarantine, TLC

Symmetry == Permutations(Procs) \cup Permutations(Tokens)
============================================================================
