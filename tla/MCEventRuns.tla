---------------------------- MODULE MCEventRuns ----------------------------
(* Small instances of EventRuns for TLC.                                   *)
EXTENDS EventRuns, TLC

Symmetry == Permutations(Workers) \cup Permutations(Handlers)
============================================================================
