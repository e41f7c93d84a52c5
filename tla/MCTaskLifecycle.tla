-------------------------- MODULE MCTaskLifecycle --------------------------
(* Small instances of TaskLifecycle for TLC.                               *)
EXTENDS TaskLifecycle, TLC

WorkerSymmetry == Permutations(Workers)
============================================================================
