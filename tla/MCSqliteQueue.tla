--------------------------- MODULE MCSqliteQueue ---------------------------
(* Small instances of SqliteQueue.                                         *)
EXTENDS SqliteQueue, TLC

Symmetry == Permutations(Procs) \cup Permutations(Tokens)
============================================================================
