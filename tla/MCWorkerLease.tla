--------------------------- MODULE MCWorkerLease ---------------------------
(* Small instances of WorkerLease: two processes, timings scaled down.     *)
EXTENDS WorkerLease, TLC

CONSTANTS p1, p2, o1, o2, o3

MCProc == {p1, p2}
MCOwner == {o1, o2, o3}

\* Owner ids and processes are only compared for equality.
Symmetry == Permutations(MCProc) \cup Permutations(MCOwner)
============================================================================
