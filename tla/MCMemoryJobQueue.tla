-------------------------- MODULE MCMemoryJobQueue --------------------------
(* Small instances of MemoryJobQueue. *)
EXTENDS MemoryJobQueue, TLC

Symmetry == Permutations(Owner) \cup Permutations(Consumer)
=============================================================================
