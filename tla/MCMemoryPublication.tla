------------------------ MODULE MCMemoryPublication ------------------------
(* MemoryPublication for TLC.                                              *)
EXTENDS MemoryPublication, TLC

\* Requests are interchangeable; no property is a liveness property.
RequestSymmetry == Permutations(Request)
=============================================================================
