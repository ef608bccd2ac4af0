------------------------------ MODULE MCSeeLight ------------------------------
(* Small instances of SeeLight: threads are interchangeable.                 *)
EXTENDS SeeLight, TLC

Symmetry == Permutations(Threads)
=============================================================================
