------------------------------ MODULE MCArrivals ------------------------------
(* Small instances of Arrivals.                                              *)
EXTENDS Arrivals, TLC

Symmetry == Permutations(Entries) \cup Permutations(Faces) \cup Permutations(Timers)
=============================================================================
