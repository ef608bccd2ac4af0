------------------------------ MODULE MCPresence ------------------------------
(* Small instances of Presence: a second thread polls when the devices are   *)
(* refreshed.                                                                *)
EXTENDS Presence, TLC

Symmetry == Permutations(Pollers)
=============================================================================
