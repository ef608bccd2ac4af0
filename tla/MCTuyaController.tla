--------------------------- MODULE MCTuyaController ---------------------------
(* Small instances of TuyaController: callers are interchangeable, and so    *)
(* are flash threads and events.                                             *)
EXTENDS TuyaController, TLC

Symmetry == Permutations(Callers) \cup Permutations(Flashes)
=============================================================================
