---------------------------- MODULE MCRoomControl ----------------------------
(* Small instances of RoomControl: the connections of one kind, and the     *)
(* timers, are interchangeable.                                              *)
EXTENDS RoomControl, TLC

Symmetry == Permutations(Rpc) \cup Permutations(ModeTimers)
=============================================================================
