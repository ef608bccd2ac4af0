----------------------------- MODULE MCSupervisor -----------------------------
(* Small instances of Supervisor: hosts, callers, monitors and process ids   *)
(* are interchangeable.                                                      *)
EXTENDS Supervisor, TLC

Symmetry == Permutations(Hosts) \cup Permutations(Callers) \cup Permutations(Monitors)
                \cup Permutations(Pids)
=============================================================================
