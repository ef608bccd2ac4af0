----------------------------- MODULE DurableState -----------------------------
(***************************************************************************)
(* What "atomically write state to disk" promises, without files: a save    *)
(* puts the state of that very moment on disk, and after a crash the state  *)
(* is what was saved last, whole.  Once its terms are broken (two saves at  *)
(* a time, a damaged file) nothing is promised.  StateStore implements it.  *)
(***************************************************************************)
VARIABLES mem, disk, sure

vars == <<mem, disk, sure>>

Init == mem = disk /\ sure = TRUE

Change  == mem' # mem /\ disk' = disk
Save    == disk' = mem /\ mem' = mem
Recover == mem' = disk /\ disk' = disk

Next == \/ sure /\ sure' /\ (Change \/ Save \/ Recover)
        \/ ~sure'

Spec == Init /\ [][Next]_vars
=============================================================================
