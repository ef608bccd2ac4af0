----------------------------- MODULE SleepSession -----------------------------
(***************************************************************************)
(* What sleep mode promises, without threads or locks: entering it takes   *)
(* one snapshot of what the room was doing, the snapshot is not touched     *)
(* while the room sleeps, and it is only dropped, never replaced, outside   *)
(* sleep.  RoomControl implements this.                                     *)
(***************************************************************************)
CONSTANTS Modes, Lights, Nothing

VARIABLES mode, light, saved

vars == <<mode, light, saved>>

Init == mode \in Modes \ {"sleep"} /\ light \in Lights /\ saved = Nothing

\* Falling asleep remembers the mode and light of that very moment.
Enter ==
    /\ mode # "sleep" /\ mode' = "sleep"
    /\ saved' = [mode |-> mode, light |-> light]
    /\ light' = light

\* Asleep, the light may change but the snapshot may not.
Sleep == mode = "sleep" /\ mode' = "sleep" /\ saved' = saved /\ light' \in Lights

\* Waking up, and whatever happens awake, may at most forget the snapshot.
Awake ==
    /\ mode' \in Modes \ {"sleep"}
    /\ saved' \in {saved, Nothing}
    /\ light' \in Lights

Next == Enter \/ Sleep \/ Awake

Spec == Init /\ [][Next]_vars
=============================================================================
