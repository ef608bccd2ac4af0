------------------------------- MODULE SeeLight -------------------------------
(***************************************************************************)
(* The light that the camera borrows (runtime/app.py): _light_to_see turns *)
(* a dark room's lamp on low, at most once per cooldown, and _stop_seeing  *)
(* gives the dark back if the light is still vision's; _photograph_visitor *)
(* lights the room for a burst of photographs; set_light is what both, and *)
(* everybody else, use.  set_light decides whose light it is in its first  *)
(* statement, before it takes the state lock: that is a step of its own.   *)
(*                                                                         *)
(* Left out: the bulb (TuyaController), colours, why vision wants to see,  *)
(* the photographs.                                                        *)
(***************************************************************************)
EXTENDS Naturals, Sequences, FiniteSets

CONSTANTS
    Threads,      \* bound: threads that use the light at once
    Purposes,     \* what they use it for: "see", "photo", "user", "sleep"
    MaxLooks      \* bound: how often vision lights the room

ASSUME MaxLooksAssumption == MaxLooks \in Nat

VARIABLES
    todo,         \* what each thread has still to execute
    on,           \* light.on
    ours,         \* _see_light_ours
    token,        \* _see_light_token
    holds,        \* tokens of the armed _stop_seeing timers
    cooling,      \* _seen_at is less than the cooldown ago
    asleep,       \* the mode is sleep
    by            \* who wrote the light last: not in the code

vars == <<todo, on, ours, token, holds, cooling, asleep, by>>

Writers == {"see", "photo", "user"}
Op(name, who, value) == [op |-> name, who |-> who, on |-> value]
Arm == Op("arm", "see", TRUE)

TypeOK ==
    /\ todo \in [Threads -> Seq([op : {"look", "claim", "write", "arm", "shoot"},
                                 who : Writers, on : BOOLEAN])]
    /\ on \in BOOLEAN /\ ours \in BOOLEAN
    /\ token \in 0..MaxLooks /\ holds \subseteq 1..token
    /\ cooling \in BOOLEAN /\ asleep \in BOOLEAN
    /\ by \in Writers

Init ==
    /\ todo = [t \in Threads |-> <<>>]
    /\ on \in BOOLEAN
    /\ ours = FALSE /\ token = 0 /\ holds = {} /\ cooling = FALSE
    /\ asleep \in BOOLEAN
    /\ by = "user"

-----------------------------------------------------------------------------
Idle(t) == todo[t] = <<>>
At(t, name) == todo[t] # <<>> /\ Head(todo[t]).op = name
Continue(t, ops) == todo' = [todo EXCEPT ![t] = ops \o Tail(@)]
Begin(t, purpose, ops) ==
    /\ purpose \in Purposes /\ Idle(t)
    /\ todo' = [todo EXCEPT ![t] = ops]

\* set_light(on = value) by who.
SetLight(who, value) == <<Op("claim", who, value), Op("write", who, value)>>

\* Its first line, before any lock: whose light it is from now on.
Claim(t) ==
    /\ At(t, "claim")
    /\ LET o == Head(todo[t]) IN ours' = (o.who = "see" /\ o.on)
    /\ Continue(t, <<>>)
    /\ UNCHANGED <<on, token, holds, cooling, asleep, by>>

Write(t) ==
    /\ At(t, "write")
    /\ LET o == Head(todo[t]) IN on' = o.on /\ by' = o.who
    /\ Continue(t, <<>>)
    /\ UNCHANGED <<ours, token, holds, cooling, asleep>>

-----------------------------------------------------------------------------
(* Vision *)

\* The camera sees a dark room with an arrival, or a close face, in it, and
\* starts a thread; so does an arrival at the door.
WantsToSee(t) ==
    /\ Begin(t, "see", <<Op("look", "see", TRUE)>>)
    /\ UNCHANGED <<on, ours, token, holds, cooling, asleep, by>>

\* Mutant: the cooldown is looked up by the caller, outside the lock.
AnyMayLook == ~on
MayLook == ~on /\ ~cooling

NextToken == token + 1

\* _light_to_see
Look(t) ==
    /\ At(t, "look")
    /\ IF MayLook /\ token < MaxLooks    \* bound: no look after the last one
       THEN /\ token' = NextToken
            /\ cooling' = TRUE
            /\ Continue(t, SetLight("see", TRUE) \o <<Arm>>)
       ELSE Continue(t, <<>>) /\ UNCHANGED <<token, cooling>>
    /\ UNCHANGED <<on, ours, holds, asleep, by>>

ArmHold(t) ==
    /\ At(t, "arm")
    /\ holds' = holds \cup {token}
    /\ Continue(t, <<>>)
    /\ UNCHANGED <<on, ours, token, cooling, asleep, by>>

\* _stop_seeing, on the timer's thread.
HoldEnds(t) ==
    /\ Idle(t)
    /\ \E k \in holds :
        /\ holds' = holds \ {k}
        /\ todo' = [todo EXCEPT ![t] =
                        IF ours /\ k = token /\ on THEN SetLight("see", FALSE) ELSE <<>>]
    /\ UNCHANGED <<on, ours, token, cooling, asleep, by>>

\* The cooldown (600 s) is longer than a hold (45 s).
Looking == holds # {} \/ \E t \in Threads : At(t, "look") \/
                \E i \in DOMAIN todo[t] : todo[t][i].who = "see"
CooldownEnds ==
    /\ cooling /\ ~Looking
    /\ cooling' = FALSE
    /\ UNCHANGED <<todo, on, ours, token, holds, asleep, by>>

\* Mutant: an exception between the shots skips the `finally`.
LeavesItOn == <<>>
GivesItBack == SetLight("photo", FALSE)

\* _photograph_visitor: mode and light are read without the lock.
Photograph(t) ==
    /\ Begin(t, "photo", IF ~on /\ ~asleep
                         THEN SetLight("photo", TRUE) \o <<Op("shoot", "photo", TRUE)>> \o GivesItBack
                         ELSE <<Op("shoot", "photo", FALSE)>>)
    /\ UNCHANGED <<on, ours, token, holds, cooling, asleep, by>>

\* Half a minute of waiting for somebody to be in frame, and three shots.
Shoot(t) ==
    /\ At(t, "shoot")
    /\ Continue(t, <<>>)
    /\ UNCHANGED <<on, ours, token, holds, cooling, asleep, by>>

-----------------------------------------------------------------------------
(* Everybody else *)

UserLight(t) ==
    /\ \E value \in BOOLEAN : Begin(t, "user", SetLight("user", value))
    /\ UNCHANGED <<on, ours, token, holds, cooling, asleep, by>>

\* Sleep mode turns the light off.
Sleep(t) ==
    /\ ~asleep
    /\ Begin(t, "sleep", SetLight("user", FALSE))
    /\ asleep' = TRUE
    /\ UNCHANGED <<on, ours, token, holds, cooling, by>>

Wake ==
    /\ asleep
    /\ asleep' = FALSE
    /\ UNCHANGED <<todo, on, ours, token, holds, cooling, by>>

Run(t) == Claim(t) \/ Write(t) \/ Look(t) \/ ArmHold(t) \/ Shoot(t)

Next ==
    \/ \E t \in Threads : \/ Run(t) \/ HoldEnds(t)
                          \/ WantsToSee(t) \/ Photograph(t)
                          \/ UserLight(t) \/ Sleep(t)
    \/ CooldownEnds \/ Wake

Spec == Init /\ [][Next]_vars

\* Threads run; a timer gets a thread.
FairSpec == Spec /\ \A t \in Threads : WF_vars(Run(t)) /\ SF_vars(HoldEnds(t))

-----------------------------------------------------------------------------
(* Properties *)

\* Cameras and arrivals ask for light at the same time: the room is lit to see
\* by one of them, and not again before that light's hold is over.
OneLook ==
    Cardinality(holds)
      + Cardinality({t \in Threads : \E i \in DOMAIN todo[t] : todo[t][i] = Arm}) <= 1

\* The photographer's light ends, whatever happens to it meanwhile.
PhotoLightEnds == (on /\ by = "photo") ~> ~(on /\ by = "photo")

(* Statements of the code's comments that it does not keep. *)

\* _light_to_see: "then give the dark back".
LookEnds == (on /\ by = "see") ~> ~(on /\ by = "see")

\* "The light is on because vision asked to see, and nobody has touched it
\* since.  Only then may vision switch it back off."
UserLightStays ==
    [][\A t \in Threads : on /\ by = "user" /\ Write(t) /\ ~on' => by' = "user"]_vars
=============================================================================
