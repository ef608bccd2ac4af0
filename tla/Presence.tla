------------------------------- MODULE Presence -------------------------------
(***************************************************************************)
(* Who is in the room: presence_fusion.fuse, its callers in                *)
(* runtime/app.py (_on_ble_presence, _on_geofence, phone_location_changed, *)
(* _poll_devices) and the presence events they emit.  Every section of the *)
(* state lock is one action; what happens between two of them, and the     *)
(* emission of an event after the last, are actions of their own, so that  *)
(* the poll thread, the MQTT thread and RPC threads interleave.            *)
(*                                                                         *)
(* Left out: confidence and its decay and light_should_on, which no caller *)
(* of fuse uses; `other_identity_detected`, which is never true because    *)
(* the MQTT client passes on the owner's device alone; the receivers of    *)
(* the location events (RoomControl); a repeated delivery of the last      *)
(* transition, which changes nothing.                                      *)
(***************************************************************************)
EXTENDS Naturals, Sequences, FiniteSets

CONSTANTS
    Pollers,      \* threads in _poll_devices: the poll loop and refresh_devices
    Callers,      \* threads that call phone_location_changed by RPC
    Mqtt,         \* the network thread of the MQTT client
    Zones,        \* names of the phone's regions, "home" among them
    WifiPing,     \* presence.wifi_ping is configured
    Camera        \* the camera may see somebody

ASSUME ZonesAssumption == "home" \in Zones /\ Zones \cap {"unknown", "", "away"} = {}

Threads == Pollers \cup Callers \cup {Mqtt}

VARIABLES
    todo,         \* what each thread has still to execute
    occupied,     \* mmwave.occupied
    quiet,        \* mmwave.last_seen is longer ago than the exit timeout
    settled,      \* occupied for longer than the debounce time
    camera,       \* _camera_occupied()
    ble,          \* _ble_detected
    bleOld,       \* the last strong message is older than missing_timeout
    near,         \* the phone advertises in the room
    client,       \* MQTTClient: out, first seen (recently or for longer than the
                  \* debounce time), or in _active_identities
    wifi,         \* the phone answers a ping
    presence,     \* state.presence: detected, source, sticky (identity_sticky)
    zone, home,   \* state.location
    owntracks,    \* location.source is "owntracks"
    roomClear,    \* _room_clear_emitted
    announced     \* the last presence event that was emitted: not in the code

sensorVars == <<occupied, quiet, settled, camera, ble, bleOld, near, client, wifi>>
placeVars == <<zone, home, owntracks>>
vars == <<todo, sensorVars, presence, placeVars, roomClear, announced>>

Identified == {"ble", "ble_sticky_mmwave", "wifi_mmwave", "geofence_mmwave"}
Sources == Identified \cup {"none", "mmwave_only", "geofence_absent"}
\* What a poll does next, with the belief it began with and what it has found:
\* an answer to its ping, or that the light should be off.
Op(name, was, found) == [op |-> name, was |-> was, found |-> found]
Emit(event) == Op(event, FALSE, FALSE)
Events == {"detected", "cleared"}

TypeOK ==
    /\ todo \in [Threads -> Seq([op : Events \cup {"ping", "update", "edges"},
                                 was : BOOLEAN, found : BOOLEAN])]
    /\ {occupied, quiet, settled, camera, ble, bleOld, near, wifi, home, owntracks, roomClear} \subseteq BOOLEAN
    /\ client \in {"out", "seen", "waited", "active"}
    /\ presence \in [detected : BOOLEAN, source : Sources, sticky : BOOLEAN]
    /\ presence.detected <=> presence.source \in Identified
    /\ presence.sticky => presence.source = "ble_sticky_mmwave"
    /\ zone \in Zones \cup {"unknown", "", "away"}
    /\ home <=> zone = "home"
    /\ occupied => ~quiet
    /\ settled => occupied
    /\ announced \in Events

Is(source) == [detected |-> TRUE, source |-> source, sticky |-> FALSE]
Not(source) == [detected |-> FALSE, source |-> source, sticky |-> FALSE]
Sticky == [detected |-> TRUE, source |-> "ble_sticky_mmwave", sticky |-> TRUE]

\* The process starts from what state.json says, with no BLE message yet.
Init ==
    /\ todo = [t \in Threads |-> <<>>]
    /\ occupied \in BOOLEAN /\ quiet \in {FALSE, ~occupied} /\ settled = FALSE
    /\ camera = FALSE /\ ble = FALSE /\ bleOld = FALSE /\ near = FALSE /\ wifi = FALSE
    /\ client = "out"
    /\ zone \in {"unknown", "home"} /\ home = (zone = "home") /\ owntracks = FALSE
    /\ presence \in {Not("none"), Is("ble"), Is("geofence_mmwave"), Sticky}
    /\ roomClear = ~occupied
    /\ announced = IF presence.detected THEN "detected" ELSE "cleared"

-----------------------------------------------------------------------------
Idle(t) == todo[t] = <<>>
At(t, name) == todo[t] # <<>> /\ Head(todo[t]).op = name
Continue(t, ops) == todo' = [todo EXCEPT ![t] = ops \o Tail(@)]
Begin(t, ops) == Idle(t) /\ todo' = [todo EXCEPT ![t] = ops]

\* _check_exit_timeout
ExitTimeout == ~occupied /\ ~camera /\ quiet

\* Mutant: a guest's radar echo holds whatever identity there was.
StickyAny(p) == TRUE
StickyEvidence(p) == p.detected \/ p.sticky

\* Mutant: evidence of other kinds becomes sticky too.
HonestNever(p) == FALSE
Honest(p) == p.source \in {"wifi_mmwave", "geofence_mmwave"}

\* Mutant: in no region at all is taken for away.
LeftHomeAny(z) == z \notin {"home", "unknown"}
LeftHome(z) == z \notin {"home", "unknown", ""}

\* fuse: the evidence for and against the owner.
Fuse(p, isBle, isWifi, z) ==
    IF LeftHome(z) THEN Not("geofence_absent")
    ELSE IF isBle THEN Is("ble")
    ELSE IF isWifi /\ occupied THEN Is("wifi_mmwave")
    ELSE IF z = "home" /\ occupied /\ ~p.detected THEN Is("geofence_mmwave")
    ELSE IF occupied /\ Honest(p) THEN [p EXCEPT !.detected = TRUE]
    ELSE IF occupied /\ StickyEvidence(p) THEN Sticky
    ELSE IF occupied THEN [p EXCEPT !.source = "mmwave_only"]
    ELSE IF ExitTimeout THEN Not("none")
    ELSE p

\* Mutant: a phone that has gone silent is never missed.
StillThereForever(isBle) == isBle
StillThere(isBle) == isBle /\ ~bleOld

\* _update_presence, with the zone and the BLE reading its caller has written.
Update(isBle, isWifi, z) ==
    /\ ble' = StillThere(isBle)
    /\ presence' = Fuse(presence, ble', isWifi, z)
    /\ zone' = z /\ home' = (z = "home")

Announce(was, now) ==
    IF ~was /\ now THEN <<Emit("detected")>>
    ELSE IF was /\ ~now THEN <<Emit("cleared")>> ELSE <<>>

-----------------------------------------------------------------------------
(* The MQTT thread and the RPC threads *)

\* _on_ble_presence
OnBlePresence(strong) ==
    /\ bleOld' = (bleOld /\ ~strong)
    /\ ble' = strong
    /\ presence' = Fuse(presence, strong, FALSE, zone)
    /\ Begin(Mqtt, Announce(presence.detected, presence'.detected))

\* A device that is in the room is heard down to the exit threshold.
Strong(level) == level = "strong" \/ (level = "middle" /\ client = "active")

\* A message of the owner's device, above the enter threshold, above the exit
\* threshold or below both: _handle_espresense.  The first strong ones are not
\* passed on; a device that fell silent stays as it was.
BleMessage ==
    /\ near /\ Idle(Mqtt)
    /\ \E level \in {"strong", "middle", "weak"} :
        IF Strong(level) /\ client \in {"out", "seen"}
        THEN /\ client' = "seen"
             /\ UNCHANGED <<todo, ble, bleOld, presence>>
        ELSE /\ client' = IF Strong(level) THEN "active" ELSE "out"
             /\ OnBlePresence(Strong(level))
    /\ UNCHANGED <<occupied, quiet, settled, camera, near, wifi, placeVars, roomClear, announced>>

\* A location report with the regions the phone is in: _on_geofence("sync").
LocationReport ==
    /\ Idle(Mqtt)
    /\ \E z \in Zones \cup {""} : (z # zone \/ ~owntracks) /\ Update(ble, FALSE, z)
    /\ owntracks' = TRUE
    /\ UNCHANGED <<todo, occupied, quiet, settled, camera, bleOld, near, client, wifi, roomClear, announced>>

\* The zone after a transition.
Arrived(z) == z
Left(z) == IF z \in {"home", zone} THEN "away" ELSE zone

\* Nothing says that the identity is there, only that it has gone.
Transition(t) ==
    /\ \E z \in Zones \cup {"unknown"} : Update(ble, FALSE, Arrived(z)) \/ Update(ble, FALSE, Left(z))
    /\ owntracks' = (t = Mqtt)
    /\ Begin(t, IF presence.detected /\ ~presence'.detected THEN <<Emit("cleared")>> ELSE <<>>)
    /\ UNCHANGED <<occupied, quiet, settled, camera, bleOld, near, client, wifi, roomClear, announced>>

-----------------------------------------------------------------------------
(* _poll_devices *)

Settled(now) == settled /\ now

\* The first section: the HE20 answered, with either state, or did not.
PollRead(t) ==
    /\ occupied' \in BOOLEAN
    /\ settled' = Settled(occupied')
    /\ quiet' = (quiet /\ ~occupied')
    /\ Begin(t, <<Op("ping", presence.detected, FALSE)>>)
    /\ UNCHANGED <<camera, ble, bleOld, near, client, wifi, presence, placeVars, roomClear, announced>>

\* _probe_wifi_presence: at times not tried, and not under the lock.
PollPing(t) ==
    /\ At(t, "ping")
    /\ \E isWifi \in {FALSE, wifi} :
        Continue(t, <<Op("update", Head(todo[t]).was, isWifi)>>)
    /\ UNCHANGED <<sensorVars, presence, placeVars, roomClear, announced>>

\* The second section fuses with the answer there was.
PollUpdate(t) ==
    /\ At(t, "update")
    /\ Update(ble, Head(todo[t]).found, zone)
    /\ Continue(t, <<Op("edges", Head(todo[t]).was, ExitTimeout /\ ~ble')>>)
    /\ UNCHANGED <<occupied, quiet, settled, camera, bleOld, near, client, wifi, owntracks,
                   roomClear, announced>>

\* The third: a confirmed entry, a room that has been left.
Entry == occupied /\ settled /\ roomClear
PollEdges(t) ==
    /\ At(t, "edges")
    /\ LET clears == Head(todo[t]).found /\ ~(roomClear /\ ~Entry)
       IN /\ roomClear' = (clears \/ (roomClear /\ ~Entry))
          /\ Continue(t, IF ~Head(todo[t]).was /\ presence.detected THEN <<Emit("detected")>>
                         ELSE IF clears THEN <<Emit("cleared")>> ELSE <<>>)
    /\ UNCHANGED <<sensorVars, presence, placeVars, announced>>

\* _emit_event: the automation switches the light.
EmitEvent(t) ==
    /\ At(t, "detected") \/ At(t, "cleared")
    /\ announced' = Head(todo[t]).op
    /\ Continue(t, <<>>)
    /\ UNCHANGED <<sensorVars, presence, placeVars, roomClear>>

-----------------------------------------------------------------------------
(* Time and the world *)

TimePasses ==
    /\ \/ ~occupied /\ ~quiet /\ quiet' = TRUE /\ UNCHANGED <<settled, bleOld, client>>
       \/ occupied /\ ~settled /\ settled' = TRUE /\ UNCHANGED <<quiet, bleOld, client>>
       \/ ble /\ ~bleOld /\ bleOld' = TRUE /\ UNCHANGED <<quiet, settled, client>>
       \/ client = "seen" /\ client' = "waited" /\ UNCHANGED <<quiet, settled, bleOld>>
    /\ UNCHANGED <<todo, occupied, camera, ble, near, wifi, presence, placeVars, roomClear, announced>>

WorldMoves ==
    /\ \/ near' = ~near /\ UNCHANGED <<wifi, camera>>
       \/ WifiPing /\ wifi' = ~wifi /\ UNCHANGED <<near, camera>>
       \/ Camera /\ camera' = ~camera /\ UNCHANGED <<near, wifi>>
    /\ UNCHANGED <<todo, occupied, quiet, settled, ble, bleOld, client, presence, placeVars, roomClear, announced>>

\* _handle_owntracks
Owntracks == LocationReport \/ Transition(Mqtt)

Run(t) == PollPing(t) \/ PollUpdate(t) \/ PollEdges(t) \/ EmitEvent(t)

Next ==
    \/ BleMessage \/ Owntracks
    \/ \E t \in Callers : Transition(t)
    \/ \E t \in Pollers : PollRead(t)
    \/ \E t \in Threads : Run(t)
    \/ TimePasses \/ WorldMoves

Spec == Init /\ [][Next]_vars

\* Threads run, the poll loop polls again, time passes.
FairSpec ==
    /\ Spec
    /\ \A t \in Threads : WF_vars(Run(t))
    /\ \A t \in Pollers : WF_vars(PollRead(t))
    /\ WF_vars(TimePasses)

-----------------------------------------------------------------------------
(* Properties *)

\* A poll whose ping was answered, perhaps by a phone that has left meanwhile.
PingAnswered(t) == At(t, "update") /\ Head(todo[t]).found /\ PollUpdate(t)

\* Axiom 6: the radar alone never makes somebody the owner.  An identity appears
\* on BLE, or, while the room is occupied, on the phone's place or on a ping that
\* this poll had answered, whatever was believed before and whatever other
\* threads did between the ping and the fusion.
IdentityNeedsEvidence ==
    [][~presence.detected /\ presence'.detected =>
            ble' \/ (occupied' /\ (home' \/ \E t \in Threads : PingAnswered(t)))]_vars

\* Axioms 2 and 4: the silence of a phone never takes the owner away from a room
\* somebody is in; only the phone's departure does.
StickyHolds ==
    [][presence.detected /\ occupied' /\ zone' \in {"home", "unknown", ""} => presence'.detected]_vars

\* Only an identity that BLE established outlives it: "only BLE is allowed to
\* become BLE-sticky".
OnlyBleSticks ==
    [][presence'.source = "ble_sticky_mmwave" =>
            presence.source \in {"ble", "ble_sticky_mmwave"}]_vars

\* The room forgets the owner once it stays empty and his phone is out of range,
\* flat or asleep: its last word, however strong, does not count for ever.
Deserted == ~occupied /\ ~camera /\ ~near
EmptyRoomForgets == <>[]Deserted => <>[]~presence.detected

(* Statements of the code's comments that it does not keep. *)

\* Axiom 5: "Light-off requires mmWave clear + BLE absent."
LightOffNeedsEmpty ==
    [][\A t \in Threads : At(t, "cleared") /\ EmitEvent(t) => ~occupied /\ ~ble]_vars

\* "A clear event is edge-triggered after the room has remained empty for the
\* configured timeout."
EmptyRoomIsCleared == <>[]Deserted => <>[](announced = "cleared")
=============================================================================
