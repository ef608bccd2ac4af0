--------------------------- MODULE PresenceProofs ----------------------------
(***************************************************************************)
(* Proofs about Presence, for any threads and zones: its type, and the     *)
(* axioms of presence_fusion.py as properties of every step.               *)
(*                                                                         *)
(* The argument.  Every change of the shared presence is one application   *)
(* of fuse to the sensors and the place of that moment (FusesOrKeeps); the *)
(* axioms are facts about fuse (FuseNeedsEvidence, FuseHolds, FuseSticks), *)
(* given that what is believed, its source and its stickiness agree, which *)
(* is the part of TypeOK that every interleaving has to keep.              *)
(***************************************************************************)
EXTENDS Presence, SequenceTheorems, TLAPS

Ops == [op : Events \cup {"ping", "update", "edges"}, was : BOOLEAN, found : BOOLEAN]
Places == Zones \cup {"unknown", "", "away"}
Presences == [detected : BOOLEAN, source : Sources, sticky : BOOLEAN]

\* What is believed agrees with its source.
Believable(p) ==
    /\ p \in Presences
    /\ p.detected <=> p.source \in Identified
    /\ p.sticky => p.source = "ble_sticky_mmwave"

StateTypeOK ==
    /\ occupied \in BOOLEAN /\ quiet \in BOOLEAN /\ settled \in BOOLEAN /\ camera \in BOOLEAN
    /\ ble \in BOOLEAN /\ bleOld \in BOOLEAN /\ near \in BOOLEAN /\ wifi \in BOOLEAN
    /\ home \in BOOLEAN /\ owntracks \in BOOLEAN /\ roomClear \in BOOLEAN
    /\ client \in {"out", "seen", "waited", "active"}
    /\ Believable(presence)
    /\ zone \in Places /\ (home <=> zone = "home")
    /\ occupied => ~quiet
    /\ settled => occupied
    /\ announced \in Events

LEMMA TypeSplit ==
    /\ TypeOK <=> StateTypeOK /\ todo \in [Threads -> Seq(Ops)]
    /\ TypeOK' <=> StateTypeOK' /\ todo' \in [Threads -> Seq(Ops)]
<1>1. TypeOK <=> StateTypeOK /\ todo \in [Threads -> Seq(Ops)]
  BY ZenonT(40) DEF TypeOK, StateTypeOK, Ops, Places, Believable, Presences
<1>2. TypeOK' <=> StateTypeOK' /\ todo' \in [Threads -> Seq(Ops)]
  BY ZenonT(40) DEF TypeOK, StateTypeOK, Ops, Places, Believable, Presences
<1> QED BY <1>1, <1>2

-----------------------------------------------------------------------------
(* fuse *)

LEMMA FuseBelievable ==
    ASSUME NEW p, Believable(p), NEW isBle \in BOOLEAN, NEW isWifi \in BOOLEAN, NEW z \in Places
    PROVE  Believable(Fuse(p, isBle, isWifi, z))
BY DEF Fuse, Believable, Presences, Sources, Identified, Is, Not, Sticky, Honest, StickyEvidence

\* Axiom 6: an identity appears on evidence of the phone.
LEMMA FuseNeedsEvidence ==
    ASSUME NEW p, Believable(p), ~p.detected, NEW isBle \in BOOLEAN, NEW isWifi \in BOOLEAN,
           NEW z \in Places, Fuse(p, isBle, isWifi, z).detected
    PROVE  isBle \/ (occupied /\ (z = "home" \/ isWifi))
BY DEF Fuse, Believable, Presences, Sources, Identified, Is, Not, Sticky, Honest, StickyEvidence

\* Axioms 2 and 4: in an occupied room it disappears with the phone's departure only.
LEMMA FuseHolds ==
    ASSUME NEW p, Believable(p), p.detected, NEW isBle \in BOOLEAN, NEW isWifi \in BOOLEAN,
           NEW z, ~LeftHome(z), occupied
    PROVE  Fuse(p, isBle, isWifi, z).detected
BY DEF Fuse, Believable, Presences, Sources, Identified, Is, Not, Sticky, Honest, StickyEvidence

\* Only what BLE established is sticky.
LEMMA FuseSticks ==
    ASSUME NEW p, Believable(p), NEW isBle \in BOOLEAN, NEW isWifi \in BOOLEAN,
           NEW z \in Places, Fuse(p, isBle, isWifi, z).source = "ble_sticky_mmwave"
    PROVE  p.source \in {"ble", "ble_sticky_mmwave"}
BY DEF Fuse, Believable, Presences, Sources, Identified, Is, Not, Sticky, Honest, StickyEvidence

-----------------------------------------------------------------------------
(* Steps *)

\* What a step does to the belief: fuse it with what the sensors and the place
\* say at that moment, or leave it alone.
Fuses ==
    \E isWifi \in BOOLEAN :
        /\ presence' = Fuse(presence, ble', isWifi, zone')
        /\ isWifi => \E t \in Threads : PingAnswered(t)
        /\ UNCHANGED <<occupied, wifi, camera, quiet>>

LEMMA PolledFinds ==
    ASSUME TypeOK, NEW t \in Threads, PollPing(t) \/ PollUpdate(t) \/ PollEdges(t)
    PROVE  todo[t] # <<>> /\ Head(todo[t]).was \in BOOLEAN /\ Head(todo[t]).found \in BOOLEAN
<1>1. todo[t] # <<>> /\ todo[t] \in Seq(Ops)
  BY TypeSplit DEF PollPing, PollUpdate, PollEdges, At
<1>2. Head(todo[t]) \in Ops
  BY <1>1, HeadTailProperties
<1> QED BY <1>1, <1>2 DEF Ops

LEMMA FusesOrKeeps == TypeOK /\ [Next]_vars => Fuses \/ presence' = presence
<1> SUFFICES ASSUME TypeOK, [Next]_vars PROVE Fuses \/ presence' = presence
  OBVIOUS
<1>1. CASE BleMessage
  BY <1>1 DEF BleMessage, OnBlePresence, Fuses, placeVars
<1>2. CASE LocationReport
  BY <1>2 DEF LocationReport, Fuses, Update
<1>3. ASSUME NEW t \in Callers \cup {Mqtt}, Transition(t) PROVE Fuses
  BY <1>3 DEF Transition, Fuses, Update, Arrived, Left
<1>4. ASSUME NEW t \in Threads, PollUpdate(t) PROVE Fuses
  <2>1. Head(todo[t]).found \in BOOLEAN
    BY <1>4, PolledFinds
  <2>2. Head(todo[t]).found => PingAnswered(t)
    BY <1>4 DEF PollUpdate, PingAnswered
  <2> QED BY <1>4, <2>1, <2>2 DEF PollUpdate, Fuses, Update
<1>5. ASSUME NEW t \in Threads, PollRead(t) \/ PollPing(t) \/ PollEdges(t) \/ EmitEvent(t)
      PROVE  presence' = presence
  BY <1>5 DEF PollRead, PollPing, PollEdges, EmitEvent
<1>6. CASE TimePasses \/ WorldMoves \/ UNCHANGED vars
  BY <1>6 DEF TimePasses, WorldMoves, vars
<1> QED BY <1>1, <1>2, <1>3, <1>4, <1>5, <1>6 DEF Next, Run, Threads, Owntracks

LEMMA Calls ==
    /\ <<>> \in Seq(Ops)
    /\ \A event \in Events : <<Emit(event)>> \in Seq(Ops)
    /\ \A was, now \in BOOLEAN : Announce(was, now) \in Seq(Ops)
    /\ \A name \in {"ping", "update", "edges"}, was, found \in BOOLEAN :
            <<Op(name, was, found)>> \in Seq(Ops)
<1>1. \A name \in Events \cup {"ping", "update", "edges"}, was, found \in BOOLEAN :
        Op(name, was, found) \in Ops
  BY DEF Op, Ops
<1>2. \A o \in Ops : <<o>> \in Seq(Ops)
  OBVIOUS
<1>3. \A event \in Events : <<Emit(event)>> \in Seq(Ops)
  BY <1>1, <1>2 DEF Emit
<1>4. <<>> \in Seq(Ops)
  BY EmptySeq
<1> QED BY <1>1, <1>2, <1>3, <1>4 DEF Announce, Events

LEMMA ContinueType ==
    ASSUME todo \in [Threads -> Seq(Ops)], NEW t \in Threads, todo[t] # <<>>,
           NEW ops \in Seq(Ops), Continue(t, ops)
    PROVE  todo' \in [Threads -> Seq(Ops)] /\ Head(todo[t]) \in Ops
<1>1. Head(todo[t]) \in Ops /\ Tail(todo[t]) \in Seq(Ops)
  BY HeadTailProperties
<1>2. ops \o Tail(todo[t]) \in Seq(Ops)
  BY <1>1, ConcatProperties
<1> QED BY <1>1, <1>2 DEF Continue

LEMMA InitType == Init => TypeOK
<1> SUFFICES ASSUME Init PROVE TypeOK
  OBVIOUS
<1>1. todo \in [Threads -> Seq(Ops)]
  BY EmptySeq DEF Init
<1>2. Believable(presence)
  <2>1. Believable(Not("none"))
    BY DEF Believable, Presences, Sources, Identified, Not
  <2>2. Believable(Is("ble")) /\ Believable(Is("geofence_mmwave"))
    BY DEF Believable, Presences, Sources, Identified, Is
  <2>3. Believable(Sticky)
    BY DEF Believable, Presences, Sources, Identified, Sticky
  <2> QED BY <2>1, <2>2, <2>3 DEF Init
<1>3. announced \in Events
  BY DEF Init, Events
<1>4. zone \in Places /\ home = (zone = "home")
  <2>1. zone \in {"unknown", "home"} /\ home = (zone = "home")
    BY DEF Init
  <2>2. zone \in Places
    BY ZonesAssumption, <2>1 DEF Init, Places
  <2> QED BY <2>1, <2>2
<1> QED BY <1>1, <1>2, <1>3, <1>4, TypeSplit DEF Init, StateTypeOK

LEMMA StepType == TypeOK /\ [Next]_vars => TypeOK'
<1> SUFFICES ASSUME TypeOK, [Next]_vars PROVE TypeOK'
  OBVIOUS
<1>0. StateTypeOK /\ todo \in [Threads -> Seq(Ops)]
  BY TypeSplit
<1>1. CASE BleMessage
  <2>1. client' \in {"out", "seen", "active"}
    BY <1>1 DEF BleMessage
  <2>2. CASE UNCHANGED <<todo, ble, bleOld, presence>>
    BY <1>0, <1>1, <2>1, <2>2, TypeSplit DEF BleMessage, StateTypeOK, placeVars
  <2>3. ASSUME NEW strong \in BOOLEAN, OnBlePresence(strong) PROVE TypeOK'
    <3>1. Believable(presence')
      BY <1>0, <2>3, FuseBelievable DEF OnBlePresence, StateTypeOK
    <3>2. Announce(presence.detected, presence'.detected) \in Seq(Ops)
      BY <1>0, <3>1, Calls DEF StateTypeOK, Believable, Presences
    <3>3. todo' \in [Threads -> Seq(Ops)]
      BY <1>0, <2>3, <3>2 DEF OnBlePresence, Begin
    <3>4. ble' \in BOOLEAN /\ bleOld' \in BOOLEAN
      BY <1>0, <2>3 DEF OnBlePresence, StateTypeOK
    <3> QED BY <1>0, <1>1, <2>1, <3>1, <3>3, <3>4, TypeSplit DEF BleMessage, StateTypeOK, placeVars
  <2>4. \A level \in {"strong", "middle", "weak"} : Strong(level) \in BOOLEAN
    BY DEF Strong
  <2> QED BY <1>1, <2>2, <2>3, <2>4 DEF BleMessage
<1>2. CASE LocationReport
  <2>1. PICK z \in Zones \cup {""} : Update(ble, FALSE, z)
    BY <1>2 DEF LocationReport
  <2>2. ble' \in BOOLEAN /\ Believable(presence')
    BY <1>0, <2>1, FuseBelievable DEF Update, StillThere, StateTypeOK, Places
  <2> QED BY <1>0, <1>2, <2>1, <2>2, TypeSplit DEF LocationReport, Update, StateTypeOK, Places
<1>3. ASSUME NEW t \in Callers \cup {Mqtt}, Transition(t) PROVE TypeOK'
  <2>1. PICK z \in Places : Update(ble, FALSE, z)
    BY <1>0, <1>3 DEF Transition, Arrived, Left, StateTypeOK, Places
  <2>2. ble' \in BOOLEAN /\ Believable(presence')
    BY <1>0, <2>1, FuseBelievable DEF Update, StillThere, StateTypeOK
  <2>3. todo' \in [Threads -> Seq(Ops)]
    BY <1>0, <1>3, Calls DEF Transition, Begin, Events, Threads
  <2> QED BY <1>0, <1>3, <2>1, <2>2, <2>3, TypeSplit DEF Transition, Update, StateTypeOK
<1>4. ASSUME NEW t \in Pollers, PollRead(t) PROVE TypeOK'
  <2>1. <<Op("ping", presence.detected, FALSE)>> \in Seq(Ops)
    BY <1>0, Calls DEF StateTypeOK, Believable, Presences
  <2>2. todo' \in [Threads -> Seq(Ops)]
    BY <1>0, <1>4, <2>1 DEF PollRead, Begin, Threads
  <2> QED BY <1>0, <1>4, <2>2, TypeSplit DEF PollRead, StateTypeOK, Settled, placeVars
<1>5. ASSUME NEW t \in Threads, PollUpdate(t) PROVE TypeOK'
  <2>1. /\ Update(ble, Head(todo[t]).found, zone)
        /\ Continue(t, <<Op("edges", Head(todo[t]).was, ExitTimeout /\ ~ble')>>)
    BY <1>5 DEF PollUpdate
  <2>2. /\ todo[t] # <<>> /\ Head(todo[t]).was \in BOOLEAN /\ Head(todo[t]).found \in BOOLEAN
        /\ (ExitTimeout /\ ~ble') \in BOOLEAN
    BY <1>5, PolledFinds
  <2>3. ble' \in BOOLEAN /\ Believable(presence')
    BY <1>0, <2>1, <2>2, FuseBelievable DEF Update, StillThere, StateTypeOK
  <2>4. todo' \in [Threads -> Seq(Ops)]
    BY <1>0, <2>1, <2>2, Calls, ContinueType
  <2> QED BY <1>0, <1>5, <2>1, <2>3, <2>4, TypeSplit DEF PollUpdate, Update, StateTypeOK
<1>6. ASSUME NEW t \in Threads, PollEdges(t) PROVE TypeOK'
  <2>1. todo[t] # <<>> /\ Head(todo[t]).found \in BOOLEAN
    BY <1>6, PolledFinds
  <2>2. PICK ops \in Seq(Ops) : Continue(t, ops)
    BY <1>6, Calls DEF PollEdges, Events
  <2>3. todo' \in [Threads -> Seq(Ops)]
    BY <1>0, <2>1, <2>2, ContinueType
  <2>4. roomClear' \in BOOLEAN
    BY <1>0, <1>6, <2>1 DEF PollEdges, StateTypeOK
  <2> QED BY <1>0, <1>6, <2>3, <2>4, TypeSplit DEF PollEdges, StateTypeOK, sensorVars, placeVars
<1>7. ASSUME NEW t \in Threads, EmitEvent(t) PROVE TypeOK'
  <2>1. todo[t] # <<>> /\ announced' \in Events
    BY <1>7 DEF EmitEvent, At, Events
  <2>2. todo' \in [Threads -> Seq(Ops)]
    BY <1>0, <1>7, <2>1, Calls, ContinueType DEF EmitEvent
  <2> QED BY <1>0, <1>7, <2>1, <2>2, TypeSplit DEF EmitEvent, StateTypeOK, sensorVars, placeVars
<1>8. ASSUME NEW t \in Threads, PollPing(t) PROVE TypeOK'
  <2>1. PICK isWifi \in BOOLEAN : Continue(t, <<Op("update", Head(todo[t]).was, isWifi)>>)
    BY <1>0, <1>8 DEF PollPing, StateTypeOK
  <2>2. todo' \in [Threads -> Seq(Ops)]
    BY <1>0, <1>8, <2>1, PolledFinds, Calls, ContinueType
  <2> QED BY <1>0, <1>8, <2>2, TypeSplit DEF PollPing, StateTypeOK, sensorVars, placeVars
<1>9. CASE TimePasses
  BY <1>0, <1>9, TypeSplit DEF TimePasses, StateTypeOK, placeVars
<1>10. CASE WorldMoves
  BY <1>0, <1>10, TypeSplit DEF WorldMoves, StateTypeOK, placeVars
<1>11. CASE UNCHANGED vars
  BY <1>0, <1>11, TypeSplit DEF vars, sensorVars, placeVars, StateTypeOK
<1> QED BY <1>1, <1>2, <1>3, <1>4, <1>5, <1>6, <1>7, <1>8, <1>9, <1>10, <1>11
    DEF Next, Run, Owntracks

-----------------------------------------------------------------------------
(* Theorems *)

\* Every variable keeps its type, and what is believed agrees with its source
\* whichever thread fused last.
THEOREM TypeCorrect == Spec => []TypeOK
BY InitType, StepType, PTL DEF Spec

\* The belief is fused from sensors that are as they are typed.
LEMMA FusedFrom ==
    ASSUME TypeOK, TypeOK', [Next]_vars, presence' # presence
    PROVE  \E isWifi \in BOOLEAN :
              /\ presence' = Fuse(presence, ble', isWifi, zone')
              /\ isWifi => \E t \in Threads : PingAnswered(t)
              /\ Believable(presence) /\ ble' \in BOOLEAN /\ zone' \in Places
              /\ (home' <=> zone' = "home") /\ occupied' = occupied
<1>1. Fuses /\ StateTypeOK /\ StateTypeOK'
  BY FusesOrKeeps, TypeSplit
<1> QED BY <1>1 DEF Fuses, StateTypeOK

\* No interleaving makes somebody the owner by the radar alone.
THEOREM OwnerNeedsEvidence == Spec => IdentityNeedsEvidence
<1>1. ASSUME TypeOK, TypeOK', [Next]_vars, ~presence.detected, presence'.detected
      PROVE  ble' \/ (occupied' /\ (home' \/ \E t \in Threads : PingAnswered(t)))
  BY <1>1, FusedFrom, FuseNeedsEvidence
<1> QED BY <1>1, TypeCorrect, PTL DEF Spec, IdentityNeedsEvidence

\* No interleaving takes the owner away from an occupied room while his phone
\* is at home or says nothing.
THEOREM OwnerStays == Spec => StickyHolds
<1>1. ASSUME TypeOK, TypeOK', [Next]_vars, presence.detected, occupied',
             zone' \in {"home", "unknown", ""}
      PROVE  presence'.detected
  BY <1>1, FusedFrom, FuseHolds DEF LeftHome
<1> QED BY <1>1, TypeCorrect, PTL DEF Spec, StickyHolds

\* Only an identity that BLE established becomes sticky.
THEOREM BleAloneSticks == Spec => OnlyBleSticks
<1>1. ASSUME TypeOK, TypeOK', [Next]_vars, presence'.source = "ble_sticky_mmwave"
      PROVE  presence.source \in {"ble", "ble_sticky_mmwave"}
  BY <1>1, FusedFrom, FuseSticks
<1> QED BY <1>1, TypeCorrect, PTL DEF Spec, OnlyBleSticks
=============================================================================
