------------------------------- MODULE Arrivals -------------------------------
(***************************************************************************)
(* Arrivals and visitors (runtime/app.py).  A confirmed entry into an      *)
(* empty room starts a timer; when the camera has had its time,            *)
(* _deliver_welcome judges who came in.  A visitor is put on the list of   *)
(* unreported entries; the owner is told of everybody on that list, and of *)
(* the unknown faces the camera has kept, and welcomed.  The camera may    *)
(* correct the list later, and it welcomes a friend it knows by name,      *)
(* whatever the delivery makes of the arrival.  state.json is saved by     *)
(* many threads; a crash goes back to the last save.                       *)
(*                                                                         *)
(* An entry is named by its time stamp.  Left out: what an entry says      *)
(* about itself but that somebody is named in it, the photographs          *)
(* (SeeLight has their light), the wording, the light an arrival in the    *)
(* dark asks for (SeeLight), test_welcome.  A save is one step here, and   *)
(* undisturbed by others: StateStore has its parts.                        *)
(***************************************************************************)
EXTENDS Naturals, Sequences, FiniteSets, SequencesExt

CONSTANTS
    Entries,      \* bound: time stamps of entries
    Faces,        \* bound: unknown faces the camera keeps
    Timers,       \* bound: welcome timers alive at once
    Limit,        \* the list keeps that many entries (100)
    MaxPending,   \* the camera keeps that many unreported faces (max_pending)
    Crashes       \* bound: number of crashes of the runtime

ASSUME LimitAssumption ==
    {Limit, MaxPending} \subseteq Nat \ {0} /\ Crashes \in Nat /\ "none" \notin Entries \cup Timers

VARIABLES
    todo,         \* what the thread of each fired timer has still to execute
    armed,        \* timers that have been started and have not fired
    timerRef,     \* _pending_welcome_timer
    polling,      \* what the poll thread has still to do about an entry
    occupied,     \* mmwave.occupied
    pendingAt, pendingWelcome,     \* _pending_entry_at, _pending_entry_should_welcome
    unreported,   \* unreported_visitor_entries
    saved,        \* the same list in state.json
    young,        \* entries the owner's face may still correct
    who,          \* who has put a name into an entry: the delivery, the camera, nobody
    faces,        \* unreported faces in the camera's library, the oldest first
    camera,       \* what _welcome_known has still to do, and the entries it has named
    used,         \* time stamps and faces that have occurred
    announced,    \* entries a room_entry was emitted for: not in the code
    reported,     \* entries and faces in an emitted visitor_report, and the faces
                  \* somebody has reviewed: not in the code
    welcomes,     \* welcomes deliveries have emitted for each entry: not in the code
    greetings,    \* welcomes by name for whom the camera found in it: not in the code
    crashes

pendingVars == <<armed, timerRef, pendingAt, pendingWelcome>>
listVars == <<unreported, saved, young, who, faces>>
toldVars == <<announced, reported, welcomes, greetings, crashes>>
ghostVars == <<used, toldVars>>
vars == <<todo, polling, camera, occupied, pendingVars, listVars, ghostVars>>

Op(name, at, entries, welcome) ==
    [op |-> name, at |-> at, entries |-> entries, welcome |-> welcome]
OpNames == {"forget", "judge", "faces", "entry", "report", "drop", "mark", "welcome", "save"}
PollNames == {"cancel", "at", "welcome", "plain", "make", "start"}

TypeOK ==
    /\ todo \in [Timers -> Seq([op : OpNames, at : Entries \cup {"none"},
                                entries : SUBSET (Entries \cup Faces), welcome : BOOLEAN])]
    /\ armed \subseteq Timers /\ timerRef \in Timers \cup {"none"}
    /\ polling \in Seq(PollNames)
    /\ camera \in [op : {"idle", "greet", "save"}, entries : SUBSET Entries]
    /\ {occupied, pendingWelcome} \subseteq BOOLEAN
    /\ pendingAt \in Entries \cup {"none"}
    /\ \A list \in {unreported, saved} : /\ list \in Seq(Entries) /\ Len(list) <= Limit
                                          /\ IsInjective(list)
    /\ young \subseteq Entries /\ who \in [Entries -> {"nobody", "delivery", "camera"}]
    /\ faces \in Seq(Faces) /\ Len(faces) <= MaxPending
    /\ used \subseteq Entries \cup Faces
    /\ announced \subseteq Entries /\ reported \subseteq Entries \cup Faces
    /\ {welcomes, greetings} \subseteq [Entries -> Nat] /\ crashes \in 0..Crashes

Idle == [op |-> "idle", entries |-> {}]

Init ==
    /\ todo = [m \in Timers |-> <<>>]
    /\ armed = {} /\ timerRef = "none" /\ polling = <<>>
    /\ occupied = FALSE
    /\ pendingAt = "none" /\ pendingWelcome = FALSE
    /\ unreported = <<>> /\ saved = <<>> /\ young = {} /\ faces = <<>>
    /\ who = [e \in Entries |-> "nobody"] /\ camera = Idle
    /\ used = {} /\ announced = {} /\ reported = {}
    /\ welcomes = [e \in Entries |-> 0] /\ greetings = welcomes /\ crashes = 0

-----------------------------------------------------------------------------
At(m, name) == todo[m] # <<>> /\ Head(todo[m]).op = name
Continue(m, ops) == todo' = [todo EXCEPT ![m] = ops \o Tail(@)]
Now == Entries \ used

\* _emit_event publishes an event, and then saves the state, under one lock.
Saving(m) == At(m, "save")
Locked == camera.op = "save" \/ \E m \in Timers : Saving(m)
SaveFor(at) == Op("save", at, {}, FALSE)

\* The entries of the list but those in gone, in their order (a comprehension
\* in the code).
Without(list, gone) ==
    LET kept[i \in 0..Len(list)] ==
            IF i = 0 THEN <<>>
            ELSE IF list[i] \in gone THEN kept[i - 1]
            ELSE Append(kept[i - 1], list[i])
    IN kept[Len(list)]

-----------------------------------------------------------------------------
(* The poll thread: _handle_welcome_transition *)

\* The room has been empty for the exit timeout.
RoomLeft ==
    /\ polling = <<>> /\ occupied /\ occupied' = FALSE
    /\ saved' = unreported
    /\ UNCHANGED <<todo, polling, camera, pendingVars, unreported, young, who, faces,
                   ghostVars>>

\* Somebody has been in the room for the debounce time.  Only a room that was
\* empty for long (reset_after_seconds) is worth a welcome; here it may have been.
Enters ==
    /\ polling = <<>> /\ ~occupied /\ occupied' = TRUE
    /\ saved' = unreported
    /\ \E worth \in {"welcome", "plain"} :
        polling' = (IF timerRef = "none" THEN <<>> ELSE <<"cancel">>)
                   \o <<"at", worth, "make", "start">>
    /\ UNCHANGED <<todo, camera, pendingVars, unreported, young, who, faces, ghostVars>>

Polls(name) == polling # <<>> /\ Head(polling) = name

\* `if self._pending_welcome_timer: self._pending_welcome_timer.cancel()`: a timer
\* that fires in between has set it to None, and the poll ends with an exception.
CancelOld ==
    /\ Polls("cancel")
    /\ polling' = IF timerRef = "none" THEN <<>> ELSE Tail(polling)
    /\ armed' = armed \ {timerRef}
    /\ UNCHANGED <<todo, camera, occupied, timerRef, pendingAt, pendingWelcome, listVars,
                   ghostVars>>

\* Two writes without the lock: a delivery may take the first of them only.
PendAt ==
    /\ Polls("at")
    /\ \E e \in Now : pendingAt' = e /\ used' = used \cup {e}
    /\ polling' = Tail(polling)
    /\ UNCHANGED <<todo, camera, occupied, armed, timerRef, pendingWelcome, listVars, toldVars>>

PendWelcome ==
    /\ Polls("welcome") \/ Polls("plain")
    /\ pendingWelcome' = (Head(polling) = "welcome")
    /\ polling' = Tail(polling)
    /\ UNCHANGED <<todo, camera, occupied, armed, timerRef, pendingAt, listVars, ghostVars>>

MakeTimer ==
    /\ Polls("make")
    /\ \E m \in Timers \ armed : todo[m] = <<>> /\ timerRef' = m
    /\ polling' = Tail(polling)
    /\ UNCHANGED <<todo, camera, occupied, armed, pendingAt, pendingWelcome, listVars, ghostVars>>

\* The timer is started through the attribute, which one that fires meanwhile has
\* set to None: then nobody will judge this entry in time.
StartTimer ==
    /\ Polls("start")
    /\ armed' = armed \cup ({timerRef} \ {"none"})
    /\ polling' = Tail(polling)
    /\ UNCHANGED <<todo, camera, occupied, timerRef, pendingAt, pendingWelcome, listVars,
                   ghostVars>>

-----------------------------------------------------------------------------
(* A timer's thread: _deliver_welcome *)

Fires(m) ==
    /\ m \in armed /\ todo[m] = <<>>
    /\ armed' = armed \ {m}
    /\ todo' = [todo EXCEPT ![m] = << Op("forget", "none", {}, FALSE),
                                       Op("judge", "none", {}, FALSE) >>]
    /\ UNCHANGED <<polling, camera, occupied, timerRef, pendingAt, pendingWelcome, listVars,
                   ghostVars>>

ForgetTimer(m) ==
    /\ At(m, "forget")
    /\ timerRef' = "none"
    /\ Continue(m, <<>>)
    /\ UNCHANGED <<polling, camera, occupied, armed, pendingAt, pendingWelcome, listVars,
                   ghostVars>>

\* Nobody is there any more.
NobodyThere(m) ==
    /\ At(m, "judge") /\ ~Locked /\ ~occupied
    /\ Continue(m, <<>>)
    /\ UNCHANGED <<polling, camera, occupied, pendingVars, listVars, ghostVars>>

\* Mutant: the pending entry is not taken.
LeavesPending == UNCHANGED <<pendingAt, pendingWelcome>>
TakesPending == pendingAt' = "none" /\ pendingWelcome' = FALSE

\* The mode is sleep, and the sleeper has moved; or the door has not; or they lie in
\* bed.
NotAnArrival(m) ==
    /\ At(m, "judge") /\ ~Locked /\ occupied
    /\ TakesPending
    /\ Continue(m, <<>>)
    /\ UNCHANGED <<polling, camera, occupied, armed, timerRef, listVars, ghostVars>>

\* The time of the entry, or of this moment when another delivery has taken it.
EntryAt(e) == IF pendingAt = "none" THEN e \in Now ELSE e = pendingAt

\* One more, and no more than the last so many.
AppendLast(list, x, limit) ==
    LET all == Append(list, x)
    IN SubSeq(all, IF Len(all) > limit THEN Len(all) - limit + 1 ELSE 1, Len(all))

\* What the sensors say (_classify_entry), as far as it matters here.
Classes == {"owner", "known_person", "unidentified", "unknown_visitor", "guest"}

Judge(m) ==
    /\ At(m, "judge") /\ ~Locked /\ occupied
    /\ \E e \in Entries, class \in Classes :
        /\ EntryAt(e)
        /\ used' = used \cup {e}
        /\ IF class = "owner"
           THEN /\ Continue(m, <<Op("faces", e, Range(unreported), pendingWelcome)>>)
                /\ UNCHANGED <<unreported, young, who>>
           ELSE /\ unreported' = AppendLast(unreported, e, Limit)
                /\ young' = young \cup {e}
                /\ who' = [who EXCEPT ![e] = IF class = "known_person" THEN "delivery" ELSE @]
                /\ Continue(m, <<Op("entry", e, {}, pendingWelcome
                                     /\ class \in {"unknown_visitor", "known_person"})>>)
    /\ TakesPending
    /\ UNCHANGED <<polling, camera, occupied, armed, timerRef, saved, faces, toldVars>>

\* The camera's visitors join the report.
AddFaces(m) ==
    /\ At(m, "faces")
    /\ LET o == Head(todo[m])
       IN Continue(m, <<Op("entry", o.at, o.entries \cup Range(faces), o.welcome)>>)
    /\ UNCHANGED <<polling, camera, occupied, pendingVars, listVars, ghostVars>>

\* The entry's event is saved; the owner is told of the visitors, and that is saved,
\* before anybody is taken off a list.
After(o) ==
    <<SaveFor(o.at)>>
    \o (IF o.entries = {} THEN <<>> ELSE <<[o EXCEPT !.op = "report"], SaveFor("none"),
                                           [o EXCEPT !.op = "drop"], [o EXCEPT !.op = "mark"]>>)
    \o (IF o.welcome THEN <<[o EXCEPT !.op = "welcome"]>> ELSE <<>>)

EmitEntry(m) ==
    /\ At(m, "entry") /\ ~Locked
    /\ LET o == Head(todo[m]) IN announced' = announced \cup {o.at} /\ Continue(m, After(o))
    /\ UNCHANGED <<polling, camera, occupied, pendingVars, listVars,
                   used, reported, welcomes, greetings, crashes>>

SaveEvent(m) ==
    /\ Saving(m)
    /\ saved' = unreported
    /\ Continue(m, <<>>)
    /\ UNCHANGED <<polling, camera, occupied, pendingVars, unreported, young, who, faces,
                   ghostVars>>

EmitReport(m) ==
    /\ At(m, "report") /\ ~Locked
    /\ reported' = reported \cup Head(todo[m]).entries
    /\ Continue(m, <<>>)
    /\ UNCHANGED <<polling, camera, occupied, pendingVars, listVars,
                   used, announced, welcomes, greetings, crashes>>

\* Mutant: the whole list is cleared.
KeepsNone(entries) == <<>>
KeepsOthers(entries) == Without(unreported, entries)

DropReported(m) ==
    /\ At(m, "drop") /\ ~Locked
    /\ unreported' = KeepsOthers(Head(todo[m]).entries) /\ saved' = unreported'
    /\ Continue(m, <<>>)
    /\ UNCHANGED <<polling, camera, occupied, pendingVars, young, who, faces, ghostVars>>

MarkFaces(m) ==
    /\ At(m, "mark")
    /\ faces' = Without(faces, Head(todo[m]).entries)
    /\ Continue(m, <<>>)
    /\ UNCHANGED <<polling, camera, occupied, pendingVars, unreported, saved, young, who,
                   ghostVars>>

EmitWelcome(m) ==
    /\ At(m, "welcome") /\ ~Locked
    /\ welcomes' = [welcomes EXCEPT ![Head(todo[m]).at] = @ + 1]
    /\ Continue(m, <<SaveFor("none")>>)
    /\ UNCHANGED <<polling, camera, occupied, pendingVars, listVars,
                   used, announced, reported, greetings, crashes>>

-----------------------------------------------------------------------------
(* The camera's thread *)

\* _retract_recent_visitors: the owner's face explains the last entries.
Retract ==
    /\ camera = Idle /\ ~Locked
    /\ unreported' = Without(unreported, young)
    /\ saved' = unreported'
    /\ UNCHANGED <<todo, polling, camera, occupied, pendingVars, young, who, faces, ghostVars>>

\* A face nobody knows and that does not wait yet; the oldest makes room for it.
UnknownFace ==
    /\ camera = Idle
    /\ \E f \in Faces \ used : /\ faces' = AppendLast(faces, f, MaxPending)
                               /\ used' = used \cup {f}
    /\ UNCHANGED <<todo, polling, camera, occupied, pendingVars, unreported, saved, young, who,
                   toldVars>>

\* _welcome_known: a friend has come, whom the camera has not seen for hours.  Whoever
\* came in the last minutes and has no name was them, and gets their name.
NotNamedYet == {e \in Range(unreported) : who[e] = "nobody"}

NameArrivals ==
    /\ camera = Idle /\ ~Locked
    /\ LET theirs == NotNamedYet \cap young
       IN /\ who' = [e \in Entries |-> IF e \in theirs THEN "camera" ELSE who[e]]
          /\ camera' = [op |-> "greet", entries |-> theirs]
    /\ saved' = unreported
    /\ UNCHANGED <<todo, polling, occupied, pendingVars, unreported, young, faces, ghostVars>>

EmitGreeting ==
    /\ camera.op = "greet" /\ ~Locked
    /\ greetings' = [e \in Entries |-> greetings[e] + (IF e \in camera.entries THEN 1 ELSE 0)]
    /\ camera' = [op |-> "save", entries |-> {}]
    /\ UNCHANGED <<todo, polling, occupied, pendingVars, listVars,
                   used, announced, reported, welcomes, crashes>>

SaveGreeting ==
    /\ camera.op = "save"
    /\ saved' = unreported /\ camera' = Idle
    /\ UNCHANGED <<todo, polling, occupied, pendingVars, unreported, young, who, faces, ghostVars>>

-----------------------------------------------------------------------------
(* Other threads, time, crashes *)

\* Somebody approves or rejects a face, or rejects them all.
Review ==
    /\ \E gone \in {{f} : f \in Range(faces)} \cup {Range(faces)} :
        faces' = Without(faces, gone) /\ reported' = reported \cup gone
    /\ UNCHANGED <<todo, polling, camera, occupied, pendingVars, unreported, saved, young, who,
                   used, announced, welcomes, greetings, crashes>>

OtherSave ==
    /\ ~Locked /\ saved' = unreported
    /\ UNCHANGED <<todo, polling, camera, occupied, pendingVars, unreported, young, who, faces,
                   ghostVars>>

TimePasses ==
    /\ \E e \in young : young' = young \ {e}
    /\ UNCHANGED <<todo, polling, camera, occupied, pendingVars, unreported, saved, who, faces,
                   ghostVars>>

Crash ==
    /\ crashes < Crashes /\ crashes' = crashes + 1
    /\ todo' = [m \in Timers |-> <<>>]
    /\ armed' = {} /\ timerRef' = "none" /\ polling' = <<>> /\ camera' = Idle
    /\ pendingAt' = "none" /\ pendingWelcome' = FALSE
    /\ unreported' = saved
    /\ UNCHANGED <<occupied, saved, young, who, faces, used, announced, reported,
                   welcomes, greetings>>

Poll == RoomLeft \/ Enters \/ CancelOld \/ PendAt \/ PendWelcome \/ MakeTimer \/ StartTimer

Deliver(m) ==
    \/ Fires(m) \/ ForgetTimer(m) \/ NobodyThere(m) \/ NotAnArrival(m) \/ Judge(m)
    \/ AddFaces(m) \/ EmitEntry(m) \/ SaveEvent(m) \/ EmitReport(m) \/ DropReported(m)
    \/ MarkFaces(m) \/ EmitWelcome(m)

Sees == Retract \/ UnknownFace \/ NameArrivals \/ EmitGreeting \/ SaveGreeting

Next ==
    \/ Poll
    \/ \E m \in Timers : Deliver(m)
    \/ Sees
    \/ Review \/ OtherSave \/ TimePasses \/ Crash

Spec == Init /\ [][Next]_vars

-----------------------------------------------------------------------------
(* Properties *)

\* Nobody who came while the owner was away is forgotten, whatever overlaps with
\* the report.  An announced entry leaves the list only when a report has named
\* it; or with all the young ones, when the owner's face explains them; or as the
\* oldest of a full list; or when the runtime crashes between the event of the
\* entry and its save.  A face leaves the queue only when a report has named it,
\* when somebody has reviewed it, or as the oldest of a full queue.
VisitorsAreReported ==
    [][/\ \A e \in announced :
            e \in Range(unreported) /\ e \notin Range(unreported')
                => \/ e \in reported
                   \/ e \in young /\ Range(unreported') = Range(unreported) \ young
                   \/ e = Head(unreported) /\ Len(unreported) = Limit /\ Len(unreported') = Limit
                   \/ crashes' # crashes /\ \E m \in Timers : Saving(m) /\ Head(todo[m]).at = e
       /\ \A f \in Range(faces) \ Range(faces') :
            \/ f \in reported'
            \/ f = Head(faces) /\ Len(faces) = MaxPending /\ Len(faces') = MaxPending]_vars

\* An arrival is welcomed once by the deliveries, even when the timer of an earlier
\* one is still delivering.  The camera may welcome it again, by name, but once,
\* and never whom a delivery has named.  (A friend the camera has welcomed before
\* any entry was listed is not covered: the delivery welcomes them again.)
OneWelcomePerArrival ==
    \A e \in Entries : /\ welcomes[e] <= 1 /\ greetings[e] <= 1
                       /\ who[e] = "delivery" => greetings[e] = 0
=============================================================================
