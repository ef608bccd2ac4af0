# Smart room: a TLA+ verification project

The smart-room plugin is a Python program in two halves. A *host* (the desktop
application or its gateway) loads the plugin, which starts and supervises a
*runtime* process (`process_manager.py`) and talks to it over a local RPC port
(`bridge.py`, `tools.py`, `dashboard/`). The runtime (`runtime/app.py`) owns one
`RoomState`, a lamp and a radar on the local network, an MQTT connection and a
camera, and runs about a dozen kinds of threads over that state.

What goes wrong in such a program is seldom a single function. It is a command
that overtakes another, an action decided under a lock and executed after it, a
timer that fires while it is being cancelled, a restart between two steps. The
modules here model the control of the program with the interleavings its threads
really have, check it with TLC, and prove with TLAPS, for any number of threads, every
safety property that a run checks.

Contents: 1 inventory, 2 modules, 3 how the models are built, 4 runs and what they
show, 5 disagreements between the code and what it says, 6 fairness, 7 proofs,
8 what is not modelled, 9 plan.

## 1. Inventory

| Component | State | Operations | Interacts through | What makes it correct |
|---|---|---|---|---|
| **Mode, sleep and alarm control** (`app.py`, `automation_engine.py`, `models.py`) | mode, override, logical light, snapshots of sleep and alarm, active alarm, alarm records, daily flags, the delayed mode change and its timer | `set_mode`, `cancel_sleep`, `acknowledge_alarm`, `set_override`, `set_light`, `upsert/delete_alarm`, `_schedule_mode`, `_resume_*` | `_command_lock`, `_state_lock`, events and automations | sleep can be given back; alarm mode and the alarm come and go together; a delayed change is neither lost nor applied twice |
| **Scheduler** (`scheduler.py`) | once-a-day keys | `_check_triggers` | emits events into the runtime | evening sleep once a day; an alarm ends |
| **RPC server, router** (`app.py`, `command_router.py`) | connections | one thread per connection | calls the runtime's methods | every call returns |
| **Device commands** (`tuya/controller.py`) | device locks, slots, breaker, connections, flash loop, cache | `_run`, `set_light`, `flash`, `get_*_status`, `refresh`, `stop` | called by every thread; executor threads | nothing leaks; a dead device costs little and comes back; off is off |
| **Presence** (`presence_fusion.py`, `app.py`) | radar, BLE, Wi-Fi, place, identity | `fuse`, BLE and OwnTracks handlers, the poll | presence events, which switch the light | the six axioms at the head of `presence_fusion.py` |
| **MQTT client** (`mqtt/client.py`) | active identities, first sightings | message callbacks | calls the runtime on paho's thread | a noisy phone does not flap |
| **Light to see by** (`app.py`) | whose light it is, token, cooldown | `_light_to_see`, `_stop_seeing`, `_photograph_visitor` | `set_light` | borrowed light is given back, nobody else's is taken |
| **Arrivals** (`app.py`) | pending entry and timer, visitor list | `_handle_welcome_transition`, `_deliver_welcome`, `_retract_recent_visitors` | poll thread, timer threads, camera, `save_state` | every visitor is reported, every arrival welcomed once |
| **Supervisor** (`process_manager.py`) | runtime record, token, start lock, monitor thread | `start`, `stop`, `restart`, `start_supervisor`, `stop_supervisor`, `_supervise` | files shared by all hosts; process ids; the RPC port | one runtime that answers, whoever starts, stops and dies |
| **State store** (`state_store.py`) | `state.json`, `.tmp`, `.bak`, transition log | `save_state`, `load_state`, `append_transition` | every thread, most of them under `_state_lock` | wherever the process dies, it goes back to the last save; a saved event id is spent; disk and memory agree at last |
| **Vision** (`vision.py`) | face library (SQLite), tracks, published frame | camera loop, `rebuild`, `approve`, `reject`, `set_owner`, `enroll_owner` | camera thread, RPC threads, `_db` under `_lock` | the owner is recognised, a stranger is offered for review once, a new recogniser forgets nobody |
| **Face engine** (`face_engine.py`) | none | detect, embed | called by the camera thread | not modelled, see 8 |
| Event bus, health, bridge, tools, context, dashboard, paths, scripts | none that changes the room | | | not modelled, see 8 |

The hard behaviours, at the lines where they bite, are listed under `hazards` in
`PROJECT.json`, each with the properties that would notice.

## 2. Modules

| Module | Models | Extends / uses |
|---|---|---|
| `RoomControl` | mode, sleep and alarm control, scheduler triggers, RPC threads, restart | |
| `SleepSession` | abstract: what sleep mode promises about its snapshot | instantiated by `RoomControl` |
| `RoomControlProofs` | theorems about `RoomControl` | `RoomControl`, `TLAPS` |
| `TuyaController` | device commands and the logical light | |
| `TuyaControllerProofs` | theorems about `TuyaController` | `TuyaController`, `TLAPS` |
| `Supervisor` | runtime processes and their hosts | |
| `SupervisorProofs` | theorems about `Supervisor` | `Supervisor`, `TLAPS` |
| `Presence` | sensor fusion and presence events, the MQTT client's handlers | |
| `PresenceProofs` | theorems about `Presence` | `Presence`, `TLAPS` |
| `SeeLight` | the light the camera borrows | |
| `SeeLightProofs` | theorems about `SeeLight` | `SeeLight`, `TLAPS` |
| `Arrivals` | entries, visitor report, welcome | |
| `ArrivalsProofs` | theorems about `Arrivals` | `Arrivals`, `TLAPS` |
| `FaceLibrary` | the face library, the camera thread and the review of visitors | |
| `FaceLibraryProofs` | theorems about `FaceLibrary` | `FaceLibrary`, `TLAPS` |
| `StateStore` | the state file: save, load, journal, crashes | |
| `DurableState` | abstract: a save is one step, and a crash goes back to the last | instantiated by `StateStore` |
| `StateStoreProofs` | theorems about `StateStore` | `StateStore`, `TLAPS` |
| `MC*` | symmetry and other definitions of the small instances | the module named |

The modules meet where the code does: `Presence` emits the `presence_detected`,
`presence_cleared` and location events that `RoomControl` takes as requests of its
poll and MQTT threads; `RoomControl`'s writes to the light are the light commands
of `TuyaController`, which refines one write into a device operation that may
fail, hang or be deduplicated; `SeeLight` splits the head of `set_light` into the
two steps that matter for ownership; `Arrivals` uses `Presence`'s occupancy as an
input and photographs through `SeeLight`; `StateStore` shows that the atomic save
which `Arrivals` and `RoomControl`'s restart assume is what `save_state` implements
(`DurableState`), as long as saves do not overlap; `FaceLibrary` publishes the faces
that `SeeLight`, `Presence` and `Arrivals` take as choices.

## 3. How the models are built

**Threads are stacks.** Every thread has `todo[t]`, the operations it has still to
execute, top of the call stack first. A step takes the first, does what the code
does in one section of the state lock (or in one access without it), and pushes
what that section calls. So a call is never one atomic step unless the code makes
it one, and it is never left half done: a trailing `_emit_event`, its automations
and their commands are pushed by the operation that makes them.

**Locks are read off the stacks.** A thread is inside `with self._command_lock`
while an `unlock` is in its stack. No separate lock variable can disagree with the
code's `with` blocks. `TuyaController`, whose locks are released by other threads
than the ones that took them, has lock variables.

**Data is abstracted to what properties tell apart.** Colours become a *look* that
names who chose them; times become "recent" and "long ago" with a step in which
time passes; process tokens are identified with the process they were made for.

**Correspondence.** Each definition's source lines are in `PROJECT.json` under
`map`. Names follow the code: `ApplyMode` is the locked section of `set_mode`,
`CancelSleepFinish` the last section of `cancel_sleep`, `FireTimer` is `apply_mode`, and
so on. In `Presence`, `todo` holds at most the second half of a poll or the event
still to be emitted. In `Supervisor`, each operation is named after the statement
group of `_start`, `stop` or `_supervise_loop` it stands for. In `FaceLibrary`, each
transaction under `FaceLibrary._lock` is one step, and the methods made of several
(`rebuild`, `approve`, `enroll_owner`) are several. In `StateStore`, every file operation
of `save_state` is a step, and filling a file is two: emptied, then full.

**History variables** record what a property must remember and the code does not:
`StateStore`'s `kept`, `overlapped` and `damaged`, `FaceLibrary`'s `spoiled`. No action's
guard reads one, except that `Damage` happens once.

**Bounds** are CONSTANTS: threads (`Rpc`, `Callers`, `Pollers`, `Threads`), timers
(`ModeTimers`, `Timers`), flash loops and events, process ids, entries, crashes,
looks, saved event ids, waiting faces, and the sets of requests and faults of a run. A bound blocks the action
that would exceed it and nothing else. Safety of the control core is proved
without the bounds (section 7).

## 4. Runs and what they show

| Run | Question | Instance |
|---|---|---|
| `sleep_sessions` | Does sleep always have the snapshot it was entered with, and leave nothing behind? Can a delayed mode change lose its timer? | one RPC thread, `start()`, the poll, one mode timer; alarms, arrivals, departures, restarts |
| `room_events` | Is the state lock the innermost? Does every call return? Does a delayed mode change settle? | one RPC thread, MQTT, one mode timer, overrides; fair |
| `alarms` | Do alarm mode and the active alarm come and go together? Evening sleep once a day? Does an alarm end? | one RPC thread, the scheduler, a named alarm; fair |
| `tuya_recovers` | Does any path of `_run` leak a slot or a lock? Is a failing device left alone, and does it come back by polling alone? | two callers, one device, two slots; power loss, hangs, shutdown; fair |
| `tuya_light` | Does flashing stop? Does the logical light converge to the bulb? | two callers and a flash loop, reconnection; fair |
| `hosts_share` | Does the token always belong to the recorded runtime? Is a stranger's process ever signalled? | two hosts, two process ids; busy pings, crashes, reuse of ids |
| `runtime_back` | Do calls return in spite of the two lock orders? Is there always a runtime again? | one host, two monitors, three ids; deaths, hangs; fair |
| `presence` | Do the axioms hold of the shared state under all interleavings? Is a silent phone forgotten? | the poll, MQTT, one RPC thread, all sensors; fair |
| `see_light` | One borrowed light at a time? Does the photographer's light end? | three threads, three looks; fair |
| `arrivals` | Is every visitor reported and nobody welcomed twice? | two timers, three entries, one face, one crash, a list of two |
| `face_library` | Does a rebuild bring every reviewed face back? Does anybody wait for review twice? Is the owner recognised at last, and a stranger filed? | the camera thread, one RPC thread, two names, one face, two ids, one crash; fair |
| `state_store` | What is found again after a crash at any step? Can a saved id be given out again? Do disk and memory agree at last? | two threads, one of which also saves without the lock; a busy file, a damaged file, three events, one crash; fair |

*Why these bounds.* The races in this code are between two threads, or two threads
and a timer: an RPC thread, a service thread and the thread that runs `start()`
cover every pair of operations in every order, and a second caller shows what two of
the same do to each other. Three entries with a list of two make the list overflow
while a delivery is on its way. Two process ids let a stranger or an old runtime and
a new one live at once. A breaker opens at three failures because the code's does.
Two attempts to replace a file show one that is retried and one that gives up; three
events and one crash let ids repeat if they could. One instance can only be as large
as TLC finishes in a few minutes; which requests and faults happen in which run is in
its `.cfg`.

*What the bounds hide.* `sleep_sessions` and `room_events` have one mode timer: a second
one that leaked would not occur, and `CallsReturn` is of calls that find a free one.
The lamp drifts by itself (`BulbDrifts`) in no run; the definition is there for larger
instances. `tuya_recovers` has a slot for each device operation, so a full queue
(`QUEUE_FULL`) shows only with more devices than slots, where `BreakerHolds` needs a slot
per device to be a statement about the breaker and `Recovers` may starve on slots.
`tuya_light` has one flash loop, so a second one waits until the first has ended, and only
`Pollers` poll. In `hosts_share` waits for the start lock do not time out. `face_library`
has one face, so no row is ever evicted at `max_pending`; two faces exceed four
million states.

## 5. Where the code and its words differ

The modules define further statements of comments, tests and tool descriptions, each at
the end of its module under "Statements ... that the code does not keep". They are no
properties of a run; adding one as INVARIANT or PROPERTY to the instance named here
makes TLC print the behaviour.

| Statement | Instance | What happens |
|---|---|---|
| `OffStaysOff` | `RoomControl`: `set_mode`, `set_alarm`, scheduler | `src/tools.py:75` says "off=lights off no mode"; the scheduler's `alarm_flash_finished`, from a copy of the alarm, switches the light on after mode off has acknowledged that alarm (`scheduler.py:102`) |
| `AlarmEnds` with restarts that end | `alarms` with restart, `RoomControl` | `_resume_active_alarm` (`app.py:1837`) writes alarm mode after another thread has ended the alarm |
| `AlarmIsTheMode` | `alarms` with `cancel_sleep` | `cancel_sleep` leaves the alarm active in mode off (`app.py:1695`) |
| `SleepStaysDark` | `RoomControl`: `set_sleep`, `poll`, `presence` | an automation decided before sleep is executed after it (`app.py:351`) |
| `SleepForgetsTheAlarm` | `RoomControl`: `set_sleep`, `set_alarm`, `acknowledge_alarm` | after an alarm over sleep, the second snapshot is of the alarm's light (`app.py:1543`) |
| `OffIsDark` | `TuyaController`: `off`, `flash`, one caller | a flash loop toggles the bulb after a successful off (`controller.py:365`) |
| `WorkerReleases` | `TuyaController`: `poll`, `refresh`, hangs | a timeout after `refresh` closes the wrong connection (`controller.py:149`) |
| `DeviceComesBack` | `tuya_recovers` with `refresh` | the same: the operation that hangs keeps the device lock |
| `OneMonitor` | `Supervisor`: one host, two monitors | a monitor that outlives the join of four seconds is revived (`process_manager.py:402`) |
| `BusyUntilProvenHung` | `Supervisor`: `busy`, `crash` | `start` drops a runtime that is merely busy (`process_manager.py:218`) |
| `RuntimeComesBack` | `Supervisor`: two hosts, three ids, no fault | `stop` without the start lock orphans the runtime another host started (`process_manager.py:315`) |
| `LookEnds` | `SeeLight`: `see`, `user` | `set_light` claims the light before it takes the lock (`app.py:1619`) |
| `UserLightStays` | `SeeLight`: `photo`, `user` | the photographer switches off the user's light (`app.py:1103`) |
| `LightOffNeedsEmpty` | `Presence` without Wi-Fi and camera | the owner's phone leaves home and the light goes out on a guest (`app.py:698`) |
| `EmptyRoomIsCleared` | `Presence` without Wi-Fi and camera | no `presence_cleared` for an owner who was announced without a confirmed entry (`app.py:798`) |
| `SavedOrNothing` without `~overlapped` | `state_store` | "Atomically write state to disk": two saves, one without the lock, share a temporary file and install a mixture (`state_store.py:67`) |

## 6. Fairness

Each `FairSpec` assumes what the program's scheduling gives: a thread that can take
a step takes one (weak fairness of its step), and, where it waits for a lock that
others take again and again, strong fairness of taking it: Python's locks are not
fair by contract, but a waiter that is always passed over is not a behaviour anybody
means. Timers fire (`FireTimer`, `HoldEnds`), the poll and scheduler loops run again
(`PollRead`, `SchedulerPass`), an SDK call that is not hanging returns, and time
passes (`TimePasses`, `SecondPasses`, `BackoffEnds`). Nothing is assumed of users,
sensors, faults or restarts. In `RoomControl` strong fairness of a whole thread's
step stands for the waits for its two locks: every other step stays enabled.
`AlarmEnds` and `PendingSettles` carry their own assumption that restarts end;
`PollConverges` that commands and flashing end; `EmptyRoomForgets` that the room
stays deserted. In `FaceLibrary` the camera thread and the calls that were begun go
on; nothing is assumed of who is in the frame, of users or of tracks that end, and
`OwnerIsSeen` and `VisitorIsFiled` assume a face that stays in front of the camera. In
`StateStore` a save goes on and the poll gets the state lock again and again; `CatchesUp`
assumes that at last nothing changes and the file is free.

## 7. Proofs

Every safety property of the runs, invariant or property of steps, is a theorem; so is the
type invariant of every module. One proof module per component; the assumptions on constants
are the named ones of the component's module, which TLC evaluates on the instances.

`RoomControlProofs` proves, for every set of RPC threads, services, timers, scenes
and alarm ids, from the assumptions declared in `RoomControl`: the names of threads and
timers differ, and whoever lets the runtime restart has a thread that runs `start()`
(`RestartAssumption`; without one, what was pending on disk would never be resumed).

* `TypeCorrect`: `Spec => []TypeOK`, the stacks of pending operations included;
* `SleepIsRestorable`: `Spec => []SleepHasRestore`;
* `SleepRefinement`: `Spec => ImplementsSleepSession`, that is, the detailed control
  implements the abstract `SleepSession` (one snapshot per sleep, never replaced
  while asleep, forgotten only outside sleep);
* `LockOrderKept`: `Spec => []StateLockInnermost`;
* `PendingIsServed`: `Spec => []PendingHasTimer`;
* `NothingLeft`: `Spec => []SleepLeavesNothing`;
* `EveningOncePerDay`: `Spec => EveningSleepOncePerDay`;
* `AlarmCanReturn`: an active alarm is beside no sleep snapshot and knows a mode to go back
  to, whatever is requested;
* `AlarmAndMode`: `Spec => []AlarmIsTheMode` where neither `cancel_sleep` nor a restart is
  requested.

`SleepHasRestore` is not inductive. Only the locked segment of `set_mode` enters
sleep, and it takes a snapshot; but `cancel_sleep` drops the snapshot in its *last*
segment without looking at the mode. The inductive invariant `IInv` therefore says
that the room is awake while that segment is pending (`FinishAwake`), and why it
stays awake: the command lock has one holder (`OneHolder`), every command segment on
a stack has its `unlock` still below it (`Guarded`), and what `cancel_sleep` pushes
above its own last segment calls no `set_mode` (`Undisturbed`). The lemmas about
stacks say what survives when the first operation is replaced by the calls it makes;
one lemma per operation then shows that it keeps its stack in order, and
`StepPreserves` puts them together.

The other five rest on a second inductive invariant, `StackInv`, which says what a stack can
look like at all (`OrderInv`): `Over` names the kinds of operation that may stand above
another (above the release of `_state_lock`, for one, only what cancels a timer and clears
what is pending, and nothing that takes `_command_lock`), and `Complete` what an operation
relies on below it. It is inductive because an operation calls
only what may stand where it stood itself (`MayCall`, with one case of `StepCalls` per step).
TLC checked it as an invariant of the three runs before it was proved. What the properties
need beside the order:

* `PendingKept`: a pending change has an armed timer, or a made one that a `startTimer` will
  find, or somebody who will clear, renew or resume it. Two calls share one attribute, so
  one may start the other's timer, and the second `start()` raises; that unwinds a stack
  with none of these operations in it (`NothingBelowStart`).
* `Prepared`: above a mode change that finds an alarm active, the acknowledgement still
  stands. Hence `AlarmClean`, `FinishClean` and `ModeIsAlarm`, and from them that nothing is
  left of a sleep.
* `EveningUndone`: as long as an evening sleep is on its way, its flag is not set; setting it
  and changing the mode are one section of the lock.

`AlarmAndMode` has its two hypotheses because the code parts the mode and the alarm in
exactly these cases: `cancel_sleep` restores a mode without ending the alarm (section 5), and
a restart writes alarm mode in a section of its own. The instance `alarms` makes neither
request, so that the theorem says of any number of threads what the run says of its few.

`StateStoreProofs` proves, for every set of threads, number of attempts, events and
crashes:

* `TypeCorrect`: `Spec => []TypeOK`;
* `FindsWhatWasSaved`: `Spec => []SavedOrNothing`;
* `SavedIdsAreSpent`: `Spec => []NoSavedIdReused`;
* `StoreRefinement`: `Spec => ImplementsDurableState`.

The inductive invariant has four parts beside the type. `Alone`: unless saves
overlapped, at most one thread is in a save. `InOrder`: the save under way carries the
state in memory, and what it has written so far is what its place says, so the
temporary file is whole when it is renamed. `FilesKept`: what is whole in
`state.json` or its backup was saved at some time, and `state.json` is torn only
between a damage and the next load. `IdsGrow`: the state in memory is never older than
what was saved, and an event under way has an id above every saved one. Overlapping
saves falsify `Alone`, which is why the statements exclude them.

`PresenceProofs` proves `TypeCorrect`, `OwnerNeedsEvidence` (`Spec => IdentityNeedsEvidence`),
`OwnerStays` (`Spec => StickyHolds`) and `BleAloneSticks` (`Spec => OnlyBleSticks`), for any
threads and any zones of which `home` is one. These are properties of steps: every
change of the belief is one application of `Fuse` to the sensors and the place of that
moment, whichever thread makes it (`FusesOrKeeps`), and each axiom is a fact about
`Fuse`. It needs that belief, source and stickiness agree, which no single branch of
`fuse` guarantees and every interleaving has to keep: that part of `TypeOK` is
`Believable`.

`SeeLightProofs` proves `TypeCorrect` and `OneLookAtATime` (`Spec => []OneLook`), for any
number of threads and looks. While the camera is not
cooling down nothing is held and nothing is on its way to be (`Cooled`): the cooldown
begins in the section that decides to look and outlasts the hold. A look on its way arms
its hold last (`LastArm`), so it becomes one hold and no more (`OneOnTheWay`).

`FaceLibraryProofs` proves `TypeCorrect`, `NobodyWaitsTwice` (`Spec => []OneReviewEach`) and
`RebuildForgetsNobody` (`Spec => []RebuildCoversAll`), for any people, faces, ids, limits,
calls and crashes; so also with several faces and rows that are evicted, which the run
is too small for. For the rows it is enough that taking one out and dropping the
oldest keep them distinct (`RemovedRow`, `AddedRow`). The rebuild needs more: nothing can be
filed before the first frame, since nobody waits and no face has been seen (`Untouched`),
so an empty library stays empty until it is rebuilt; while it is, what is not yet filed
is still to do; and a review files a face before it says so (`Enrolled`). `Covered` puts
these together.

`ArrivalsProofs` proves `TypeCorrect`, `NobodyWelcomedTwice` (`Spec => []OneWelcomePerArrival`)
and `NobodyForgotten` (`Spec => VisitorsAreReported`), for any timers, entries, faces, crashes
and length of the visitor list. An entry that has not been
welcomed is claimed in one place at most, as the pending one or by one delivery (`Once`):
taking the pending entry and clearing it are one section of the state lock, and a delivery
that finds nothing pending takes a time stamp of its own. The welcome is the last thing a
delivery does (`Shape`), so the claim ends with it. That nobody is forgotten needs that a
delivery reports before it drops from the list or marks in the library (`Told`), that an entry
is put on the list before it is announced and never again (`Known`), and that the announced
entries on the list are on disk, where a crash finds them (`OnDisk`). The code drops the
reported entries with a comprehension; `Without` is that, as a recursive function on
the length of the list, since a theorem may reach no recursive operator. What it leaves
(`WithoutFacts`) is an induction, which is proved for sets of natural numbers, by their least
element (`LeastNatural`, `Induction`), because the library's induction theorems are stated
for operators.

`SupervisorProofs` proves `TypeCorrect`, `TokenBelongs` (`Spec => []TokenIsTheRecorded`) and `StrangersSafe`
(`Spec => StrangersLeftAlone`), for any hosts, threads, monitors, process ids and faults.
What a start does is done in order (`Ordered`) and under two locks (`Guarded`) with one
holder each (`OneStart`, `OneInside`); so there is no record from the moment the old one is
gone until the new one is written (`NoRecordYet`), and a token that is there in between is
that of the process the record will name (`TokenOfMade`). Whoever signals a process either
holds its handle, which keeps its id from being used again (`NoStrangers`), or has had an
answer from it, and only the process the token was made for answers (`WhoAnswers`). `stop`
clears record and token without the start lock: that is why the invariant says what the
token is *unless* a stop has cleared it. The type says that `_process.pid` is never taken of
None: a start that has made its process holds the handle until it is ready (`HandleHeld`),
because a stop of the same host drops it inside the host's lock, where the start is.

`TuyaControllerProofs` proves `TypeCorrect`, `SlotsAndLocksReturn` (`Spec => []NothingLeaks`) and
`BreakerStaysTripped` (`Spec => []BreakerHolds`), for any callers, slots, flash loops, events
and faults. An operation and its device lock come and go together (`Held`); the slots that
are missing are the operations (`Balance`), exactly so until the executor is shut down, after
which a call that submits loses both; and a result goes only to the call that still waits
for it (`Linked`), so a call that timed out is not sent back. For the breaker it matters that
the call which closed it finds a slot (`SlotIsThere`): it holds its device's lock, so its
device has no operation, and the operations of the others leave it a slot. With fewer
slots than devices that is not so, and the property says nothing.

Only model-checked: liveness (`CallsReturn`, `PendingSettles`, `AlarmEnds`, `Recovers`,
`DeviceComesBack`, `FlashingStops`, `PollConverges`, `RuntimeComesBack`, `EmptyRoomForgets`,
`PhotoLightEnds`, `OwnerIsSeen`, `VisitorIsFiled`, `CatchesUp`), which is out of the prover's
reach, as `ENABLED` and fairness are.

## 8. What is not modelled

* `face_engine.py` and the image processing of `vision.py`: numerical code around ONNX
  models. Of `vision.py`, the liveness score, clothes, zones, gestures, posture and the
  crops on disk are left out; `FaceLibrary` models who is known and what is filed.
* Arithmetic of times, colours and RSSI; confidence values, which no caller of
  `fuse` uses; the wording of messages; the scheduler's minutes.
* What `_classify_entry` weighs: its result is a choice among the classes it returns.
* The trimming of the journal and `locations.jsonl` in `state_store.py`; what a power
  failure does to files that were never flushed.
* A crash inside a section of the state lock, outside `StateStore`: `RoomControl`'s
  restart and `Arrivals`' crash come between any two sections, half-done commands
  included.
* Connecting, subscribing, publishing and topic parsing in `mqtt/client.py`.
* Stateless parts: bridge, tools, context, dashboard, health, paths, event bus,
  scripts; two source files are empty.

## 9. Plan

Done: 1. `RoomControl` with its abstract specification and proofs, 2. `TuyaController`,
3. `Supervisor`, 4. `Presence`, 5. `SeeLight`, 6. `Arrivals`, 7. `FaceLibrary`, 8.
`StateStore` with `DurableState`; proofs about each of them.

Next, in this order:

1. `Classify`: the evidence that `_classify_entry` weighs, as state, against the
   rule that a face outranks everything and a silent phone accuses nobody.
2. `Scheduler`: the minute arithmetic, once-a-day keys and a runtime that is down at
   midnight; an abstract "at most once a day" it implements.
3. `PostureFilter` of `vision.py`.
4. `Lamp`: `SeeLight` and `RoomControl` over `TuyaController` with one abstract lamp
   that all of them implement.
