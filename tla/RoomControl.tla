----------------------------- MODULE RoomControl -----------------------------
(***************************************************************************)
(* The mode, sleep and alarm control of the smart-room runtime            *)
(* (runtime/app.py, runtime/automation_engine.py, runtime/scheduler.py).   *)
(*                                                                         *)
(* Many threads call the Runtime object: one per RPC connection, the MQTT  *)
(* callback thread, the scheduler, the device poller, the thread that runs *)
(* start(), and one threading.Timer per delayed mode change.  Every method *)
(* is a sequence of segments that hold _state_lock, with gaps in between   *)
(* (device I/O, reading an attribute without the lock, waiting for         *)
(* _command_lock).  todo[t] is what thread t has still to execute, top of  *)
(* the call stack first; a step takes the first operation, does its        *)
(* segment, and pushes the operations of the calls it makes.               *)
(*                                                                         *)
(* Both locks are RLocks and are read off todo: a thread is inside         *)
(* `with self._command_lock` exactly while an "unlock" is pending in its   *)
(* todo, and inside a `with self._state_lock` that spans several steps     *)
(* exactly while an operation of StateLockEnds is.                         *)
(*                                                                         *)
(* Every segment ends in save_state, so the state file holds the values of *)
(* the variables below and a restart keeps them (a save that fails is left *)
(* out).  Left out, too: brightness and colour values (a "look" names who  *)
(* chose them), light.scene (a label), event ids, the bulb itself.         *)
(***************************************************************************)
EXTENDS Naturals, Sequences, FiniteSets

CONSTANTS
    Rpc,          \* threads that serve one RPC connection each
    Services,     \* which of the long-lived threads run
    ModeTimers,   \* bound: threading.Timer objects that can be alive at once
    Scenes,       \* the lit modes: normal, reading, focus, relax, night
    AlarmIds,     \* ids of named alarms
    AutoOff,      \* automations.adaptive_light.auto_off
    BulbDrifts,   \* the bulb may report another state than the commanded one
    Requests      \* the kinds of external events that can happen

Threads  == Rpc \cup ModeTimers \cup Services
Modes    == Scenes \cup {"off", "sleep", "alarm"}
Looks    == Scenes \cup {"bright", "user", "none"}
Overrides == {"none", "hold_on", "hold_off"}
AllAlarms == AlarmIds \cup {"adhoc"}   \* set_mode("alarm") without an id makes one up

ASSUME ThreadsAssumption ==
    /\ Services \subseteq {"main", "scheduler", "poll", "mqtt"}
    /\ Rpc \cap ModeTimers = {}
    /\ (Rpc \cup ModeTimers) \cap {"main", "scheduler", "poll", "mqtt", "none"} = {}

ASSUME NamesAssumption ==
    /\ Scenes \cap {"off", "sleep", "alarm", "bright", "user", "none", "keep"} = {}
    /\ AlarmIds \cap {"none", "adhoc"} = {}
    /\ AutoOff \in BOOLEAN /\ BulbDrifts \in BOOLEAN

\* main() of the next process runs start() on its main thread.
ASSUME RestartAssumption == "restart" \in Requests => "main" \in Services

VARIABLES
    mode,           \* state.modes.active_mode
    workReturn,     \* state.modes.work_return
    override,       \* state.modes.manual_override
    light,          \* state.light: on, and who chose its look
    sleepRestore,   \* state.sleep_restore
    alarmRestore,   \* state.alarm_restore
    alarm,          \* state.active_alarm
    alarms,         \* state.alarms: the recurrence of each named alarm
    flags,          \* state.flags
    occupied,       \* state.mmwave.occupied or state.presence.detected
    pending,        \* state.pending_mode is set (only a work-return sleep ever is)
    timerRef,       \* self._pending_mode_timer
    timer,          \* state of each threading.Timer
    todo            \* what each thread has still to execute

roomVars == <<mode, workReturn, override, light, sleepRestore, alarmRestore,
              alarm, alarms, flags, occupied, pending>>
vars == <<roomVars, timerRef, timer, todo>>

-----------------------------------------------------------------------------
(* Values *)

Lights     == [on : BOOLEAN, look : Looks]
NoRestore  == [mode |-> "none", light |-> [on |-> FALSE, look |-> "none"]]
Restores   == {NoRestore} \cup [mode : Modes, light : Lights]
NoAlarm    == [id |-> "none", phase |-> "none"]
ActiveAlarms == {NoAlarm} \cup [id : AllAlarms, phase : {"flashing", "steady"}]
NoTimer    == "none"
NoFlags    == [workDone |-> FALSE, workCancel |-> FALSE,
               eveningDone |-> FALSE, eveningCancel |-> FALSE]

(* Operations a thread can have pending.  A field is there when the call   *)
(* passes it or a local variable carries it across a gap.                  *)
Plain(name)          == [op |-> name]
SetMode(m, why, id)  == [op |-> "setMode", mode |-> m, why |-> why, id |-> id]
Apply(m, why, id)    == [op |-> "applyMode", mode |-> m, why |-> why, id |-> id]
Write(on, look, man) == [op |-> "write", on |-> on, look |-> look, manual |-> man]
Emit(type)           == [op |-> "emit", type |-> type, id |-> "none"]
EmitAlarm(type, id)  == [op |-> "emit", type |-> type, id |-> id]
Finish(restore, occ) == [op |-> "cancelFinish", restore |-> restore, occupied |-> occ]
SetFlags(which)      == [op |-> "setFlags", which |-> which]
Start(tm)            == [op |-> "startTimer", timer |-> tm]
Override(v)          == [op |-> "override", to |-> v]
OverrideEnd(v)       == [op |-> "overrideEnd", to |-> v]
ForceAlarm(id, due)  == [op |-> "forceAlarm", id |-> id, due |-> due]
DueAlarms(ids)       == [op |-> "dueAlarms", ids |-> ids]

CancelPending == <<Plain("cancelTimer"), Plain("dropRef"), Plain("clearPending")>>
\* Mutant: the mode is recorded only after its timer was started.
SchedulePendingLate == <<Plain("cancelTimer"), Plain("dropRef"), Plain("makeTimer"),
                         Plain("setPending")>>
SchedulePending == <<Plain("cancelTimer"), Plain("dropRef"), Plain("setPending"),
                     Plain("makeTimer")>>
SetLight(on, look)  == <<Write(on, look, FALSE)>>
ManualLight(on, look) == CancelPending \o <<Write(on, look, TRUE)>>

Reasons == {"manual", "schedule", "evening", "work_return", "alarm_restore", "command"}
Events  == {"presence_detected", "presence_cleared", "mode_sleep", "mode_alarm",
            "mode_other", "schedule_alarm", "alarm_flash_finished",
            "alarm_duration_expired", "arrive_home", "schedule_evening_sleep",
            "schedule_daily_reset", "cancelled_work", "cancelled_evening"}
PlainOps == {"cancelTimer", "dropRef", "clearPending", "setPending", "makeTimer",
             "unlock", "ack", "cancelSleep", "cancelApply", "turnOn", "leave",
             "leaveEnd", "arrive", "presence", "refresh", "pollResult", "checkActive", "resumeAlarm",
             "resumePending"}
FlagSets == {"reset", "workCancel", "eveningCancel"}
Ops ==
    [op : PlainOps]
    \cup [op : {"setMode", "applyMode"}, mode : Modes, why : Reasons,
          id : AllAlarms \cup {"none"}]
    \cup [op : {"write"}, on : {"on", "off", "keep"}, look : Looks \cup {"keep"},
          manual : BOOLEAN]
    \cup [op : {"emit"}, type : Events, id : AllAlarms \cup {"none"}]
    \cup [op : {"cancelFinish"}, restore : Restores, occupied : BOOLEAN]
    \cup [op : {"setFlags"}, which : FlagSets]
    \cup [op : {"startTimer"}, timer : ModeTimers]
    \cup [op : {"override", "overrideEnd"}, to : Overrides]
    \cup [op : {"forceAlarm"}, id : AllAlarms, due : {"flashing", "steady", "expired"}]
    \cup [op : {"dueAlarms"}, ids : SUBSET AlarmIds]

TypeOK ==
    /\ mode \in Modes
    /\ workReturn \in BOOLEAN
    /\ override \in Overrides
    /\ light \in Lights
    /\ sleepRestore \in Restores
    /\ alarmRestore \in Restores
    /\ alarm \in ActiveAlarms
    /\ alarms \in [AlarmIds -> {"absent", "once", "daily", "disabled"}]
    /\ flags \in [workDone : BOOLEAN, workCancel : BOOLEAN,
                  eveningDone : BOOLEAN, eveningCancel : BOOLEAN]
    /\ occupied \in BOOLEAN
    /\ pending \in BOOLEAN
    /\ timerRef \in ModeTimers \cup {NoTimer}
    /\ timer \in [ModeTimers -> {"idle", "made", "armed", "cancelled"}]
    /\ todo \in [Threads -> Seq(Ops)]

-----------------------------------------------------------------------------
(* Threads and locks *)

Idle(t)     == todo[t] = <<>>
At(t, name) == todo[t] # <<>> /\ Head(todo[t]).op = name
Top(t)      == Head(todo[t])
Pending(t, names) == \E i \in DOMAIN todo[t] : todo[t][i].op \in names

\* The thread has executed its current operation and calls ops next.
Continue(t, ops) == todo' = [todo EXCEPT ![t] = ops \o Tail(@)]

\* _command_lock: held from the entry of set_mode, cancel_sleep or
\* acknowledge_alarm until the matching "unlock"; reentrant.
HoldsCommand(t) == Pending(t, {"unlock"})
CommandFree(t)  == \A u \in Threads \ {t} : ~HoldsCommand(u)

\* _state_lock: set_override and the first half of phone_location_changed
\* hold it over several steps, every other segment for one step.
StateLockEnds == {"overrideEnd", "leaveEnd"}
HoldsState(t) == Pending(t, StateLockEnds)
StateFree(t)  == \A u \in Threads \ {t} : ~HoldsState(u)

-----------------------------------------------------------------------------
(* The pending mode: _cancel_pending_mode, _schedule_mode and its Timer.   *)
(* The reference to the timer is read and written without a lock.          *)

\* timer = self._pending_mode_timer; timer.cancel()
CancelTimer(t) ==
    /\ At(t, "cancelTimer")
    /\ timer' = IF timerRef = NoTimer THEN timer
                ELSE [timer EXCEPT ![timerRef] =
                        CASE @ = "armed" -> "idle"
                          [] @ = "made"  -> "cancelled"
                          [] OTHER       -> @]
    /\ Continue(t, <<>>)
    /\ UNCHANGED <<roomVars, timerRef>>

DropRef(t) ==
    /\ At(t, "dropRef")
    /\ timerRef' = NoTimer
    /\ Continue(t, <<>>)
    /\ UNCHANGED <<roomVars, timer>>

ClearPending(t) ==
    /\ At(t, "clearPending") /\ StateFree(t)
    /\ pending' = FALSE
    /\ Continue(t, <<>>)
    /\ UNCHANGED <<mode, workReturn, override, light, sleepRestore, alarmRestore,
                   alarm, alarms, flags, occupied, timerRef, timer>>

SetPending(t) ==
    /\ At(t, "setPending") /\ StateFree(t)
    /\ pending' = TRUE
    /\ Continue(t, <<>>)
    /\ UNCHANGED <<mode, workReturn, override, light, sleepRestore, alarmRestore,
                   alarm, alarms, flags, occupied, timerRef, timer>>

\* self._pending_mode_timer = threading.Timer(delay, apply_mode)
MakeTimer(t) ==
    /\ At(t, "makeTimer")
    /\ \E tm \in ModeTimers :
        /\ timer[tm] = "idle" /\ Idle(tm)
        /\ timer' = [timer EXCEPT ![tm] = "made"]
        /\ timerRef' = tm
        /\ Continue(t, <<Start(tm)>>)
    /\ UNCHANGED roomVars

\* self._pending_mode_timer.start() reads the attribute again: it raises when
\* another thread has dropped or replaced the reference and that timer was
\* started already, and the exception unwinds the whole call stack.  (On the
\* main thread it ends the process: Restart may follow.)
StartTimer(t) ==
    /\ At(t, "startTimer")
    /\ IF timerRef # NoTimer /\ timer[timerRef] \in {"made", "cancelled"}
       THEN /\ timer' = [timer EXCEPT ![timerRef] = IF @ = "made" THEN "armed" ELSE "idle"]
            /\ Continue(t, <<>>)
       ELSE /\ timer' = [timer EXCEPT ![Top(t).timer] =
                            IF @ \in {"made", "cancelled"} THEN "idle" ELSE @]
            /\ todo' = [todo EXCEPT ![t] = <<>>]
    /\ UNCHANGED <<roomVars, timerRef>>

\* Mutant: apply_mode does not clear pending_mode.
FireTimerKeeps(tm) ==
    /\ timer[tm] = "armed" /\ Idle(tm)
    /\ timer' = [timer EXCEPT ![tm] = "idle"]
    /\ todo' = [todo EXCEPT ![tm] = <<SetMode("sleep", "work_return", "none")>>]
    /\ UNCHANGED <<roomVars, timerRef>>

\* The delay is over: apply_mode runs on the timer's own thread.
FireTimer(tm) ==
    /\ timer[tm] = "armed" /\ Idle(tm)
    /\ timer' = [timer EXCEPT ![tm] = "idle"]
    /\ todo' = [todo EXCEPT ![tm] = <<Plain("dropRef"), Plain("clearPending"),
                                      SetMode("sleep", "work_return", "none")>>]
    /\ UNCHANGED <<roomVars, timerRef>>

-----------------------------------------------------------------------------
(* evaluate_automations: the operations an event leads to.  They run after *)
(* the lock that covered the decision is released.                         *)

SuppressOn  == mode \in {"sleep", "alarm"} \/ override = "hold_off"
SuppressOff == mode \in {"focus", "sleep", "alarm"} \/ override = "hold_on"

WorkSleepDue == ~flags.workDone /\ ~flags.workCancel

\* Mutant: only a cancelled evening sleep is skipped.
EveningSleepUndone == ~flags.eveningCancel
EveningSleepDue == ~flags.eveningDone /\ ~flags.eveningCancel

Automation(event) ==
    CASE event.type = "presence_detected" /\ ~SuppressOn -> <<Plain("turnOn")>>
      [] event.type = "presence_cleared" /\ AutoOff /\ ~SuppressOff -> SetLight("off", "keep")
      [] event.type = "mode_sleep" -> SetLight("off", "keep")
      [] event.type = "mode_alarm" -> SetLight("on", "bright")
      [] event.type = "schedule_alarm" -> <<SetMode("alarm", "schedule", event.id)>>
      [] event.type = "alarm_flash_finished" -> SetLight("on", "bright")
      [] event.type = "alarm_duration_expired" -> <<Plain("ack")>>
      [] event.type = "arrive_home" /\ WorkSleepDue -> SchedulePending
      [] event.type = "schedule_evening_sleep" /\ EveningSleepDue ->
            <<SetMode("sleep", "evening", "none")>>
      [] event.type = "schedule_daily_reset" -> <<SetFlags("reset")>>
      [] event.type = "cancelled_work" -> <<SetFlags("workCancel")>>
      [] event.type = "cancelled_evening" -> <<SetFlags("eveningCancel")>>
      [] OTHER -> <<>>

\* _emit_event: one locked segment decides, the caller's thread then executes.
EmitEvent(t) ==
    /\ At(t, "emit") /\ StateFree(t)
    /\ LET event == Top(t)
       IN /\ alarms' = IF event.type = "schedule_alarm"
                       THEN [alarms EXCEPT ![event.id] = IF @ = "once" THEN "disabled" ELSE @]
                       ELSE alarms
          /\ alarm' = IF event.type = "alarm_flash_finished" /\ alarm # NoAlarm
                      THEN [alarm EXCEPT !.phase = "steady"]
                      ELSE alarm
          /\ Continue(t, Automation(event))
    /\ UNCHANGED <<mode, workReturn, override, light, sleepRestore, alarmRestore,
                   flags, occupied, pending, timerRef, timer>>

\* Mutant: the event of the light change is taken for a new detection.
TurnOnFeedsBack(t) ==
    /\ At(t, "turnOn")
    /\ Continue(t, SetLight("on", "keep") \o <<Emit("presence_detected")>>)
    /\ UNCHANGED <<roomVars, timerRef, timer>>

\* _execute_action, turn_on with restore_scene: reads active_mode unlocked.
TurnOn(t) ==
    /\ At(t, "turnOn")
    /\ Continue(t, SetLight("on", IF mode \in Scenes THEN mode ELSE "keep"))
    /\ UNCHANGED <<roomVars, timerRef, timer>>

\* _execute_action, set_flag
ChangeFlags(t) ==
    /\ At(t, "setFlags") /\ StateFree(t)
    /\ flags' = CASE Top(t).which = "reset" -> NoFlags
                  [] Top(t).which = "workCancel" -> [flags EXCEPT !.workCancel = TRUE]
                  [] OTHER -> [flags EXCEPT !.eveningCancel = TRUE]
    /\ Continue(t, <<>>)
    /\ UNCHANGED <<mode, workReturn, override, light, sleepRestore, alarmRestore,
                   alarm, alarms, occupied, pending, timerRef, timer>>

-----------------------------------------------------------------------------
(* set_light: the locked segment that decides the logical light.  The bulb *)
(* command and the light_changed event after it change nothing here.       *)

RestoredMode == IF sleepRestore.mode \in Scenes \cup {"off"} THEN sleepRestore.mode ELSE "off"

WriteLight(t) ==
    /\ At(t, "write") /\ StateFree(t)
    /\ LET c == Top(t)
           leavesSleep == c.manual /\ mode = "sleep"
       IN /\ mode' = IF leavesSleep THEN RestoredMode ELSE mode
          /\ workReturn' = IF leavesSleep THEN FALSE ELSE workReturn
          /\ sleepRestore' = IF leavesSleep THEN NoRestore ELSE sleepRestore
          /\ light' = [on   |-> IF c.on = "keep" THEN light.on ELSE c.on = "on",
                       look |-> IF c.look = "keep" THEN light.look ELSE c.look]
    /\ Continue(t, <<>>)
    /\ UNCHANGED <<override, alarmRestore, alarm, alarms, flags, occupied, pending,
                   timerRef, timer>>

\* The set_light call that gives back a remembered light.
GiveBack(saved) == SetLight(IF saved.on THEN "on" ELSE "off", saved.look)

-----------------------------------------------------------------------------
(* set_mode *)

\* Mutant: changing the mode leaves the alarm ringing.
NeverAcknowledges(o) == FALSE
AcknowledgesFirst(o) == alarm # NoAlarm /\ o.mode # "alarm" /\ o.why # "alarm_restore"

\* Entry, up to the pending-mode cancellation.
EnterSetMode(t) ==
    /\ At(t, "setMode") /\ CommandFree(t) /\ StateFree(t)
    /\ LET o == Top(t)
           cancels == o.mode # "sleep" \/ o.why # "work_return"
       IN Continue(t, IF o.mode = "alarm" /\ alarm # NoAlarm THEN <<>>
                      ELSE (IF AcknowledgesFirst(o) THEN <<Plain("ack")>> ELSE <<>>)
                           \o (IF cancels THEN CancelPending ELSE <<>>)
                           \o <<Apply(o.mode, o.why, o.id), Plain("unlock")>>)
    /\ UNCHANGED <<roomVars, timerRef, timer>>

ModeEvent(m) == Emit(CASE m = "sleep" -> "mode_sleep"
                       [] m = "alarm" -> "mode_alarm"
                       [] OTHER       -> "mode_other")

\* What set_mode does after its locked segment: the light, then mode_changed.
ModeFollowUp(m) ==
    (CASE m \in {"off", "sleep"} -> SetLight("off", "keep")
       [] m \in Scenes           -> SetLight("on", m)
       [] OTHER                  -> <<>>)
    \o <<ModeEvent(m)>>

\* Mutants: a new snapshot on every sleep; a snapshot that outlives sleep.
SleepSnapshotAgain(m) == IF m = "sleep" THEN [mode |-> mode, light |-> light] ELSE NoRestore
SleepSnapshotKept(m) ==
    IF m = "sleep" /\ mode # "sleep" THEN [mode |-> mode, light |-> light] ELSE sleepRestore
\* sleep_restore after set_mode(m)
SleepSnapshot(m) ==
    CASE m # "sleep"                    -> NoRestore
      [] m = "sleep" /\ mode # "sleep" -> [mode |-> mode, light |-> light]
      [] OTHER                          -> sleepRestore

\* The locked segment.
ApplyMode(t) ==
    /\ At(t, "applyMode") /\ StateFree(t)
    /\ LET o == Top(t)
       IN /\ mode' = o.mode
          /\ workReturn' = (o.mode = "sleep" /\ o.why = "work_return")
          /\ sleepRestore' = SleepSnapshot(o.mode)
          /\ flags' = CASE o.why = "work_return" -> [flags EXCEPT !.workDone = TRUE]
                        [] o.why = "evening"     -> [flags EXCEPT !.eveningDone = TRUE]
                        [] OTHER                 -> flags
          /\ alarm' = IF o.mode = "alarm"
                      THEN [id |-> IF o.id = "none" THEN "adhoc" ELSE o.id, phase |-> "flashing"]
                      ELSE alarm
          /\ alarmRestore' = IF o.mode = "alarm"
                             THEN [mode |-> IF mode = "alarm" THEN "off" ELSE mode, light |-> light]
                             ELSE alarmRestore
          /\ Continue(t, ModeFollowUp(o.mode))
    /\ UNCHANGED <<override, light, alarms, occupied, pending, timerRef, timer>>

\* Leaving a `with self._command_lock` block.
Unlock(t) ==
    /\ At(t, "unlock")
    /\ Continue(t, <<>>)
    /\ UNCHANGED <<roomVars, timerRef, timer>>

-----------------------------------------------------------------------------
(* acknowledge_alarm and cancel_sleep *)

Acknowledge(t) ==
    /\ At(t, "ack") /\ CommandFree(t) /\ StateFree(t)
    /\ IF alarm = NoAlarm
       THEN /\ Continue(t, <<>>)
            /\ UNCHANGED <<alarm, alarmRestore, mode>>
       ELSE /\ alarm' = NoAlarm
            /\ alarmRestore' = NoRestore
            /\ mode' = "off"
            /\ Continue(t, (IF alarmRestore.mode \in Scenes \cup {"sleep"}
                            THEN <<SetMode(alarmRestore.mode, "alarm_restore", "none")>>
                            ELSE IF alarmRestore.light.on THEN GiveBack(alarmRestore.light)
                            ELSE SetLight("off", "keep"))
                           \o <<Plain("unlock")>>)
    /\ UNCHANGED <<workReturn, override, light, sleepRestore, alarms, flags, occupied,
                   pending, timerRef, timer>>

\* Mutant: cancel_sleep does not take the command lock.
EnterCancelSleepUnlocked(t) ==
    /\ At(t, "cancelSleep")
    /\ Continue(t, CancelPending \o <<Plain("cancelApply")>>)
    /\ UNCHANGED <<roomVars, timerRef, timer>>

EnterCancelSleep(t) ==
    /\ At(t, "cancelSleep") /\ CommandFree(t)
    /\ Continue(t, CancelPending \o <<Plain("cancelApply"), Plain("unlock")>>)
    /\ UNCHANGED <<roomVars, timerRef, timer>>

CancelSleepApply(t) ==
    /\ At(t, "cancelApply") /\ StateFree(t)
    /\ mode' = "off"
    /\ workReturn' = FALSE
    /\ flags' = IF flags.workDone THEN [flags EXCEPT !.workCancel = TRUE]
                ELSE IF flags.eveningDone THEN [flags EXCEPT !.eveningCancel = TRUE]
                ELSE flags
    /\ Continue(t, (CASE flags.workDone    -> <<Emit("cancelled_work")>>
                      [] ~flags.workDone /\ flags.eveningDone -> <<Emit("cancelled_evening")>>
                      [] OTHER             -> <<>>)
                   \o (CASE ~occupied -> SetLight("off", "keep")
                         [] occupied /\ sleepRestore = NoRestore -> SetLight("on", "keep")
                         [] OTHER -> GiveBack(sleepRestore.light))
                   \o <<Finish(sleepRestore, occupied)>>)
    /\ UNCHANGED <<override, light, sleepRestore, alarmRestore, alarm, alarms, occupied,
                   pending, timerRef, timer>>

\* Mutant: whatever mode was remembered is written back.
GivenBackAnyMode(saved) == saved.mode
GivenBackMode(saved) == IF saved.mode \in Scenes THEN saved.mode ELSE mode

CancelSleepFinish(t) ==
    /\ At(t, "cancelFinish") /\ StateFree(t)
    /\ mode' = GivenBackMode(Top(t).restore)
    /\ sleepRestore' = NoRestore
    /\ Continue(t, <<>>)
    /\ UNCHANGED <<workReturn, override, light, alarmRestore, alarm, alarms, flags,
                   occupied, pending, timerRef, timer>>

-----------------------------------------------------------------------------
(* Handlers that keep _state_lock over several steps: set_override, and    *)
(* phone_location_changed when the owner leaves home.                      *)

\* Mutant: an override ends sleep through set_mode, inside the state lock.
BeginOverrideSwitches(t) ==
    /\ At(t, "override") /\ StateFree(t)
    /\ Continue(t, <<SetMode("off", "manual", "none"), OverrideEnd(Top(t).to)>>)
    /\ UNCHANGED <<roomVars, timerRef, timer>>

BeginOverride(t) ==
    /\ At(t, "override") /\ StateFree(t)
    /\ Continue(t, (IF Top(t).to # "none" THEN CancelPending ELSE <<>>)
                   \o <<OverrideEnd(Top(t).to)>>)
    /\ UNCHANGED <<roomVars, timerRef, timer>>

\* mode_changed for "manual_override" leads to no action.
EndOverride(t) ==
    /\ At(t, "overrideEnd") /\ StateFree(t)
    /\ override' = Top(t).to
    /\ Continue(t, <<>>)
    /\ UNCHANGED <<mode, workReturn, light, sleepRestore, alarmRestore, alarm, alarms,
                   flags, occupied, pending, timerRef, timer>>

\* What a report makes of the sensors is left open here (Presence has the
\* rules): the room is occupied or not, and the change is announced or not.
\* Bound: a model without "presence" in Requests has silent, steady sensors.
Sensed == IF "presence" \in Requests THEN BOOLEAN ELSE {occupied}
Announcements(now) ==
    {<<>>} \cup
    (IF "presence" \notin Requests THEN {}
     ELSE IF now THEN {<<Emit("presence_detected")>>} ELSE {<<Emit("presence_cleared")>>})

\* A delivery that repeats the last one is ignored.
BeginLeave(t) ==
    /\ At(t, "leave") /\ StateFree(t)
    /\ \/ Continue(t, <<>>)
       \/ Continue(t, CancelPending \o <<Plain("leaveEnd")>>)
    /\ UNCHANGED <<roomVars, timerRef, timer>>

\* _update_presence releases the owner; the room may be occupied still.
EndLeave(t) ==
    /\ At(t, "leaveEnd") /\ StateFree(t)
    /\ occupied' \in {occupied} \cup (Sensed \ {TRUE})
    /\ \E events \in Announcements(FALSE) : Continue(t, events)
    /\ UNCHANGED <<mode, workReturn, override, light, sleepRestore, alarmRestore, alarm,
                   alarms, flags, pending, timerRef, timer>>

-----------------------------------------------------------------------------
(* Presence reports, the poller, refresh_devices, the scheduler, start-up. *)

\* phone_location_changed when the owner comes home: it announces nobody.
Arrive(t) ==
    /\ At(t, "arrive") /\ StateFree(t)
    /\ occupied' \in Sensed
    /\ \/ occupied' = occupied /\ Continue(t, <<>>)
       \/ ~occupied' /\ \E events \in Announcements(FALSE) :
                Continue(t, <<Emit("arrive_home")>> \o events)
       \/ occupied' /\ Continue(t, <<Emit("arrive_home")>>)
    /\ UNCHANGED <<mode, workReturn, override, light, sleepRestore, alarmRestore, alarm,
                   alarms, flags, pending, timerRef, timer>>

\* _on_ble_presence; with a stale location the owner's arrival counts as one home.
BleReport(t) ==
    /\ At(t, "presence") /\ StateFree(t)
    /\ \E now \in Sensed :
        /\ occupied' = now
        /\ \/ \E events \in Announcements(now) : Continue(t, events)
           \/ now /\ Continue(t, <<Emit("presence_detected"), Emit("arrive_home")>>)
    /\ UNCHANGED <<mode, workReturn, override, light, sleepRestore, alarmRestore, alarm,
                   alarms, flags, pending, timerRef, timer>>

\* _poll_devices: what the bulb reports becomes the logical light.
PollResult(t) ==
    /\ At(t, "pollResult") /\ StateFree(t)
    /\ light' \in {light} \cup
            (IF BulbDrifts THEN {[light EXCEPT !.on = on] : on \in BOOLEAN} ELSE {})
    /\ \E now \in Sensed :
        /\ occupied' = now
        /\ \E events \in Announcements(now) : Continue(t, events)
    /\ UNCHANGED <<mode, workReturn, override, sleepRestore, alarmRestore, alarm,
                   alarms, flags, pending, timerRef, timer>>

\* refresh_devices polls while it holds the command lock.
EnterRefresh(t) ==
    /\ At(t, "refresh") /\ CommandFree(t)
    /\ Continue(t, <<Plain("pollResult"), Plain("unlock")>>)
    /\ UNCHANGED <<roomVars, timerRef, timer>>

\* _check_triggers walks the snapshot of the alarms that are due this minute.
FireDueAlarm(t) ==
    /\ At(t, "dueAlarms")
    /\ IF Top(t).ids = {} THEN Continue(t, <<>>)
       ELSE \E a \in Top(t).ids :
                Continue(t, <<EmitAlarm("schedule_alarm", a), DueAlarms(Top(t).ids \ {a})>>)
    /\ UNCHANGED <<roomVars, timerRef, timer>>

\* Mutant: an alarm expires only while it flashes.
CheckActiveFlashing(t, reached) ==
    /\ At(t, "checkActive") /\ StateFree(t)
    /\ \/ reached = "nothing" /\ Continue(t, <<>>)
       \/ /\ reached = "expires_at" /\ alarm.phase = "flashing"
          /\ Continue(t, <<Emit("alarm_duration_expired")>>)
       \/ /\ reached = "flash_until" /\ alarm.phase = "flashing"
          /\ Continue(t, <<Emit("alarm_flash_finished")>>)
    /\ UNCHANGED <<roomVars, timerRef, timer>>

\* get_active_alarm, then the comparison with the clock; the event that follows
\* is emitted from the copy.
CheckActive(t, reached) ==
    /\ At(t, "checkActive") /\ StateFree(t)
    /\ \/ reached = "nothing" /\ Continue(t, <<>>)
       \/ /\ reached = "expires_at" /\ alarm # NoAlarm
          /\ Continue(t, <<Emit("alarm_duration_expired")>>)
       \/ /\ reached = "flash_until" /\ alarm.phase = "flashing"
          /\ Continue(t, <<Emit("alarm_flash_finished")>>)
    /\ UNCHANGED <<roomVars, timerRef, timer>>

\* _resume_active_alarm, first half: look at the persisted alarm.
ResumeAlarm(t) ==
    /\ At(t, "resumeAlarm")
    /\ IF alarm = NoAlarm THEN Continue(t, <<>>)
       ELSE \E due \in {"flashing", "steady", "expired"} :
                Continue(t, <<ForceAlarm(alarm.id, due)>>)
    /\ UNCHANGED <<roomVars, timerRef, timer>>

\* Second half: active_mode is written without a lock.
ForceAlarmMode(t) ==
    /\ At(t, "forceAlarm")
    /\ mode' = "alarm"
    /\ alarm' = IF Top(t).due = "steady" /\ alarm # NoAlarm /\ alarm.id = Top(t).id
                THEN [alarm EXCEPT !.phase = "steady"] ELSE alarm
    /\ Continue(t, IF Top(t).due = "expired" THEN <<Plain("ack")>> ELSE SetLight("on", "bright"))
    /\ UNCHANGED <<workReturn, override, light, sleepRestore, alarmRestore, alarms, flags,
                   occupied, pending, timerRef, timer>>

\* _resume_pending_mode: the delay is over already, or starts again.
ResumePending(t) ==
    /\ At(t, "resumePending") /\ StateFree(t)
    /\ IF ~pending THEN Continue(t, <<>>)
       ELSE \/ Continue(t, <<Plain("clearPending"), SetMode("sleep", "work_return", "none")>>)
            \/ Continue(t, SchedulePending)
    /\ UNCHANGED <<roomVars, timerRef, timer>>

\* A crash or a shutdown, and Runtime.__init__ of the next process.
Restart ==
    /\ "restart" \in Requests
    /\ mode' = IF mode = "sleep" THEN RestoredMode ELSE mode
    /\ workReturn' = IF mode = "sleep" THEN FALSE ELSE workReturn
    /\ sleepRestore' = NoRestore
    /\ timerRef' = NoTimer
    /\ timer' = [tm \in ModeTimers |-> "idle"]
    /\ todo' = [t \in Threads |->
                  IF t = "main" THEN <<Plain("resumeAlarm"), Plain("resumePending")>> ELSE <<>>]
    /\ UNCHANGED <<override, light, alarmRestore, alarm, alarms, flags, occupied, pending>>

-----------------------------------------------------------------------------
(* External events.  Requests selects the kinds a model lets happen.       *)

Begin(t, kind, ops) ==
    /\ kind \in Requests
    /\ Idle(t)
    /\ todo' = [todo EXCEPT ![t] = ops]

\* RPC methods (CommandRouter) on a connection's own thread.
RpcRequest(t) ==
    /\ \/ \E m \in Scenes \cup {"off"} : Begin(t, "set_mode", <<SetMode(m, "manual", "none")>>)
       \/ Begin(t, "set_sleep", <<SetMode("sleep", "manual", "none")>>)
       \/ Begin(t, "set_alarm", <<SetMode("alarm", "manual", "none")>>)
       \/ \E on \in {"on", "off", "keep"}, look \in {"user", "keep"} :
              Begin(t, "set_light", ManualLight(on, look))
       \/ Begin(t, "cancel_sleep", <<Plain("cancelSleep")>>)
       \/ Begin(t, "acknowledge_alarm", <<Plain("ack")>>)
       \/ Begin(t, "refresh_devices", <<Plain("refresh")>>)
       \/ \E v \in Overrides : Begin(t, "set_override", <<Override(v)>>)
       \/ Begin(t, "leave_home", <<Plain("leave")>>)
       \/ Begin(t, "arrive_home", <<Plain("arrive")>>)
    /\ UNCHANGED <<roomVars, timerRef, timer>>

UpsertAlarm(t, a) ==
    /\ Begin(t, "alarms", <<>>) /\ StateFree(t)
    /\ \E recurrence \in {"once", "daily", "disabled"} :
            alarms' = [alarms EXCEPT ![a] = recurrence]
    /\ UNCHANGED <<mode, workReturn, override, light, sleepRestore, alarmRestore, alarm,
                   flags, occupied, pending, timerRef, timer>>

DeleteAlarm(t, a) ==
    /\ Begin(t, "alarms", IF alarm.id = a THEN <<Plain("ack")>> ELSE <<>>) /\ StateFree(t)
    /\ alarms' = [alarms EXCEPT ![a] = "absent"]
    /\ UNCHANGED <<mode, workReturn, override, light, sleepRestore, alarmRestore, alarm,
                   flags, occupied, pending, timerRef, timer>>

\* Callbacks of the MQTT client: commands and phone or BLE arrivals.
MqttMessage ==
    /\ "mqtt" \in Services
    /\ \/ \E on \in {"on", "off"} : Begin("mqtt", "mqtt_command", SetLight(on, "keep"))
       \/ \E m \in Modes : Begin("mqtt", "mqtt_command", <<SetMode(m, "command", "none")>>)
       \/ Begin("mqtt", "presence", <<Plain("presence")>>)
       \/ Begin("mqtt", "arrive_home", <<Plain("arrive")>>)
       \/ Begin("mqtt", "leave_home", <<Plain("leave")>>)
    /\ UNCHANGED <<roomVars, timerRef, timer>>

Poll ==
    /\ "poll" \in Services
    /\ Begin("poll", "poll", <<Plain("pollResult")>>)
    /\ UNCHANGED <<roomVars, timerRef, timer>>

\* One pass of _check_triggers; list_alarms is the snapshot it works from.
SchedulerPass ==
    /\ "scheduler" \in Services /\ StateFree("scheduler")
    /\ \E due \in SUBSET {a \in AlarmIds : alarms[a] \in {"once", "daily"}},
          daily \in {<<>>, <<Emit("schedule_evening_sleep")>>, <<Emit("schedule_daily_reset")>>} :
            Begin("scheduler", "scheduler",
                  <<DueAlarms(due)>> \o daily \o <<Plain("checkActive")>>)
    /\ UNCHANGED <<roomVars, timerRef, timer>>

-----------------------------------------------------------------------------
(* The specification *)

Init ==
    /\ mode = "off" /\ workReturn = FALSE /\ override = "none"
    /\ light = [on |-> FALSE, look |-> "none"]
    /\ sleepRestore = NoRestore /\ alarmRestore = NoRestore
    /\ alarm = NoAlarm
    /\ alarms = [a \in AlarmIds |-> "absent"]
    /\ flags = NoFlags
    /\ occupied = FALSE
    /\ pending = FALSE
    /\ timerRef = NoTimer
    /\ timer = [tm \in ModeTimers |-> "idle"]
    /\ todo = [t \in Threads |-> <<>>]

PendingModeStep(t) ==
    \/ CancelTimer(t) \/ DropRef(t) \/ ClearPending(t) \/ SetPending(t)
    \/ MakeTimer(t) \/ StartTimer(t)

CommandStep(t) ==
    \/ EnterSetMode(t) \/ ApplyMode(t) \/ Unlock(t) \/ Acknowledge(t)
    \/ EnterCancelSleep(t) \/ CancelSleepApply(t) \/ CancelSleepFinish(t)
    \/ EnterRefresh(t)

OtherStep(t) ==
    \/ EmitEvent(t) \/ TurnOn(t) \/ ChangeFlags(t) \/ WriteLight(t)
    \/ BeginOverride(t) \/ EndOverride(t) \/ BeginLeave(t) \/ EndLeave(t)
    \/ Arrive(t) \/ BleReport(t) \/ PollResult(t) \/ FireDueAlarm(t) \/ ResumeAlarm(t)
    \/ ForceAlarmMode(t) \/ ResumePending(t)
    \/ \E reached \in {"nothing", "flash_until", "expires_at"} : CheckActive(t, reached)

Step(t) == PendingModeStep(t) \/ CommandStep(t) \/ OtherStep(t)

External ==
    \/ \E t \in Rpc : RpcRequest(t) \/ \E a \in AlarmIds : UpsertAlarm(t, a) \/ DeleteAlarm(t, a)
    \/ MqttMessage \/ Poll \/ SchedulerPass \/ Restart

Next ==
    \/ \E t \in Threads : Step(t)
    \/ \E tm \in ModeTimers : FireTimer(tm)
    \/ External

Spec == Init /\ [][Next]_vars

\* Every thread that can run again and again does (a lock that is released
\* again and again is eventually obtained), a started timer fires, and the
\* scheduler keeps looking at the clock, which passes expires_at at last.
Fairness ==
    /\ \A t \in Threads : SF_vars(Step(t))
    /\ \A tm \in ModeTimers : WF_vars(FireTimer(tm))
    /\ WF_vars(SchedulerPass)
    /\ "scheduler" \in Services => SF_vars(CheckActive("scheduler", "expires_at"))

FairSpec == Spec /\ Fairness

-----------------------------------------------------------------------------
(* Properties *)

Quiet == \A t \in Threads : Idle(t)

\* A room in sleep mode can always be given back: whatever the interleaving of
\* set_mode, cancel_sleep, manual light changes, alarms and restarts, sleep mode
\* comes with the mode it was entered from, and that is not sleep itself.
SleepHasRestore ==
    mode = "sleep" => sleepRestore # NoRestore /\ sleepRestore.mode # "sleep"

\* What sleep mode leaves behind never outlives it, where the next sleep or
\* cancel would restore something stale: only a cancel_sleep that is still
\* running, or the alarm mode that start() forces, may see any of it.
SleepLeavesNothing ==
    workReturn \/ sleepRestore # NoRestore =>
        \/ mode \in {"sleep", "alarm"}
        \/ \E t \in Threads : Pending(t, {"cancelFinish"})

\* A delayed mode change is never lost: while one is recorded, either a timer
\* will apply it or some thread is in the middle of cancelling, rescheduling or
\* resuming it.
PendingHasTimer ==
    pending => \/ \E tm \in ModeTimers : timer[tm] = "armed"
               \/ \E t \in Threads : Pending(t, {"clearPending", "makeTimer", "startTimer",
                                                 "resumePending"})

\* An active alarm rings over no sleep, whatever cancels, acknowledges or restarts
\* come between: beside it there is no snapshot and no work-return mark, which the
\* next cancel would take for the room's; the mode is alarm, or off when a
\* cancel_sleep has parted the two, but neither sleep nor a lit mode; and it knows
\* a mode other than alarm to go back to.
AlarmClean ==
    alarm # NoAlarm =>
        /\ sleepRestore = NoRestore /\ ~workReturn
        /\ mode \in {"alarm", "off"}
        /\ alarmRestore # NoRestore /\ alarmRestore.mode # "alarm"

\* Lock order: a thread that keeps _state_lock over several steps never waits
\* for _command_lock in between (the other order is the one set_mode uses).
StateLockInnermost ==
    \A t \in Threads :
        HoldsState(t) => Top(t).op \notin {"setMode", "ack", "cancelSleep", "refresh"}

\* The evening sleep comes at most once between two daily resets, however its
\* trigger, cancellations and restarts interleave.
EveningSleepOncePerDay ==
    [][\A t \in Threads :
        ApplyMode(t) /\ Top(t).why = "evening" => ~flags.eveningDone]_vars

\* Sleep mode takes one snapshot and keeps it (the abstract specification).
Session == INSTANCE SleepSession WITH saved <- sleepRestore, Nothing <- NoRestore
ImplementsSleepSession == Session!Spec

\* An alarm that rings is acknowledged or expires and the room leaves alarm mode
\* with it, also when restarts resume the alarm, unless they go on for ever.  (A
\* start() that looked at the alarm before it ended writes alarm mode once more:
\* AlarmModeEnds below.)
AlarmEnds ==
    <>[][~Restart]_vars => (alarm # NoAlarm ~> alarm = NoAlarm /\ mode # "alarm")

\* A delayed mode change is applied or cancelled at last, also after a restart,
\* unless restarts go on for ever or arrivals keep rescheduling it.
PendingSettles ==
    <>[][~Restart]_vars => []<>~pending \/ []<><<\E t \in Threads : SetPending(t)>>_vars

\* No two calls wait for each other: whatever _command_lock, _state_lock and the
\* timers make them wait for, every call that was begun returns,
\* unless the runtime is restarted again and again.
CallsReturn ==
    <>[][~Restart]_vars => \A t \in Threads : todo[t] # <<>> ~> todo[t] = <<>>

(* Statements of the documentation that the code does not keep. *)

\* tools.py: "sleep=lights off darkness enforced".
SleepStaysDark == Quiet /\ mode = "sleep" => ~light.on

\* cancel_sleep: "Cancel sleep mode and restore previous state": what sleep
\* remembers is the room before it slept, not the alarm that interrupted it.
SleepForgetsTheAlarm == sleepRestore.light # [on |-> TRUE, look |-> "bright"]

\* tools.py: "alarm=flash bright white auto-expire": the mode ends, too.
AlarmModeEnds == <>[][~Restart]_vars => (mode = "alarm" ~> mode # "alarm")

\* tools.py: "Modes are mutually exclusive": what rings can be seen as the mode.
AlarmIsTheMode == mode = "alarm" <=> alarm # NoAlarm

\* tools.py: "off=lights off no mode", when nobody touches the light itself.
OffStaysOff == Quiet /\ mode = "off" => ~light.on

=============================================================================
