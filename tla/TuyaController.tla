---------------------------- MODULE TuyaController ----------------------------
(***************************************************************************)
(* Device commands: TuyaController (runtime/tuya/controller.py) and the    *)
(* part of Runtime.set_light, _poll_devices and refresh_devices            *)
(* (runtime/app.py) that keeps the logical light in step with the bulb.    *)
(*                                                                         *)
(* Any thread calls _run; it passes the circuit breaker, takes the         *)
(* device's lock without waiting, takes a slot and hands the operation to  *)
(* an executor thread, which gives slot and lock back when it ends, whether *)
(* the caller still waits for it or timed out.  A flash loop is a thread   *)
(* of its own that competes for the bulb's lock and looks at the attribute *)
(* self._flash_stop anew in every round.                                   *)
(*                                                                         *)
(* A caller returns from _run only after the executor released lock and    *)
(* slot, so at most one operation per device is ever submitted and the     *)
(* two workers never queue.  Left out: brightness, colour and transitions  *)
(* (one write stands for all the writes of an operation), queue_depth and  *)
(* the other statistics, devices that are not configured.                  *)
(***************************************************************************)
EXTENDS Naturals, FiniteSets

CONSTANTS
    Callers,      \* threads that call the controller
    Pollers,      \* those of them that only poll, as the device poller does
    Devices,      \* "bulb", and "he20" if the model has the sensor too
    Slots,        \* tuya.queue_size
    Flashes,      \* bound: flash threads that can be alive at once
    Commands,     \* what callers ask for in this model
    Faults        \* what goes wrong in this model: "flaky" and "power" failures,
                  \* "hang" for answers that take longer than the timeout

ASSUME DevicesAssumption == "bulb" \in Devices /\ Devices \subseteq {"bulb", "he20"}
ASSUME SlotsAssumption == Slots \in Nat \ {0}
ASSUME NamesAssumption ==
    /\ "none" \notin Callers \cup Flashes
    /\ Callers \cap Flashes = {} /\ (Callers \cup Flashes) \cap {"job"} = {}
    /\ Commands \subseteq {"on", "off", "flash", "poll", "refresh", "stop_flash", "stop"}

VARIABLES
    call,         \* where each caller is, and what it carries
    lock,         \* self._locks: who holds each device
    slots,        \* free slots of self._slots
    failures,     \* consecutive_failures, counted up to the threshold
    circuit,      \* circuit_open_until: 0, in the future, or passed
    device,       \* the connection object in self._devices
    connecting,   \* who holds self._connect_lock over several steps
    job,          \* the operation the executor runs on each device
    last,         \* the light command of the last second and its result
    executor,     \* "open" until stop()
    flashStop,    \* whether the event in self._flash_stop is set
    flashThread,  \* self._flash_thread, if it is alive
    flash,        \* each flash loop
    light,        \* state.light: on, confirmed
    bulb,         \* whether the bulb shines
    powered       \* the devices that have power

runVars   == <<lock, slots, failures, circuit, device, connecting, job, last, executor>>
flashVars == <<flashStop, flashThread, flash>>
roomVars  == <<light, bulb, powered>>
vars == <<call, runVars, flashVars, roomVars>>

-----------------------------------------------------------------------------
(* Values *)

Threshold  == 3     \* consecutive failures that open the circuit
LightCommands == {"on", "off", "flash"}
Idle       == [at |-> "idle", cmd |-> "none", dev |-> "bulb", ok |-> FALSE, seen |-> "none",
               count |-> 0]
Places     == {"idle", "logical", "dedup", "breaker", "lock", "probe", "submit", "wait",
               "record", "count", "trip", "remember", "report", "clear", "reconnect", "reset"}
Calls      == [at : Places, cmd : LightCommands \cup {"poll", "refresh", "none"},
               dev : Devices, ok : BOOLEAN, seen : {"none", "on", "off"}, count : 0..Threshold]
NoJob      == [at |-> "none", by |-> "none", cmd |-> "none", conn |-> "none",
               own |-> FALSE, ok |-> FALSE, seen |-> "none"]
Jobs       == [at : {"none", "start", "io", "hung", "closing", "flash", "join", "done"},
               by : Callers \cup {"none"}, cmd : LightCommands \cup {"poll", "refresh", "none"},
               conn : {"ok", "stale", "none"}, own : BOOLEAN, ok : BOOLEAN,
               seen : {"none", "on", "off"}]
\* A loop waits for the event that is in self._flash_stop now, or for an older
\* one, which was set before it was replaced or never will be.
NoFlash    == [at |-> "dead", event |-> "none", conn |-> "none"]
FlashLoops == [at : {"dead", "loop", "wait", "want", "io", "hung"}, event : {"none", "now", "set", "unset"},
               conn : {"ok", "stale", "none"}]
NoLast     == [cmd |-> "none", ok |-> FALSE]

TypeOK ==
    /\ call \in [Callers -> Calls]
    /\ lock \in [Devices -> Callers \cup Flashes \cup {"job", "none"}]
    /\ slots \in 0..Slots
    /\ failures \in [Devices -> 0..Threshold]
    /\ circuit \in [Devices -> {"closed", "open", "expired"}]
    /\ device \in [Devices -> {"ok", "stale", "none"}]
    /\ connecting \in Callers \cup {"none"}
    /\ job \in [Devices -> Jobs]
    /\ last \in [cmd : LightCommands \cup {"none"}, ok : BOOLEAN]
    /\ executor \in {"open", "shut"}
    /\ flashStop \in BOOLEAN
    /\ flashThread \in Flashes \cup {"none"}
    /\ flash \in [Flashes -> FlashLoops]
    /\ light \in [on : BOOLEAN, confirmed : BOOLEAN]
    /\ bulb \in BOOLEAN /\ powered \subseteq Devices

Init ==
    /\ call = [c \in Callers |-> Idle]
    /\ lock = [d \in Devices |-> "none"]
    /\ slots = Slots
    /\ failures = [d \in Devices |-> 0]
    /\ circuit = [d \in Devices |-> "closed"]
    /\ device = [d \in Devices |-> "ok"]
    /\ connecting = "none"
    /\ job = [d \in Devices |-> NoJob]
    /\ last = NoLast
    /\ executor = "open"
    /\ flashStop = FALSE
    /\ flashThread = "none"
    /\ flash = [f \in Flashes |-> NoFlash]
    /\ light = [on |-> FALSE, confirmed |-> FALSE]
    /\ bulb \in BOOLEAN /\ powered = Devices

-----------------------------------------------------------------------------
(* A caller *)

At(c, place)  == call[c].at = place
Goto(c, place) == call' = [call EXCEPT ![c].at = place]
InProgress(d) == {c \in Callers : call[c].dev = d /\ call[c].at \in
                    {"probe", "submit", "wait", "record", "count", "trip"}}

\* Where a call goes when _run returns: set_light remembers the answer; a poll
\* asks the sensor after the bulb and then publishes what it has.
Returned(r, ok, seen) ==
    IF r.cmd \in LightCommands THEN [r EXCEPT !.at = "remember", !.ok = ok]
    ELSE IF r.dev = "bulb" THEN
        [r EXCEPT !.at = IF "he20" \in Devices THEN "breaker" ELSE "report",
                  !.dev = IF "he20" \in Devices THEN "he20" ELSE @,
                  !.seen = IF ok THEN seen ELSE "none"]
    ELSE [r EXCEPT !.at = "report", !.dev = "bulb"]

Return(c, ok) == call' = [call EXCEPT ![c] = Returned(@, ok, @.seen)]

\* A request arrives.  Bounds: a flash command starts only while a flash thread
\* is left for it; nothing is asked for after stop().
Request(c) ==
    /\ At(c, "idle") /\ executor = "open"
    /\ \E cmd \in Commands \ {"stop_flash", "stop"} :
        /\ c \in Pollers => cmd = "poll"
        /\ cmd = "flash" =>
                Cardinality({u \in Callers : call[u].cmd = "flash"} \cup
                            {d \in Devices : job[d].cmd = "flash"}) <
                Cardinality({f \in Flashes : flash[f].at = "dead"})
        /\ call' = [call EXCEPT ![c] =
                [Idle EXCEPT !.cmd = cmd,
                             !.at = IF cmd \in LightCommands THEN "logical"
                                    ELSE IF cmd = "poll" THEN "breaker" ELSE "clear"]]
    /\ UNCHANGED <<runVars, flashVars, roomVars>>

\* Runtime.set_light writes the logical light before it asks the device.
WriteLogical(c) ==
    /\ At(c, "logical")
    /\ light' = [on |-> call[c].cmd # "off", confirmed |-> FALSE]
    /\ Goto(c, "dedup")
    /\ UNCHANGED <<runVars, flashVars, bulb, powered>>

\* set_light: the same command within a second gets the same answer again.
Deduplicate(c) ==
    /\ At(c, "dedup")
    /\ call' = [call EXCEPT ![c] = IF last.cmd = @.cmd
                                   THEN [@ EXCEPT !.at = "report", !.ok = last.ok]
                                   ELSE [@ EXCEPT !.at = "breaker"]]
    /\ UNCHANGED <<runVars, flashVars, roomVars>>

\* Mutant: the breaker is closed before the device's lock is taken.
CheckBreakerResets(c) ==
    /\ At(c, "breaker")
    /\ IF circuit[call[c].dev] = "open" THEN Return(c, FALSE) /\ UNCHANGED circuit
       ELSE Goto(c, "lock") /\ circuit' = [circuit EXCEPT ![call[c].dev] = "closed"]
    /\ UNCHANGED <<lock, slots, failures, device, connecting, job, last, executor,
                   flashVars, roomVars>>

\* CIRCUIT_OPEN
CheckBreaker(c) ==
    /\ At(c, "breaker")
    /\ IF circuit[call[c].dev] = "open" THEN Return(c, FALSE) ELSE Goto(c, "lock")
    /\ UNCHANGED <<runVars, flashVars, roomVars>>

\* DEVICE_BUSY: the lock is never waited for.
TryLock(c) ==
    /\ At(c, "lock")
    /\ LET d == call[c].dev
       IN IF lock[d] # "none" THEN Return(c, FALSE) /\ UNCHANGED lock
          ELSE lock' = [lock EXCEPT ![d] = c] /\ Goto(c, "probe")
    /\ UNCHANGED <<slots, failures, circuit, device, connecting, job, last, executor,
                   flashVars, roomVars>>

\* Mutant: the old connection object is kept.
ProbeKeeps(c) ==
    /\ At(c, "probe")
    /\ LET d == call[c].dev
       IN circuit' = IF circuit[d] # "closed" /\ failures[d] >= Threshold
                     THEN [circuit EXCEPT ![d] = "closed"] ELSE circuit
    /\ Goto(c, "submit")
    /\ UNCHANGED <<lock, slots, failures, device, connecting, job, last, executor,
                   flashVars, roomVars>>

\* After the backoff the device gets a new connection object.
Probe(c) ==
    /\ At(c, "probe")
    /\ LET d == call[c].dev
       IN IF circuit[d] # "closed" /\ failures[d] >= Threshold
          THEN /\ connecting = "none"
               /\ device' = [device EXCEPT ![d] = "ok"]
               /\ circuit' = [circuit EXCEPT ![d] = "closed"]
          ELSE UNCHANGED <<device, circuit>>
    /\ Goto(c, "submit")
    /\ UNCHANGED <<lock, slots, failures, connecting, job, last, executor, flashVars, roomVars>>

HandOver(c, d) ==
    /\ slots' = slots - 1
    /\ lock' = [lock EXCEPT ![d] = "job"]
    /\ job' = [job EXCEPT ![d] = [NoJob EXCEPT !.at = "start", !.by = c, !.cmd = call[c].cmd]]
    /\ Goto(c, "wait")

\* A submit after stop() raises: the call ends there, and nobody gives back
\* its lock and its slot.
SubmitRaises(c) ==
    /\ slots' = slots - 1
    /\ call' = [call EXCEPT ![c] = Idle]
    /\ UNCHANGED <<lock, job>>

\* QUEUE_FULL gives the device back.
Submit(c) ==
    /\ At(c, "submit")
    /\ \/ /\ slots = 0
          /\ lock' = [lock EXCEPT ![call[c].dev] = "none"]
          /\ Return(c, FALSE)
          /\ UNCHANGED <<slots, job>>
       \/ slots > 0 /\ executor = "open" /\ HandOver(c, call[c].dev)
       \/ slots > 0 /\ executor = "shut" /\ SubmitRaises(c)
    /\ UNCHANGED <<failures, circuit, device, connecting, last, executor, flashVars, roomVars>>

\* Mutant: a timeout only abandons the operation.
TimeoutAbandons(c) ==
    /\ "hang" \in Faults
    /\ At(c, "wait") /\ job[call[c].dev].at # "start"
    /\ job' = [job EXCEPT ![call[c].dev].by = "none"]
    /\ call' = [call EXCEPT ![c].at = "record", ![c].ok = FALSE]
    /\ UNCHANGED <<lock, slots, failures, circuit, device, connecting, last, executor,
                   flashVars, roomVars>>

\* Mutant: the caller gives the slot back, and the worker gives it back again.
TimeoutReleases(c) ==
    /\ "hang" \in Faults
    /\ At(c, "wait") /\ job[call[c].dev].at # "start"
    /\ slots' = slots + 1
    /\ job' = [job EXCEPT ![call[c].dev].by = "none"]
    /\ call' = [call EXCEPT ![c].at = "record", ![c].ok = FALSE]
    /\ UNCHANGED <<lock, failures, circuit, device, connecting, last, executor,
                   flashVars, roomVars>>

\* DEVICE_TIMEOUT: whatever connection is in _devices now is closed, which
\* wakes the operation only if it still uses that one.
Timeout(c) ==
    /\ "hang" \in Faults
    /\ At(c, "wait") /\ job[call[c].dev].at # "start"
    /\ LET d == call[c].dev
       IN job' = [job EXCEPT ![d].by = "none",
                             ![d].at = IF @ \in {"io", "hung"} /\ job[d].own /\ device[d] # "none"
                                       THEN "closing" ELSE @]
    /\ call' = [call EXCEPT ![c].at = "record", ![c].ok = FALSE]
    /\ UNCHANGED <<lock, slots, failures, circuit, device, connecting, last, executor,
                   flashVars, roomVars>>

\* The statistics of the device, without its lock: a success starts the count
\* anew, a failure reads it,
Record(c) ==
    /\ At(c, "record")
    /\ LET d == call[c].dev
       IN IF call[c].ok
          THEN failures' = [failures EXCEPT ![d] = 0] /\ Return(c, TRUE)
          ELSE /\ call' = [call EXCEPT ![c].at = "count",
                            ![c].count = IF failures[d] < Threshold THEN failures[d] + 1
                                         ELSE Threshold]
               /\ UNCHANGED failures
    /\ UNCHANGED <<lock, slots, circuit, device, connecting, job, last, executor,
                   flashVars, roomVars>>

\* ... and writes it back, whatever another thread has written meanwhile.
Count(c) ==
    /\ At(c, "count")
    /\ failures' = [failures EXCEPT ![call[c].dev] = call[c].count]
    /\ call' = [call EXCEPT ![c].at = "trip", ![c].count = 0]
    /\ UNCHANGED <<lock, slots, circuit, device, connecting, job, last, executor,
                   flashVars, roomVars>>

Trip(c) ==
    /\ At(c, "trip")
    /\ LET d == call[c].dev
       IN circuit' = IF failures[d] >= Threshold THEN [circuit EXCEPT ![d] = "open"] ELSE circuit
    /\ Return(c, FALSE)
    /\ UNCHANGED <<lock, slots, failures, device, connecting, job, last, executor,
                   flashVars, roomVars>>

Remember(c) ==
    /\ At(c, "remember")
    /\ last' = [cmd |-> call[c].cmd, ok |-> call[c].ok]
    /\ Goto(c, "report")
    /\ UNCHANGED <<lock, slots, failures, circuit, device, connecting, job, executor,
                   flashVars, roomVars>>

\* Mutant: a poll does not overrule a light that is confirmed.
PublishedUnconfirmed(r) ==
    IF r.cmd \in LightCommands THEN [light EXCEPT !.confirmed = r.ok]
    ELSE IF r.seen = "none" \/ light.confirmed THEN light
    ELSE [on |-> r.seen = "on", confirmed |-> TRUE]

\* What set_light and _poll_devices write to the state when they have an answer.
Published(r) ==
    IF r.cmd \in LightCommands THEN [light EXCEPT !.confirmed = r.ok]
    ELSE IF r.seen = "none" THEN light
    ELSE [on |-> r.seen = "on", confirmed |-> TRUE]

Report(c) ==
    /\ At(c, "report")
    /\ light' = Published(call[c])
    /\ call' = [call EXCEPT ![c] = Idle]
    /\ UNCHANGED <<runVars, flashVars, bulb, powered>>

(* refresh: new connections, then the counters; refresh_devices polls next. *)
ClearDevices(c) ==
    /\ At(c, "clear") /\ connecting = "none"
    /\ connecting' = c
    /\ device' = [d \in Devices |-> "none"]
    /\ job' = [d \in Devices |-> [job[d] EXCEPT !.own = FALSE]]
    /\ Goto(c, "reconnect")
    /\ UNCHANGED <<lock, slots, failures, circuit, last, executor, flashVars, roomVars>>

Reconnect(c) ==
    /\ At(c, "reconnect")
    /\ connecting' = "none"
    /\ device' = [d \in Devices |-> "ok"]
    /\ Goto(c, "reset")
    /\ UNCHANGED <<lock, slots, failures, circuit, job, last, executor, flashVars, roomVars>>

ResetHealth(c) ==
    /\ At(c, "reset")
    /\ failures' = [d \in Devices |-> 0]
    /\ circuit' = [d \in Devices |-> "closed"]
    /\ last' = NoLast
    /\ Goto(c, "breaker")
    /\ UNCHANGED <<lock, slots, device, connecting, job, executor, flashVars, roomVars>>

-----------------------------------------------------------------------------
(* The executor thread *)

\* Mutant: an ordinary command does not stop the flashing.
StopsFlashNever(cmd) == FALSE
StopsFlash(cmd) == cmd \in {"on", "off"}

\* The operation looks its device up.
StartJob(d) ==
    /\ job[d].at = "start"
    /\ IF device[d] = "none"
       THEN job' = [job EXCEPT ![d].at = "done"] /\ UNCHANGED flashStop
       ELSE /\ flashStop' = (flashStop \/ StopsFlash(job[d].cmd))
            /\ job' = [job EXCEPT ![d].at = "io", ![d].own = TRUE, ![d].conn = device[d]]
    /\ UNCHANGED <<call, lock, slots, failures, circuit, device, connecting, last, executor,
                   flashThread, flash, roomVars>>

Works(d, conn) == conn = "ok" /\ d \in powered

\* The device answers: it did what it was told or showed what it does.  A flash
\* command goes on to its loop, also if its caller does not wait any more.
Answer(d) ==
    /\ job[d].at \in {"io", "closing"} /\ Works(d, job[d].conn)
    /\ bulb' = IF job[d].cmd \in LightCommands THEN job[d].cmd # "off" ELSE bulb
    /\ job' = [job EXCEPT ![d].at = IF job[d].cmd = "flash" THEN "flash" ELSE "done",
                          ![d].ok = TRUE,
                          ![d].seen = IF d # "bulb" \/ job[d].cmd \in LightCommands THEN "none"
                                      ELSE IF bulb THEN "on" ELSE "off"]
    /\ UNCHANGED <<call, lock, slots, failures, circuit, device, connecting, last, executor,
                   flashVars, light, powered>>

\* The SDK gives up: after its retries, or because its socket was closed.
GiveUp(d) ==
    /\ job[d].at \in {"io", "closing"}
    /\ ~Works(d, job[d].conn) \/ "flaky" \in Faults \/ job[d].at = "closing"
    /\ job' = [job EXCEPT ![d].at = "done"]
    /\ UNCHANGED <<call, lock, slots, failures, circuit, device, connecting, last, executor,
                   flashVars, roomVars>>

\* A recv that does not come back by itself.
Hang(d) ==
    /\ "hang" \in Faults /\ job[d].at = "io"
    /\ job' = [job EXCEPT ![d].at = "hung"]
    /\ UNCHANGED <<call, lock, slots, failures, circuit, device, connecting, last, executor,
                   flashVars, roomVars>>

\* _start_flash: stop the old loop,
StopOldFlash(d) ==
    /\ job[d].at = "flash"
    /\ flashStop' = TRUE
    /\ job' = [job EXCEPT ![d].at = "join"]
    /\ UNCHANGED <<call, lock, slots, failures, circuit, device, connecting, last, executor,
                   flashThread, flash, roomVars>>

\* ... wait a second for it, in vain if it waits for the lock this very
\* operation holds, and start the next one with an event of its own.  The threads
\* of the model are interchangeable: one that is free.
NewFlash(d) ==
    /\ job[d].at = "join"
    /\ flashThread # "none" => flash[flashThread].at = "want"
    /\ \E f \in Flashes :
        /\ flash[f].at = "dead" /\ f = CHOOSE g \in Flashes : flash[g].at = "dead"
        /\ flashThread' = f
        /\ flash' = [g \in Flashes |->
                IF g = f THEN [NoFlash EXCEPT !.at = "loop", !.conn = job[d].conn]
                ELSE [flash[g] EXCEPT !.event = IF @ # "now" THEN @
                                                ELSE IF flashStop THEN "set" ELSE "unset"]]
    /\ flashStop' = FALSE
    /\ job' = [job EXCEPT ![d].at = "done"]
    /\ UNCHANGED <<call, lock, slots, failures, circuit, device, connecting, last, executor,
                   roomVars>>

\* Mutant: slot and lock are given back to the caller, and only there.
EndJobForCaller(d) ==
    /\ job[d].at = "done"
    /\ IF job[d].by = "none" THEN UNCHANGED <<slots, lock, call>>
       ELSE /\ slots' = slots + 1
            /\ lock' = [lock EXCEPT ![d] = "none"]
            /\ call' = [call EXCEPT ![job[d].by].at = "record", ![job[d].by].ok = job[d].ok,
                                    ![job[d].by].seen = IF d = "bulb" THEN job[d].seen ELSE @]
    /\ job' = [job EXCEPT ![d] = NoJob]
    /\ UNCHANGED <<failures, circuit, device, connecting, last, executor, flashVars, roomVars>>

\* execute()'s finally, and the result for a caller that still waits.
EndJob(d) ==
    /\ job[d].at = "done"
    /\ slots' = slots + 1
    /\ lock' = [lock EXCEPT ![d] = "none"]
    /\ call' = IF job[d].by = "none" THEN call
               ELSE [call EXCEPT ![job[d].by].at = "record", ![job[d].by].ok = job[d].ok,
                                 ![job[d].by].seen = IF d = "bulb" THEN job[d].seen ELSE @]
    /\ job' = [job EXCEPT ![d] = NoJob]
    /\ UNCHANGED <<failures, circuit, device, connecting, last, executor, flashVars, roomVars>>

-----------------------------------------------------------------------------
(* The flash loop *)

\* `while not self._flash_stop.wait(...)`: the attribute as it is now.
FlashLook(f) ==
    /\ flash[f].at = "loop"
    /\ flash' = [flash EXCEPT ![f].at = "wait", ![f].event = "now"]
    /\ UNCHANGED <<call, runVars, flashStop, flashThread, roomVars>>

ToldToStop(f) == flash[f].event = "set" \/ (flash[f].event = "now" /\ flashStop)

\* The thread of f ends.
Ends(f) ==
    /\ flash' = [flash EXCEPT ![f] = NoFlash]
    /\ flashThread' = IF flashThread = f THEN "none" ELSE flashThread

FlashEnd(f) ==
    /\ flash[f].at = "wait" /\ ToldToStop(f)
    /\ Ends(f)
    /\ UNCHANGED <<call, runVars, flashStop, roomVars>>

FlashTick(f) ==
    /\ flash[f].at = "wait" /\ ~ToldToStop(f)
    /\ flash' = [flash EXCEPT ![f].at = "want", ![f].event = "none"]
    /\ UNCHANGED <<call, runVars, flashStop, flashThread, roomVars>>

FlashLock(f) ==
    /\ flash[f].at = "want" /\ lock["bulb"] = "none"
    /\ lock' = [lock EXCEPT !["bulb"] = f]
    /\ flash' = [flash EXCEPT ![f].at = "io"]
    /\ UNCHANGED <<call, slots, failures, circuit, device, connecting, job, last, executor,
                   flashStop, flashThread, roomVars>>

\* The write turns the bulb on or off in turn.  A failure may be an exception,
\* which ends the loop, or only an answer.
FlashWrite(f) ==
    /\ flash[f].at = "io"
    /\ lock' = [lock EXCEPT !["bulb"] = "none"]
    /\ \/ /\ Works("bulb", flash[f].conn)
          /\ bulb' \in BOOLEAN
          /\ flash' = [flash EXCEPT ![f].at = "loop"]
          /\ UNCHANGED flashThread
       \/ /\ ~Works("bulb", flash[f].conn) \/ "flaky" \in Faults
          /\ \/ flash' = [flash EXCEPT ![f].at = "loop"] /\ UNCHANGED flashThread
             \/ Ends(f)
          /\ UNCHANGED bulb
    /\ UNCHANGED <<call, slots, failures, circuit, device, connecting, job, last, executor,
                   flashStop, light, powered>>

\* A write that does not come back.  The loop has no timeout, and while it holds
\* the bulb no other operation can be submitted whose timeout closes the socket.
FlashHang(f) ==
    /\ "hang" \in Faults /\ flash[f].at = "io"
    /\ flash' = [flash EXCEPT ![f].at = "hung"]
    /\ UNCHANGED <<call, runVars, flashStop, flashThread, roomVars>>

-----------------------------------------------------------------------------
(* Time and the world *)

BackoffEnds(d) ==
    /\ circuit[d] = "open"
    /\ circuit' = [circuit EXCEPT ![d] = "expired"]
    /\ UNCHANGED <<call, lock, slots, failures, device, connecting, job, last, executor,
                   flashVars, roomVars>>

SecondPasses ==
    /\ last # NoLast
    /\ last' = NoLast
    /\ UNCHANGED <<call, lock, slots, failures, circuit, device, connecting, job, executor,
                   flashVars, roomVars>>

\* A device loses power: what was connected to it is of no use any more.
PowerOff(d) ==
    /\ "power" \in Faults /\ d \in powered
    /\ powered' = powered \ {d}
    /\ device' = [device EXCEPT ![d] = IF @ = "ok" THEN "stale" ELSE @]
    /\ job' = [job EXCEPT ![d].conn = IF @ = "ok" THEN "stale" ELSE @]
    /\ flash' = IF d # "bulb" THEN flash
                ELSE [f \in Flashes |-> [flash[f] EXCEPT !.conn = IF @ = "ok" THEN "stale" ELSE @]]
    /\ UNCHANGED <<call, lock, slots, failures, circuit, connecting, last, executor,
                   flashStop, flashThread, light, bulb>>

PowerOn(d) ==
    /\ d \notin powered
    /\ powered' = powered \cup {d}
    /\ bulb' \in IF d = "bulb" THEN BOOLEAN ELSE {bulb}
    /\ UNCHANGED <<call, runVars, flashVars, light>>

StopFlash ==
    /\ "stop_flash" \in Commands
    /\ flashStop' = TRUE
    /\ UNCHANGED <<call, runVars, flashThread, flash, roomVars>>

\* stop(): the runtime shuts down.
Stop ==
    /\ "stop" \in Commands /\ executor = "open"
    /\ flashStop' = TRUE
    /\ executor' = "shut"
    /\ UNCHANGED <<call, lock, slots, failures, circuit, device, connecting, job, last,
                   flashThread, flash, roomVars>>

-----------------------------------------------------------------------------
CallStep(c) ==
    \/ WriteLogical(c) \/ Deduplicate(c) \/ CheckBreaker(c) \/ TryLock(c) \/ Probe(c)
    \/ Submit(c) \/ Record(c) \/ Count(c) \/ Trip(c) \/ Remember(c) \/ Report(c)
    \/ ClearDevices(c) \/ Reconnect(c) \/ ResetHealth(c)

\* What an operation does without outside help; one that hangs does nothing.
JobStep(d) ==
    \/ StartJob(d) \/ Answer(d) \/ GiveUp(d) \/ StopOldFlash(d) \/ NewFlash(d) \/ EndJob(d)

FlashStep(f) ==
    FlashLook(f) \/ FlashEnd(f) \/ FlashTick(f) \/ FlashLock(f) \/ FlashWrite(f)

Next ==
    \/ \E c \in Callers : Request(c) \/ CallStep(c) \/ Timeout(c)
    \/ \E d \in Devices : JobStep(d) \/ Hang(d) \/ BackoffEnds(d) \/ PowerOff(d) \/ PowerOn(d)
    \/ \E f \in Flashes : FlashStep(f) \/ FlashHang(f)
    \/ SecondPasses \/ StopFlash \/ Stop

Spec == Init /\ [][Next]_vars

\* Threads run, clocks advance, an unfair lock is obtained at last, and the
\* poller polls.  A device without power may stay so.
Fairness ==
    /\ \A c \in Callers : WF_vars(CallStep(c)) /\ WF_vars(Timeout(c))
    /\ \A c \in Pollers : WF_vars(Request(c) /\ call'[c].cmd = "poll")
    /\ \A d \in Devices : WF_vars(JobStep(d)) /\ WF_vars(BackoffEnds(d))
    /\ \A f \in Flashes : WF_vars(FlashStep(f)) /\ SF_vars(FlashLock(f))
    /\ WF_vars(SecondPasses)

FairSpec == Spec /\ Fairness

-----------------------------------------------------------------------------
(* Properties *)

\* Nothing leaks while the executor is open: on every path, timeouts and full
\* queues included, a slot is taken exactly while an operation is submitted, and
\* a device is locked exactly by its operation, by a call on its way to submit
\* one, or by a flash loop that writes.
NothingLeaks ==
    executor = "open" =>
        /\ slots + Cardinality({d \in Devices : job[d] # NoJob}) = Slots
        /\ \A d \in Devices :
            /\ lock[d] = "job" <=> job[d] # NoJob
            /\ \A c \in Callers : lock[d] = c <=> call[c].dev = d /\ call[c].at \in {"probe", "submit"}
            /\ \A f \in Flashes : lock[d] = f <=> d = "bulb" /\ flash[f].at \in {"io", "hung"}

\* The breaker of a device that failed three times in a row is never left
\* closed: it is closed only while a call that got past it is on its way, which
\* ends with a success or trips it again.  (There is a slot for every device: the
\* call closes the breaker before it takes one, and QUEUE_FULL or a shutdown
\* would leave it closed.)
BreakerHolds ==
    \A d \in Devices :
        /\ executor = "open" /\ Slots >= Cardinality(Devices)
        /\ failures[d] >= Threshold /\ circuit[d] = "closed"
        => InProgress(d) # {}

\* What nothing in the code wakes: an operation whose connection a refresh has
\* taken out of _devices, so that its timeout closes another one or none, and a
\* write of the flash loop, which has no timeout.
Unreachable(d) ==
    \/ job[d].at \in {"io", "hung"} /\ ~job[d].own
    \/ d = "bulb" /\ \E f \in Flashes : flash[f].at = "hung"

\* A device is given back at last, even if the SDK never returns by itself, as
\* long as the controller is not stopped, no refresh has replaced the connection
\* under the operation, and no write of the flash loop hangs: in these two cases
\* the device stays locked (WorkerReleases below).
DeviceComesBack ==
    \A d \in Devices :
        lock[d] # "none" ~> lock[d] = "none" \/ executor = "shut" \/ Unreachable(d)

\* A power-cycled device gets a connection that works, by polling alone, unless
\* something that nothing wakes holds it.
Recovers ==
    \A d \in Devices :
        device[d] = "stale" ~> device[d] # "stale" \/ executor = "shut" \/ Unreachable(d)

\* An ordinary light command that the bulb has answered ends the flashing, an
\* older loop that outlived its successor's start included, unless another flash
\* is asked for, a write hangs or the controller is stopped (a call that stop()
\* meets keeps the bulb's lock).  It says nothing of a command that never got to
\* the bulb: refused because the loop itself held the lock, answered with the
\* last second's answer, or met by a refresh (LightEndsFlashing below).
FlashingStops ==
    \A c \in Callers :
        At(c, "record") /\ call[c].ok /\ call[c].cmd \in {"on", "off"} ~>
            \/ \A f \in Flashes : flash[f].at = "dead"
            \/ \E b \in Callers : call[b].cmd = "flash"
            \/ job["bulb"].cmd = "flash" \/ Unreachable("bulb") \/ executor = "shut"

\* Polling alone brings the logical light in line with the bulb, whatever
\* happened before, power cuts and failed commands included, once nothing else is
\* asked for, the bulb has power and no loop flashes it.
PollConverges ==
    <>[][\A c \in Callers : Request(c) => call'[c].cmd = "poll"]_vars =>
        (<>[](/\ executor = "open" /\ "bulb" \in powered
              /\ \A f \in Flashes : flash[f].at = "dead") =>
            <>[](light.on = bulb))

(* Statements of the documentation that the code does not keep. *)

Quiet ==
    /\ \A c \in Callers : call[c] = Idle
    /\ \A d \in Devices : job[d] = NoJob
    /\ \A f \in Flashes : flash[f].at = "dead"

\* tools.py: "off=lights off no mode": with nothing left to happen, a light that
\* was confirmed to be off is off.
OffIsDark == Quiet /\ light.confirmed /\ ~light.on => ~bulb

\* test_alarm_flash_becomes_steady: the light command that follows the flash of
\* an alarm ends the flashing.  The loop goes on if it held the bulb just when
\* the command came.
LightEndsFlashing ==
    \A c \in Callers :
        At(c, "logical") /\ call[c].cmd \in {"on", "off"} ~>
            \/ \A f \in Flashes : flash[f].at = "dead"
            \/ \E b \in Callers : call[b].cmd = "flash"
            \/ job["bulb"].cmd = "flash"

\* "Closing the SDK's public device socket wakes a blocked recv so this worker
\* can release its slot instead of becoming permanent": with refresh, too.
WorkerReleases == \A d \in Devices : job[d] # NoJob ~> job[d] = NoJob
=============================================================================
