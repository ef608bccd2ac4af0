------------------------- MODULE TuyaControllerProofs -------------------------
(***************************************************************************)
(* Proofs about TuyaController, for any callers, slots and flash threads:   *)
(* type correctness, that no path leaks a slot or a device, and            *)
(* that the breaker of a device that keeps failing is not left closed.     *)
(*                                                                         *)
(* The argument.  A submitted operation and its lock come and go together  *)
(* (Held), and the slots that are missing are at least the operations      *)
(* (Balance); exactly so until the executor is shut down, after which a    *)
(* call that submits loses its lock and its slot.  An operation gives its  *)
(* result only to the call that waits for it (Linked), so a caller that    *)
(* timed out is not sent back.  For the breaker it matters that the call   *)
(* that closed it finds a slot: it holds the device's lock, so its device  *)
(* has no operation, and the others cannot take all the slots.             *)
(***************************************************************************)
EXTENDS TuyaController, FiniteSetTheorems, TLAPS

Busy == {d \in Devices : job[d] # NoJob}

\* A call that holds its device's lock: from taking it to submitting.
InSection(c, d) == call[c].dev = d /\ call[c].at \in {"probe", "submit"}

Real == \A d \in Devices : job[d].at = "none" => job[d] = NoJob

Linked ==
    \A d \in Devices :
        job[d].by # "none" => call[job[d].by].at = "wait" /\ call[job[d].by].dev = d

Balance ==
    /\ slots + Cardinality(Busy) <= Slots
    /\ executor = "open" => slots + Cardinality(Busy) = Slots

HeldAt(d) ==
    /\ lock[d] = "job" <=> d \in Busy
    /\ \A c \in Callers : InSection(c, d) => lock[d] = c
    /\ \A c \in Callers : executor = "open" /\ lock[d] = c => InSection(c, d)
    /\ \A f \in Flashes : lock[d] = f <=> d = "bulb" /\ flash[f].at \in {"io", "hung"}
Held == \A d \in Devices : HeldAt(d)

\* What is remembered is a light command.
Fitting(r) == r.at = "remember" => r.cmd \in LightCommands
Sensible == \A c \in Callers : Fitting(call[c])

IInv == TypeOK /\ Sensible /\ Real /\ Linked /\ Balance /\ Held

-----------------------------------------------------------------------------
(* Values *)

LEMMA Names ==
    /\ "bulb" \in Devices /\ Slots \in Nat /\ Slots > 0
    /\ \A c \in Callers : c # "none" /\ c # "job" /\ c \notin Flashes
    /\ \A f \in Flashes : f # "none" /\ f # "job"
BY DevicesAssumption, SlotsAssumption, NamesAssumption

LEMMA FewDevices == IsFiniteSet(Devices) /\ \A S \in SUBSET Devices : IsFiniteSet(S)
<1>1. IsFiniteSet({"bulb", "he20"})
  <2>1. IsFiniteSet({} \cup {"bulb"})
    BY FS_EmptySet, FS_AddElement
  <2>2. IsFiniteSet(({} \cup {"bulb"}) \cup {"he20"})
    BY <2>1, FS_AddElement
  <2>3. ({} \cup {"bulb"}) \cup {"he20"} = {"bulb", "he20"}
    OBVIOUS
  <2> QED BY <2>2, <2>3
<1>2. IsFiniteSet(Devices)
  BY <1>1, FS_Subset, DevicesAssumption
<1> QED BY <1>2, FS_Subset

LEMMA NoneAreTyped ==
    /\ Idle \in Calls /\ Idle.at = "idle" /\ Idle.dev = "bulb"
    /\ NoJob \in Jobs /\ NoJob.at = "none" /\ NoJob.by = "none"
    /\ NoFlash \in FlashLoops /\ NoFlash.at = "dead"
<1>1. Idle \in Calls /\ Idle.at = "idle" /\ Idle.dev = "bulb"
  <2>1. 0 \in 0..Threshold
    BY DEF Threshold
  <2> QED BY <2>1, Names DEF Idle, Calls, Places
<1>2. NoJob \in Jobs /\ NoJob.at = "none" /\ NoJob.by = "none"
  BY DEF NoJob, Jobs
<1>3. NoFlash \in FlashLoops /\ NoFlash.at = "dead"
  BY DEF NoFlash, FlashLoops
<1> QED BY <1>1, <1>2, <1>3

LEMMA JobsEqual ==
    ASSUME NEW i \in Jobs, NEW j \in Jobs, i.at = j.at, i.by = j.by, i.cmd = j.cmd, i.conn = j.conn,
           i.own = j.own, i.ok = j.ok, i.seen = j.seen
    PROVE  i = j
BY DEF Jobs

LEMMA NoJobStays ==
    /\ [NoJob EXCEPT !.own = FALSE] = NoJob
    /\ [NoJob EXCEPT !.by = "none", !.at = "none"] = NoJob
    /\ [NoJob EXCEPT !.conn = "none"] = NoJob
<1>1. ASSUME NEW j \in Jobs, j.at = "none", j.by = "none", j.cmd = "none", j.conn = "none",
             j.own = FALSE, j.ok = FALSE, j.seen = "none"
      PROVE  j = NoJob
  BY <1>1, JobsEqual, NoneAreTyped DEF NoJob
<1>2. [NoJob EXCEPT !.own = FALSE] = NoJob
  <2> DEFINE j == [NoJob EXCEPT !.own = FALSE]
  <2>1. j \in Jobs
    BY NoneAreTyped DEF Jobs
  <2>2. j.at = "none" /\ j.by = "none" /\ j.cmd = "none" /\ j.conn = "none" /\ j.seen = "none"
    BY DEF NoJob
  <2>3. j.ok = FALSE
    BY DEF NoJob
  <2>4. j.own = FALSE
    BY DEF NoJob
  <2> HIDE DEF j
  <2>5. j = NoJob
    BY <1>1, <2>1, <2>2, <2>3, <2>4
  <2> QED BY <2>5 DEF j
<1>3. [NoJob EXCEPT !.by = "none", !.at = "none"] = NoJob
  <2> DEFINE j == [NoJob EXCEPT !.by = "none", !.at = "none"]
  <2>1. j \in Jobs
    BY NoneAreTyped DEF Jobs
  <2>2. j.at = "none" /\ j.by = "none" /\ j.cmd = "none" /\ j.conn = "none" /\ j.seen = "none"
    BY DEF NoJob
  <2>3. j.ok = FALSE
    BY DEF NoJob
  <2>4. j.own = FALSE
    BY DEF NoJob
  <2> HIDE DEF j
  <2>5. j = NoJob
    BY <1>1, <2>1, <2>2, <2>3, <2>4
  <2> QED BY <2>5 DEF j
<1>4. [NoJob EXCEPT !.conn = "none"] = NoJob
  BY <1>1 DEF NoJob, Jobs
<1> QED BY <1>2, <1>3, <1>4

LEMMA ReturnedType ==
    ASSUME NEW r \in Calls, NEW ok \in BOOLEAN, NEW seen \in {"none", "on", "off"}
    PROVE  /\ Returned(r, ok, seen) \in Calls
           /\ Returned(r, ok, seen).at \in {"remember", "breaker", "report"}
           /\ Fitting(Returned(r, ok, seen))
<1>1. CASE r.cmd \in LightCommands
  BY <1>1 DEF Fitting, Returned, Calls, Places, LightCommands
<1>2. CASE r.cmd \notin LightCommands /\ r.dev = "bulb"
  BY <1>2 DEF Fitting, Returned, Calls, Places, LightCommands
<1>3. CASE r.cmd \notin LightCommands /\ r.dev # "bulb"
  BY <1>3, Names DEF Fitting, Returned, Calls, Places, LightCommands
<1> QED BY <1>1, <1>2, <1>3

\* A step that takes no slot, submits nothing and holds no device.
LEMMA Frame ==
    ASSUME IInv, TypeOK', Sensible', Real', Linked',
           \A d \in Devices : job'[d] = NoJob <=> job[d] = NoJob,
           lock' = lock, slots' = slots, executor' \in {executor, "shut"},
           \A f \in Flashes : flash'[f].at \in {"io", "hung"} <=> flash[f].at \in {"io", "hung"},
           \A c \in Callers, d \in Devices : InSection(c, d)' <=> InSection(c, d)
    PROVE  IInv'
<1>1. Busy' = Busy
  BY DEF Busy
<1>2. Balance'
  BY <1>1 DEF IInv, Balance
<1>3. Held'
  BY <1>1 DEF IInv, Held, HeldAt
<1> QED BY <1>2, <1>3 DEF IInv

LEMMA InitIInv == Init => IInv
<1> SUFFICES ASSUME Init PROVE IInv
  OBVIOUS
<1>1. TypeOK
  <2>1. 0 \in 0..Threshold /\ NoLast \in [cmd : LightCommands \cup {"none"}, ok : BOOLEAN]
    BY DEF Threshold, NoLast
  <2>2. slots \in 0..Slots
    BY Names DEF Init
  <2> QED BY <2>1, <2>2, Names, NoneAreTyped DEF Init, TypeOK
<1>2. Real /\ Linked /\ Busy = {}
  BY NoneAreTyped DEF Init, Real, Linked, Busy
<1>3. Balance
  <2>1. Cardinality({}) = 0
    BY FS_EmptySet
  <2> QED BY <1>2, <2>1, Names DEF Balance, Init
<1>4. Sensible
  BY NoneAreTyped DEF Sensible, Fitting, Init
<1>5. Held
  BY <1>2, Names, NoneAreTyped DEF Held, HeldAt, InSection, Init
<1> QED BY <1>1, <1>2, <1>3, <1>4, <1>5 DEF IInv

-----------------------------------------------------------------------------
(* Callers *)

\* A caller that neither waits nor holds a device goes on.
LEMMA CallGoesOn ==
    ASSUME IInv, NEW c \in Callers, NEW r \in Calls,
           call' = [call EXCEPT ![c] = r],
           call[c].at \notin {"probe", "submit", "wait"}, r.at \notin {"probe", "submit"}, Fitting(r)
    PROVE  /\ call' \in [Callers -> Calls] /\ Sensible'
           /\ \A b \in Callers, d \in Devices : InSection(b, d)' <=> InSection(b, d)
           /\ (\A d \in Devices : job'[d].by = job[d].by) => Linked'
<1>1. call \in [Callers -> Calls] /\ job \in [Devices -> Jobs] /\ Linked
  BY DEF IInv, TypeOK
<1>2. call' \in [Callers -> Calls] /\ call'[c] = r /\ \A b \in Callers : b # c => call'[b] = call[b]
  BY <1>1
<1>3. \A b \in Callers, d \in Devices : InSection(b, d)' <=> InSection(b, d)
  BY <1>2 DEF InSection
<1>4. ASSUME \A d \in Devices : job'[d].by = job[d].by PROVE Linked'
  <2> SUFFICES ASSUME NEW d \in Devices, job'[d].by # "none"
               PROVE  call'[job'[d].by].at = "wait" /\ call'[job'[d].by].dev = d
    BY DEF Linked
  <2>1. job[d].by # "none" /\ job[d].by \in Callers /\ job'[d].by = job[d].by
    BY <1>1, <1>4 DEF Jobs
  <2>2. call[job[d].by].at = "wait" /\ call[job[d].by].dev = d
    BY <1>1, <2>1 DEF Linked
  <2>3. job[d].by # c
    BY <2>2
  <2> QED BY <1>2, <2>1, <2>2, <2>3
<1>5. Sensible'
  BY <1>2 DEF IInv, Sensible, Fitting
<1> QED BY <1>2, <1>3, <1>4, <1>5

\* The variables the leaks are about.
held == <<lock, slots, executor, job, flash>>

LEMMA CallFrame ==
    ASSUME IInv, NEW c \in Callers, NEW r \in Calls,
           call' = [call EXCEPT ![c] = r],
           call[c].at \notin {"probe", "submit", "wait"}, r.at \notin {"probe", "submit"}, Fitting(r),
           UNCHANGED held, call' \in [Callers -> Calls] => TypeOK'
    PROVE  IInv'
<1>1. /\ call' \in [Callers -> Calls] /\ Linked' /\ Sensible'
      /\ \A b \in Callers, d \in Devices : InSection(b, d)' <=> InSection(b, d)
  BY CallGoesOn DEF held
<1>2. TypeOK' /\ Real'
  BY <1>1 DEF IInv, Real, held
<1> QED BY <1>1, <1>2, Frame DEF held

LEMMA RequestKeeps == ASSUME IInv, NEW c \in Callers, Request(c) PROVE IInv'
<1>1. PICK cmd \in Commands \ {"stop_flash", "stop"} :
         call' = [call EXCEPT ![c] =
                   [Idle EXCEPT !.cmd = cmd,
                                !.at = IF cmd \in LightCommands THEN "logical"
                                       ELSE IF cmd = "poll" THEN "breaker" ELSE "clear"]]
  BY DEF Request
<1>2. cmd \in LightCommands \cup {"poll", "refresh"}
  BY NamesAssumption DEF LightCommands
<1>3. /\ At(c, "idle") /\ UNCHANGED held
      /\ call' \in [Callers -> Calls] => TypeOK'
  BY DEF Request, IInv, TypeOK, held, runVars, flashVars, roomVars
<1> DEFINE r == [Idle EXCEPT !.cmd = cmd,
                             !.at = IF cmd \in LightCommands THEN "logical"
                                    ELSE IF cmd = "poll" THEN "breaker" ELSE "clear"]
<1>4. r \in Calls /\ r.at \notin {"probe", "submit"} /\ Fitting(r)
  <2>1. cmd \in LightCommands \cup {"poll", "refresh", "none"}
    BY <1>2
  <2> QED BY <2>1, NoneAreTyped DEF Fitting, Calls, Places
<1> HIDE DEF r
<1>5. call' = [call EXCEPT ![c] = r]
  BY <1>1 DEF r
<1> QED BY <1>3, <1>4, <1>5, CallFrame DEF At

LEMMA LogicalKeeps ==
    ASSUME IInv, NEW c \in Callers,
           WriteLogical(c) \/ Deduplicate(c) \/ CheckBreaker(c) \/ Record(c) \/ Count(c) \/ Trip(c)
           \/ Remember(c) \/ Report(c) \/ Reconnect(c) \/ ResetHealth(c)
    PROVE  IInv'
<1>1. call[c] \in Calls /\ call \in [Callers -> Calls] /\ TypeOK
  BY DEF IInv, TypeOK
<1>2. ASSUME NEW place \in Places \ {"probe", "submit", "remember"}, Goto(c, place)
      PROVE  \E r \in Calls : call' = [call EXCEPT ![c] = r] /\ r.at \notin {"probe", "submit"} /\ Fitting(r)
  <2>1. [call[c] EXCEPT !.at = place] \in Calls /\ [call[c] EXCEPT !.at = place].at = place
    BY <1>1 DEF Calls
  <2>2. call' = [call EXCEPT ![c] = [call[c] EXCEPT !.at = place]]
    BY <1>1, <1>2 DEF Goto
  <2> QED BY <2>1, <2>2 DEF Fitting
<1>3. ASSUME NEW ok \in BOOLEAN, Return(c, ok)
      PROVE  \E r \in Calls : call' = [call EXCEPT ![c] = r] /\ r.at \notin {"probe", "submit"} /\ Fitting(r)
  <2>1. call[c].seen \in {"none", "on", "off"}
    BY <1>1 DEF Calls
  <2>2. call' = [call EXCEPT ![c] = Returned(call[c], ok, call[c].seen)]
    BY <1>1, <1>3 DEF Return
  <2> QED BY <1>1, <2>1, <2>2, ReturnedType
<1>4. {"dedup", "breaker", "lock", "report", "trip", "reset"} \subseteq Places \ {"probe", "submit", "remember"}
  BY DEF Places
<1>5. \E r \in Calls : call' = [call EXCEPT ![c] = r] /\ r.at \notin {"probe", "submit"} /\ Fitting(r)
  <2>1. CASE WriteLogical(c) \/ CheckBreaker(c) \/ Trip(c) \/ Remember(c)
             \/ Reconnect(c) \/ ResetHealth(c)
    BY <1>2, <1>3, <1>4, <2>1 DEF WriteLogical, CheckBreaker, Trip, Remember, Reconnect,
       ResetHealth
  <2>2. CASE Deduplicate(c)
    <3>1. last.ok \in BOOLEAN
      BY <1>1 DEF TypeOK
    <3>2. /\ [call[c] EXCEPT !.at = "report", !.ok = last.ok] \in Calls
          /\ [call[c] EXCEPT !.at = "breaker"] \in Calls
          /\ [call[c] EXCEPT !.at = "report", !.ok = last.ok].at = "report"
          /\ [call[c] EXCEPT !.at = "breaker"].at = "breaker"
      BY <1>1, <3>1 DEF Calls, Places
    <3>3. \/ call' = [call EXCEPT ![c] = [call[c] EXCEPT !.at = "report", !.ok = last.ok]]
          \/ call' = [call EXCEPT ![c] = [call[c] EXCEPT !.at = "breaker"]]
      BY <1>1, <2>2 DEF Deduplicate
    <3> QED BY <3>2, <3>3 DEF Fitting
  <2>3. CASE Report(c)
    BY <2>3, NoneAreTyped DEF Report, Fitting
  <2>4. CASE Record(c)
    <3>1. CASE call[c].ok
      BY <1>3, <2>4, <3>1 DEF Record
    <3>2. CASE ~call[c].ok
      <4> DEFINE n == IF failures[call[c].dev] < Threshold THEN failures[call[c].dev] + 1
                      ELSE Threshold
                 r == [call[c] EXCEPT !.at = "count", !.count = n]
      <4>1. n \in 0..Threshold
        <5>1. failures[call[c].dev] \in 0..Threshold
          BY <1>1 DEF TypeOK, Calls
        <5> QED BY <5>1 DEF Threshold
      <4>2. call' = [call EXCEPT ![c] = r]
        BY <1>1, <2>4, <3>2 DEF Record
      <4> HIDE DEF n
      <4>3. r \in Calls /\ r.at = "count"
        BY <1>1, <4>1 DEF Calls, Places
      <4> QED BY <4>2, <4>3 DEF Fitting
    <3> QED BY <3>1, <3>2
  <2>5. CASE Count(c)
    <3> DEFINE r == [call[c] EXCEPT !.at = "trip", !.count = 0]
    <3>1. r \in Calls /\ r.at = "trip"
      <4>1. 0 \in 0..Threshold
        BY DEF Threshold
      <4> QED BY <1>1, <4>1 DEF Calls, Places
    <3>2. call' = [call EXCEPT ![c] = r]
      BY <1>1, <2>5 DEF Count
    <3> QED BY <3>1, <3>2 DEF Fitting
  <2> QED BY <2>1, <2>2, <2>3, <2>4, <2>5
<1>6. call[c].at \notin {"probe", "submit", "wait"} /\ UNCHANGED held
  BY DEF WriteLogical, Deduplicate, CheckBreaker, Record, Count, Trip, Remember, Report, Reconnect,
     ResetHealth, At, held, runVars, flashVars
<1>7. call' \in [Callers -> Calls] => TypeOK'
  <2> SUFFICES ASSUME call' \in [Callers -> Calls] PROVE TypeOK'
    OBVIOUS
  <2>1. CASE Deduplicate(c) \/ CheckBreaker(c)
    BY <1>1, <2>1 DEF Deduplicate, CheckBreaker, TypeOK, runVars, flashVars, roomVars
  <2>2. CASE WriteLogical(c)
    BY <1>1, <2>2 DEF WriteLogical, TypeOK, runVars, flashVars
  <2>3. CASE Record(c) \/ Count(c)
    <3>1. failures' \in [Devices -> 0..Threshold]
      <4>1. failures \in [Devices -> 0..Threshold] /\ call[c].count \in 0..Threshold
        BY <1>1 DEF TypeOK, Calls
      <4>2. 0 \in 0..Threshold
        BY DEF Threshold
      <4>3. \/ failures' = failures
            \/ failures' = [failures EXCEPT ![call[c].dev] = 0]
            \/ failures' = [failures EXCEPT ![call[c].dev] = call[c].count]
        BY <2>3 DEF Record, Count
      <4> QED BY <4>1, <4>2, <4>3
    <3> QED BY <1>1, <2>3, <3>1 DEF Record, Count, TypeOK, flashVars, roomVars
  <2>4. CASE Trip(c)
    <3>1. circuit' \in [Devices -> {"closed", "open", "expired"}]
      BY <1>1, <2>4 DEF Trip, TypeOK
    <3> QED BY <1>1, <2>4, <3>1 DEF Trip, TypeOK, flashVars, roomVars
  <2>5. CASE Remember(c)
    <3>1. call[c].cmd \in LightCommands
      BY <2>5 DEF Remember, At, IInv, Sensible, Fitting
    <3>2. last' \in [cmd : LightCommands \cup {"none"}, ok : BOOLEAN]
      BY <1>1, <2>5, <3>1 DEF Remember, Calls
    <3> QED BY <1>1, <2>5, <3>2 DEF Remember, TypeOK, flashVars, roomVars
  <2>6. CASE Report(c)
    <3>1. light' \in [on : BOOLEAN, confirmed : BOOLEAN]
      BY <1>1, <2>6 DEF Report, Published, TypeOK, Calls
    <3> QED BY <1>1, <2>6, <3>1 DEF Report, TypeOK, runVars, flashVars
  <2>7. CASE Reconnect(c)
    BY <1>1, <2>7 DEF Reconnect, TypeOK, flashVars, roomVars
  <2>8. CASE ResetHealth(c)
    BY <1>1, <2>8 DEF ResetHealth, TypeOK, flashVars, roomVars, NoLast, Threshold
  <2> QED BY <2>1, <2>2, <2>3, <2>4, <2>5, <2>6, <2>7, <2>8
<1> QED BY <1>5, <1>6, <1>7, CallFrame

LEMMA ClearDevicesKeeps == ASSUME IInv, NEW c \in Callers, ClearDevices(c) PROVE IInv'
<1>1. /\ TypeOK /\ job \in [Devices -> Jobs] /\ call \in [Callers -> Calls] /\ call[c] \in Calls
      /\ Real /\ call[c].at = "clear"
  BY DEF IInv, TypeOK, ClearDevices, At
<1> DEFINE r == [call[c] EXCEPT !.at = "reconnect"]
<1>2. r \in Calls /\ r.at = "reconnect" /\ Fitting(r)
  BY <1>1 DEF Calls, Places, Fitting
<1>3. call' = [call EXCEPT ![c] = r]
  BY <1>1 DEF ClearDevices, Goto
<1> HIDE DEF r
<1>4. /\ \A d \in Devices : job'[d] \in Jobs /\ job'[d].by = job[d].by /\ job'[d].at = job[d].at
      /\ \A d \in Devices : job[d] = NoJob => job'[d] = NoJob
  <2>1. ASSUME NEW d \in Devices
        PROVE  /\ job'[d] \in Jobs /\ job'[d].by = job[d].by /\ job'[d].at = job[d].at
               /\ job[d] = NoJob => job'[d] = NoJob
    <3>1. job'[d] = [job[d] EXCEPT !.own = FALSE] /\ job[d] \in Jobs
      BY <1>1 DEF ClearDevices
    <3>2. job'[d] \in Jobs /\ job'[d].by = job[d].by /\ job'[d].at = job[d].at
      BY <3>1 DEF Jobs
    <3> QED BY <3>1, <3>2, NoJobStays
  <2> QED BY <2>1
<1>5. job' \in [Devices -> Jobs]
  BY <1>4 DEF ClearDevices
<1>6. \A d \in Devices : job'[d] = NoJob <=> job[d] = NoJob
  BY <1>1, <1>4, NoneAreTyped DEF Real
<1>7. Real'
  BY <1>1, <1>4, <1>6 DEF Real
<1>8. PICK q : q = r
  OBVIOUS
<1>9. /\ call' \in [Callers -> Calls] /\ Linked' /\ Sensible'
      /\ \A b \in Callers, d \in Devices : InSection(b, d)' <=> InSection(b, d)
  BY <1>1, <1>2, <1>3, <1>4, <1>8, CallGoesOn
<1>10. TypeOK'
  BY <1>1, <1>5, <1>9 DEF ClearDevices, TypeOK, flashVars, roomVars
<1> QED BY <1>6, <1>7, <1>9, <1>10, Frame DEF ClearDevices, flashVars

LEMMA ProbeGoesOn == ASSUME IInv, NEW c \in Callers, Probe(c) PROVE IInv'
<1>1. /\ TypeOK /\ call \in [Callers -> Calls] /\ call[c] \in Calls /\ call[c].at = "probe"
      /\ job \in [Devices -> Jobs]
  BY DEF IInv, TypeOK, Probe, At
<1>2. /\ call' = [call EXCEPT ![c].at = "submit"] /\ UNCHANGED held
      /\ UNCHANGED <<failures, connecting, last, flashVars, roomVars>>
  BY DEF Probe, Goto, held, flashVars
<1>3. /\ call' \in [Callers -> Calls] /\ call'[c].at = "submit" /\ call'[c].dev = call[c].dev
      /\ \A b \in Callers : b # c => call'[b] = call[b]
  BY <1>1, <1>2 DEF Calls, Places
<1>4. \A b \in Callers, d \in Devices : InSection(b, d)' <=> InSection(b, d)
  BY <1>1, <1>3 DEF InSection
<1>5. TypeOK'
  <2>1. device' \in [Devices -> {"ok", "stale", "none"}]
    BY <1>1 DEF Probe, TypeOK
  <2>2. circuit' \in [Devices -> {"closed", "open", "expired"}]
    BY <1>1 DEF Probe, TypeOK
  <2> QED BY <1>1, <1>2, <1>3, <2>1, <2>2 DEF TypeOK, held, flashVars, roomVars
<1>6. Sensible'
  BY <1>3 DEF IInv, Sensible, Fitting
<1>7. Real'
  BY <1>2 DEF IInv, Real, held
<1>8. Linked'
  <2>1. \A d \in Devices : job[d].by # "none" => job[d].by \in Callers /\ job[d].by # c
    BY <1>1 DEF IInv, Linked, Jobs
  <2> QED BY <1>2, <1>3, <2>1 DEF IInv, Linked, held
<1> QED BY <1>2, <1>4, <1>5, <1>6, <1>7, <1>8, Frame DEF held

LEMMA TryLockKeeps == ASSUME IInv, NEW c \in Callers, TryLock(c) PROVE IInv'
<1> DEFINE dev == call[c].dev
<1>1. /\ TypeOK /\ call \in [Callers -> Calls] /\ call[c] \in Calls /\ call[c].at = "lock"
      /\ dev \in Devices /\ lock \in [Devices -> Callers \cup Flashes \cup {"job", "none"}]
      /\ job \in [Devices -> Jobs]
  BY DEF IInv, TypeOK, TryLock, At, Calls
<1>2. CASE lock[dev] # "none"
  <2> DEFINE r == Returned(call[c], FALSE, call[c].seen)
  <2>1. r \in Calls /\ r.at \in {"remember", "breaker", "report"} /\ Fitting(r)
    <3>1. call[c].seen \in {"none", "on", "off"}
      BY <1>1 DEF Calls
    <3> QED BY <1>1, <3>1, ReturnedType
  <2>2. call' = [call EXCEPT ![c] = r] /\ UNCHANGED held
    BY <1>1, <1>2 DEF TryLock, Return, held, flashVars
  <2> HIDE DEF r
  <2>3. call' \in [Callers -> Calls] => TypeOK'
    BY <1>1, <2>2 DEF TryLock, TypeOK, held, flashVars, roomVars
  <2>4. PICK q : q = r
    OBVIOUS
  <2>5. q \in Calls /\ q.at \notin {"probe", "submit"} /\ Fitting(q) /\ call' = [call EXCEPT ![c] = q]
    BY <2>1, <2>2, <2>4
  <2> QED BY <1>1, <2>2, <2>3, <2>5, CallFrame
<1>3. CASE lock[dev] = "none"
  <2>1. /\ lock' = [lock EXCEPT ![dev] = c] /\ call' = [call EXCEPT ![c].at = "probe"]
        /\ UNCHANGED <<slots, failures, circuit, device, connecting, job, last, executor>>
        /\ UNCHANGED flashVars /\ UNCHANGED roomVars
    BY <1>3 DEF TryLock, Goto
  <2>2. /\ call' \in [Callers -> Calls] /\ call'[c].at = "probe" /\ call'[c].dev = dev
        /\ \A b \in Callers : b # c => call'[b] = call[b]
    BY <1>1, <2>1 DEF Calls, Places
  <2>3. /\ lock' \in [Devices -> Callers \cup Flashes \cup {"job", "none"}]
        /\ lock'[dev] = c /\ \A d \in Devices : d # dev => lock'[d] = lock[d]
    BY <1>1, <2>1
  <2>4. TypeOK'
    BY <1>1, <2>1, <2>2, <2>3 DEF TypeOK, flashVars, roomVars
  <2>5. Sensible' /\ Real'
    BY <2>1, <2>2 DEF IInv, Sensible, Fitting, Real
  <2>6. Linked'
    <3>1. \A d \in Devices : job[d].by # "none" => job[d].by \in Callers /\ job[d].by # c
      BY <1>1 DEF IInv, Linked, Jobs
    <3> QED BY <2>1, <2>2, <3>1 DEF IInv, Linked
  <2>7. Busy' = Busy /\ Balance'
    BY <2>1 DEF IInv, Busy, Balance
  <2>8. Held'
    <3> SUFFICES ASSUME NEW d \in Devices
                 PROVE  /\ lock'[d] = "job" <=> d \in Busy
                        /\ \A b \in Callers : InSection(b, d)' => lock'[d] = b
                        /\ \A b \in Callers : executor = "open" /\ lock'[d] = b => InSection(b, d)'
                        /\ \A f \in Flashes : lock'[d] = f <=> d = "bulb" /\ flash[f].at \in {"io", "hung"}
      BY <2>1, <2>7 DEF Held, HeldAt, flashVars
    <3> HIDE DEF dev
    <3>1. \A b \in Callers : b # c => (InSection(b, d)' <=> InSection(b, d))
      BY <2>2 DEF InSection
    <3>2. InSection(c, d)' <=> d = dev
      BY <2>2 DEF InSection
    <3>3. ~InSection(c, d)
      BY <1>1 DEF InSection
    <3>4. /\ lock[d] = "job" <=> d \in Busy
          /\ \A b \in Callers : InSection(b, d) => lock[d] = b
          /\ \A b \in Callers : executor = "open" /\ lock[d] = b => InSection(b, d)
          /\ \A f \in Flashes : lock[d] = f <=> d = "bulb" /\ flash[f].at \in {"io", "hung"}
      BY DEF IInv, Held, HeldAt
    <3>5. CASE d = dev
      BY <1>3, <2>3, <3>1, <3>2, <3>4, <3>5, Names
    <3>6. CASE d # dev
      BY <2>3, <3>1, <3>2, <3>3, <3>4, <3>6, Names
    <3> QED BY <3>5, <3>6
  <2> QED BY <2>4, <2>5, <2>6, <2>7, <2>8 DEF IInv
<1> QED BY <1>2, <1>3

\* A caller that waits is linked to no other device than its own.
LEMMA OneLink ==
    ASSUME IInv, NEW d \in Devices, NEW e \in Devices, job[d].by # "none", job[d].by = job[e].by
    PROVE  d = e /\ job[d].by \in Callers
BY DEF IInv, Linked, TypeOK, Jobs

LEMMA SubmitKeeps == ASSUME IInv, NEW c \in Callers, Submit(c) PROVE IInv'
<1> DEFINE dev == call[c].dev
<1>1. /\ TypeOK /\ call \in [Callers -> Calls] /\ call[c] \in Calls /\ call[c].at = "submit"
      /\ dev \in Devices /\ lock \in [Devices -> Callers \cup Flashes \cup {"job", "none"}]
      /\ job \in [Devices -> Jobs] /\ slots \in 0..Slots /\ Slots \in Nat
  BY Names DEF IInv, TypeOK, Submit, At, Calls
<1>2. InSection(c, dev) /\ lock[dev] = c /\ dev \notin Busy /\ ~(\E f \in Flashes : lock[dev] = f)
  BY <1>1, Names DEF IInv, Held, HeldAt, InSection
<1>3. /\ UNCHANGED <<failures, circuit, device, connecting, last, executor>>
      /\ UNCHANGED flashVars /\ UNCHANGED roomVars
  BY DEF Submit
<1>4. \A d \in Devices : job[d].by # "none" => job[d].by \in Callers /\ job[d].by # c
  BY <1>1 DEF IInv, Linked, Jobs
<1>5. \A d \in Devices : HeldAt(d)
  BY DEF IInv, Held
\* What is common to the three ways: the caller leaves the section.
<1>6. ASSUME NEW r \in Calls, call' = [call EXCEPT ![c] = r], r.at \notin {"probe", "submit"}, Fitting(r)
      PROVE  /\ call' \in [Callers -> Calls] /\ call'[c] = r /\ Sensible'
             /\ \A b \in Callers : b # c => call'[b] = call[b]
             /\ \A b \in Callers, d \in Devices : InSection(b, d)' <=> b # c /\ InSection(b, d)
  <2>1. /\ call' \in [Callers -> Calls] /\ call'[c] = r
        /\ \A b \in Callers : b # c => call'[b] = call[b]
    BY <1>1, <1>6
  <2>2. Sensible'
    BY <1>6, <2>1 DEF IInv, Sensible, Fitting
  <2>3. \A b \in Callers, d \in Devices : InSection(b, d)' <=> b # c /\ InSection(b, d)
    BY <1>6, <2>1 DEF InSection
  <2> QED BY <2>1, <2>2, <2>3
<1>7. CASE /\ slots = 0 /\ lock' = [lock EXCEPT ![dev] = "none"] /\ Return(c, FALSE)
           /\ UNCHANGED <<slots, job>>
  <2>1. PICK r \in Calls : call' = [call EXCEPT ![c] = r] /\ r.at \notin {"probe", "submit"} /\ Fitting(r)
    <3>1. call[c].seen \in {"none", "on", "off"}
      BY <1>1 DEF Calls
    <3>2. call' = [call EXCEPT ![c] = Returned(call[c], FALSE, call[c].seen)]
      BY <1>1, <1>7 DEF Return
    <3> QED BY <1>1, <3>1, <3>2, ReturnedType
  <2>2. /\ call' \in [Callers -> Calls] /\ call'[c] = r /\ Sensible'
        /\ \A b \in Callers : b # c => call'[b] = call[b]
        /\ \A b \in Callers, d \in Devices : InSection(b, d)' <=> b # c /\ InSection(b, d)
    BY <1>6, <2>1
  <2> HIDE DEF dev
  <2>3. /\ lock' \in [Devices -> Callers \cup Flashes \cup {"job", "none"}]
        /\ lock'[dev] = "none" /\ \A d \in Devices : d # dev => lock'[d] = lock[d]
    BY <1>1, <1>7
  <2>4. TypeOK'
    BY <1>1, <1>3, <1>7, <2>2, <2>3 DEF TypeOK, flashVars, roomVars
  <2>5. Real' /\ Linked'
    BY <1>4, <1>7, <2>2 DEF IInv, Real, Linked
  <2>6. Busy' = Busy /\ Balance'
    BY <1>3, <1>7 DEF IInv, Busy, Balance
  <2>7. Held'
    <3> SUFFICES ASSUME NEW d \in Devices PROVE HeldAt(d)'
      BY DEF Held
    <3>1. HeldAt(d) /\ flash' = flash /\ executor' = executor
      BY <1>3, <1>5 DEF flashVars
    <3>2. CASE d = dev
      BY <1>2, <2>2, <2>3, <2>6, <3>1, <3>2, Names DEF HeldAt
    <3>3. CASE d # dev
      <4>1. ~InSection(c, d)
        BY <3>3 DEF InSection, dev
      <4> QED BY <2>2, <2>3, <2>6, <3>1, <3>3, <4>1, Names DEF HeldAt
    <3> QED BY <3>2, <3>3
  <2> QED BY <2>2, <2>4, <2>5, <2>6, <2>7 DEF IInv
<1>8. CASE slots > 0 /\ executor = "open" /\ HandOver(c, dev)
  <2> DEFINE r == [call[c] EXCEPT !.at = "wait"]
             new == [NoJob EXCEPT !.at = "start", !.by = c, !.cmd = call[c].cmd]
  <2>1. /\ slots' = slots - 1 /\ lock' = [lock EXCEPT ![dev] = "job"]
        /\ job' = [job EXCEPT ![dev] = new] /\ call' = [call EXCEPT ![c] = r]
    BY <1>1, <1>8 DEF HandOver, Goto
  <2>2. r \in Calls /\ r.at = "wait" /\ r.dev = dev /\ Fitting(r)
    BY <1>1 DEF Calls, Places, Fitting
  <2>3. new \in Jobs /\ new.at = "start" /\ new.by = c /\ new # NoJob
    <3>1. call[c].cmd \in LightCommands \cup {"poll", "refresh", "none"}
      BY <1>1 DEF Calls
    <3> QED BY <3>1 DEF Jobs, NoJob
  <2> HIDE DEF r, new, dev
  <2>4. PICK q : q = r
    OBVIOUS
  <2>5. /\ call' \in [Callers -> Calls] /\ call'[c] = q /\ Sensible'
        /\ \A b \in Callers : b # c => call'[b] = call[b]
        /\ \A b \in Callers, d \in Devices : InSection(b, d)' <=> b # c /\ InSection(b, d)
    <3>1. q \in Calls /\ call' = [call EXCEPT ![c] = q] /\ q.at \notin {"probe", "submit"} /\ Fitting(q)
      BY <2>1, <2>2, <2>4
    <3> QED BY <1>6, <3>1
  <2>6. /\ lock' \in [Devices -> Callers \cup Flashes \cup {"job", "none"}]
        /\ lock'[dev] = "job" /\ \A d \in Devices : d # dev => lock'[d] = lock[d]
    BY <1>1, <2>1
  <2>7. /\ job' \in [Devices -> Jobs] /\ job'[dev] = new
        /\ \A d \in Devices : d # dev => job'[d] = job[d]
    BY <1>1, <2>1, <2>3
  <2>8. slots' \in 0..Slots
    BY <1>1, <1>8, <2>1
  <2>9. TypeOK'
    BY <1>1, <1>3, <2>5, <2>6, <2>7, <2>8 DEF TypeOK, flashVars, roomVars
  <2>10. Real'
    BY <2>3, <2>7 DEF IInv, Real
  <2>11. Linked'
    <3> SUFFICES ASSUME NEW d \in Devices, job'[d].by # "none"
                 PROVE  call'[job'[d].by].at = "wait" /\ call'[job'[d].by].dev = d
      BY DEF Linked
    <3>1. CASE d = dev
      BY <2>2, <2>3, <2>4, <2>5, <2>7, <3>1
    <3>2. CASE d # dev
      BY <1>4, <2>5, <2>7, <3>2 DEF IInv, Linked
    <3> QED BY <3>1, <3>2
  <2>12. Busy' = Busy \cup {dev}
    BY <1>1, <1>2, <2>3, <2>7 DEF Busy
  <2>13. Balance'
    <3>1. IsFiniteSet(Busy) /\ Cardinality(Busy) \in Nat
      BY FewDevices, FS_CardinalityType DEF Busy
    <3>2. Cardinality(Busy') = Cardinality(Busy) + 1
      BY <1>2, <2>12, <3>1, FS_AddElement
    <3> QED BY <1>1, <1>3, <1>8, <2>1, <3>1, <3>2 DEF IInv, Balance
  <2>14. Held'
    <3> SUFFICES ASSUME NEW d \in Devices PROVE HeldAt(d)'
      BY DEF Held
    <3>1. HeldAt(d) /\ flash' = flash /\ executor' = executor
      BY <1>3, <1>5 DEF flashVars
    <3>2. CASE d = dev
      BY <1>2, <2>5, <2>6, <2>12, <3>1, <3>2, Names DEF HeldAt
    <3>3. CASE d # dev
      <4>1. ~InSection(c, d)
        BY <3>3 DEF InSection, dev
      <4> QED BY <2>5, <2>6, <2>12, <3>1, <3>3, <4>1, Names DEF HeldAt
    <3> QED BY <3>2, <3>3
  <2> QED BY <2>5, <2>9, <2>10, <2>11, <2>13, <2>14 DEF IInv
<1>9. CASE slots > 0 /\ executor = "shut" /\ SubmitRaises(c)
  <2>1. slots' = slots - 1 /\ UNCHANGED <<lock, job>> /\ call' = [call EXCEPT ![c] = Idle]
    BY <1>9 DEF SubmitRaises
  <2>2. /\ call' \in [Callers -> Calls] /\ call'[c] = Idle /\ Sensible'
        /\ \A b \in Callers : b # c => call'[b] = call[b]
        /\ \A b \in Callers, d \in Devices : InSection(b, d)' <=> b # c /\ InSection(b, d)
    BY <1>6, <2>1, NoneAreTyped DEF Fitting
  <2>3. slots' \in 0..Slots
    BY <1>1, <1>9, <2>1
  <2>4. TypeOK'
    BY <1>1, <1>3, <2>1, <2>2, <2>3 DEF TypeOK, flashVars, roomVars
  <2>5. Real' /\ Linked'
    BY <1>4, <2>1, <2>2 DEF IInv, Real, Linked
  <2>6. Busy' = Busy
    BY <2>1 DEF Busy
  <2>7. Balance'
    <3>1. Cardinality(Busy) \in Nat
      BY FewDevices, FS_CardinalityType DEF Busy
    <3> QED BY <1>1, <1>3, <1>9, <2>1, <2>6, <3>1 DEF IInv, Balance
  <2>8. Held'
    <3> SUFFICES ASSUME NEW d \in Devices PROVE HeldAt(d)'
      BY DEF Held
    <3>1. HeldAt(d) /\ flash' = flash /\ executor' = "shut" /\ lock' = lock
      BY <1>3, <1>5, <1>9, <2>1 DEF flashVars
    <3> QED BY <2>2, <2>6, <3>1 DEF HeldAt
  <2> QED BY <2>2, <2>4, <2>5, <2>7, <2>8 DEF IInv
<1> QED BY <1>7, <1>8, <1>9 DEF Submit

-----------------------------------------------------------------------------
(* Operations *)

\* An operation goes on for whoever waits for it.
LEMMA JobGoesOn ==
    ASSUME IInv, NEW d \in Devices, NEW j \in Jobs, job' = [job EXCEPT ![d] = j],
           job[d].at # "none", j.at # "none", j.by = job[d].by, call' = call
    PROVE  /\ job' \in [Devices -> Jobs] /\ call' \in [Callers -> Calls]
           /\ Real' /\ Linked' /\ Sensible'
           /\ \A e \in Devices : job'[e] = NoJob <=> job[e] = NoJob
           /\ \A c \in Callers, e \in Devices : InSection(c, e)' <=> InSection(c, e)
<1>1. /\ job \in [Devices -> Jobs] /\ call \in [Callers -> Calls]
      /\ Real /\ Linked /\ Sensible
  BY DEF IInv, TypeOK
<1>2. job' \in [Devices -> Jobs] /\ job'[d] = j /\ \A e \in Devices : e # d => job'[e] = job[e]
  BY <1>1
<1>3. job[d] # NoJob /\ j # NoJob
  BY NoneAreTyped
<1>4. Real' /\ \A e \in Devices : job'[e] = NoJob <=> job[e] = NoJob
  BY <1>1, <1>2, <1>3 DEF Real
<1>5. Linked'
  BY <1>1, <1>2 DEF Linked
<1>6. Sensible' /\ \A c \in Callers, e \in Devices : InSection(c, e)' <=> InSection(c, e)
  BY <1>1 DEF Sensible, InSection
<1> QED BY <1>1, <1>2, <1>4, <1>5, <1>6

LEMMA JobKeeps ==
    ASSUME IInv, NEW d \in Devices,
           StartJob(d) \/ Answer(d) \/ GiveUp(d) \/ Hang(d) \/ StopOldFlash(d) \/ NewFlash(d)
    PROVE  IInv'
<1>1. /\ TypeOK /\ job \in [Devices -> Jobs] /\ job[d] \in Jobs
      /\ device[d] \in {"ok", "stale", "none"}
  BY DEF IInv, TypeOK
<1>2. job[d].at # "none" /\ call' = call
  BY DEF StartJob, Answer, GiveUp, Hang, StopOldFlash, NewFlash
<1>3. \E j \in Jobs : job' = [job EXCEPT ![d] = j] /\ j.at # "none" /\ j.by = job[d].by
  <2>1. ASSUME NEW place \in {"done", "hung", "join"}, job' = [job EXCEPT ![d].at = place]
        PROVE  \E j \in Jobs : job' = [job EXCEPT ![d] = j] /\ j.at # "none" /\ j.by = job[d].by
    <3>1. /\ [job[d] EXCEPT !.at = place] \in Jobs /\ [job[d] EXCEPT !.at = place].at = place
          /\ [job[d] EXCEPT !.at = place].by = job[d].by
      BY <1>1 DEF Jobs
    <3>2. job' = [job EXCEPT ![d] = [job[d] EXCEPT !.at = place]]
      BY <1>1, <2>1
    <3> QED BY <3>1, <3>2
  <2>2. CASE GiveUp(d) \/ Hang(d) \/ StopOldFlash(d) \/ NewFlash(d)
    BY <2>1, <2>2 DEF GiveUp, Hang, StopOldFlash, NewFlash
  <2>3. CASE StartJob(d)
    <3>1. CASE device[d] = "none"
      BY <2>1, <2>3, <3>1 DEF StartJob
    <3>2. CASE device[d] # "none"
      <4> DEFINE j == [job[d] EXCEPT !.at = "io", !.own = TRUE, !.conn = device[d]]
      <4>1. j \in Jobs /\ j.at = "io" /\ j.by = job[d].by
        BY <1>1 DEF Jobs
      <4>2. job' = [job EXCEPT ![d] = j]
        BY <1>1, <2>3, <3>2 DEF StartJob
      <4> QED BY <4>1, <4>2
    <3> QED BY <3>1, <3>2
  <2>4. CASE Answer(d)
    <3> DEFINE at == IF job[d].cmd = "flash" THEN "flash" ELSE "done"
               seen == IF d # "bulb" \/ job[d].cmd \in LightCommands THEN "none"
                       ELSE IF bulb THEN "on" ELSE "off"
               j == [job[d] EXCEPT !.at = at, !.ok = TRUE, !.seen = seen]
    <3>1. at \in {"flash", "done"} /\ seen \in {"none", "on", "off"}
      OBVIOUS
    <3>2. job' = [job EXCEPT ![d] = j]
      BY <1>1, <2>4 DEF Answer
    <3> HIDE DEF at, seen
    <3>3. j \in Jobs /\ j.at = at /\ j.by = job[d].by
      BY <1>1, <3>1 DEF Jobs
    <3> QED BY <3>1, <3>2, <3>3
  <2> QED BY <2>2, <2>3, <2>4
<1>4. /\ job' \in [Devices -> Jobs] /\ call' \in [Callers -> Calls]
      /\ Real' /\ Linked' /\ Sensible'
      /\ \A e \in Devices : job'[e] = NoJob <=> job[e] = NoJob
      /\ \A c \in Callers, e \in Devices : InSection(c, e)' <=> InSection(c, e)
  <2>1. PICK j \in Jobs : job' = [job EXCEPT ![d] = j] /\ j.at # "none" /\ j.by = job[d].by
    BY <1>3
  <2> QED BY <1>2, <2>1, JobGoesOn
<1>5. UNCHANGED <<lock, slots, failures, circuit, device, connecting, last, executor, light, powered>>
  BY DEF StartJob, Answer, GiveUp, Hang, StopOldFlash, NewFlash, roomVars
<1>6. bulb' \in BOOLEAN
  BY <1>1 DEF TypeOK, StartJob, Answer, GiveUp, Hang, StopOldFlash, NewFlash, roomVars
<1>7. flashStop' \in BOOLEAN /\ flashThread' \in Flashes \cup {"none"}
  <2>1. flashStop \in BOOLEAN /\ flashThread \in Flashes \cup {"none"}
    BY <1>1 DEF TypeOK
  <2>2. CASE StartJob(d)
    BY <2>1, <2>2 DEF StartJob
  <2>3. CASE NewFlash(d)
    BY <2>1, <2>3 DEF NewFlash
  <2>4. CASE StopOldFlash(d)
    BY <2>1, <2>4 DEF StopOldFlash
  <2> QED BY <2>1, <2>2, <2>3, <2>4 DEF Answer, GiveUp, Hang, flashVars
<1>8. /\ flash' \in [Flashes -> FlashLoops]
      /\ \A f \in Flashes : flash'[f].at \in {"io", "hung"} <=> flash[f].at \in {"io", "hung"}
  <2>1. flash \in [Flashes -> FlashLoops]
    BY <1>1 DEF TypeOK
  <2>2. CASE flash' = flash
    BY <2>1, <2>2
  <2>3. CASE NewFlash(d)
    <3>1. PICK f \in Flashes : /\ flash[f].at = "dead"
              /\ flash' = [g \in Flashes |->
                    IF g = f THEN [NoFlash EXCEPT !.at = "loop", !.conn = job[d].conn]
                    ELSE [flash[g] EXCEPT !.event = IF @ # "now" THEN @
                                                    ELSE IF flashStop THEN "set" ELSE "unset"]]
      BY <2>3 DEF NewFlash
    <3>2. job[d].conn \in {"ok", "stale", "none"}
      BY <1>1 DEF Jobs
    <3>3. /\ [NoFlash EXCEPT !.at = "loop", !.conn = job[d].conn] \in FlashLoops
          /\ [NoFlash EXCEPT !.at = "loop", !.conn = job[d].conn].at = "loop"
      BY <3>2 DEF NoFlash, FlashLoops
    <3>4. ASSUME NEW g \in Flashes, NEW e \in {"none", "now", "set", "unset"}
          PROVE  /\ [flash[g] EXCEPT !.event = e] \in FlashLoops
                 /\ [flash[g] EXCEPT !.event = e].at = flash[g].at
      BY <2>1 DEF FlashLoops
    <3>5. ASSUME NEW g \in Flashes
          PROVE  /\ flash'[g] \in FlashLoops
                 /\ flash'[g].at \in {"io", "hung"} <=> flash[g].at \in {"io", "hung"}
      <4>1. CASE g = f
        BY <3>1, <3>3, <4>1
      <4>2. CASE g # f
        <5>1. flash[g].event \in {"none", "now", "set", "unset"}
          BY <2>1 DEF FlashLoops
        <5>2. PICK e \in {"none", "now", "set", "unset"} : flash'[g] = [flash[g] EXCEPT !.event = e]
          BY <3>1, <4>2, <5>1
        <5> QED BY <3>4, <5>2
      <4> QED BY <4>1, <4>2
    <3>6. DOMAIN flash' = Flashes /\ flash' = [g \in DOMAIN flash' |-> flash'[g]]
      BY <3>1
    <3>7. \A g \in Flashes : flash'[g] \in FlashLoops
      BY <3>5
    <3>8. flash' \in [Flashes -> FlashLoops]
      BY <3>6, <3>7
    <3> QED BY <3>5, <3>8
  <2> QED BY <2>2, <2>3 DEF StartJob, Answer, GiveUp, Hang, StopOldFlash, flashVars
<1>9. TypeOK'
  BY <1>1, <1>4, <1>5, <1>6, <1>7, <1>8 DEF TypeOK
<1> QED BY <1>4, <1>5, <1>8, <1>9, Frame

LEMMA TimeoutKeeps == ASSUME IInv, NEW c \in Callers, Timeout(c) PROVE IInv'
<1> DEFINE dev == call[c].dev
<1>1. /\ TypeOK /\ call \in [Callers -> Calls] /\ call[c] \in Calls /\ call[c].at = "wait"
      /\ dev \in Devices /\ job \in [Devices -> Jobs] /\ job[dev] \in Jobs
      /\ Real /\ Linked /\ Sensible
  BY DEF IInv, TypeOK, Timeout, At, Calls
<1> DEFINE r == [call[c] EXCEPT !.at = "record", !.ok = FALSE]
           at == IF job[dev].at \in {"io", "hung"} /\ job[dev].own /\ device[dev] # "none"
                 THEN "closing" ELSE job[dev].at
           j == [job[dev] EXCEPT !.by = "none", !.at = at]
<1>2. /\ UNCHANGED <<lock, slots, failures, circuit, device, connecting, last, executor>>
      /\ UNCHANGED flashVars /\ UNCHANGED roomVars
  BY DEF Timeout
<1>3. call' = [call EXCEPT ![c] = r] /\ r \in Calls /\ r.at = "record" /\ r.dev = dev
  BY <1>1 DEF Timeout, Calls, Places
<1>4. (at = "closing" /\ job[dev].at # "none") \/ at = job[dev].at
  OBVIOUS
<1>5. job' = [job EXCEPT ![dev] = j]
  BY <1>1 DEF Timeout
<1> HIDE DEF at
<1>6. j \in Jobs /\ j.at = at /\ j.by = "none"
  BY <1>1, <1>4 DEF Jobs
<1>7. job[dev] = NoJob => j = NoJob
  <2>1. job[dev] = NoJob => at = "none"
    BY <1>4, NoneAreTyped
  <2> QED BY <2>1, NoJobStays
<1>8. job[dev] # NoJob => j # NoJob
  BY <1>1, <1>4, <1>6, NoneAreTyped DEF Real
<1> HIDE DEF r, j, dev
<1>9. /\ job' \in [Devices -> Jobs] /\ job'[dev] = j
      /\ \A d \in Devices : d # dev => job'[d] = job[d]
  BY <1>1, <1>5, <1>6
<1>10. /\ call' \in [Callers -> Calls] /\ call'[c] = r
       /\ \A b \in Callers : b # c => call'[b] = call[b]
  BY <1>1, <1>3
<1>11. TypeOK'
  BY <1>1, <1>2, <1>9, <1>10 DEF TypeOK, flashVars, roomVars
<1>12. Sensible'
  BY <1>1, <1>3, <1>10 DEF Sensible, Fitting
<1>13. Real'
  BY <1>1, <1>4, <1>6, <1>7, <1>9 DEF Real
<1>14. Linked'
  <2> SUFFICES ASSUME NEW d \in Devices, job'[d].by # "none"
               PROVE  call'[job'[d].by].at = "wait" /\ call'[job'[d].by].dev = d
    BY DEF Linked
  <2>1. d # dev /\ job'[d] = job[d]
    BY <1>6, <1>9
  <2>2. job[d].by \in Callers /\ call[job[d].by].at = "wait" /\ call[job[d].by].dev = d
    BY <1>1, <2>1 DEF Linked, Jobs
  <2>3. job[d].by # c
    BY <2>1, <2>2 DEF dev
  <2> QED BY <1>10, <2>1, <2>2, <2>3
<1>15. \A d \in Devices : job'[d] = NoJob <=> job[d] = NoJob
  BY <1>7, <1>8, <1>9
<1>16. \A b \in Callers, d \in Devices : InSection(b, d)' <=> InSection(b, d)
  BY <1>1, <1>3, <1>10 DEF InSection
<1> QED BY <1>2, <1>11, <1>12, <1>13, <1>14, <1>15, <1>16, Frame DEF flashVars

LEMMA EndJobKeeps == ASSUME IInv, NEW d \in Devices, EndJob(d) PROVE IInv'
<1> DEFINE b == job[d].by
<1>1. /\ TypeOK /\ call \in [Callers -> Calls] /\ job \in [Devices -> Jobs] /\ job[d] \in Jobs
      /\ lock \in [Devices -> Callers \cup Flashes \cup {"job", "none"}]
      /\ Real /\ Linked /\ Sensible /\ Balance /\ Held
      /\ slots \in 0..Slots /\ Slots \in Nat
  BY Names DEF IInv, TypeOK
<1>2. /\ UNCHANGED <<failures, circuit, device, connecting, last, executor>>
      /\ UNCHANGED flashVars /\ UNCHANGED roomVars
      /\ slots' = slots + 1 /\ lock' = [lock EXCEPT ![d] = "none"]
      /\ job' = [job EXCEPT ![d] = NoJob] /\ job[d].at = "done"
  BY DEF EndJob
<1>3. /\ job' \in [Devices -> Jobs] /\ job'[d] = NoJob /\ job[d] # NoJob
      /\ \A e \in Devices : e # d => job'[e] = job[e]
  BY <1>1, <1>2, NoneAreTyped
<1>4. /\ lock' \in [Devices -> Callers \cup Flashes \cup {"job", "none"}]
      /\ lock'[d] = "none" /\ \A e \in Devices : e # d => lock'[e] = lock[e]
  BY <1>1, <1>2
\* The caller that waits, if there is one, gets its result.
<1>5. /\ call' \in [Callers -> Calls] /\ Sensible'
      /\ \A c \in Callers : c # b => call'[c] = call[c]
      /\ b # "none" => b \in Callers /\ call[b].at = "wait" /\ call[b].dev = d /\ call'[b].at = "record"
  <2>1. CASE b = "none"
    <3>1. call' = call
      BY <2>1 DEF EndJob
    <3> QED BY <1>1, <2>1, <3>1 DEF Sensible
  <2>2. CASE b # "none"
    <3> DEFINE r == [call[b] EXCEPT !.at = "record", !.ok = job[d].ok,
                                    !.seen = IF d = "bulb" THEN job[d].seen ELSE call[b].seen]
    <3>1. b \in Callers /\ call[b].at = "wait" /\ call[b].dev = d /\ call[b] \in Calls
      BY <1>1, <2>2 DEF Linked, Jobs
    <3>2. job[d].ok \in BOOLEAN /\ job[d].seen \in {"none", "on", "off"}
          /\ call[b].seen \in {"none", "on", "off"}
      BY <1>1, <3>1 DEF Jobs, Calls
    <3>3. r \in Calls /\ r.at = "record"
      BY <3>1, <3>2 DEF Calls, Places
    <3>4. call' = [call EXCEPT ![b] = r]
      BY <1>1, <2>2, <3>1 DEF EndJob
    <3> HIDE DEF r, b
    <3>5. call' \in [Callers -> Calls] /\ call'[b] = r /\ \A c \in Callers : c # b => call'[c] = call[c]
      BY <1>1, <3>1, <3>3, <3>4
    <3>6. Sensible'
      BY <1>1, <3>3, <3>5 DEF Sensible, Fitting
    <3> QED BY <3>1, <3>3, <3>5, <3>6
  <2> QED BY <2>1, <2>2
<1> HIDE DEF b
<1>6. \A c \in Callers, e \in Devices : InSection(c, e)' <=> InSection(c, e)
  <2>1. \A c \in Callers : c = b => b # "none"
    BY Names
  <2> QED BY <1>5, <2>1 DEF InSection
<1>7. Real'
  BY <1>1, <1>3 DEF Real
<1>8. Linked'
  <2> SUFFICES ASSUME NEW e \in Devices, job'[e].by # "none"
               PROVE  call'[job'[e].by].at = "wait" /\ call'[job'[e].by].dev = e
    BY DEF Linked
  <2>1. e # d /\ job'[e] = job[e]
    BY <1>3, NoneAreTyped
  <2>2. job[e].by \in Callers /\ call[job[e].by].at = "wait" /\ call[job[e].by].dev = e
    BY <1>1, <2>1 DEF Linked, Jobs
  <2>3. job[e].by # b
    BY <1>5, <2>1, <2>2, Names
  <2> QED BY <1>5, <2>1, <2>2, <2>3
<1>9. d \in Busy /\ Busy' = Busy \ {d} /\ IsFiniteSet(Busy) /\ Cardinality(Busy) \in Nat
  BY <1>3, FewDevices, FS_CardinalityType DEF Busy
<1>10. Cardinality(Busy') = Cardinality(Busy) - 1 /\ Cardinality(Busy') \in Nat
  <2>1. Cardinality(Busy') = Cardinality(Busy) - 1
    BY <1>9, FS_RemoveElement
  <2>2. IsFiniteSet(Busy') /\ Cardinality(Busy') \in Nat
    BY <1>9, FS_RemoveElement, FS_CardinalityType
  <2> QED BY <2>1, <2>2
<1>11. Balance' /\ slots' \in 0..Slots
  BY <1>1, <1>2, <1>9, <1>10 DEF Balance
<1>12. TypeOK'
  BY <1>1, <1>2, <1>3, <1>4, <1>5, <1>11 DEF TypeOK, flashVars, roomVars
<1>13. Held'
  <2> SUFFICES ASSUME NEW e \in Devices PROVE HeldAt(e)'
    BY DEF Held
  <2>1. HeldAt(e) /\ flash' = flash /\ executor' = executor
    BY <1>1, <1>2 DEF Held, flashVars
  <2>2. CASE e = d
    BY <1>4, <1>6, <1>9, <2>1, <2>2, Names DEF HeldAt
  <2>3. CASE e # d
    BY <1>4, <1>6, <1>9, <2>1, <2>3 DEF HeldAt
  <2> QED BY <2>2, <2>3
<1> QED BY <1>5, <1>7, <1>8, <1>11, <1>12, <1>13 DEF IInv

-----------------------------------------------------------------------------
(* The flash loops *)

LEMMA FlashKeeps ==
    ASSUME IInv, NEW f \in Flashes, FlashLook(f) \/ FlashEnd(f) \/ FlashTick(f)
    PROVE  IInv'
<1>1. TypeOK /\ flash \in [Flashes -> FlashLoops] /\ flash[f] \in FlashLoops /\ flashThread \in Flashes \cup {"none"}
  BY DEF IInv, TypeOK
<1>2. /\ UNCHANGED call /\ UNCHANGED runVars /\ UNCHANGED roomVars
      /\ UNCHANGED flashStop /\ flash[f].at \in {"loop", "wait"}
  BY DEF FlashLook, FlashEnd, FlashTick
<1>3. \E n \in FlashLoops : flash' = [flash EXCEPT ![f] = n] /\ n.at \notin {"io", "hung"}
  <2>1. CASE FlashLook(f)
    <3>1. /\ [flash[f] EXCEPT !.at = "wait", !.event = "now"] \in FlashLoops
          /\ [flash[f] EXCEPT !.at = "wait", !.event = "now"].at = "wait"
      BY <1>1 DEF FlashLoops
    <3>2. flash' = [flash EXCEPT ![f] = [flash[f] EXCEPT !.at = "wait", !.event = "now"]]
      BY <1>1, <2>1 DEF FlashLook
    <3> QED BY <3>1, <3>2
  <2>2. CASE FlashEnd(f)
    BY <2>2, NoneAreTyped DEF FlashEnd, Ends
  <2>3. CASE FlashTick(f)
    <3>1. /\ [flash[f] EXCEPT !.at = "want", !.event = "none"] \in FlashLoops
          /\ [flash[f] EXCEPT !.at = "want", !.event = "none"].at = "want"
      BY <1>1 DEF FlashLoops
    <3>2. flash' = [flash EXCEPT ![f] = [flash[f] EXCEPT !.at = "want", !.event = "none"]]
      BY <1>1, <2>3 DEF FlashTick
    <3> QED BY <3>1, <3>2
  <2> QED BY <2>1, <2>2, <2>3
<1>4. /\ flash' \in [Flashes -> FlashLoops]
      /\ \A g \in Flashes : flash'[g].at \in {"io", "hung"} <=> flash[g].at \in {"io", "hung"}
  <2>1. PICK n \in FlashLoops : flash' = [flash EXCEPT ![f] = n] /\ n.at \notin {"io", "hung"}
    BY <1>3
  <2> QED BY <1>1, <1>2, <2>1
<1>5. TypeOK'
  <2>1. flashThread' \in Flashes \cup {"none"}
    BY <1>1 DEF FlashLook, FlashEnd, FlashTick, Ends
  <2> QED BY <1>1, <1>2, <1>4, <2>1 DEF TypeOK, runVars, roomVars
<1>6. Sensible' /\ Real' /\ Linked'
  BY <1>2 DEF IInv, Sensible, Real, Linked, runVars
<1>7. \A c \in Callers, d \in Devices : InSection(c, d)' <=> InSection(c, d)
  BY <1>2 DEF InSection
<1> QED BY <1>2, <1>4, <1>5, <1>6, <1>7, Frame DEF runVars

\* The loop takes the bulb and gives it back.
LEMMA FlashHolds ==
    ASSUME IInv, NEW f \in Flashes, NEW n \in FlashLoops, NEW holder \in {f, "none"},
           flash' = [flash EXCEPT ![f] = n], lock' = [lock EXCEPT !["bulb"] = holder],
           n.at \in {"io", "hung"} <=> holder = f, lock["bulb"] \in {f, "none"},
           bulb' \in BOOLEAN, flashThread' \in {flashThread, "none"},
           UNCHANGED <<call, slots, failures, circuit, device, connecting, job, last, executor,
                       flashStop, light, powered>>
    PROVE  IInv'
<1>1. /\ TypeOK /\ flash \in [Flashes -> FlashLoops]
      /\ lock \in [Devices -> Callers \cup Flashes \cup {"job", "none"}]
  BY DEF IInv, TypeOK
<1>2. flash' \in [Flashes -> FlashLoops] /\ flash'[f] = n /\ \A g \in Flashes : g # f => flash'[g] = flash[g]
  BY <1>1
<1>3. /\ lock' \in [Devices -> Callers \cup Flashes \cup {"job", "none"}]
      /\ lock'["bulb"] = holder /\ \A d \in Devices : d # "bulb" => lock'[d] = lock[d]
  BY <1>1, Names
<1>4. TypeOK'
  BY <1>1, <1>2, <1>3 DEF TypeOK
<1>5. Sensible' /\ Real' /\ Linked' /\ Balance' /\ Busy' = Busy
  BY DEF IInv, Sensible, Real, Linked, Balance, Busy
<1>6. \A c \in Callers, d \in Devices : InSection(c, d)' <=> InSection(c, d)
  BY DEF InSection
<1>7. Held'
  <2> SUFFICES ASSUME NEW d \in Devices PROVE HeldAt(d)'
    BY DEF Held
  <2>1. HeldAt(d) /\ executor' = executor
    BY DEF IInv, Held
  <2>2. CASE d = "bulb"
    BY <1>2, <1>3, <1>5, <1>6, <2>1, <2>2, Names DEF HeldAt
  <2>3. CASE d # "bulb"
    BY <1>2, <1>3, <1>5, <1>6, <2>1, <2>3 DEF HeldAt
  <2> QED BY <2>2, <2>3
<1> QED BY <1>4, <1>5, <1>7 DEF IInv

LEMMA FlashLockKeeps == ASSUME IInv, NEW f \in Flashes, FlashLock(f) PROVE IInv'
<1> DEFINE n == [flash[f] EXCEPT !.at = "io"]
<1>1. flash \in [Flashes -> FlashLoops] /\ flash[f] \in FlashLoops /\ bulb \in BOOLEAN
  BY DEF IInv, TypeOK
<1>2. n \in FlashLoops /\ n.at = "io"
  BY <1>1 DEF FlashLoops
<1>3. /\ flash' = [flash EXCEPT ![f] = n] /\ lock' = [lock EXCEPT !["bulb"] = f]
      /\ lock["bulb"] = "none" /\ bulb' = bulb /\ flashThread' = flashThread
      /\ UNCHANGED <<call, slots, failures, circuit, device, connecting, job, last, executor,
                     flashStop, light, powered>>
  BY <1>1 DEF FlashLock, roomVars
<1> HIDE DEF n
<1>4. PICK q : q = n
  OBVIOUS
<1> QED BY <1>1, <1>2, <1>3, <1>4, FlashHolds

LEMMA FlashWriteKeeps == ASSUME IInv, NEW f \in Flashes, FlashWrite(f) PROVE IInv'
<1>1. flash \in [Flashes -> FlashLoops] /\ flash[f] \in FlashLoops /\ bulb \in BOOLEAN
  BY DEF IInv, TypeOK
<1>2. lock["bulb"] = f
  BY Names DEF FlashWrite, IInv, Held, HeldAt
<1>3. /\ lock' = [lock EXCEPT !["bulb"] = "none"] /\ flashThread' \in {flashThread, "none"}
      /\ UNCHANGED <<call, slots, failures, circuit, device, connecting, job, last, executor,
                     flashStop, light, powered>>
  BY DEF FlashWrite, Ends
<1>4. bulb' \in BOOLEAN
  BY <1>1 DEF FlashWrite
<1>5. PICK n \in FlashLoops : flash' = [flash EXCEPT ![f] = n] /\ n.at \notin {"io", "hung"}
  <2>1. [flash[f] EXCEPT !.at = "loop"] \in FlashLoops /\ [flash[f] EXCEPT !.at = "loop"].at = "loop"
    BY <1>1 DEF FlashLoops
  <2>2. \/ flash' = [flash EXCEPT ![f] = [flash[f] EXCEPT !.at = "loop"]]
        \/ flash' = [flash EXCEPT ![f] = NoFlash]
    BY <1>1 DEF FlashWrite, Ends
  <2> QED BY <2>1, <2>2, NoneAreTyped
<1> QED BY <1>2, <1>3, <1>4, <1>5, Names, FlashHolds

\* A loop whose write hangs keeps the bulb.
LEMMA FlashHangKeeps == ASSUME IInv, NEW f \in Flashes, FlashHang(f) PROVE IInv'
<1> DEFINE n == [flash[f] EXCEPT !.at = "hung"]
<1>1. /\ flash \in [Flashes -> FlashLoops] /\ flash[f] \in FlashLoops /\ bulb \in BOOLEAN
      /\ lock \in [Devices -> Callers \cup Flashes \cup {"job", "none"}]
  BY DEF IInv, TypeOK
<1>2. n \in FlashLoops /\ n.at = "hung"
  BY <1>1 DEF FlashLoops
<1>3. lock["bulb"] = f
  BY Names DEF FlashHang, IInv, Held, HeldAt
<1>4. /\ flash' = [flash EXCEPT ![f] = n] /\ lock' = [lock EXCEPT !["bulb"] = f]
      /\ bulb' = bulb /\ flashThread' = flashThread
      /\ UNCHANGED <<call, slots, failures, circuit, device, connecting, job, last, executor,
                     flashStop, light, powered>>
  BY <1>1, <1>3 DEF FlashHang, runVars, roomVars
<1> HIDE DEF n
<1>5. PICK q : q = n
  OBVIOUS
<1> QED BY <1>1, <1>2, <1>3, <1>4, <1>5, FlashHolds

-----------------------------------------------------------------------------
(* The world *)

LEMMA WorldKeeps ==
    ASSUME IInv,
           \/ \E d \in Devices : BackoffEnds(d) \/ PowerOn(d)
           \/ SecondPasses \/ StopFlash \/ Stop \/ UNCHANGED vars
    PROVE  IInv'
<1>1. TypeOK
  BY DEF IInv
<1>2. UNCHANGED <<call, lock, slots, job, flash>> /\ executor' \in {executor, "shut"}
  BY DEF BackoffEnds, PowerOn, SecondPasses, StopFlash, Stop, vars, runVars, flashVars, roomVars
<1>3. TypeOK'
  <2>1. ASSUME NEW d \in Devices, BackoffEnds(d) PROVE TypeOK'
    <3>1. circuit' \in [Devices -> {"closed", "open", "expired"}]
      BY <1>1, <2>1 DEF BackoffEnds, TypeOK
    <3> QED BY <1>1, <2>1, <3>1 DEF BackoffEnds, TypeOK, flashVars, roomVars
  <2>2. ASSUME NEW d \in Devices, PowerOn(d) PROVE TypeOK'
    BY <1>1, <2>2 DEF PowerOn, TypeOK, runVars, flashVars
  <2>3. CASE SecondPasses
    BY <1>1, <2>3 DEF SecondPasses, TypeOK, flashVars, roomVars, NoLast, LightCommands
  <2>4. CASE StopFlash
    BY <1>1, <2>4 DEF StopFlash, TypeOK, runVars, roomVars
  <2>5. CASE Stop
    BY <1>1, <2>5 DEF Stop, TypeOK, roomVars
  <2>6. CASE UNCHANGED vars
    BY <1>1, <2>6 DEF vars, TypeOK, runVars, flashVars, roomVars
  <2> QED BY <2>1, <2>2, <2>3, <2>4, <2>5, <2>6
<1>4. Sensible' /\ Real' /\ Linked'
  BY <1>2 DEF IInv, Sensible, Real, Linked
<1>5. \A c \in Callers, d \in Devices : InSection(c, d)' <=> InSection(c, d)
  BY <1>2 DEF InSection
<1> QED BY <1>2, <1>3, <1>4, <1>5, Frame

LEMMA PowerOffKeeps == ASSUME IInv, NEW d \in Devices, PowerOff(d) PROVE IInv'
<1>1. /\ TypeOK /\ job \in [Devices -> Jobs] /\ flash \in [Flashes -> FlashLoops]
      /\ device \in [Devices -> {"ok", "stale", "none"}] /\ powered \subseteq Devices
      /\ Sensible /\ Real /\ Linked /\ job[d] \in Jobs
  BY DEF IInv, TypeOK
<1>2. /\ UNCHANGED <<call, lock, slots, failures, circuit, connecting, last, executor,
                     flashStop, flashThread, light, bulb>>
      /\ powered' \subseteq Devices /\ device' \in [Devices -> {"ok", "stale", "none"}]
  BY <1>1 DEF PowerOff
<1> DEFINE conn == IF job[d].conn = "ok" THEN "stale" ELSE job[d].conn
           j == [job[d] EXCEPT !.conn = conn]
<1>3. conn \in {"ok", "stale", "none"} /\ (job[d] = NoJob => conn = "none")
  BY <1>1 DEF Jobs, NoJob
<1>4. job' = [job EXCEPT ![d] = j]
  BY <1>1 DEF PowerOff
<1> HIDE DEF conn
<1>5. j \in Jobs /\ j.at = job[d].at /\ j.by = job[d].by
  BY <1>1, <1>3 DEF Jobs
<1>6. job[d] = NoJob => j = NoJob
  BY <1>3, NoJobStays
<1> HIDE DEF j
<1>7. /\ job' \in [Devices -> Jobs]
      /\ \A e \in Devices : job'[e].at = job[e].at /\ job'[e].by = job[e].by
      /\ \A e \in Devices : job[e] = NoJob => job'[e] = NoJob
  BY <1>1, <1>4, <1>5, <1>6
<1>8. \A e \in Devices : job'[e] = NoJob <=> job[e] = NoJob
  BY <1>1, <1>7, NoneAreTyped DEF Real
<1>9. Real'
  BY <1>1, <1>7 DEF Real
<1>10. Linked' /\ Sensible'
  BY <1>1, <1>2, <1>7 DEF Linked, Sensible
<1>11. /\ flash' \in [Flashes -> FlashLoops]
       /\ \A f \in Flashes : flash'[f].at \in {"io", "hung"} <=> flash[f].at \in {"io", "hung"}
  <2>1. ASSUME NEW f \in Flashes, NEW l \in {"ok", "stale", "none"}
        PROVE  /\ [flash[f] EXCEPT !.conn = l] \in FlashLoops
               /\ [flash[f] EXCEPT !.conn = l].at = flash[f].at
    BY <1>1 DEF FlashLoops
  <2>2. \A f \in Flashes : flash[f].conn \in {"ok", "stale", "none"}
    BY <1>1 DEF FlashLoops
  <2>3. CASE d = "bulb"
    <3>1. flash' = [f \in Flashes |-> [flash[f] EXCEPT !.conn =
                       IF flash[f].conn = "ok" THEN "stale" ELSE flash[f].conn]]
      BY <1>1, <2>3 DEF PowerOff
    <3>2. \A f \in Flashes : flash'[f] \in FlashLoops /\ flash'[f].at = flash[f].at
      BY <2>1, <2>2, <3>1
    <3> QED BY <3>1, <3>2
  <2>4. CASE d # "bulb"
    BY <1>1, <2>4 DEF PowerOff
  <2> QED BY <2>3, <2>4
<1>12. TypeOK'
  BY <1>1, <1>2, <1>7, <1>11 DEF TypeOK
<1>13. \A c \in Callers, e \in Devices : InSection(c, e)' <=> InSection(c, e)
  BY <1>2 DEF InSection
<1> QED BY <1>2, <1>8, <1>9, <1>10, <1>11, <1>12, <1>13, Frame

-----------------------------------------------------------------------------
(* The breaker *)

Many == Slots >= Cardinality(Devices)

Trying(c, d) == call[c].dev = d /\ call[c].at \in {"probe", "submit", "wait", "record", "count", "trip"}

Guarded(d) ==
    executor = "open" /\ failures[d] >= Threshold /\ circuit[d] = "closed" =>
        \E c \in Callers : Trying(c, d)

\* Whoever tries goes on trying, and the breaker is left alone.
LEMMA StillGuarded ==
    ASSUME NEW d \in Devices, Guarded(d),
           failures'[d] = failures[d], circuit'[d] \in {circuit[d], "open", "expired"},
           executor' \in {executor, "shut"},
           \A c \in Callers : Trying(c, d) => Trying(c, d)'
    PROVE  Guarded(d)'
BY DEF Guarded

\* The call that reconnected the device finds a slot for its operation.
LEMMA SlotIsThere ==
    ASSUME IInv, Many, executor = "open", NEW c \in Callers, call[c].at = "submit"
    PROVE  slots > 0
<1> DEFINE dev == call[c].dev
<1>1. dev \in Devices /\ slots \in 0..Slots /\ Slots \in Nat
  BY Names DEF IInv, TypeOK, Calls
<1>2. dev \notin Busy
  BY <1>1, Names DEF IInv, Held, HeldAt, InSection
<1>3. Busy \subseteq Devices \ {dev} /\ IsFiniteSet(Devices \ {dev}) /\ IsFiniteSet(Devices)
  BY <1>2, FewDevices DEF Busy
<1> HIDE DEF dev
<1>4. /\ Cardinality(Busy) <= Cardinality(Devices \ {dev})
      /\ Cardinality(Devices \ {dev}) = Cardinality(Devices) - 1
  BY <1>1, <1>3, FS_Subset, FS_RemoveElement
<1>5. Cardinality(Busy) \in Nat /\ Cardinality(Devices) \in Nat
  BY <1>3, FewDevices, FS_CardinalityType DEF Busy
<1> QED BY <1>1, <1>4, <1>5 DEF IInv, Balance, Many

\* A call that tries no device goes on.
LEMMA OthersTry ==
    ASSUME IInv, NEW c \in Callers, NEW r, call' = [call EXCEPT ![c] = r],
           call[c].at \notin {"probe", "submit", "wait", "record", "count", "trip"}
    PROVE  \A b \in Callers, d \in Devices : Trying(b, d) => Trying(b, d)'
BY DEF IInv, TypeOK, Trying

\* A call that tries a device goes on trying it.
LEMMA TriesOn ==
    ASSUME IInv, NEW c \in Callers, NEW place \in {"submit", "wait"}, Goto(c, place),
           call[c].at \in {"probe", "submit"}
    PROVE  /\ \A b \in Callers, d \in Devices : Trying(b, d) => Trying(b, d)'
           /\ \A d \in Devices : call[c].dev = d => Trying(c, d)'
<1>1. call \in [Callers -> Calls] /\ call[c] \in Calls
  BY DEF IInv, TypeOK
<1>2. /\ call'[c].at = place /\ call'[c].dev = call[c].dev
      /\ \A b \in Callers : b # c => call'[b] = call[b]
  BY <1>1 DEF Goto, Calls
<1> QED BY <1>2 DEF Trying

LEMMA CallGuards ==
    ASSUME IInv, Many, \A d \in Devices : Guarded(d), NEW c \in Callers, NEW d \in Devices,
           Request(c) \/ CallStep(c) \/ Timeout(c)
    PROVE  Guarded(d)'
<1>1. /\ call \in [Callers -> Calls] /\ call[c] \in Calls /\ call[c].dev \in Devices
      /\ failures \in [Devices -> 0..Threshold]
      /\ circuit \in [Devices -> {"closed", "open", "expired"}]
  BY DEF IInv, TypeOK, Calls
<1>2. CASE \/ Request(c) \/ WriteLogical(c) \/ Deduplicate(c) \/ CheckBreaker(c) \/ TryLock(c)
           \/ Remember(c) \/ Report(c) \/ ClearDevices(c) \/ Reconnect(c)
  <2>1. \E r : call' = [call EXCEPT ![c] = r]
    <3>1. ASSUME NEW place, Goto(c, place) PROVE \E r : call' = [call EXCEPT ![c] = r]
      BY <3>1 DEF Goto
    <3>2. ASSUME NEW ok, Return(c, ok) PROVE \E r : call' = [call EXCEPT ![c] = r]
      BY <3>2 DEF Return
    <3>3. CASE Request(c) \/ Deduplicate(c) \/ Report(c)
      BY <3>3 DEF Request, Deduplicate, Report
    <3> QED BY <1>2, <3>1, <3>2, <3>3 DEF WriteLogical, CheckBreaker, TryLock, Remember,
               ClearDevices, Reconnect
  <2>2. /\ call[c].at \notin {"probe", "submit", "wait", "record", "count", "trip"}
        /\ UNCHANGED <<failures, circuit, executor>>
    BY <1>2 DEF Request, WriteLogical, Deduplicate, CheckBreaker, TryLock, Remember, Report,
       ClearDevices, Reconnect, At, runVars
  <2>3. PICK r : call' = [call EXCEPT ![c] = r]
    BY <2>1
  <2>4. \A b \in Callers : Trying(b, d) => Trying(b, d)'
    BY <2>2, <2>3, OthersTry
  <2> QED BY <2>2, <2>4, StillGuarded
<1>3. CASE Probe(c)
  <2>1. /\ \A b \in Callers, e \in Devices : Trying(b, e) => Trying(b, e)'
        /\ \A e \in Devices : call[c].dev = e => Trying(c, e)'
    BY <1>3, TriesOn DEF Probe, At
  <2>2. CASE d = call[c].dev
    BY <2>1, <2>2 DEF Guarded
  <2>3. CASE d # call[c].dev
    <3>1. failures' = failures /\ executor' = executor /\ circuit'[d] = circuit[d]
      BY <1>1, <1>3, <2>3 DEF Probe
    <3> QED BY <2>1, <3>1, StillGuarded
  <2> QED BY <2>2, <2>3
<1>4. CASE Submit(c)
  <2>1. call[c].at = "submit" /\ UNCHANGED <<failures, circuit, executor>>
    BY <1>4 DEF Submit, At
  <2>2. CASE executor # "open"
    BY <2>1, <2>2 DEF Guarded
  <2>3. CASE executor = "open"
    <3>1. slots \in 0..Slots /\ slots > 0
      BY <2>1, <2>3, SlotIsThere DEF IInv, TypeOK
    <3>2. slots # 0
      BY <3>1, Names
    <3>3. Goto(c, "wait")
      BY <1>4, <2>3, <3>2 DEF Submit, HandOver
    <3>4. \A b \in Callers : Trying(b, d) => Trying(b, d)'
      BY <2>1, <3>3, TriesOn
    <3> QED BY <2>1, <3>4, StillGuarded
  <2> QED BY <2>2, <2>3
<1>5. CASE Timeout(c)
  <2>1. UNCHANGED <<failures, circuit, executor>> /\ call[c].at = "wait"
    BY <1>5 DEF Timeout, At
  <2>2. call' = [call EXCEPT ![c] = [call[c] EXCEPT !.at = "record", !.ok = FALSE]]
    BY <1>1, <1>5 DEF Timeout
  <2>3. /\ call'[c].at = "record" /\ call'[c].dev = call[c].dev
        /\ \A b \in Callers : b # c => call'[b] = call[b]
    BY <1>1, <2>2 DEF Calls
  <2>4. \A b \in Callers : Trying(b, d) => Trying(b, d)'
    BY <2>3 DEF Trying
  <2> QED BY <2>1, <2>4, StillGuarded
<1>6. CASE Record(c)
  <2>1. UNCHANGED <<circuit, executor>> /\ call[c].at = "record"
    BY <1>6 DEF Record, At
  <2>2. CASE call[c].ok
    <3>1. failures' = [failures EXCEPT ![call[c].dev] = 0] /\ Return(c, TRUE)
      BY <1>6, <2>2 DEF Record
    <3>2. CASE d = call[c].dev
      BY <1>1, <3>1, <3>2 DEF Guarded, Threshold
    <3>3. CASE d # call[c].dev
      <4>1. failures'[d] = failures[d] /\ ~Trying(c, d)
        BY <1>1, <3>1, <3>3 DEF Trying
      <4>2. \A b \in Callers : b # c => call'[b] = call[b]
        BY <1>1, <3>1 DEF Return
      <4>3. \A b \in Callers : Trying(b, d) => Trying(b, d)'
        BY <4>1, <4>2 DEF Trying
      <4> QED BY <2>1, <4>1, <4>3, StillGuarded
    <3> QED BY <3>2, <3>3
  <2>3. CASE ~call[c].ok
    <3>1. failures' = failures /\ \E n : call' = [call EXCEPT ![c] =
                                              [call[c] EXCEPT !.at = "count", !.count = n]]
      BY <1>1, <1>6, <2>3 DEF Record
    <3>2. /\ call'[c].at = "count" /\ call'[c].dev = call[c].dev
          /\ \A b \in Callers : b # c => call'[b] = call[b]
      BY <1>1, <3>1 DEF Calls
    <3>3. \A b \in Callers : Trying(b, d) => Trying(b, d)'
      BY <3>2 DEF Trying
    <3> QED BY <2>1, <3>1, <3>3, StillGuarded
  <2> QED BY <2>2, <2>3
\* Whatever count is written back, its writer goes on to look at it.
<1>9. CASE Count(c)
  <2>1. UNCHANGED <<circuit, executor>> /\ call[c].at = "count"
    BY <1>9 DEF Count, At
  <2>2. call' = [call EXCEPT ![c] = [call[c] EXCEPT !.at = "trip", !.count = 0]]
    BY <1>1, <1>9 DEF Count
  <2>3. /\ call'[c].at = "trip" /\ call'[c].dev = call[c].dev
        /\ \A b \in Callers : b # c => call'[b] = call[b]
    BY <1>1, <2>2 DEF Calls
  <2>4. \A b \in Callers : Trying(b, d) => Trying(b, d)'
    BY <2>3 DEF Trying
  <2>5. CASE d = call[c].dev
    BY <2>3, <2>5 DEF Guarded, Trying
  <2>6. CASE d # call[c].dev
    <3>1. failures'[d] = failures[d]
      BY <1>1, <1>9, <2>6 DEF Count
    <3> QED BY <2>1, <2>4, <3>1, StillGuarded
  <2> QED BY <2>5, <2>6
<1>7. CASE Trip(c)
  <2>1. /\ UNCHANGED <<failures, executor>> /\ Return(c, FALSE)
        /\ circuit' = IF failures[call[c].dev] >= Threshold
                      THEN [circuit EXCEPT ![call[c].dev] = "open"] ELSE circuit
    BY <1>7 DEF Trip
  <2>2. CASE d = call[c].dev
    BY <1>1, <2>1, <2>2 DEF Guarded
  <2>3. CASE d # call[c].dev
    <3>1. circuit'[d] = circuit[d] /\ ~Trying(c, d)
      BY <1>1, <2>1, <2>3 DEF Trying
    <3>2. \A b \in Callers : b # c => call'[b] = call[b]
      BY <1>1, <2>1 DEF Return
    <3>3. \A b \in Callers : Trying(b, d) => Trying(b, d)'
      BY <3>1, <3>2 DEF Trying
    <3> QED BY <2>1, <3>1, <3>3, StillGuarded
  <2> QED BY <2>2, <2>3
<1>8. CASE ResetHealth(c)
  BY <1>8 DEF ResetHealth, Guarded, Threshold
<1> QED BY <1>2, <1>3, <1>4, <1>5, <1>6, <1>7, <1>8, <1>9 DEF CallStep

LEMMA OtherGuards ==
    ASSUME IInv, \A d \in Devices : Guarded(d), NEW d \in Devices,
           \/ \E e \in Devices : JobStep(e) \/ Hang(e) \/ BackoffEnds(e) \/ PowerOff(e) \/ PowerOn(e)
           \/ \E f \in Flashes : FlashStep(f) \/ FlashHang(f)
           \/ SecondPasses \/ StopFlash \/ Stop \/ UNCHANGED vars
    PROVE  Guarded(d)'
<1>1. ASSUME NEW e \in Devices, EndJob(e) PROVE Guarded(d)'
  <2>1. /\ call \in [Callers -> Calls] /\ job[e] \in Jobs /\ Linked
        /\ UNCHANGED <<failures, circuit, executor>>
    BY <1>1 DEF IInv, TypeOK, EndJob
  <2>2. \A b \in Callers : Trying(b, d) => Trying(b, d)'
    <3>1. CASE job[e].by = "none"
      BY <1>1, <3>1 DEF EndJob, Trying
    <3>2. CASE job[e].by # "none"
      <4> DEFINE w == job[e].by
      <4>1. w \in Callers /\ call[w].at = "wait"
        BY <2>1, <3>2 DEF Linked, Jobs
      <4>2. call' = [call EXCEPT ![w] = [call[w] EXCEPT !.at = "record", !.ok = job[e].ok,
                       !.seen = IF e = "bulb" THEN job[e].seen ELSE call[w].seen]]
        BY <1>1, <2>1, <3>2, <4>1 DEF EndJob
      <4> HIDE DEF w
      <4>3. /\ call'[w].at = "record" /\ call'[w].dev = call[w].dev
            /\ \A b \in Callers : b # w => call'[b] = call[b]
        BY <2>1, <4>1, <4>2 DEF Calls
      <4> QED BY <4>3 DEF Trying
    <3> QED BY <3>1, <3>2
  <2> QED BY <2>1, <2>2, StillGuarded
<1>2. ASSUME NEW e \in Devices, BackoffEnds(e) PROVE Guarded(d)'
  <2>1. UNCHANGED <<call, failures, executor>> /\ circuit'[d] \in {circuit[d], "expired"}
    BY <1>2 DEF BackoffEnds, IInv, TypeOK
  <2>2. \A b \in Callers : Trying(b, d) => Trying(b, d)'
    BY <2>1 DEF Trying
  <2> QED BY <2>1, <2>2, StillGuarded
<1>3. CASE UNCHANGED <<call, failures, circuit>> /\ executor' \in {executor, "shut"}
  <2>1. \A b \in Callers : Trying(b, d) => Trying(b, d)'
    BY <1>3 DEF Trying
  <2> QED BY <1>3, <2>1, StillGuarded
<1>4. ASSUME NEW e \in Devices,
             \/ StartJob(e) \/ Answer(e) \/ GiveUp(e) \/ StopOldFlash(e) \/ NewFlash(e)
             \/ Hang(e) \/ PowerOff(e) \/ PowerOn(e)
      PROVE  UNCHANGED <<call, failures, circuit>> /\ executor' \in {executor, "shut"}
  BY <1>4 DEF StartJob, Answer, GiveUp, StopOldFlash, NewFlash, Hang, PowerOff, PowerOn, runVars
<1>5. ASSUME NEW f \in Flashes, FlashStep(f) \/ FlashHang(f)
      PROVE  UNCHANGED <<call, failures, circuit>> /\ executor' \in {executor, "shut"}
  BY <1>5 DEF FlashStep, FlashHang, FlashLook, FlashEnd, FlashTick, FlashLock, FlashWrite, runVars
<1>6. CASE SecondPasses \/ StopFlash \/ Stop \/ UNCHANGED vars
  <2>1. UNCHANGED <<call, failures, circuit>> /\ executor' \in {executor, "shut"}
    BY <1>6 DEF SecondPasses, StopFlash, Stop, vars, runVars
  <2> QED BY <1>3, <2>1
<1> QED BY <1>1, <1>2, <1>3, <1>4, <1>5, <1>6 DEF JobStep

LEMMA NextGuards ==
    ASSUME IInv, Many, \A d \in Devices : Guarded(d), [Next]_vars
    PROVE  \A d \in Devices : Guarded(d)'
<1> TAKE d \in Devices
<1>1. ASSUME NEW c \in Callers, Request(c) \/ CallStep(c) \/ Timeout(c) PROVE Guarded(d)'
  BY <1>1, CallGuards
<1>2. CASE \/ \E e \in Devices : JobStep(e) \/ Hang(e) \/ BackoffEnds(e) \/ PowerOff(e) \/ PowerOn(e)
           \/ \E f \in Flashes : FlashStep(f) \/ FlashHang(f)
           \/ SecondPasses \/ StopFlash \/ Stop \/ UNCHANGED vars
  BY <1>2, OtherGuards
<1> QED BY <1>1, <1>2 DEF Next

-----------------------------------------------------------------------------
(* The theorems *)

LEMMA NextKeeps == IInv /\ [Next]_vars => IInv'
<1> SUFFICES ASSUME IInv, [Next]_vars PROVE IInv'
  OBVIOUS
<1>1. ASSUME NEW c \in Callers, Request(c) \/ CallStep(c) \/ Timeout(c) PROVE IInv'
  BY <1>1, RequestKeeps, LogicalKeeps, TryLockKeeps, ProbeGoesOn, SubmitKeeps, ClearDevicesKeeps,
     TimeoutKeeps DEF CallStep
<1>2. ASSUME NEW d \in Devices, JobStep(d) \/ Hang(d) PROVE IInv'
  BY <1>2, JobKeeps, EndJobKeeps DEF JobStep
<1>3. ASSUME NEW d \in Devices, PowerOff(d) PROVE IInv'
  BY <1>3, PowerOffKeeps
<1>4. ASSUME NEW f \in Flashes, FlashStep(f) \/ FlashHang(f) PROVE IInv'
  BY <1>4, FlashKeeps, FlashLockKeeps, FlashWriteKeeps, FlashHangKeeps DEF FlashStep
<1>5. CASE \/ \E d \in Devices : BackoffEnds(d) \/ PowerOn(d)
           \/ SecondPasses \/ StopFlash \/ Stop \/ UNCHANGED vars
  BY <1>5, WorldKeeps
<1> QED BY <1>1, <1>2, <1>3, <1>4, <1>5 DEF Next

LEMMA AlwaysIInv == Spec => []IInv
BY InitIInv, NextKeeps, PTL DEF Spec

\* Every variable keeps its type: the counters stay in their ranges, whatever
\* the callers, the bulb and the network do.
THEOREM TypeCorrect == Spec => []TypeOK
<1>1. IInv => TypeOK
  BY DEF IInv
<1> QED BY <1>1, AlwaysIInv, PTL

\* Timeouts, full queues, refreshes and power cuts leak neither a slot nor a
\* device: each is held exactly while an operation or a call on its way has it.
THEOREM SlotsAndLocksReturn == Spec => []NothingLeaks
<1>1. IInv => NothingLeaks
  <2> SUFFICES ASSUME IInv, executor = "open" PROVE NothingLeaks
    BY DEF NothingLeaks
  <2>1. slots + Cardinality({d \in Devices : job[d] # NoJob}) = Slots
    BY DEF IInv, Balance, Busy
  <2>2. \A d \in Devices : lock[d] = "job" <=> job[d] # NoJob
    BY DEF IInv, Held, HeldAt, Busy
  <2>3. \A d \in Devices : \A c \in Callers : lock[d] = c <=> InSection(c, d)
    BY DEF IInv, Held, HeldAt
  <2>4. \A d \in Devices : \A f \in Flashes : lock[d] = f <=> d = "bulb" /\ flash[f].at \in {"io", "hung"}
    BY DEF IInv, Held, HeldAt
  <2> QED BY <2>1, <2>2, <2>3, <2>4 DEF NothingLeaks, InSection
<1> QED BY <1>1, AlwaysIInv, PTL

\* The breaker of a device that failed three times in a row is closed only while
\* a call is on its way that will trip it again or succeed, as long as there are
\* slots for all devices.
THEOREM BreakerStaysTripped == Spec => []BreakerHolds
<1> DEFINE GInv == Many => \A d \in Devices : Guarded(d)
<1>1. Init => GInv
  <2> SUFFICES ASSUME Init, NEW d \in Devices PROVE Guarded(d)
    OBVIOUS
  <2>1. failures[d] = 0
    BY DEF Init
  <2> QED BY <2>1 DEF Guarded, Threshold
<1>2. IInv /\ GInv /\ [Next]_vars => GInv'
  BY NextGuards DEF Many
<1>3. IInv /\ GInv => BreakerHolds
  <2> SUFFICES ASSUME IInv, GInv, NEW d \in Devices, executor = "open", Many,
                      failures[d] >= Threshold, circuit[d] = "closed"
               PROVE  InProgress(d) # {}
    BY DEF BreakerHolds, Many
  <2>1. PICK c \in Callers : Trying(c, d)
    BY DEF Guarded
  <2> QED BY <2>1 DEF Trying, InProgress
<1> QED BY <1>1, <1>2, <1>3, AlwaysIInv, PTL DEF Spec
=============================================================================
